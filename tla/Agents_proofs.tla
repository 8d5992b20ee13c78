---------------------------- MODULE Agents_proofs ----------------------------
(***************************************************************************)
(* The agents' files, their editor, their runs and their tools.  Between   *)
(* processes that share an agent nothing is lost, whatever crashes, for    *)
(* any revisions, versions and births; the builder's saves, publications   *)
(* and deletions touch only what it has shown, and its preview never runs  *)
(* unattended, for any agents, edits and requests under way; a run's       *)
(* outcome stands, for any runs and events of an executor; the tools'      *)
(* runner and ledger are honest, for any calls and invocations.            *)
(***************************************************************************)
EXTENDS AgentRegistry, AgentEditor, AgentRun, ToolRunner, FiniteSetTheorems, TLAPS

-----------------------------------------------------------------------------
(* The files of one agent.                                                 *)

\* What the lock protects: without crashes any number of processes, and with them the
\* gateway and one more.  A third process may have its fresh lock removed by one that
\* found the dead one's old (index.ts:320-323, stat and rm are two steps).
LockIsEnough == \/ MaxCrashes = 0
                \/ \A e, f, g \in Editors : e = f \/ f = g \/ e = g

Ats == {"idle", "waiting", "taking", "reading", "writing", "removing", "clearing",
        "linking", "pointing", "leaving", "crashed"}
Held == {"reading", "writing", "removing", "clearing", "linking", "pointing", "leaving"}
Knows == {"writing", "removing", "linking", "pointing"}

Pointers == [version : Nat, payload : Specs \union {NoPayload}]
DraftRecords == [birth : Nat, revision : Nat, spec : Specs, published : Pointers]
EditRecords == [op : Operations \union {"none"}, at : Ats, saw : DraftRecords \union {NoDraft},
                spec : Specs \union {NoPayload}, current : DraftRecords \union {NoDraft}, version : Nat]

FilesTyped ==
    /\ draft \in DraftRecords \union {NoDraft}
    /\ versions \in [Versions -> Specs \union {NoPayload}]
    /\ lock \in Editors \union {Nobody} /\ births \in Nat
    /\ edit \in [Editors -> EditRecords]

\* Whoever is between its lock and its unlock holds the lock, and one takes a lock
\* over only when every other process is dead.
LockInv == \A e \in Editors :
    /\ edit[e].at \in Held => lock = e
    /\ edit[e].at = "taking" => \A f \in Editors \ {e} : edit[f].at = "crashed"
    /\ edit[e].at = "crashed" => MaxCrashes # 0

\* What it read is still what is there; and the version it is about to point to is
\* there with the payload it means.
HolderKnows == \A e \in Editors :
    /\ edit[e].at \in Knows => draft = edit[e].current
    /\ edit[e].at = "writing" => edit[e].op \in {"create", "update"} /\ edit[e].spec \in Specs
                                 /\ (edit[e].op = "update" => draft # NoDraft)
    /\ edit[e].at \in {"waiting", "taking", "reading"} => edit[e].spec \in Specs /\ edit[e].op \in Operations
    /\ edit[e].at = "clearing" => draft = NoDraft
    /\ edit[e].at \in {"linking", "pointing"} => draft # NoDraft /\ edit[e].version # 0
    /\ edit[e].at = "pointing" => /\ edit[e].version \in Versions
                                  /\ versions[edit[e].version] = edit[e].current.spec

\* The version a draft points to is a file there is, with the payload it says.
PointerInv == draft # NoDraft /\ draft.published.version # 0 =>
                  /\ draft.published.version \in Versions
                  /\ versions[draft.published.version] = draft.published.payload
                  /\ draft.published.payload # NoPayload

RegistryInv == FilesTyped /\ LockInv /\ HolderKnows /\ PointerInv

\* No name of a process is mistaken for no one, and no draft for none.
LEMMA DraftsAreNotNone == NoDraft \notin DraftRecords
  BY DEF NoDraft, DraftRecords

\* The files a run begins with satisfy the invariant.
LEMMA RegistryInitially == RegistryInit => RegistryInv
<1> SUFFICES ASSUME RegistryInit PROVE RegistryInv
    OBVIOUS
<1>1. NoEdit \in EditRecords
      BY DEF NoEdit, EditRecords, Ats
<1>2. FilesTyped
      BY <1>1 DEF RegistryInit, FilesTyped
<1>3. LockInv /\ HolderKnows
      BY DEF RegistryInit, LockInv, HolderKnows, NoEdit, Held, Knows
<1>4. PointerInv
      BY DEF RegistryInit, PointerInv
<1> QED BY <1>2, <1>3, <1>4 DEF RegistryInv

\* A step of one process: the others' calls stay, and if it works its lock is its own.
LEMMA AloneAtWork ==
  ASSUME RegistryInv, NEW e \in Editors, edit[e].at # "crashed"
  PROVE  /\ \A f \in Editors : edit[f].at = "taking" => f = e
         /\ edit[e].at \in Held => \A f \in Editors \ {e} : edit[f].at \notin Held
  BY DEF RegistryInv, LockInv

\* A step of one process changes its own record and no other's.
LEMMA OthersStay ==
  ASSUME FilesTyped, NEW e \in Editors, NEW new \in EditRecords, edit' = [edit EXCEPT ![e] = new]
  PROVE  /\ edit' \in [Editors -> EditRecords] /\ edit'[e] = new
         /\ \A f \in Editors \ {e} : edit'[f] = edit[f]
  BY DEF FilesTyped

\* A process that does not come out of its step holding the lock, over files that stay:
\* it waits, gives up, takes over a dead one's lock, is done or dies.
LEMMA OutsideKeeps ==
  ASSUME RegistryInv, NEW e \in Editors, edit[e].at # "crashed",
         UNCHANGED <<draft, versions, births>>,
         NEW new \in EditRecords, edit' = [edit EXCEPT ![e] = new],
         lock' = lock \/ (lock' = Nobody /\ \A f \in Editors \ {e} : edit[f].at \notin Held),
         new.at \in {"idle", "waiting", "taking", "crashed"},
         new.at \in {"waiting", "taking"} => new.spec \in Specs /\ new.op \in Operations,
         new.at = "taking" => \A f \in Editors \ {e} : edit[f].at = "crashed",
         new.at = "crashed" => MaxCrashes # 0
  PROVE  RegistryInv'
<1>0. FilesTyped /\ LockInv /\ HolderKnows /\ PointerInv
      BY DEF RegistryInv
<1>1. /\ edit' \in [Editors -> EditRecords] /\ edit'[e] = new
      /\ \A f \in Editors \ {e} : edit'[f] = edit[f]
      BY <1>0, OthersStay
<1>2. FilesTyped'
      BY <1>0, <1>1 DEF FilesTyped
<1>3. LockInv'
      BY <1>0, <1>1, AloneAtWork DEF LockInv, Held
<1>4. HolderKnows'
  <2> SUFFICES ASSUME NEW f \in Editors
               PROVE HolderKnows!(f)'
      BY DEF HolderKnows
  <2>1. CASE f = e
        BY <1>1, <2>1 DEF Knows
  <2>2. CASE f # e
        BY <1>0, <1>1, <2>2 DEF HolderKnows
  <2> QED BY <2>1, <2>2
<1>5. PointerInv'
      BY <1>0 DEF PointerInv
<1> QED BY <1>2, <1>3, <1>4, <1>5 DEF RegistryInv

\* A process that holds the lock and keeps it: what it comes to know is said of its own
\* call, the others know nothing.
LEMMA HolderKeeps ==
  ASSUME RegistryInv, NEW e \in Editors, edit[e].at \in Held, UNCHANGED lock,
         NEW new \in EditRecords, edit' = [edit EXCEPT ![e] = new], new.at \in Held,
         draft' \in DraftRecords \union {NoDraft},
         versions' \in [Versions -> Specs \union {NoPayload}], births' \in Nat,
         PointerInv',
         new.at \in Knows => draft' = new.current,
         new.at = "writing" => new.op \in {"create", "update"} /\ new.spec \in Specs
                               /\ (new.op = "update" => draft' # NoDraft),
         new.at = "reading" => new.spec \in Specs /\ new.op \in Operations,
         new.at = "clearing" => draft' = NoDraft,
         new.at \in {"linking", "pointing"} => draft' # NoDraft /\ new.version # 0,
         new.at = "pointing" => new.version \in Versions /\ versions'[new.version] = new.current.spec
  PROVE  RegistryInv'
<1>0. FilesTyped /\ LockInv /\ HolderKnows
      BY DEF RegistryInv
<1>1. /\ edit' \in [Editors -> EditRecords] /\ edit'[e] = new
      /\ \A f \in Editors \ {e} : edit'[f] = edit[f]
      BY <1>0, OthersStay
<1>2. FilesTyped'
      BY <1>0, <1>1 DEF FilesTyped
<1>3. edit[e].at # "crashed" /\ edit[e].at # "taking" /\ new.at # "crashed" /\ new.at # "taking"
      BY DEF Held
<1>4. \A f \in Editors \ {e} : edit[f].at \notin Held /\ edit[f].at # "taking"
      BY <1>3, AloneAtWork
<1>5. LockInv'
      BY <1>0, <1>1, <1>3, <1>4 DEF LockInv
<1>6. HolderKnows'
  <2> SUFFICES ASSUME NEW f \in Editors
               PROVE HolderKnows!(f)'
      BY DEF HolderKnows
  <2>1. CASE f = e
        BY <1>1, <2>1 DEF Held
  <2>2. CASE f # e
        BY <1>0, <1>1, <1>4, <2>2 DEF HolderKnows, Held, Knows
  <2> QED BY <2>1, <2>2
<1> QED BY <1>2, <1>5, <1>6 DEF RegistryInv

\* The steps of exclusive().
LEMMA ExclusiveKeeps ==
  ASSUME RegistryInv, LockIsEnough, NEW e \in Editors,
         \/ Loads(e) \/ Asks(e) \/ Locks(e) \/ GivesUp(e) \/ FindsOldLock(e) \/ TakesOver(e)
         \/ Unlocks(e) \/ Crashes(e)
  PROVE  RegistryInv'
<1> USE DEF Goes, Files
<1>0. FilesTyped /\ LockInv /\ HolderKnows /\ edit[e] \in EditRecords
      BY DEF RegistryInv, FilesTyped
<1>1. CASE Loads(e)
  <2> DEFINE new == [edit[e] EXCEPT !.saw = draft]
  <2>1. new \in EditRecords /\ new.at = "idle"
        BY <1>0, <1>1 DEF Loads, FilesTyped, EditRecords
  <2>2. edit' = [edit EXCEPT ![e] = new] /\ edit[e].at # "crashed"
        BY <1>1 DEF Loads
  <2> HIDE DEF new
  <2> QED BY <1>1, <2>1, <2>2, OutsideKeeps DEF Loads
<1>2. CASE Asks(e)
  <2>1. PICK op \in Operations, s \in Specs :
           edit' = [edit EXCEPT ![e] = [@ EXCEPT !.op = op, !.spec = s, !.at = "waiting"]]
        BY <1>2 DEF Asks
  <2> DEFINE new == [edit[e] EXCEPT !.op = op, !.spec = s, !.at = "waiting"]
  <2>2. new \in EditRecords /\ new.at = "waiting" /\ new.spec \in Specs /\ new.op \in Operations
        BY <1>0 DEF EditRecords, Ats
  <2>3. edit' = [edit EXCEPT ![e] = new] /\ edit[e].at # "crashed"
        BY <1>2, <2>1 DEF Asks
  <2> HIDE DEF new
  <2> QED BY <1>2, <2>2, <2>3, OutsideKeeps DEF Asks
<1>3. CASE Locks(e)
  <2> DEFINE new == [edit[e] EXCEPT !.at = "reading"]
  <2>1. new \in EditRecords /\ new.at = "reading" /\ new.spec \in Specs /\ new.op \in Operations
        BY <1>0, <1>3 DEF EditRecords, Ats, Locks, HolderKnows
  <2>2. edit' = [edit EXCEPT ![e] = new] /\ edit[e].at = "waiting" /\ lock = Nobody /\ lock' = e
        BY <1>3 DEF Locks
  <2> HIDE DEF new
  <2>3. /\ edit' \in [Editors -> EditRecords] /\ edit'[e] = new
        /\ \A f \in Editors \ {e} : edit'[f] = edit[f]
        BY <1>0, <2>1, <2>2, OthersStay
  <2>4. \A f \in Editors : edit[f].at \notin Held
        BY <1>0, <2>2, RegistryAssumption DEF LockInv, Nobody
  <2>5. FilesTyped'
        BY <1>0, <1>3, <2>2, <2>3 DEF FilesTyped, Locks
  <2>6. LockInv'
        BY <1>0, <2>1, <2>2, <2>3, <2>4, AloneAtWork DEF LockInv
  <2>7. HolderKnows'
    <3> SUFFICES ASSUME NEW f \in Editors
                 PROVE HolderKnows!(f)'
        BY DEF HolderKnows
    <3>1. CASE f = e
          BY <2>1, <2>3, <3>1 DEF Knows
    <3>2. CASE f # e
          BY <1>0, <1>3, <2>3, <3>2 DEF HolderKnows, Locks
    <3> QED BY <3>1, <3>2
  <2> QED BY <1>3, <2>5, <2>6, <2>7 DEF RegistryInv, PointerInv, Locks
<1>4. CASE GivesUp(e)
  <2> DEFINE new == [edit[e] EXCEPT !.at = "idle"]
  <2>1. new \in EditRecords /\ new.at = "idle"
        BY <1>0 DEF EditRecords, Ats
  <2>2. edit' = [edit EXCEPT ![e] = new] /\ edit[e].at # "crashed"
        BY <1>4 DEF GivesUp
  <2> HIDE DEF new
  <2> QED BY <1>4, <2>1, <2>2, OutsideKeeps DEF GivesUp
<1>5. CASE FindsOldLock(e)
  <2> DEFINE new == [edit[e] EXCEPT !.at = "taking"]
  <2>1. new \in EditRecords /\ new.at = "taking" /\ new.spec \in Specs /\ new.op \in Operations
        BY <1>0, <1>5 DEF EditRecords, Ats, FindsOldLock, HolderKnows
  <2>2. edit' = [edit EXCEPT ![e] = new] /\ edit[e].at = "waiting"
        BY <1>5 DEF FindsOldLock
  <2>3. lock \in Editors /\ edit[lock].at = "crashed" /\ MaxCrashes # 0
        BY <1>0, <1>5 DEF FindsOldLock, FilesTyped, LockInv
  <2>4. \A f \in Editors \ {e} : f = lock
        BY <2>2, <2>3 DEF LockIsEnough
  <2> HIDE DEF new
  <2> QED BY <1>5, <2>1, <2>2, <2>3, <2>4, OutsideKeeps DEF FindsOldLock
<1>6. CASE TakesOver(e)
  <2> DEFINE new == [edit[e] EXCEPT !.at = "waiting"]
  <2>1. new \in EditRecords /\ new.at = "waiting" /\ new.spec \in Specs /\ new.op \in Operations
        BY <1>0, <1>6 DEF EditRecords, Ats, TakesOver, HolderKnows
  <2>2. edit' = [edit EXCEPT ![e] = new] /\ edit[e].at = "taking"
        BY <1>6 DEF TakesOver
  <2>3. \A f \in Editors \ {e} : edit[f].at \notin Held
        BY <1>0, <2>2 DEF LockInv, Held
  <2> HIDE DEF new
  <2> QED BY <1>6, <2>1, <2>2, <2>3, OutsideKeeps DEF TakesOver
<1>7. CASE Unlocks(e)
  <2> DEFINE new == [NoEdit EXCEPT !.saw = edit[e].saw]
  <2>1. new \in EditRecords /\ new.at = "idle"
        BY <1>0 DEF EditRecords, NoEdit, Ats
  <2>2. edit' = [edit EXCEPT ![e] = new] /\ edit[e].at = "leaving"
        BY <1>7 DEF Unlocks
  <2>3. \A f \in Editors \ {e} : edit[f].at \notin Held
        BY <2>2, AloneAtWork DEF Held
  <2> HIDE DEF new
  <2> QED BY <1>7, <2>1, <2>2, <2>3, OutsideKeeps DEF Unlocks
<1>8. CASE Crashes(e)
  <2> DEFINE new == [NoEdit EXCEPT !.at = "crashed"]
             dead == {f \in Editors : edit[f].at = "crashed"}
  <2>1. new \in EditRecords /\ new.at = "crashed"
        BY DEF EditRecords, NoEdit, Ats
  <2>2. edit' = [edit EXCEPT ![e] = new] /\ edit[e].at # "crashed" /\ Cardinality(dead) < MaxCrashes
        BY <1>8 DEF Crashes
  <2>3. Cardinality(dead) \in Nat
        BY RegistryAssumption, FS_Subset, FS_CardinalityType
  <2>4. MaxCrashes # 0
        BY <2>2, <2>3, RegistryAssumption
  <2> HIDE DEF new
  <2> QED BY <1>8, <2>1, <2>2, <2>4, OutsideKeeps DEF Crashes
<1> QED BY <1>1, <1>2, <1>3, <1>4, <1>5, <1>6, <1>7, <1>8

\* A draft that is saved, or points to a version, is a draft.
LEMMA SavedDrafts ==
  ASSUME NEW d \in DraftRecords, NEW s \in Specs
  PROVE  LET saved == [d EXCEPT !.revision = @ + 1, !.spec = s]
         IN  saved \in DraftRecords /\ saved.published = d.published
<1> DEFINE next == d.revision + 1
<1>1. next \in Nat
      BY DEF DraftRecords
<1> HIDE DEF next
<1>2. [d EXCEPT !.revision = next, !.spec = s] \in DraftRecords
      BY <1>1 DEF DraftRecords
<1>3. [d EXCEPT !.revision = next, !.spec = s].published = d.published
      BY DEF DraftRecords
<1> QED BY <1>2, <1>3 DEF next

\* A draft that points to a version, likewise.
LEMMA PointedDrafts ==
  ASSUME NEW d \in DraftRecords, NEW p \in Pointers
  PROVE  LET pointed == [d EXCEPT !.revision = @ + 1, !.published = p]
         IN  pointed \in DraftRecords /\ pointed.published = p
<1>1. [d EXCEPT !.revision = @ + 1] \in DraftRecords
      BY DEF DraftRecords
<1> QED BY <1>1 DEF DraftRecords

\* The steps of the mutations, under the lock.
LEMMA MutationKeeps ==
  ASSUME RegistryInv, NEW e \in Editors,
         \/ ReadsDraft(e) \/ WritesDraft(e) \/ RemovesDraft(e) \/ ClearsVersions(e)
         \/ LinksVersion(e) \/ PointsDraft(e)
  PROVE  RegistryInv'
<1> USE DEF Goes, Files
<1>0. /\ FilesTyped /\ LockInv /\ HolderKnows /\ PointerInv /\ edit[e] \in EditRecords
      /\ edit \in [Editors -> EditRecords] /\ births \in Nat
      /\ draft \in DraftRecords \union {NoDraft} /\ versions \in [Versions -> Specs \union {NoPayload}]
      BY DEF RegistryInv, FilesTyped
<1>1. CASE ReadsDraft(e)
  <2> DEFINE op == edit[e].op
             at == CASE op = "remove" -> "removing" [] op = "publish" -> "linking" [] OTHER -> "writing"
             version == IF op = "publish" THEN NextVersion(draft) ELSE 0
             fails == [edit[e] EXCEPT !.at = "leaving"]
             goes == [edit[e] EXCEPT !.current = draft, !.at = at, !.version = version]
  <2>0. edit[e].at = "reading" /\ edit[e].at \in Held
        BY <1>1 DEF ReadsDraft, Held
  <2>1. op \in Operations /\ edit[e].spec \in Specs
        BY <1>0, <2>0 DEF HolderKnows
  <2>2. CASE ~Admits(e)
    <3>1. fails \in EditRecords /\ fails.at = "leaving"
          BY <1>0 DEF EditRecords, Ats
    <3>2. edit' = [edit EXCEPT ![e] = fails]
          BY <1>1, <2>2 DEF ReadsDraft
    <3> HIDE DEF fails
    <3> QED BY <1>0, <1>1, <2>0, <3>1, <3>2, HolderKeeps DEF ReadsDraft, Held, Knows, PointerInv
  <2>3. CASE Admits(e)
    <3>1. op # "create" => draft # NoDraft /\ draft \in DraftRecords
          BY <1>0, <2>3 DEF Admits
    <3>2. op = "publish" => version \in Nat /\ version # 0
          BY <3>1 DEF NextVersion, DraftRecords, Pointers
    <3>3. op # "publish" => version = 0
          OBVIOUS
    <3> HIDE DEF version
    <3>4. at \in {"removing", "linking", "writing"} /\ (at = "linking" => op = "publish")
          /\ (at = "writing" => op \in {"create", "update"})
          BY <2>1 DEF Operations
    <3> HIDE DEF at
    <3>5. goes \in EditRecords /\ goes.at = at /\ goes.current = draft /\ goes.version = version
          /\ goes.op = op /\ goes.spec = edit[e].spec
      <4>1. version \in Nat /\ at \in Ats
            BY <3>2, <3>3, <3>4 DEF Ats
      <4>2. draft \in DraftRecords \union {NoDraft}
            BY <1>0
      <4> QED BY <1>0, <4>1, <4>2 DEF EditRecords
    <3>6. edit' = [edit EXCEPT ![e] = goes]
          BY <1>1, <2>3 DEF ReadsDraft, at, version
    <3> HIDE DEF goes
    <3> QED BY <1>0, <1>1, <2>0, <2>1, <3>1, <3>2, <3>4, <3>5, <3>6, HolderKeeps
            DEF ReadsDraft, Held, Knows, PointerInv
  <2> QED BY <2>2, <2>3
<1> DEFINE leaves == [edit[e] EXCEPT !.at = "leaving"]
<1>a. leaves \in EditRecords /\ leaves.at = "leaving" /\ leaves.at \in Held /\ leaves.at \notin Knows
      BY <1>0 DEF EditRecords, Ats, Held, Knows
<1>2. CASE WritesDraft(e)
  <2>1. edit[e].at \in Held /\ edit[e].at \in Knows /\ edit[e].at = "writing"
        BY <1>2 DEF WritesDraft, Held, Knows
  <2>2. /\ draft = edit[e].current /\ edit[e].op \in {"create", "update"} /\ edit[e].spec \in Specs
        /\ edit[e].op = "update" => draft \in DraftRecords
        BY <1>0, <2>1 DEF HolderKnows
  <2>3. edit' = [edit EXCEPT ![e] = leaves] /\ UNCHANGED <<versions, lock>>
        BY <1>2 DEF WritesDraft
  <2>4. /\ draft' \in DraftRecords /\ births' \in Nat
        /\ draft'.published = IF edit[e].op = "create" THEN NoVersion ELSE draft.published
        /\ edit[e].op # "create" => draft # NoDraft
    <3>1. CASE edit[e].op = "create"
          BY <1>0, <1>2, <2>2, <3>1 DEF WritesDraft, DraftRecords, Pointers, NoVersion
    <3>2. CASE edit[e].op = "update"
      <4>1. draft \in DraftRecords /\ draft # NoDraft
            BY <1>0, <2>1, <2>2, <3>2 DEF HolderKnows
      <4>2. draft' = [draft EXCEPT !.revision = @ + 1, !.spec = edit[e].spec] /\ births' = births
            BY <1>2, <2>2, <3>2 DEF WritesDraft
      <4>3. draft' \in DraftRecords /\ draft'.published = draft.published
            BY <2>2, <4>1, <4>2, SavedDrafts
      <4> QED BY <1>0, <3>2, <4>1, <4>2, <4>3
    <3> QED BY <2>2, <3>1, <3>2
  <2>5. PointerInv'
        BY <1>0, <2>3, <2>4 DEF PointerInv, NoVersion
  <2> HIDE DEF leaves
  <2> QED BY <1>0, <1>a, <2>1, <2>3, <2>4, <2>5, HolderKeeps
<1>3. CASE RemovesDraft(e)
  <2> DEFINE clears == [edit[e] EXCEPT !.at = "clearing"]
  <2>1. edit[e].at \in Held /\ draft' = NoDraft /\ UNCHANGED <<versions, births, lock>>
        BY <1>3 DEF RemovesDraft, Held
  <2>2. edit' = [edit EXCEPT ![e] = leaves] \/ edit' = [edit EXCEPT ![e] = clears]
        BY <1>3 DEF RemovesDraft
  <2>3. clears \in EditRecords /\ clears.at = "clearing" /\ clears.at \in Held /\ clears.at \notin Knows
        BY <1>0 DEF EditRecords, Ats, Held, Knows
  <2>4. PointerInv'
        BY <2>1 DEF PointerInv
  <2> HIDE DEF leaves, clears
  <2>5. CASE edit' = [edit EXCEPT ![e] = leaves]
        BY <1>0, <1>a, <2>1, <2>4, <2>5, HolderKeeps
  <2>6. CASE edit' = [edit EXCEPT ![e] = clears]
        BY <1>0, <2>1, <2>3, <2>4, <2>6, HolderKeeps
  <2> QED BY <2>2, <2>5, <2>6
<1>4. CASE ClearsVersions(e)
  <2>1. edit[e].at \in Held /\ draft = NoDraft /\ UNCHANGED <<draft, births, lock>>
        BY <1>0, <1>4 DEF ClearsVersions, Held, HolderKnows
  <2>2. edit' = [edit EXCEPT ![e] = leaves] /\ versions' \in [Versions -> Specs \union {NoPayload}]
        BY <1>4 DEF ClearsVersions
  <2>3. PointerInv'
        BY <2>1 DEF PointerInv
  <2> HIDE DEF leaves
  <2> QED BY <1>0, <1>a, <2>1, <2>2, <2>3, HolderKeeps
<1>5. CASE LinksVersion(e)
  <2> DEFINE v == edit[e].version
             points == [edit[e] EXCEPT !.at = "pointing"]
             passes == [edit[e] EXCEPT !.version = @ + 1]
  <2>1. edit[e].at \in Held /\ edit[e].at \in Knows /\ edit[e].at = "linking" /\ v <= MaxVersion
        BY <1>5 DEF LinksVersion, Held, Knows
  <2>2. /\ draft = edit[e].current /\ draft # NoDraft /\ v \in Versions
        /\ draft \in DraftRecords /\ UNCHANGED <<draft, births, lock>>
        BY <1>0, <1>5, <2>1, RegistryAssumption DEF LinksVersion, HolderKnows, EditRecords, Versions
  <2>3. /\ points \in EditRecords /\ points.at = "pointing" /\ points.version = v
        /\ points.current = edit[e].current /\ points.version \in Versions /\ points.version # 0
        BY <1>0, <2>2 DEF EditRecords, Ats, Versions
  <2>4. /\ passes \in EditRecords /\ passes.at = "linking" /\ passes.version # 0
        /\ passes.current = edit[e].current
        BY <1>0, <2>1, <2>2 DEF EditRecords, Versions
  <2>5. \/ /\ versions[v] = NoPayload /\ edit' = [edit EXCEPT ![e] = points]
           /\ versions' = [versions EXCEPT ![v] = draft.spec]
        \/ versions[v] = draft.spec /\ edit' = [edit EXCEPT ![e] = points] /\ UNCHANGED versions
        \/ edit' = [edit EXCEPT ![e] = passes] /\ UNCHANGED versions
        BY <1>5, <2>2 DEF LinksVersion
  <2>6. /\ versions' \in [Versions -> Specs \union {NoPayload}]
        /\ \/ edit' = [edit EXCEPT ![e] = points] /\ versions'[v] = draft.spec
           \/ edit' = [edit EXCEPT ![e] = passes]
        BY <1>0, <2>2, <2>5 DEF DraftRecords
  <2>7. \A w \in Versions : versions[w] # NoPayload => versions'[w] = versions[w]
        BY <1>0, <2>5
  <2>8. PointerInv'
    <3>1. draft # NoDraft /\ draft.published.version # 0 =>
             /\ draft.published.version \in Versions
             /\ versions[draft.published.version] = draft.published.payload
             /\ draft.published.payload # NoPayload
          BY <1>0 DEF PointerInv
    <3> QED BY <2>2, <2>7, <3>1 DEF PointerInv
  <2> HIDE DEF points, passes
  <2>9. CASE edit' = [edit EXCEPT ![e] = points] /\ versions'[v] = draft.spec
    <3>1. points.at \in Held /\ draft' = points.current /\ draft' # NoDraft
          BY <2>2, <2>3 DEF Held
    <3>2. versions'[points.version] = points.current.spec
          BY <2>2, <2>3, <2>9
    <3> QED BY <1>0, <2>1, <2>2, <2>3, <2>6, <2>8, <2>9, <3>1, <3>2, HolderKeeps
  <2>10. CASE edit' = [edit EXCEPT ![e] = passes]
        BY <1>0, <2>1, <2>2, <2>4, <2>6, <2>8, <2>10, HolderKeeps DEF Held, Knows
  <2> QED BY <2>6, <2>9, <2>10
<1>6. CASE PointsDraft(e)
  <2> DEFINE c == edit[e].current
             p == [version |-> edit[e].version, payload |-> c.spec]
             d == [c EXCEPT !.revision = @ + 1, !.published = p]
  <2>1. edit[e].at = "pointing" /\ edit[e].at \in Held
        BY <1>6 DEF PointsDraft, Held
  <2>2. /\ draft = c /\ c \in DraftRecords /\ edit[e].version \in Versions
        /\ versions[edit[e].version] = c.spec
        BY <1>0, <2>1 DEF HolderKnows, Knows
  <2>3. draft' = d /\ edit' = [edit EXCEPT ![e] = leaves] /\ UNCHANGED <<versions, births, lock>>
        BY <1>6 DEF PointsDraft
  <2>4. d \in DraftRecords /\ d.published.version = edit[e].version /\ d.published.payload = c.spec
    <3>1. p \in Pointers
          BY <2>2 DEF DraftRecords, Versions, Pointers
    <3>2. d \in DraftRecords /\ d.published = p
          BY <2>2, <3>1, PointedDrafts
    <3> QED BY <3>2
  <2> HIDE DEF d, leaves
  <2>5. PointerInv'
        BY <2>2, <2>3, <2>4, RegistryAssumption DEF PointerInv, NoPayload, DraftRecords
  <2> QED BY <1>0, <1>a, <2>1, <2>3, <2>4, <2>5, HolderKeeps
<1> QED BY <1>1, <1>2, <1>3, <1>4, <1>5, <1>6

\* Every step of the registry, crashes included, keeps the invariant.
LEMMA RegistryKeeps ==
  ASSUME RegistryInv, LockIsEnough, [RegistryNext]_registryVars PROVE RegistryInv'
<1>1. CASE RegistryNext
      BY <1>1, ExclusiveKeeps, MutationKeeps DEF RegistryNext
<1>2. CASE UNCHANGED registryVars
      BY <1>2 DEF registryVars, RegistryInv, FilesTyped, LockInv, HolderKnows, PointerInv
<1> QED BY <1>1, <1>2

\* The registry's inductive invariant: who works has the lock, what it read is still
\* there, and the version it is about to point to has the payload it means.
THEOREM RegistryInvariant == LockIsEnough => (RegistrySpec => []RegistryInv)
<1> SUFFICES ASSUME LockIsEnough PROVE RegistrySpec => []RegistryInv
    OBVIOUS
<1>1. RegistryInv /\ [RegistryNext]_registryVars => RegistryInv'
      BY RegistryKeeps
<1> QED BY <1>1, RegistryInitially, PTL DEF RegistrySpec

\* One step of the registry loses no edit and no published version.
LEMMA StepKeepsFiles ==
  ASSUME RegistryInv, RegistryInv', RegistryNext
  PROVE  /\ \A e \in Editors : draft' # draft /\ edit'[e] # edit[e]
               /\ edit[e].at \in {"writing", "removing", "pointing"} => draft = edit[e].current
         /\ PointerResolves'
         /\ draft # NoDraft /\ draft' # NoDraft =>
               \A v \in Versions : versions[v] # NoPayload => versions'[v] = versions[v]
<1>1. \A e \in Editors : edit[e].at \in Knows => draft = edit[e].current
      BY DEF RegistryInv, HolderKnows
<1>2. PointerResolves'
      BY DEF RegistryInv, PointerInv, PointerResolves
<1>3. ASSUME NEW v \in Versions, draft # NoDraft, versions[v] # NoPayload
      PROVE  versions'[v] = versions[v]
  <2>1. PICK e \in Editors :
          \/ Loads(e) \/ Asks(e) \/ Locks(e) \/ GivesUp(e) \/ FindsOldLock(e) \/ TakesOver(e)
          \/ ReadsDraft(e) \/ WritesDraft(e) \/ RemovesDraft(e) \/ ClearsVersions(e)
          \/ LinksVersion(e) \/ PointsDraft(e) \/ Unlocks(e) \/ Crashes(e)
        BY DEF RegistryNext
  <2>2. CASE ClearsVersions(e)
        BY <1>3, <2>2 DEF ClearsVersions, RegistryInv, HolderKnows
  <2>3. CASE LinksVersion(e)
        BY <1>3, <2>3 DEF LinksVersion, RegistryInv, FilesTyped
  <2>4. CASE ~ClearsVersions(e) /\ ~LinksVersion(e)
        BY <2>1, <2>4 DEF Files, Loads, Asks, Locks, GivesUp, FindsOldLock, TakesOver, ReadsDraft, WritesDraft,
                          RemovesDraft, PointsDraft, Unlocks, Crashes
  <2> QED BY <2>2, <2>3, <2>4
<1> QED BY <1>1, <1>2, <1>3 DEF Knows

\* Nobody's work is lost between editors that share the files of an agent, nor between
\* a crash and the next editor: no mutation writes over one it has not read, and what is
\* published stays (agents/src/index.ts:300-345, 374-470).
THEOREM FilesStayKept == LockIsEnough => (RegistrySpec => FilesAreKept)
<1> SUFFICES ASSUME LockIsEnough PROVE RegistrySpec => FilesAreKept
    OBVIOUS
<1> DEFINE informed == \A e \in Editors : draft' # draft /\ edit'[e] # edit[e]
                          /\ edit[e].at \in {"writing", "removing", "pointing"} => draft = edit[e].current
           stays == /\ PointerResolves'
                    /\ draft # NoDraft /\ draft' # NoDraft =>
                         \A v \in Versions : versions[v] # NoPayload => versions'[v] = versions[v]
<1>1. RegistryInv /\ RegistryInv' /\ [RegistryNext]_registryVars => [informed]_registryVars /\ [stays]_registryVars
      BY StepKeepsFiles
<1>2. RegistrySpec => []RegistryInv
      BY RegistryInvariant
<1> QED BY <1>1, <1>2, PTL DEF RegistrySpec, FilesAreKept, NoLostEdit, PublishedVersionsStay

-----------------------------------------------------------------------------
(* The agent builder: its types.                                           *)

EditorSpec == EditorInit /\ [][EditorNext]_editorVars

Texts == SUBSET Nat
Steps == {"load", "refresh", "save", "settle", "check", "publish", "delete", "create", "talk", "stop"}
Purposes == {"load", "versions", "button", "publish", "delete", "create", "start", "restart"}
Answers == [agent : Agents, revision : Nat, content : Texts, current : BOOLEAN]
CallRecords == [step : Steps, for : Purposes, agent : Agents, revision : Nat, content : Texts,
                dirty : BOOLEAN, mounted : BOOLEAN, current : BOOLEAN,
                reply : Answers \union {Nothing, Failed}]
FileRecords == [life : {"unborn", "live", "gone"}, revision : Nat, content : Texts,
                versions : SUBSET Texts, latest : Texts \union {Nothing}]
ShownRecords == [agent : Agents, revision : Nat, content : Texts]

EditorTyped ==
    /\ files \in [Agents -> FileRecords]
    /\ page \in Agents \union {Nothing}
    /\ editor \in [record : ShownRecords \union {Nothing}, draft : Texts, current : BOOLEAN]
    /\ requests \in [Slots -> CallRecords \union {Free}] /\ begun \in Nat
    /\ \A i \in Slots : i > begun => requests[i] = Free
    /\ drawer \in [open : BOOLEAN, owned : BOOLEAN] /\ talk \in {"off", "starting", "on"}
    /\ edits \in Nat /\ seen \in Texts

\* The calls among requests: their slots are those whose step is not free.
LEMMA CallsAreNotFree ==
  ASSUME NEW c \in CallRecords \union {Free} PROVE c.step # "free" <=> c \in CallRecords
  BY DEF CallRecords, Steps, Free

-----------------------------------------------------------------------------
(* What the editor knows, and who attends to its preview.                  *)

Registers == [Agents -> FileRecords]
Tables == [Slots -> CallRecords \union {Free}]
Trying == {"start", "restart"}
Revised == {"save", "settle", "check", "publish", "delete"}

\* Whoever has the revision r of a file f has shown its content; a revision that the
\* gateway answered has at least that content.
Known(r, f, s) == r.revision <= f.revision /\ (r.revision = f.revision => f.content \subseteq s)
Told(r, f) == r.revision <= f.revision /\ (r.revision = f.revision => f.content \subseteq r.content)

\* A call, with page p, a drawer that is open or not (o), files F and what was shown, s.
CallOK(c, p, o, F, s) ==
    /\ c.mounted => p # Nothing
    /\ c.step \in {"talk", "stop"} => c.for \in Trying
    /\ c.for \in Trying /\ c.current => o
    /\ c.step \in Revised => Known(c, F[c.agent], s)
    /\ c.step = "save" => c.content \subseteq s
    /\ c.reply \notin {Nothing, Failed} => /\ c.reply.agent = c.agent /\ Told(c.reply, F[c.agent])
                                           /\ c.step = "save" => c.reply.content \subseteq s
CallsOK(cs, p, o, F, s) == \A i \in Slots : cs[i] # Free => CallOK(cs[i], p, o, F, s)

\* What the editor shows was shown, and it is the builder of a page; the drawer is in it.
ScreenOK ==
    /\ editor.record # Nothing => page # Nothing /\ Known(editor.record, files[editor.record.agent], seen)
    /\ editor.draft \subseteq seen
    /\ drawer.open => /\ page # Nothing /\ editor.record \in ShownRecords
                      /\ Known(editor.record, files[editor.record.agent], seen)
    /\ \A a \in Agents : files[a].life = "unborn" => files[a].content = {} /\ files[a].revision = 0

EditorInv == EditorTyped /\ CallsOK(requests, page, drawer.open, files, seen) /\ ScreenOK /\ PreviewIsAttended

\* A file only grows: a new revision, or a removal of what it says.
Grows(F, G) == \A a \in Agents : \/ F[a].revision < G[a].revision
                                 \/ F[a].revision = G[a].revision /\ G[a].content \subseteq F[a].content

\* Calls that are unmounted, superseded or over: what they captured stays.
Quieter(c, d) ==
    /\ d.step = c.step /\ d.for = c.for /\ d.agent = c.agent /\ d.revision = c.revision
    /\ d.content = c.content /\ d.reply = c.reply
    /\ d.mounted => c.mounted
    /\ d.current => c.current
Hushes(cs, ds) == \A i \in Slots :
    ds[i] # Free => cs[i] \in CallRecords /\ ds[i] \in CallRecords /\ Quieter(cs[i], ds[i])

\* An empty slot of the table is not a request.
LEMMA FreeIsNoCall == Free \notin CallRecords
  BY CallsAreNotFree DEF Free

\* What was known stays known while files grow and more is shown.
LEMMA KnownStays ==
  ASSUME NEW f \in FileRecords, NEW g \in FileRecords, NEW s, NEW t, s \subseteq t, NEW r, r.revision \in Nat,
         f.revision < g.revision \/ (f.revision = g.revision /\ g.content \subseteq f.content)
  PROVE  /\ Known(r, f, s) => Known(r, g, t)
         /\ Told(r, f) => Told(r, g)
  BY DEF Known, Told, FileRecords

\* A call that is as it was or quieter is as sound as it was.
LEMMA CallStays ==
  ASSUME NEW c \in CallRecords, NEW d \in CallRecords, Quieter(c, d),
         NEW p, NEW q, NEW o, NEW u, NEW F \in Registers, NEW G \in Registers, NEW s, NEW t,
         CallOK(c, p, o, F, s), Grows(F, G), s \subseteq t,
         d.mounted => q # Nothing, d.for \in Trying /\ d.current => u
  PROVE  CallOK(d, q, u, G, t)
<1>1. c.agent \in Agents /\ c.revision \in Nat /\ c.reply \in Answers \union {Nothing, Failed}
      BY DEF CallRecords
<1> DEFINE f == F[c.agent]
           g == G[c.agent]
<1>2. f \in FileRecords /\ g \in FileRecords
      BY <1>1 DEF Registers
<1>3. f.revision < g.revision \/ (f.revision = g.revision /\ g.content \subseteq f.content)
      BY <1>1 DEF Grows
<1>4. d.step \in Revised => Known(c, g, t)
      BY <1>1, <1>2, <1>3, KnownStays DEF CallOK, Quieter
<1>5. Known(c, g, t) => Known(d, g, t)
      BY DEF Known, Quieter
<1>6. ASSUME d.reply \notin {Nothing, Failed}
      PROVE  /\ d.reply.agent = d.agent /\ Told(d.reply, g)
             /\ d.step = "save" => d.reply.content \subseteq t
  <2>1. c.reply \notin {Nothing, Failed} /\ d.reply = c.reply /\ d.agent = c.agent /\ d.step = c.step
        BY <1>6 DEF Quieter
  <2>2. c.reply.agent = c.agent /\ Told(c.reply, f) /\ (c.step = "save" => c.reply.content \subseteq s)
        BY <2>1 DEF CallOK
  <2>3. c.reply.revision \in Nat
        BY <1>1, <2>1 DEF Answers
  <2>4. Told(c.reply, g)
        BY <1>2, <1>3, <2>2, <2>3, KnownStays
  <2> QED BY <2>1, <2>2, <2>4
<1>7. d.step = "save" => d.content \subseteq t
      BY DEF CallOK, Quieter
<1>8. d.step \in {"talk", "stop"} => d.for \in Trying
      BY DEF CallOK, Quieter
<1>9. d.agent = c.agent
      BY DEF Quieter
<1> QED BY <1>4, <1>5, <1>6, <1>7, <1>8, <1>9 DEF CallOK

\* All calls stay sound in a step that hushes some, shows more and grows files.
LEMMA CallsStay ==
  ASSUME NEW cs \in Tables, NEW ds \in Tables, Hushes(cs, ds),
         NEW p, NEW q, NEW o, NEW u, NEW F \in Registers, NEW G \in Registers, NEW s, NEW t,
         CallsOK(cs, p, o, F, s), Grows(F, G), s \subseteq t,
         \A i \in Slots : ds[i] # Free => /\ ds[i].mounted => q # Nothing
                                          /\ ds[i].for \in Trying /\ ds[i].current => u
  PROVE  CallsOK(ds, q, u, G, t)
<1> SUFFICES ASSUME NEW i \in Slots, ds[i] # Free PROVE CallOK(ds[i], q, u, G, t)
    BY DEF CallsOK
<1>1. cs[i] \in CallRecords /\ ds[i] \in CallRecords /\ Quieter(cs[i], ds[i])
      BY DEF Hushes
<1>2. CallOK(cs[i], p, o, F, s)
      BY <1>1, FreeIsNoCall DEF CallsOK
<1> QED BY <1>1, <1>2, CallStays

\* One call more, or changed.
LEMMA OneCallMore ==
  ASSUME NEW cs \in Tables, NEW k \in Slots, NEW c \in CallRecords, NEW p, NEW o, NEW F, NEW s,
         CallsOK(cs, p, o, F, s), CallOK(c, p, o, F, s)
  PROVE  [cs EXCEPT ![k] = c] \in Tables /\ CallsOK([cs EXCEPT ![k] = c], p, o, F, s)
  BY DEF Tables, CallsOK

\* What the page and the drawer do to the calls under way.
LEMMA CallsHush ==
  ASSUME NEW cs \in Tables
  PROVE  /\ Hushes(cs, cs)
         /\ \A i \in Slots : [cs EXCEPT ![i] = Free] \in Tables /\ Hushes(cs, [cs EXCEPT ![i] = Free])
         /\ Unmounted(cs) \in Tables /\ Hushes(cs, Unmounted(cs))
         /\ \A i \in Slots : Unmounted(cs)[i] # Free => ~Unmounted(cs)[i].mounted /\ ~Unmounted(cs)[i].current
         /\ Superseded(cs) \in Tables /\ Hushes(cs, Superseded(cs))
         /\ GenerationEnds(cs) \in Tables /\ Hushes(cs, GenerationEnds(cs))
         /\ \A i \in Slots : LET c == GenerationEnds(cs)[i]
                             IN  c # Free /\ c.for \in Trying => ~c.current
<1>1. \A i \in Slots : /\ cs[i].step = "free" => cs[i] = Free
                       /\ cs[i].step # "free" => cs[i] \in CallRecords
                       /\ cs[i] # Free => cs[i].step # "free"
      BY CallsAreNotFree, FreeIsNoCall DEF Tables, Free
<1>2. \A c \in CallRecords : Quieter(c, c)
      BY DEF Quieter
<1>3. \A c \in CallRecords :
         LET gone == [c EXCEPT !.mounted = FALSE, !.current = FALSE]
             late == [c EXCEPT !.current = FALSE]
         IN  /\ gone \in CallRecords /\ Quieter(c, gone) /\ ~gone.mounted /\ ~gone.current
             /\ late \in CallRecords /\ Quieter(c, late) /\ ~late.current
      BY DEF CallRecords, Quieter
<1>4. Hushes(cs, cs)
      BY <1>1, <1>2 DEF Hushes
<1>5. ASSUME NEW i \in Slots
      PROVE  [cs EXCEPT ![i] = Free] \in Tables /\ Hushes(cs, [cs EXCEPT ![i] = Free])
      BY <1>1, <1>2 DEF Hushes, Tables
<1>6. /\ Unmounted(cs) \in Tables /\ Hushes(cs, Unmounted(cs))
      /\ \A i \in Slots : Unmounted(cs)[i] # Free => ~Unmounted(cs)[i].mounted /\ ~Unmounted(cs)[i].current
  <2>1. \A i \in Slots : Unmounted(cs)[i] = IF cs[i].step = "free" THEN cs[i]
                                            ELSE [cs[i] EXCEPT !.mounted = FALSE, !.current = FALSE]
        BY DEF Unmounted
  <2>2. \A i \in Slots : Unmounted(cs)[i] \in CallRecords \union {Free}
        BY <1>1, <1>3, <2>1, ZenonT(40)
  <2>3. Unmounted(cs) \in Tables
        BY <2>2 DEF Unmounted, Tables
  <2>4. ASSUME NEW i \in Slots, Unmounted(cs)[i] # Free
        PROVE  /\ cs[i] \in CallRecords /\ Unmounted(cs)[i] \in CallRecords /\ Quieter(cs[i], Unmounted(cs)[i])
               /\ ~Unmounted(cs)[i].mounted /\ ~Unmounted(cs)[i].current
    <3>1. cs[i] \in CallRecords /\ cs[i].step # "free"
          BY <1>1, <2>1, <2>4
    <3>2. Unmounted(cs)[i] = [cs[i] EXCEPT !.mounted = FALSE, !.current = FALSE]
          BY <2>1, <3>1
    <3> QED BY <1>3, <3>1, <3>2
  <2> QED BY <2>3, <2>4 DEF Hushes
<1>7. Superseded(cs) \in Tables /\ Hushes(cs, Superseded(cs))
  <2>1. \A i \in Slots : Superseded(cs)[i] = IF cs[i].step # "free" /\ cs[i].for = "load"
                                             THEN [cs[i] EXCEPT !.current = FALSE] ELSE cs[i]
        BY DEF Superseded
  <2>2. \A i \in Slots : Superseded(cs)[i] \in CallRecords \union {Free}
        BY <1>1, <1>3, <2>1
  <2>3. Superseded(cs) \in Tables
        BY <2>2 DEF Superseded, Tables
  <2> QED BY <1>1, <1>2, <1>3, <2>1, <2>3 DEF Hushes
<1>8. /\ GenerationEnds(cs) \in Tables /\ Hushes(cs, GenerationEnds(cs))
      /\ \A i \in Slots : LET c == GenerationEnds(cs)[i]
                          IN  c # Free /\ c.for \in Trying => ~c.current
  <2>1. \A i \in Slots : GenerationEnds(cs)[i] = IF cs[i].step # "free" /\ cs[i].for \in Trying
                                                 THEN [cs[i] EXCEPT !.current = FALSE] ELSE cs[i]
        BY DEF GenerationEnds, Trying
  <2>2. \A i \in Slots : GenerationEnds(cs)[i] \in CallRecords \union {Free}
        BY <1>1, <1>3, <2>1
  <2>3. GenerationEnds(cs) \in Tables
        BY <2>2 DEF GenerationEnds, Tables
  <2> QED BY <1>1, <1>2, <1>3, <2>1, <2>3 DEF Hushes
<1> QED BY <1>4, <1>5, <1>6, <1>7, <1>8

\* Quieting requests twice quiets them.
LEMMA HushesCompose ==
  ASSUME NEW cs, NEW ds, NEW es, Hushes(cs, ds), Hushes(ds, es) PROVE Hushes(cs, es)
<1> SUFFICES ASSUME NEW i \in Slots, es[i] # Free
             PROVE  cs[i] \in CallRecords /\ es[i] \in CallRecords /\ Quieter(cs[i], es[i])
    BY DEF Hushes
<1>1. ds[i] \in CallRecords /\ es[i] \in CallRecords /\ Quieter(ds[i], es[i])
      BY DEF Hushes
<1>2. cs[i] \in CallRecords /\ Quieter(cs[i], ds[i])
      BY <1>1, FreeIsNoCall DEF Hushes
<1> QED BY <1>1, <1>2 DEF Quieter

\* A call as it is begun.
LEMMA CallsBegin ==
  ASSUME NEW step \in Steps, NEW for \in Purposes, NEW a \in Agents, NEW r \in Nat, NEW text \in Texts, NEW b \in BOOLEAN
  PROVE  LET c == [Call(step, for, a) EXCEPT !.revision = r, !.content = text, !.dirty = b]
         IN  /\ c \in CallRecords /\ c.step = step /\ c.for = for /\ c.agent = a /\ c.revision = r
             /\ c.content = text /\ c.mounted /\ c.current /\ c.reply = Nothing
<1> DEFINE plain == Call(step, for, a)
<1>1. /\ plain \in CallRecords /\ plain.step = step /\ plain.for = for /\ plain.agent = a
      /\ plain.mounted /\ plain.current /\ plain.reply = Nothing
      BY DEF Call, CallRecords, Texts
<1> HIDE DEF plain
<1>2. [plain EXCEPT !.revision = r, !.content = text, !.dirty = b] \in CallRecords
      BY <1>1 DEF CallRecords
<1> QED BY <1>1, <1>2 DEF CallRecords, plain

\* A call that begins with nothing that could be out of date is sound where its builder is.
LEMMA BegunIsOK ==
  ASSUME NEW c \in CallRecords, c.reply = Nothing, NEW p, p # Nothing, NEW o \in BOOLEAN, NEW F, NEW s,
         c.for \in Trying => o,
         c.step \in {"talk", "stop"} => c.for \in Trying,
         c.step \in Revised => Known(c, F[c.agent], s),
         c.step = "save" => c.content \subseteq s
  PROVE  CallOK(c, p, o, F, s)
  BY DEF CallOK

\* A closed drawer is a drawer, neither open nor owned by a preview.
LEMMA ClosedDrawer == Closed \in [open : BOOLEAN, owned : BOOLEAN] /\ ~Closed.open /\ ~Closed.owned
  BY DEF Closed

\* The builder opens without requests, drawer or conversation.
LEMMA EditorInitially == EditorInit => EditorInv
<1> SUFFICES ASSUME EditorInit PROVE EditorInv
    OBVIOUS
<1>1. EditorTyped
      BY EditorAssumption DEF EditorInit, EditorTyped, FileRecords, Texts, Blank, Closed
<1>2. CallsOK(requests, page, drawer.open, files, seen) /\ ScreenOK
      BY EditorAssumption DEF EditorInit, CallsOK, ScreenOK, Blank, Closed
<1>3. PreviewIsAttended
      BY DEF EditorInit, PreviewIsAttended
<1> QED BY <1>1, <1>2, <1>3 DEF EditorInv

\* Another builder opens, from the list or from the builder of this one.
LEMMA BuilderOpens ==
  ASSUME EditorInv, NEW a \in Agents, NEW cs \in Tables, Hushes(requests, cs),
         IF page = Nothing THEN BeginsLoad(cs, a) /\ UNCHANGED <<drawer, talk>>
         ELSE BeginsLoad(GenerationEnds(Superseded(cs)), a) /\ DrawerGoes,
         page' = a, UNCHANGED <<files, edits, seen>>
  PROVE  EditorInv'
<1>0. EditorTyped /\ CallsOK(requests, page, drawer.open, files, seen) /\ ScreenOK /\ PreviewIsAttended
      BY DEF EditorInv
<1> DEFINE ds == IF page = Nothing THEN cs ELSE GenerationEnds(Superseded(cs))
           c == Call("load", "load", a)
<1>1. /\ begun' = begun + 1 /\ begun + 1 \in Slots /\ requests' = [ds EXCEPT ![begun + 1] = c]
      /\ editor' = Blank
      BY <1>0, EditorAssumption DEF BeginsLoad, IssuesAmong, EditorTyped, Slots
<1>2. ds \in Tables /\ Hushes(requests, ds)
      BY CallsHush, HushesCompose
<1>3. /\ page = Nothing => ~drawer.open /\ talk = "off" /\ drawer' = drawer /\ talk' = talk
      /\ page # Nothing => drawer' = Closed /\ talk' = "off"
  <2>1. talk # "off" => drawer.open /\ (drawer.owned \/ Previews # {})
        BY <1>0 DEF PreviewIsAttended
  <2>2. drawer.open => page # Nothing
        BY <1>0 DEF ScreenOK
  <2>3. page # Nothing => drawer' = Closed /\ talk' = IF drawer.owned \/ Previews # {} THEN "off" ELSE talk
        BY DEF DrawerGoes
  <2>4. page = Nothing => drawer' = drawer /\ talk' = talk
        OBVIOUS
  <2>5. page = Nothing => ~drawer.open /\ talk = "off"
        BY <2>1, <2>2
  <2>6. page # Nothing => talk' = "off"
        BY <2>1, <2>3
  <2> QED BY <2>3, <2>4, <2>5, <2>6
<1>4. ~drawer'.open /\ talk' = "off" /\ drawer' \in [open : BOOLEAN, owned : BOOLEAN]
  <2>1. CASE page = Nothing
        BY <1>0, <1>3, <2>1 DEF EditorTyped
  <2>2. CASE page # Nothing
    <3>1. drawer' = Closed /\ talk' = "off"
          BY <1>3, <2>2
    <3> QED BY <3>1, ClosedDrawer
  <2> QED BY <2>1, <2>2
<1>5. \A i \in Slots : ds[i] # Free /\ ds[i].for \in Trying => ~ds[i].current
  <2>1. CASE page = Nothing
    <3> SUFFICES ASSUME NEW i \in Slots, cs[i] # Free, cs[i].for \in Trying, cs[i].current PROVE FALSE
        BY <2>1
    <3>1. requests[i] # Free /\ requests[i].for \in Trying /\ requests[i].current
          BY FreeIsNoCall DEF Hushes, Quieter
    <3>2. drawer.open
          BY <1>0, <3>1 DEF CallsOK, CallOK
    <3> QED BY <1>3, <2>1, <3>2
  <2>2. CASE page # Nothing
        BY <2>2, CallsHush
  <2> QED BY <2>1, <2>2
<1>6. a # Nothing
      BY EditorAssumption
<1> HIDE DEF ds
<1>7. files \in Registers /\ Grows(files, files)
      BY <1>0 DEF EditorTyped, Registers, Grows, FileRecords
<1>8. CallsOK(ds, page', drawer'.open, files', seen')
  <2>1. requests \in Tables
        BY <1>0 DEF EditorTyped, Tables
  <2> QED BY <1>0, <1>2, <1>5, <1>6, <1>7, <2>1, CallsStay
<1>9. c \in CallRecords /\ c.step = "load" /\ c.for = "load" /\ c.reply = Nothing
      BY DEF Call, CallRecords, Steps, Purposes, Texts
<1>10. CallOK(c, page', drawer'.open, files', seen')
      BY <1>6, <1>9 DEF CallOK, Trying, Revised
<1> HIDE DEF c
<1>11. requests' \in Tables /\ CallsOK(requests', page', drawer'.open, files', seen')
      BY <1>1, <1>2, <1>8, <1>9, <1>10, OneCallMore
<1>12. \A i \in Slots : i > begun' => requests'[i] = Free
  <2> SUFFICES ASSUME NEW i \in Slots, i > begun + 1 PROVE requests'[i] = Free
      BY <1>1
  <2>1. i # begun + 1 /\ i > begun
        BY <1>0 DEF EditorTyped, Slots
  <2>2. requests[i] = Free
        BY <1>0, <2>1 DEF EditorTyped
  <2>3. ds[i] = Free
        BY <1>2, <2>2, FreeIsNoCall DEF Hushes
  <2> QED BY <1>1, <1>2, <2>1, <2>3 DEF Tables
<1>13. EditorTyped'
      BY <1>0, <1>1, <1>4, <1>11, <1>12 DEF EditorTyped, Tables, Blank, Texts
<1>14. ScreenOK'
      BY <1>0, <1>1, <1>4, <1>6 DEF ScreenOK, Blank
<1>15. PreviewIsAttended'
      BY <1>4 DEF PreviewIsAttended
<1> QED BY <1>11, <1>13, <1>14, <1>15 DEF EditorInv

\* One call begins, moves on or ends, while the page and the drawer stay as they are.
LEMMA OneCallChanges ==
  ASSUME EditorInv, NEW k \in Slots, NEW d \in CallRecords \union {Free},
         requests' = [requests EXCEPT ![k] = d],
         begun' \in Nat, begun <= begun', k <= begun',
         page' = page, drawer'.open = drawer.open,
         files' \in Registers, Grows(files, files'), seen \subseteq seen',
         d # Free => CallOK(d, page, drawer.open, files', seen')
  PROVE  /\ requests' \in Tables /\ CallsOK(requests', page', drawer'.open, files', seen')
         /\ \A i \in Slots : i > begun' => requests'[i] = Free
         /\ \A i \in Slots \ {k} : requests'[i] = requests[i]
<1>0. /\ requests \in Tables /\ files \in Registers /\ CallsOK(requests, page, drawer.open, files, seen)
      /\ \A i \in Slots : i > begun => requests[i] = Free
      /\ begun \in Nat
      BY DEF EditorInv, EditorTyped, Tables, Registers
<1>1. Hushes(requests, requests)
      BY <1>0, CallsHush
<1>2. \A i \in Slots : requests[i] # Free => /\ requests[i].mounted => page # Nothing
                                             /\ requests[i].for \in Trying /\ requests[i].current => drawer.open
      BY <1>0 DEF CallsOK, CallOK
<1>3. CallsOK(requests, page, drawer.open, files', seen')
      BY <1>0, <1>1, <1>2, CallsStay
<1>4. requests' \in Tables /\ \A i \in Slots : requests'[i] = IF i = k THEN d ELSE requests[i]
      BY <1>0 DEF Tables
<1>5. CallsOK(requests', page, drawer.open, files', seen')
      BY <1>3, <1>4 DEF CallsOK
<1>6. \A i \in Slots : i > begun' => requests'[i] = Free
      BY <1>0, <1>4 DEF Slots
<1> QED BY <1>4, <1>5, <1>6

\* A conversation stays attended by the call that starts it, or by the drawer that owns it.
LEMMA AttendedStays ==
  ASSUME PreviewIsAttended, talk' \in {talk, "off"},
         drawer.open => drawer'.open, drawer.owned => drawer'.owned,
         \A i \in Slots : requests[i].step = "talk" => requests'[i] = requests[i]
  PROVE  PreviewIsAttended'
<1>1. CASE talk' = "off"
      BY <1>1 DEF PreviewIsAttended
<1>2. CASE talk' # "off"
  <2>1. drawer.open /\ (drawer.owned \/ \E i \in Previews : requests[i].step = "talk")
        BY <1>2 DEF PreviewIsAttended
  <2>2. ASSUME NEW i \in Previews, requests[i].step = "talk"
        PROVE  i \in Previews' /\ requests'[i].step = "talk"
    <3>1. i \in Slots /\ requests'[i] = requests[i]
          BY <2>2 DEF Previews
    <3> QED BY <2>2, <3>1 DEF Previews
  <2> QED BY <2>1, <2>2 DEF PreviewIsAttended
<1> QED BY <1>1, <1>2

\* What the gateway and the page keep, when only calls, the drawer and the talk change.
LEMMA CallIssued ==
  ASSUME EditorInv, NEW c \in CallRecords, Issues(c),
         CallOK(c, page, drawer.open, files, seen),
         UNCHANGED <<files, page, editor, drawer, edits, seen>>,
         talk' \in {"off", "starting", "on"},
         \/ talk' \in {talk, "off"}
         \/ drawer.open /\ c.for \in Trying /\ c.step = "talk" /\ c.current
  PROVE  EditorInv'
<1>0. EditorTyped /\ ScreenOK /\ PreviewIsAttended
      BY DEF EditorInv
<1>1. /\ begun + 1 \in Slots /\ begun' = begun + 1 /\ requests' = [requests EXCEPT ![begun + 1] = c]
      /\ begun \in Nat /\ files \in Registers
      BY <1>0, EditorAssumption DEF Issues, IssuesAmong, EditorTyped, Slots, Registers
<1>2. Grows(files, files')
      BY <1>0 DEF EditorTyped, Grows
<1>3. /\ requests' \in Tables /\ CallsOK(requests', page', drawer'.open, files', seen')
      /\ \A i \in Slots : i > begun' => requests'[i] = Free
      /\ \A i \in Slots \ {begun + 1} : requests'[i] = requests[i]
  <2>1. /\ begun' \in Nat /\ begun <= begun' /\ begun + 1 <= begun' /\ page' = page
        /\ drawer'.open = drawer.open /\ files' \in Registers /\ seen \subseteq seen'
        BY <1>1
  <2>2. c # Free => CallOK(c, page, drawer.open, files', seen')
        OBVIOUS
  <2> QED BY <1>1, <1>2, <2>1, <2>2, OneCallChanges
<1>4. requests[begun + 1] = Free
      BY <1>0, <1>1 DEF EditorTyped
<1>5. EditorTyped'
      BY <1>0, <1>1, <1>3 DEF EditorTyped, Tables
<1>6. ScreenOK'
      BY <1>0 DEF ScreenOK
<1>7. PreviewIsAttended'
  <2>1. CASE talk' \in {talk, "off"}
    <3>1. \A i \in Slots : requests[i].step = "talk" => requests'[i] = requests[i]
          BY <1>3, <1>4 DEF Free
    <3> QED BY <1>0, <2>1, <3>1, AttendedStays
  <2>2. CASE drawer.open /\ c.for \in Trying /\ c.step = "talk" /\ c.current
    <3>1. requests'[begun + 1] = c
          BY <1>0, <1>1 DEF EditorTyped
    <3>2. begun + 1 \in Previews'
          BY <1>1, <2>2, <3>1 DEF Previews, Trying
    <3> QED BY <2>2, <3>1, <3>2 DEF PreviewIsAttended
  <2> QED BY <2>1, <2>2
<1> QED BY <1>3, <1>5, <1>6, <1>7 DEF EditorInv

\* What the editor shows, where a user can act on it.
LEMMA ShownIsKnown ==
  ASSUME EditorInv, editor.record # Nothing \/ drawer.open
  PROVE  /\ editor.record \in ShownRecords /\ editor.record.agent \in Agents /\ editor.record.revision \in Nat
         /\ editor.record.content \in Texts /\ editor.draft \in Texts /\ editor.draft \subseteq seen
         /\ page # Nothing /\ page \in Agents
         /\ Known(editor.record, files[editor.record.agent], seen)
<1>1. /\ editor.record \in ShownRecords /\ page # Nothing /\ page \in Agents
      /\ Known(editor.record, files[editor.record.agent], seen)
      /\ editor.draft \in Texts /\ editor.draft \subseteq seen
      BY DEF EditorInv, EditorTyped, ScreenOK
<1> QED BY <1>1 DEF ShownRecords

\* The calls that carry the revision the editor shows: a save, with the draft, and
\* what goes on without one, with the record.
LEMMA SavesCarryTheShown ==
  ASSUME EditorInv, editor.record # Nothing \/ drawer.open,
         NEW for \in Purposes, for \in Trying => drawer.open
  PROVE  LET c == SaveCall(for)
         IN  c \in CallRecords /\ CallOK(c, page, drawer.open, files, seen)
<1>1. /\ editor.record \in ShownRecords /\ editor.record.agent \in Agents /\ editor.record.revision \in Nat
      /\ editor.draft \in Texts /\ editor.draft \subseteq seen /\ page # Nothing
      /\ Known(editor.record, files[editor.record.agent], seen)
      BY ShownIsKnown
<1> DEFINE c == SaveCall(for)
<1>2. /\ c \in CallRecords /\ c.step = "save" /\ c.for = for /\ c.agent = editor.record.agent
      /\ c.revision = editor.record.revision /\ c.content = editor.draft /\ c.reply = Nothing
  <2>1. /\ Call("save", for, editor.record.agent) \in CallRecords
        /\ Call("save", for, editor.record.agent).step = "save" /\ Call("save", for, editor.record.agent).for = for
        /\ Call("save", for, editor.record.agent).agent = editor.record.agent
        /\ Call("save", for, editor.record.agent).reply = Nothing
        BY <1>1 DEF Call, CallRecords, Steps, Texts
  <2> QED BY <1>1, <2>1 DEF SaveCall, CallRecords
<1> HIDE DEF c
<1>3. Known(c, files[c.agent], seen)
      BY <1>1, <1>2 DEF Known
<1>4. CallOK(c, page, drawer.open, files, seen)
      BY <1>1, <1>2, <1>3 DEF CallOK
<1> QED BY <1>2, <1>4 DEF c

\* A request that carries no draft may be issued over the record that is shown.
LEMMA OthersCarryTheShown ==
  ASSUME EditorInv, editor.record # Nothing \/ drawer.open,
         NEW for \in Purposes, for \in Trying => drawer.open,
         NEW step \in {"check", "publish", "talk", "stop"}, step \in {"talk", "stop"} => for \in Trying
  PROVE  LET c == SavedAlready(step, for)
         IN  /\ c \in CallRecords /\ CallOK(c, page, drawer.open, files, seen)
             /\ c.step = step /\ c.for = for /\ c.current
<1>1. /\ editor.record \in ShownRecords /\ editor.record.agent \in Agents /\ editor.record.revision \in Nat
      /\ editor.record.content \in Texts /\ page # Nothing
      /\ Known(editor.record, files[editor.record.agent], seen)
      BY ShownIsKnown
<1> DEFINE plain == Call(step, for, editor.record.agent)
           c == SavedAlready(step, for)
<1>2. /\ c \in CallRecords /\ c.step = step /\ c.for = for /\ c.agent = editor.record.agent
      /\ c.revision = editor.record.revision /\ c.reply = Nothing /\ c.current
  <2>1. /\ plain \in CallRecords /\ plain.step = step /\ plain.for = for
        /\ plain.agent = editor.record.agent /\ plain.reply = Nothing /\ plain.current
        BY <1>1 DEF Call, CallRecords, Steps, Texts
  <2>2. c = [plain EXCEPT !.revision = editor.record.revision, !.content = editor.record.content]
        BY DEF SavedAlready
  <2> HIDE DEF plain, c
  <2> QED BY <1>1, <2>1, <2>2 DEF CallRecords
<1> HIDE DEF c
<1>3. Known(c, files[c.agent], seen)
      BY <1>1, <1>2 DEF Known
<1>4. CallOK(c, page, drawer.open, files, seen)
      BY <1>1, <1>2, <1>3 DEF CallOK
<1> QED BY <1>2, <1>4 DEF c

\* The buttons of the builder and of its drawer that call the gateway.
LEMMA ButtonsKeep ==
  ASSUME EditorInv,
         \/ PressSave \/ PressPublish \/ Refresh \/ PressDelete
         \/ \E a \in Agents : Duplicate(a)
         \/ StartPreview
  PROVE  EditorInv'
<1>0. EditorTyped /\ ScreenOK /\ talk \in {"off", "starting", "on"}
      BY DEF EditorInv, EditorTyped
<1>1. CASE PressSave
  <2>1. editor.record # Nothing /\ "button" \in Purposes /\ "button" \notin Trying
        BY <1>1 DEF PressSave, Visible, Purposes, Trying
  <2>2. SaveCall("button") \in CallRecords /\ CallOK(SaveCall("button"), page, drawer.open, files, seen)
        BY <2>1, SavesCarryTheShown
  <2> QED BY <1>0, <1>1, <2>2, CallIssued DEF PressSave
<1>2. CASE PressPublish
  <2>1. editor.record # Nothing /\ "publish" \in Purposes /\ "publish" \notin Trying
        BY <1>2 DEF PressPublish, Visible, Purposes, Trying
  <2>2. SaveCall("publish") \in CallRecords /\ CallOK(SaveCall("publish"), page, drawer.open, files, seen)
        BY <2>1, SavesCarryTheShown
  <2>3. /\ SavedAlready("check", "publish") \in CallRecords
        /\ CallOK(SavedAlready("check", "publish"), page, drawer.open, files, seen)
        BY <2>1, OthersCarryTheShown
  <2>4. CASE Issues(SaveCall("publish"))
        BY <1>0, <1>2, <2>2, <2>4, CallIssued DEF PressPublish
  <2>5. CASE Issues(SavedAlready("check", "publish"))
        BY <1>0, <1>2, <2>3, <2>5, CallIssued DEF PressPublish
  <2> QED BY <1>2, <2>4, <2>5 DEF PressPublish
<1>3. CASE Refresh
  <2> DEFINE c == [Call("refresh", "versions", page) EXCEPT !.dirty = Dirty]
  <2>1. page \in Agents /\ page # Nothing
        BY <1>3, ShownIsKnown DEF Refresh, Visible
  <2>2. Dirty \in BOOLEAN
        BY DEF Dirty
  <2>3. /\ c \in CallRecords /\ c.step = "refresh" /\ c.for = "versions" /\ c.reply = Nothing
    <3> DEFINE plain == Call("refresh", "versions", page)
    <3>1. plain \in CallRecords /\ plain.step = "refresh" /\ plain.for = "versions" /\ plain.reply = Nothing
          BY <2>1 DEF Call, CallRecords, Steps, Purposes, Texts
    <3> HIDE DEF plain
    <3>2. c = [plain EXCEPT !.dirty = Dirty]
          BY DEF plain
    <3> QED BY <2>2, <3>1, <3>2 DEF CallRecords
  <2>4. Issues(c) /\ UNCHANGED <<files, page, editor, drawer, talk, edits, seen>>
        BY <1>3 DEF Refresh
  <2> HIDE DEF c
  <2>5. CallOK(c, page, drawer.open, files, seen)
        BY <2>1, <2>3 DEF CallOK, Trying, Revised
  <2> QED BY <1>0, <2>3, <2>4, <2>5, CallIssued
<1>4. CASE PressDelete
  <2> DEFINE c == [Call("delete", "delete", editor.record.agent) EXCEPT !.revision = editor.record.revision]
  <2>1. /\ editor.record.agent \in Agents /\ editor.record.revision \in Nat /\ page # Nothing
        /\ Known(editor.record, files[editor.record.agent], seen)
        BY <1>4, ShownIsKnown DEF PressDelete, Visible
  <2>2. /\ c \in CallRecords /\ c.step = "delete" /\ c.for = "delete" /\ c.reply = Nothing
        /\ c.agent = editor.record.agent /\ c.revision = editor.record.revision
    <3> DEFINE plain == Call("delete", "delete", editor.record.agent)
    <3>1. /\ plain \in CallRecords /\ plain.step = "delete" /\ plain.for = "delete" /\ plain.reply = Nothing
          /\ plain.agent = editor.record.agent
          BY <2>1 DEF Call, CallRecords, Steps, Purposes, Texts
    <3> HIDE DEF plain
    <3>2. c = [plain EXCEPT !.revision = editor.record.revision]
          BY DEF plain
    <3> QED BY <2>1, <3>1, <3>2 DEF CallRecords
  <2>3. Issues(c) /\ UNCHANGED <<files, page, editor, drawer, talk, edits, seen>>
        BY <1>4 DEF PressDelete
  <2> HIDE DEF c
  <2>4. Known(c, files[c.agent], seen)
        BY <2>1, <2>2 DEF Known
  <2>5. CallOK(c, page, drawer.open, files, seen)
        BY <2>1, <2>2, <2>4 DEF CallOK, Trying
  <2> QED BY <1>0, <2>2, <2>3, <2>5, CallIssued
<1>5. ASSUME NEW a \in Agents, Duplicate(a)
      PROVE  EditorInv'
  <2> DEFINE c == [Call("create", "create", a) EXCEPT !.content = editor.draft]
  <2>1. editor.draft \in Texts /\ page # Nothing
        BY <1>5, ShownIsKnown DEF Duplicate, Visible
  <2>2. c \in CallRecords /\ c.step = "create" /\ c.for = "create" /\ c.reply = Nothing
    <3> DEFINE plain == Call("create", "create", a)
    <3>1. plain \in CallRecords /\ plain.step = "create" /\ plain.for = "create" /\ plain.reply = Nothing
          BY DEF Call, CallRecords, Steps, Purposes, Texts
    <3> HIDE DEF plain
    <3>2. c = [plain EXCEPT !.content = editor.draft]
          BY DEF plain
    <3> QED BY <2>1, <3>1, <3>2 DEF CallRecords
  <2>3. Issues(c) /\ UNCHANGED <<files, page, editor, drawer, talk, edits, seen>>
        BY <1>5 DEF Duplicate
  <2> HIDE DEF c
  <2>4. CallOK(c, page, drawer.open, files, seen)
        BY <2>1, <2>2 DEF CallOK, Trying, Revised
  <2> QED BY <1>0, <2>2, <2>3, <2>4, CallIssued
<1>6. CASE StartPreview
  <2>1. drawer.open /\ "start" \in Purposes /\ "start" \in Trying
        BY <1>6 DEF StartPreview, Purposes, Trying
  <2>2. SaveCall("start") \in CallRecords /\ CallOK(SaveCall("start"), page, drawer.open, files, seen)
        BY <2>1, SavesCarryTheShown
  <2>3. LET c == SavedAlready("talk", "start")
        IN  /\ c \in CallRecords /\ CallOK(c, page, drawer.open, files, seen)
            /\ c.step = "talk" /\ c.for = "start" /\ c.current
        BY <2>1, OthersCarryTheShown
  <2>4. CASE Issues(SaveCall("start")) /\ UNCHANGED talk
        BY <1>0, <1>6, <2>2, <2>4, CallIssued DEF StartPreview
  <2>5. CASE Issues(SavedAlready("talk", "start")) /\ talk' = "starting"
        BY <1>0, <1>6, <2>1, <2>3, <2>5, CallIssued DEF StartPreview
  <2> QED BY <1>6, <2>4, <2>5 DEF StartPreview
<1> QED BY <1>1, <1>2, <1>3, <1>4, <1>5, <1>6

\* What is known stays known while files only grow and more is shown.
LEMMA RecordStays ==
  ASSUME NEW F \in Registers, NEW G \in Registers, Grows(F, G), NEW s, NEW t, s \subseteq t,
         NEW r \in ShownRecords, Known(r, F[r.agent], s)
  PROVE  Known(r, G[r.agent], t)
<1>1. r.agent \in Agents /\ r.revision \in Nat
      BY DEF ShownRecords
<1>2. F[r.agent] \in FileRecords /\ G[r.agent] \in FileRecords
      BY <1>1 DEF Registers
<1> QED BY <1>1, <1>2, KnownStays DEF Grows

\* The files and the table of requests have their types, and files grow from themselves.
LEMMA FilesAreRegisters == EditorTyped => files \in Registers /\ requests \in Tables /\ Grows(files, files)
  BY DEF EditorTyped, Registers, Tables, Grows

\* What the editor shows is known after a step that does not touch it, too.
LEMMA ShownStays ==
  ASSUME EditorInv, editor.record # Nothing \/ drawer.open,
         files' \in Registers, Grows(files, files'), seen \subseteq seen'
  PROVE  /\ page # Nothing /\ editor.record \in ShownRecords
         /\ Known(editor.record, files'[editor.record.agent], seen')
<1>1. page # Nothing /\ editor.record \in ShownRecords /\ Known(editor.record, files[editor.record.agent], seen)
      BY ShownIsKnown
<1>2. files \in Registers
      BY FilesAreRegisters DEF EditorInv
<1> QED BY <1>1, <1>2, RecordStays

\* The calls stay sound while the page stays and the drawer does not close.
LEMMA CallsAwait ==
  ASSUME EditorInv, requests' = requests, page' = page, drawer.open => drawer'.open,
         files' \in Registers, Grows(files, files'), seen \subseteq seen'
  PROVE  CallsOK(requests', page', drawer'.open, files', seen')
<1>1. files \in Registers /\ requests \in Tables /\ CallsOK(requests, page, drawer.open, files, seen)
      BY FilesAreRegisters DEF EditorInv
<1>2. Hushes(requests, requests)
      BY <1>1, CallsHush
<1>3. \A i \in Slots : requests[i] # Free => /\ requests[i].mounted => page # Nothing
                                             /\ requests[i].for \in Trying /\ requests[i].current => drawer'.open
      BY <1>1 DEF CallsOK, CallOK
<1> QED BY <1>1, <1>2, <1>3, CallsStay

\* The user leaves the builder: its calls are unmounted, its drawer goes.
LEMMA LeavingKeeps ==
  ASSUME EditorInv, Leaves, requests' \in Tables, Hushes(requests, requests'),
         \A i \in Slots : requests'[i] # Free => ~requests'[i].mounted /\ ~requests'[i].current,
         UNCHANGED <<files, begun, edits, seen>>
  PROVE  EditorInv'
<1>0. EditorTyped /\ ScreenOK /\ PreviewIsAttended /\ CallsOK(requests, page, drawer.open, files, seen)
      /\ files \in Registers /\ requests \in Tables /\ Grows(files, files)
      BY FilesAreRegisters DEF EditorInv
<1>1. page' = Nothing /\ editor' = Blank
      BY DEF Leaves
<1>2. ~drawer'.open /\ talk' = "off" /\ drawer' \in [open : BOOLEAN, owned : BOOLEAN]
  <2>1. talk # "off" => drawer.open /\ (drawer.owned \/ Previews # {})
        BY <1>0 DEF PreviewIsAttended
  <2>2. drawer.open => page # Nothing
        BY <1>0 DEF ScreenOK
  <2>3. CASE page = Nothing
    <3>1. drawer' = drawer /\ talk' = talk
          BY <2>3 DEF Leaves
    <3> QED BY <1>0, <2>1, <2>2, <2>3, <3>1 DEF EditorTyped
  <2>4. CASE page # Nothing
    <3>1. drawer' = Closed /\ talk' = IF drawer.owned \/ Previews # {} THEN "off" ELSE talk
          BY <2>4 DEF Leaves, DrawerGoes
    <3>2. talk' = "off"
          BY <2>1, <3>1
    <3> QED BY <3>1, <3>2, ClosedDrawer
  <2> QED BY <2>3, <2>4
<1>3. CallsOK(requests', page', drawer'.open, files', seen')
      BY <1>0, CallsStay
<1>4. \A i \in Slots : i > begun' => requests'[i] = Free
      BY <1>0, FreeIsNoCall DEF Hushes, EditorTyped
<1>5. EditorTyped'
      BY <1>0, <1>1, <1>2, <1>4 DEF EditorTyped, Tables, Blank, Texts
<1>6. ScreenOK'
      BY <1>0, <1>1, <1>2 DEF ScreenOK, Blank
<1>7. PreviewIsAttended'
      BY <1>2 DEF PreviewIsAttended
<1> QED BY <1>3, <1>5, <1>6, <1>7 DEF EditorInv

\* The page's own steps.
LEMMA PageKeeps ==
  ASSUME EditorInv, Leave \/ Reload \/ \E a \in Agents : GoTo(a) PROVE EditorInv'
<1>0. EditorTyped /\ ScreenOK /\ PreviewIsAttended /\ CallsOK(requests, page, drawer.open, files, seen)
      /\ files \in Registers /\ requests \in Tables /\ Grows(files, files)
      BY FilesAreRegisters DEF EditorInv
<1>1. CASE Leave
  <2>1. requests' = Unmounted(requests) /\ Leaves /\ UNCHANGED <<files, begun, edits, seen>>
        BY <1>1 DEF Leave
  <2> QED BY <1>0, <2>1, CallsHush, LeavingKeeps
<1>2. ASSUME NEW a \in Agents, GoTo(a)
      PROVE  EditorInv'
  <2>1. Hushes(requests, requests)
        BY <1>0, CallsHush
  <2>2. /\ IF page = Nothing THEN BeginsLoad(requests, a) /\ UNCHANGED <<drawer, talk>>
           ELSE BeginsLoad(GenerationEnds(Superseded(requests)), a) /\ DrawerGoes
        /\ page' = a /\ UNCHANGED <<files, edits, seen>>
        BY <1>2 DEF GoTo
  <2> QED BY <1>0, <2>1, <2>2, BuilderOpens
<1>3. CASE Reload
  <2> DEFINE c == Call("load", "load", page)
  <2>1. /\ page # Nothing /\ page \in Agents /\ begun \in Nat /\ begun + 1 \in Slots /\ begun' = begun + 1
        /\ requests' = [requests EXCEPT ![begun + 1] = c] /\ editor.record = Nothing /\ editor' = Blank
        /\ UNCHANGED <<files, page, drawer, talk, edits, seen>>
        BY <1>0, <1>3, EditorAssumption DEF Reload, BeginsLoad, IssuesAmong, Slots, EditorTyped
  <2>2. c \in CallRecords /\ c.step = "load" /\ c.for = "load" /\ c.reply = Nothing
        BY <2>1 DEF Call, CallRecords, Steps, Purposes, Texts
  <2> HIDE DEF c
  <2>3. CallOK(c, page, drawer.open, files', seen')
        BY <2>1, <2>2 DEF CallOK, Trying, Revised
  <2>4. /\ begun' \in Nat /\ begun <= begun' /\ begun + 1 <= begun' /\ page' = page
        /\ drawer'.open = drawer.open /\ files' \in Registers /\ seen \subseteq seen' /\ Grows(files, files')
        BY <1>0, <2>1
  <2>5. /\ requests' \in Tables /\ CallsOK(requests', page', drawer'.open, files', seen')
        /\ \A i \in Slots : i > begun' => requests'[i] = Free
        /\ \A i \in Slots \ {begun + 1} : requests'[i] = requests[i]
        BY <2>1, <2>2, <2>3, <2>4, OneCallChanges
  <2>6. EditorTyped'
        BY <1>0, <2>1, <2>4, <2>5 DEF EditorTyped, Tables, Blank, Texts
  <2>7. ScreenOK'
        BY <1>0, <2>1 DEF ScreenOK, Blank
  <2>8. \A i \in Slots : requests[i].step = "talk" => requests'[i] = requests[i]
        BY <1>0, <2>1, <2>5 DEF EditorTyped, Free
  <2>9. PreviewIsAttended'
        BY <1>0, <2>1, <2>8, AttendedStays
  <2> QED BY <2>5, <2>6, <2>7, <2>9 DEF EditorInv
<1> QED BY <1>1, <1>2, <1>3

\* What users type, here and elsewhere.
LEMMA EditsKeep ==
  ASSUME EditorInv, Type \/ Restore \/ \E a \in Agents : OthersEdit(a) PROVE EditorInv'
<1>0. EditorTyped /\ ScreenOK /\ PreviewIsAttended /\ CallsOK(requests, page, drawer.open, files, seen)
      /\ files \in Registers /\ requests \in Tables /\ Grows(files, files)
      BY FilesAreRegisters DEF EditorInv
<1>1. ASSUME NEW more \in Texts, NEW draft0 \in Texts, draft0 \subseteq seen \union more,
             seen' = seen \union more, editor' = [editor EXCEPT !.draft = draft0], edits' = edits + 1,
             UNCHANGED <<files, page, requests, begun, drawer, talk>>
      PROVE  EditorInv'
  <2>1. files' \in Registers /\ Grows(files, files') /\ seen \subseteq seen' /\ seen' \in Texts
        BY <1>0, <1>1 DEF EditorTyped, Texts
  <2>2. CallsOK(requests', page', drawer'.open, files', seen')
        BY <1>1, <2>1, CallsAwait
  <2>3. /\ editor' \in [record : ShownRecords \union {Nothing}, draft : Texts, current : BOOLEAN]
        /\ editor'.record = editor.record /\ editor'.draft = draft0
        BY <1>0, <1>1 DEF EditorTyped
  <2>4. EditorTyped'
        BY <1>0, <1>1, <2>1, <2>3 DEF EditorTyped
  <2>5. editor.record # Nothing \/ drawer.open =>
           /\ page # Nothing /\ editor.record \in ShownRecords
           /\ Known(editor.record, files'[editor.record.agent], seen')
        BY <2>1, ShownStays
  <2>6. ScreenOK'
        BY <1>0, <1>1, <2>3, <2>5 DEF ScreenOK
  <2>7. PreviewIsAttended'
        BY <1>0, <1>1, AttendedStays
  <2> QED BY <2>2, <2>4, <2>6, <2>7 DEF EditorInv
<1>2. CASE Type
  <2>1. /\ {edits + 1} \in Texts /\ editor.draft \union {edits + 1} \in Texts
        /\ editor.draft \union {edits + 1} \subseteq seen \union {edits + 1}
        BY <1>0 DEF EditorTyped, Texts, ScreenOK
  <2>2. editor' = [editor EXCEPT !.draft = editor.draft \union {edits + 1}]
        BY <1>2 DEF Type
  <2> QED BY <1>1, <1>2, <2>1, <2>2 DEF Type
<1>3. CASE Restore
  <2>1. PICK version \in files[editor.record.agent].versions :
           editor' = [editor EXCEPT !.draft = version] /\ seen' = seen \union version
        BY <1>3 DEF Restore
  <2>2. editor.record.agent \in Agents
        BY <1>3, ShownIsKnown DEF Restore, Visible
  <2>3. version \in Texts
        BY <1>0, <2>2 DEF Registers, FileRecords
  <2> QED BY <1>1, <1>3, <2>1, <2>3 DEF Restore
<1>4. ASSUME NEW a \in Agents, OthersEdit(a)
      PROVE  EditorInv'
  <2> DEFINE file == [files[a] EXCEPT !.revision = @ + 1, !.content = @ \union {edits + 1}]
  <2>1. /\ files' = [files EXCEPT ![a] = file] /\ edits' = edits + 1 /\ files[a].life = "live"
        /\ UNCHANGED <<page, editor, requests, begun, drawer, talk, seen>>
        BY <1>4 DEF OthersEdit
  <2>2. file \in FileRecords /\ files[a].revision < file.revision /\ file.life = "live"
    <3>1. files[a] \in FileRecords /\ files[a].revision + 1 \in Nat /\ files[a].content \union {edits + 1} \in Texts
          BY <1>0 DEF Registers, FileRecords, EditorTyped, Texts
    <3> DEFINE r == files[a].revision + 1
               t == files[a].content \union {edits + 1}
    <3>2. file = [files[a] EXCEPT !.revision = r, !.content = t] /\ files[a].revision < r
          BY <3>1 DEF FileRecords
    <3> HIDE DEF r, t
    <3> QED BY <2>1, <3>1, <3>2 DEF FileRecords, r, t
  <2> HIDE DEF file
  <2>3. files' \in Registers /\ Grows(files, files') /\ edits' \in Nat
    <3>1. \A b \in Agents : files'[b] = IF b = a THEN file ELSE files[b]
          BY <1>0, <2>1 DEF Registers
    <3> QED BY <1>0, <2>1, <2>2, <3>1 DEF Registers, Grows, EditorTyped
  <2>4. CallsOK(requests', page', drawer'.open, files', seen')
        BY <2>1, <2>3, CallsAwait
  <2>5. EditorTyped'
        BY <1>0, <2>1, <2>3 DEF EditorTyped, Registers
  <2>6. editor.record # Nothing \/ drawer.open =>
           /\ page # Nothing /\ editor.record \in ShownRecords
           /\ Known(editor.record, files'[editor.record.agent], seen')
    <3>1. seen \subseteq seen'
          BY <2>1
    <3> QED BY <2>3, <3>1, ShownStays
  <2>7. \A b \in Agents : files'[b].life = "unborn" => files'[b].content = {} /\ files'[b].revision = 0
        BY <1>0, <2>1, <2>2 DEF ScreenOK, Registers
  <2>8. ScreenOK'
        BY <1>0, <2>1, <2>6, <2>7 DEF ScreenOK
  <2>9. PreviewIsAttended'
        BY <1>0, <2>1, AttendedStays
  <2> QED BY <2>4, <2>5, <2>8, <2>9 DEF EditorInv
<1> QED BY <1>2, <1>3, <1>4

\* The buttons of the drawer, and the end of its conversation.
LEMMA DrawerKeeps ==
  ASSUME EditorInv, OpenPreview \/ ClosePreview \/ EndPreview \/ HangsUp \/ RestartPreview PROVE EditorInv'
<1>0. EditorTyped /\ ScreenOK /\ PreviewIsAttended /\ CallsOK(requests, page, drawer.open, files, seen)
      /\ files \in Registers /\ requests \in Tables /\ Grows(files, files)
      BY FilesAreRegisters DEF EditorInv
<1>1. ASSUME requests' = requests, UNCHANGED <<files, page, editor, begun, edits, seen>>,
             drawer' \in [open : BOOLEAN, owned : BOOLEAN], drawer.open => drawer'.open,
             drawer'.open => drawer.open \/ Visible, talk' = "off"
      PROVE  EditorInv'
  <2>1. CallsOK(requests', page', drawer'.open, files', seen')
        BY <1>0, <1>1, CallsAwait
  <2>2. EditorTyped'
        BY <1>0, <1>1 DEF EditorTyped
  <2>3. drawer'.open => /\ page # Nothing /\ editor.record \in ShownRecords
                        /\ Known(editor.record, files[editor.record.agent], seen)
        BY <1>1, ShownIsKnown DEF Visible
  <2>4. ScreenOK'
        BY <1>0, <1>1, <2>3 DEF ScreenOK
  <2>5. PreviewIsAttended'
        BY <1>1 DEF PreviewIsAttended
  <2> QED BY <2>1, <2>2, <2>4, <2>5 DEF EditorInv
<1>2. CASE OpenPreview
  <2>1. /\ ~drawer.open /\ Visible /\ drawer' = [Closed EXCEPT !.open = TRUE]
        /\ UNCHANGED <<files, page, editor, requests, begun, talk, edits, seen>>
        BY <1>2 DEF OpenPreview
  <2>2. talk = "off"
        BY <1>0, <2>1 DEF PreviewIsAttended
  <2>3. drawer' \in [open : BOOLEAN, owned : BOOLEAN]
        BY <2>1 DEF Closed
  <2> QED BY <1>1, <2>1, <2>2, <2>3
<1>3. CASE EndPreview
  <2>1. /\ drawer' = [drawer EXCEPT !.owned = FALSE] /\ talk' = "off"
        /\ UNCHANGED <<files, page, editor, requests, begun, edits, seen>>
        BY <1>3 DEF EndPreview
  <2>2. drawer' \in [open : BOOLEAN, owned : BOOLEAN] /\ drawer'.open = drawer.open
        BY <1>0, <2>1 DEF EditorTyped
  <2> QED BY <1>1, <2>1, <2>2
<1>4. CASE HangsUp
  <2>1. talk' = "off" /\ UNCHANGED <<files, page, editor, requests, begun, drawer, edits, seen>>
        BY <1>4 DEF HangsUp
  <2>2. drawer' \in [open : BOOLEAN, owned : BOOLEAN] /\ drawer'.open = drawer.open
        BY <1>0, <2>1 DEF EditorTyped
  <2> QED BY <1>1, <2>1, <2>2
<1>5. CASE ClosePreview
  <2>1. /\ drawer.open /\ drawer' = Closed /\ requests' = GenerationEnds(requests)
        /\ talk' = IF drawer.owned \/ Previews # {} THEN "off" ELSE talk
        /\ UNCHANGED <<files, page, editor, begun, edits, seen>>
        BY <1>5 DEF ClosePreview, DrawerGoes
  <2>2. talk' = "off"
    <3>1. talk # "off" => drawer.owned \/ Previews # {}
          BY <1>0 DEF PreviewIsAttended
    <3> QED BY <2>1, <3>1
  <2>3. /\ requests' \in Tables /\ Hushes(requests, requests')
        /\ \A i \in Slots : requests'[i] # Free /\ requests'[i].for \in Trying => ~requests'[i].current
        BY <1>0, <2>1, CallsHush
  <2>4. \A i \in Slots : requests'[i] # Free => /\ requests'[i].mounted => page # Nothing
                                                /\ requests'[i].for \in Trying /\ requests'[i].current => drawer'.open
    <3> SUFFICES ASSUME NEW i \in Slots, requests'[i] # Free, requests'[i].mounted PROVE page # Nothing
        BY <2>3
    <3>1. requests[i] \in CallRecords /\ requests[i].mounted
          BY <2>3 DEF Hushes, Quieter
    <3> QED BY <1>0, <3>1, FreeIsNoCall DEF CallsOK, CallOK
  <2>5. CallsOK(requests', page', drawer'.open, files', seen')
    <3>1. page' = page /\ files' = files /\ seen' = seen
          BY <2>1
    <3>2. CallsOK(requests', page, drawer'.open, files, seen)
          BY <1>0, <2>3, <2>4, CallsStay
    <3> QED BY <3>1, <3>2
  <2>6. \A i \in Slots : i > begun' => requests'[i] = Free
        BY <1>0, <2>1, <2>3, FreeIsNoCall DEF Hushes, EditorTyped
  <2>7. ~drawer'.open /\ drawer' \in [open : BOOLEAN, owned : BOOLEAN]
        BY <2>1, ClosedDrawer
  <2>8. EditorTyped'
        BY <1>0, <2>1, <2>2, <2>3, <2>6, <2>7 DEF EditorTyped, Tables
  <2>9. ScreenOK'
        BY <1>0, <2>1, <2>7 DEF ScreenOK
  <2>10. PreviewIsAttended'
        BY <2>2 DEF PreviewIsAttended
  <2> QED BY <2>5, <2>8, <2>9, <2>10 DEF EditorInv
<1>6. CASE RestartPreview
  <2>1. drawer.open /\ "restart" \in Purposes /\ "restart" \in Trying
        BY <1>6 DEF RestartPreview, Purposes, Trying
  <2>2. CASE Issues(SaveCall("restart")) /\ UNCHANGED <<drawer, talk>>
    <3>1. SaveCall("restart") \in CallRecords /\ CallOK(SaveCall("restart"), page, drawer.open, files, seen)
          BY <2>1, SavesCarryTheShown
    <3>2. talk \in {"off", "starting", "on"}
          BY <1>0 DEF EditorTyped
    <3> QED BY <1>6, <2>2, <3>1, <3>2, CallIssued DEF RestartPreview
  <2>3. CASE LET c == SavedAlready("stop", "restart") IN Issues(c) /\ StopsForRestart(c)
    <3> DEFINE c == SavedAlready("stop", "restart")
    <3>1. c \in CallRecords /\ CallOK(c, page, drawer.open, files, seen)
          BY <2>1, OthersCarryTheShown
    <3> HIDE DEF c
    <3>2. /\ begun + 1 \in Slots /\ begun' = begun + 1 /\ requests' = [requests EXCEPT ![begun + 1] = c]
          /\ talk' = "off" /\ drawer' = [drawer EXCEPT !.owned = FALSE] /\ begun \in Nat
          /\ UNCHANGED <<files, page, editor, edits, seen>>
          BY <1>0, <1>6, <2>3, EditorAssumption
          DEF RestartPreview, Issues, IssuesAmong, StopsForRestart, EditorTyped, Slots, c
    <3>3. /\ begun' \in Nat /\ begun <= begun' /\ begun + 1 <= begun' /\ page' = page
          /\ files' \in Registers /\ seen \subseteq seen' /\ Grows(files, files')
          BY <1>0, <3>2
    <3>4. drawer' \in [open : BOOLEAN, owned : BOOLEAN] /\ drawer'.open = drawer.open
          BY <1>0, <3>2 DEF EditorTyped
    <3>5. CallOK(c, page, drawer.open, files', seen')
          BY <3>1, <3>2
    <3>6. /\ requests' \in Tables /\ CallsOK(requests', page', drawer'.open, files', seen')
          /\ \A i \in Slots : i > begun' => requests'[i] = Free
          BY <3>1, <3>2, <3>3, <3>4, <3>5, OneCallChanges
    <3>7. EditorTyped'
          BY <1>0, <3>2, <3>3, <3>4, <3>6 DEF EditorTyped, Tables
    <3>8. ScreenOK'
          BY <1>0, <3>2, <3>4 DEF ScreenOK
    <3>9. PreviewIsAttended'
          BY <3>2 DEF PreviewIsAttended
    <3> QED BY <3>6, <3>7, <3>8, <3>9 DEF EditorInv
  <2> QED BY <1>6, <2>2, <2>3 DEF RestartPreview
<1> QED BY <1>2, <1>3, <1>4, <1>5, <1>6

\* A call that is answered is as sound as its answer.
LEMMA AnsweredIsOK ==
  ASSUME NEW c \in CallRecords, NEW p, NEW o, NEW F, NEW s, CallOK(c, p, o, F, s),
         NEW x \in Answers \union {Nothing, Failed},
         x \notin {Nothing, Failed} => /\ x.agent = c.agent /\ Told(x, F[c.agent])
                                       /\ c.step = "save" => x.content \subseteq s
  PROVE  LET d == [c EXCEPT !.reply = x] IN d \in CallRecords /\ CallOK(d, p, o, F, s)
<1> DEFINE d == [c EXCEPT !.reply = x]
<1>1. /\ d \in CallRecords /\ d.step = c.step /\ d.for = c.for /\ d.agent = c.agent /\ d.reply = x
      /\ d.revision = c.revision /\ d.content = c.content /\ d.mounted = c.mounted /\ d.current = c.current
      BY DEF CallRecords
<1> HIDE DEF d
<1>2. Known(c, F[c.agent], s) => Known(d, F[d.agent], s)
      BY <1>1 DEF Known
<1>3. CallOK(d, p, o, F, s)
      BY <1>1, <1>2 DEF CallOK
<1> QED BY <1>1, <1>3 DEF d

\* The gateway answers: the file of the call's agent is as it was or has grown.
LEMMA ServingKeeps ==
  ASSUME EditorInv, NEW i \in Slots, requests[i].step \notin {"free", "talk", "stop"},
         NEW file \in FileRecords, NEW x \in Answers \union {Nothing, Failed},
         files' = [files EXCEPT ![requests[i].agent] = file],
         LET old == files[requests[i].agent]
         IN  \/ old.revision < file.revision
             \/ old.revision = file.revision /\ file.content \subseteq old.content,
         file.life = "unborn" => file.content = {} /\ file.revision = 0,
         x \notin {Nothing, Failed} => /\ x.agent = requests[i].agent /\ Told(x, file)
                                       /\ requests[i].step = "save" => x.content \subseteq seen,
         requests' = [requests EXCEPT ![i].reply = x],
         UNCHANGED <<page, editor, begun, drawer, talk, edits, seen>>
  PROVE  EditorInv'
<1>0. EditorTyped /\ ScreenOK /\ PreviewIsAttended /\ CallsOK(requests, page, drawer.open, files, seen)
      /\ files \in Registers /\ requests \in Tables
      BY FilesAreRegisters DEF EditorInv
<1> DEFINE c == requests[i]
           d == [c EXCEPT !.reply = x]
<1>1. c \in CallRecords /\ c # Free /\ c.agent \in Agents
  <2>1. c \in CallRecords
        BY <1>0, CallsAreNotFree DEF Tables
  <2> QED BY <2>1, FreeIsNoCall DEF CallRecords
<1>2. files' \in Registers /\ Grows(files, files') /\ files'[c.agent] = file
  <2>1. \A a \in Agents : files'[a] = IF a = c.agent THEN file ELSE files[a]
        BY <1>0 DEF Registers
  <2>2. files' \in Registers
        BY <1>0, <2>1 DEF Registers
  <2> QED BY <1>0, <1>1, <2>1, <2>2 DEF Grows, Registers
<1>3. CallsOK(requests, page, drawer.open, files', seen')
  <2>1. Hushes(requests, requests)
        BY <1>0, CallsHush
  <2>2. \A j \in Slots : requests[j] # Free => /\ requests[j].mounted => page # Nothing
                                               /\ requests[j].for \in Trying /\ requests[j].current => drawer.open
        BY <1>0 DEF CallsOK, CallOK
  <2>3. seen \subseteq seen'
        OBVIOUS
  <2> QED BY <1>0, <1>2, <2>1, <2>2, <2>3, CallsStay
<1>4. CallOK(c, page, drawer.open, files', seen')
      BY <1>1, <1>3 DEF CallsOK
<1>5. x \notin {Nothing, Failed} => /\ x.agent = c.agent /\ Told(x, files'[c.agent])
                                    /\ c.step = "save" => x.content \subseteq seen'
      BY <1>2
<1>6. d \in CallRecords /\ CallOK(d, page, drawer.open, files', seen')
      BY <1>1, <1>4, <1>5, AnsweredIsOK
<1>7. requests' = [requests EXCEPT ![i] = d]
      BY <1>0, <1>1 DEF Tables, CallRecords
<1>8. i <= begun /\ begun \in Nat
      BY <1>0, <1>1 DEF EditorTyped, Slots
<1> HIDE DEF d
<1>9. /\ requests' \in Tables /\ CallsOK(requests', page', drawer'.open, files', seen')
      /\ \A j \in Slots : j > begun' => requests'[j] = Free
      /\ \A j \in Slots \ {i} : requests'[j] = requests[j]
  <2>1. /\ begun' \in Nat /\ begun <= begun' /\ i <= begun' /\ page' = page
        /\ drawer'.open = drawer.open /\ seen \subseteq seen'
        BY <1>8
  <2> QED BY <1>2, <1>6, <1>7, <2>1, OneCallChanges
<1>10. EditorTyped'
      BY <1>0, <1>2, <1>9 DEF EditorTyped, Tables, Registers
<1>11. editor.record # Nothing \/ drawer.open =>
          /\ page # Nothing /\ editor.record \in ShownRecords
          /\ Known(editor.record, files'[editor.record.agent], seen')
  <2>1. seen \subseteq seen'
        OBVIOUS
  <2> QED BY <1>2, <2>1, ShownStays
<1>12. \A a \in Agents : files'[a].life = "unborn" => files'[a].content = {} /\ files'[a].revision = 0
      BY <1>0 DEF ScreenOK, Registers
<1>13. ScreenOK'
      BY <1>0, <1>11, <1>12 DEF ScreenOK
<1>14. PreviewIsAttended'
  <2>1. \A j \in Slots : requests[j].step = "talk" => requests'[j] = requests[j]
        BY <1>9
  <2> QED BY <1>0, <2>1, AttendedStays
<1> QED BY <1>9, <1>10, <1>13, <1>14 DEF EditorInv

\* The gateway's answers, one by one.
LEMMA ServeKeeps ==
  ASSUME EditorInv, NEW i \in Slots, Serve(i) PROVE EditorInv'
<1>0. EditorTyped /\ ScreenOK /\ CallsOK(requests, page, drawer.open, files, seen)
      /\ files \in Registers /\ requests \in Tables
      BY FilesAreRegisters DEF EditorInv
<1> DEFINE c == requests[i]
           old == files[c.agent]
<1>1. c.step \notin {"free", "talk", "stop"} /\ UNCHANGED <<page, editor, begun, drawer, talk, edits, seen>>
      BY DEF Serve
<1>2. c \in CallRecords /\ c # Free /\ c.agent \in Agents /\ c.content \in Texts /\ old \in FileRecords
      /\ CallOK(c, page, drawer.open, files, seen)
  <2>1. c \in CallRecords
        BY <1>0, <1>1, CallsAreNotFree DEF Tables
  <2> QED BY <1>0, <2>1, FreeIsNoCall DEF CallRecords, CallsOK, Registers
<1>3. files = [files EXCEPT ![c.agent] = old]
      BY <1>0, <1>2 DEF Registers
<1>4. \A a \in Agents, file \in FileRecords :
         LET x == Answer(a, file)
         IN  x \in Answers /\ x.agent = a /\ x.content = file.content /\ x.revision = file.revision /\ Told(x, file)
      BY DEF Answer, Answers, FileRecords, Told
<1>5. old.life = "unborn" => old.content = {} /\ old.revision = 0
      BY <1>0, <1>2 DEF ScreenOK
<1>6. ASSUME requests' = [requests EXCEPT ![i].reply = Failed], UNCHANGED files
      PROVE  EditorInv'
  <2>1. files' = [files EXCEPT ![c.agent] = old]
        BY <1>3, <1>6
  <2> QED BY <1>1, <1>2, <1>5, <1>6, <2>1, ServingKeeps
<1>7. ASSUME requests' = [requests EXCEPT ![i].reply = Answer(c.agent, old)], UNCHANGED files, c.step # "save"
      PROVE  EditorInv'
  <2>1. files' = [files EXCEPT ![c.agent] = old]
        BY <1>3, <1>7
  <2> DEFINE x == Answer(c.agent, old)
  <2>2. x \in Answers /\ x.agent = c.agent /\ Told(x, old)
        BY <1>2, <1>4
  <2>3. requests' = [requests EXCEPT ![i].reply = x]
        BY <1>7
  <2> HIDE DEF x
  <2> QED BY <1>1, <1>2, <1>5, <1>7, <2>1, <2>2, <2>3, ServingKeeps
<1>8. ASSUME NEW file \in FileRecords, Writes(i, c.agent, file), file.life # "unborn",
             old.revision < file.revision \/ (old.revision = file.revision /\ file.content \subseteq old.content),
             c.step = "save" => file.content \subseteq seen
      PROVE  EditorInv'
  <2> DEFINE x == Answer(c.agent, file)
  <2>1. x \in Answers /\ x.agent = c.agent /\ Told(x, file) /\ x.content = file.content
        BY <1>2, <1>4
  <2>2. requests' = [requests EXCEPT ![i].reply = x] /\ files' = [files EXCEPT ![c.agent] = file]
        BY <1>8 DEF Writes
  <2> HIDE DEF x
  <2> QED BY <1>1, <1>2, <1>8, <2>1, <2>2, ServingKeeps
<1>9. ASSUME c.step = "save", Matches(c), Writes(i, c.agent, [old EXCEPT !.revision = @ + 1, !.content = c.content])
      PROVE  EditorInv'
  <2> DEFINE r == old.revision + 1
             file == [old EXCEPT !.revision = r, !.content = c.content]
  <2>1. r \in Nat /\ old.revision < r /\ old.life = "live"
        BY <1>2, <1>9 DEF FileRecords, Matches
  <2>2. Writes(i, c.agent, file)
        BY <1>9
  <2> HIDE DEF r
  <2>3. file \in FileRecords /\ file.revision = r /\ file.content = c.content /\ file.life = "live"
        BY <1>2, <2>1 DEF FileRecords
  <2>4. c.content \subseteq seen
        BY <1>2, <1>9 DEF CallOK
  <2> HIDE DEF file
  <2> QED BY <1>8, <2>1, <2>2, <2>3, <2>4
<1>10. ASSUME c.step = "publish", Matches(c),
              Writes(i, c.agent, [old EXCEPT !.revision = @ + 1, !.latest = old.content, !.versions = @ \union {old.content}])
       PROVE  EditorInv'
  <2> DEFINE r == old.revision + 1
             vs == old.versions \union {old.content}
             file == [old EXCEPT !.revision = r, !.latest = old.content, !.versions = vs]
  <2>1. r \in Nat /\ old.revision < r /\ old.life = "live" /\ vs \in SUBSET Texts /\ old.content \in Texts
        BY <1>2, <1>10 DEF FileRecords, Matches
  <2>2. Writes(i, c.agent, file)
        BY <1>10
  <2> HIDE DEF r, vs
  <2>3. file \in FileRecords /\ file.revision = r /\ file.life = "live"
        BY <1>2, <2>1 DEF FileRecords
  <2> HIDE DEF file
  <2> QED BY <1>8, <1>10, <2>1, <2>2, <2>3
<1>11. ASSUME c.step = "delete",
              Writes(i, c.agent, [old EXCEPT !.life = "gone", !.content = {}, !.versions = {}, !.latest = Nothing])
       PROVE  EditorInv'
  <2> DEFINE file == [old EXCEPT !.life = "gone", !.content = {}, !.versions = {}, !.latest = Nothing]
  <2>1. Writes(i, c.agent, file)
        BY <1>11
  <2>2. file \in FileRecords /\ file.revision = old.revision /\ file.content = {} /\ file.life = "gone"
        BY <1>2 DEF FileRecords, Texts
  <2> HIDE DEF file
  <2> QED BY <1>8, <1>11, <2>1, <2>2
<1>12. ASSUME c.step = "create", old.life = "unborn",
              Writes(i, c.agent, [old EXCEPT !.life = "live", !.revision = 1, !.content = c.content])
       PROVE  EditorInv'
  <2> DEFINE file == [old EXCEPT !.life = "live", !.revision = 1, !.content = c.content]
  <2>1. Writes(i, c.agent, file)
        BY <1>12
  <2>2. file \in FileRecords /\ file.revision = 1 /\ file.content = c.content /\ file.life = "live"
        BY <1>2 DEF FileRecords
  <2>3. old.revision < file.revision
        BY <1>5, <1>12, <2>2
  <2> HIDE DEF file
  <2> QED BY <1>8, <1>12, <2>1, <2>2, <2>3
<1> QED BY <1>6, <1>7, <1>9, <1>10, <1>11, <1>12 DEF Serve

EditorRecords == [record : ShownRecords \union {Nothing}, draft : Texts, current : BOOLEAN]

\* A continuation: its call ends or goes on to d, and the editor shows what it showed
\* or, if it is still mounted, what the call was answered.
LEMMA ContinuationKeeps ==
  ASSUME EditorInv, NEW i \in Slots, requests[i].step # "free",
         NEW d \in CallRecords \union {Free}, requests' = [requests EXCEPT ![i] = d],
         UNCHANGED <<files, page, begun, edits>>,
         seen \subseteq seen', seen' \in Texts,
         editor' \in EditorRecords, editor'.draft \subseteq seen',
         \/ editor'.record = editor.record
         \/ /\ requests[i].mounted /\ editor'.record \in ShownRecords
            /\ Known(editor'.record, files[editor'.record.agent], seen'),
         drawer' \in [open : BOOLEAN, owned : BOOLEAN], drawer'.open = drawer.open,
         talk' \in {"off", "starting", "on"},
         d # Free => CallOK(d, page, drawer.open, files, seen'),
         \/ requests[i].step # "talk" /\ drawer' = drawer /\ talk' = talk
         \/ PreviewIsAttended'
  PROVE  EditorInv'
<1>0. EditorTyped /\ ScreenOK /\ PreviewIsAttended /\ CallsOK(requests, page, drawer.open, files, seen)
      /\ files \in Registers /\ requests \in Tables /\ Grows(files, files)
      BY FilesAreRegisters DEF EditorInv
<1> DEFINE c == requests[i]
<1>1. c \in CallRecords /\ c # Free /\ i <= begun /\ begun \in Nat
  <2>1. c \in CallRecords
        BY <1>0, CallsAreNotFree DEF Tables
  <2> QED BY <1>0, <2>1, FreeIsNoCall DEF EditorTyped, Slots
<1>2. /\ requests' \in Tables /\ CallsOK(requests', page', drawer'.open, files', seen')
      /\ \A j \in Slots : j > begun' => requests'[j] = Free
      /\ \A j \in Slots \ {i} : requests'[j] = requests[j]
  <2>1. /\ begun' \in Nat /\ begun <= begun' /\ i <= begun' /\ page' = page
        /\ files' \in Registers /\ Grows(files, files')
        BY <1>0, <1>1
  <2>2. d # Free => CallOK(d, page, drawer.open, files', seen')
        OBVIOUS
  <2> QED BY <2>1, <2>2, OneCallChanges
<1>3. EditorTyped'
      BY <1>0, <1>2 DEF EditorTyped, Tables, EditorRecords
<1>4. editor'.record # Nothing \/ drawer'.open =>
         /\ page # Nothing /\ editor'.record \in ShownRecords
         /\ Known(editor'.record, files[editor'.record.agent], seen')
  <2>1. CASE editor'.record = editor.record
    <3>1. files' \in Registers /\ Grows(files, files')
          BY <1>0
    <3>2. editor.record # Nothing \/ drawer.open =>
             /\ page # Nothing /\ editor.record \in ShownRecords
             /\ Known(editor.record, files'[editor.record.agent], seen')
          BY <3>1, ShownStays
    <3> QED BY <2>1, <3>2
  <2>2. CASE /\ c.mounted /\ editor'.record \in ShownRecords
             /\ Known(editor'.record, files[editor'.record.agent], seen')
    <3>1. page # Nothing
          BY <1>0, <1>1, <2>2 DEF CallsOK, CallOK
    <3> QED BY <2>2, <3>1
  <2> QED BY <2>1, <2>2
<1>5. ScreenOK'
      BY <1>0, <1>4 DEF ScreenOK
<1>6. PreviewIsAttended'
  <2>1. CASE requests[i].step # "talk" /\ drawer' = drawer /\ talk' = talk
    <3>1. \A j \in Slots : requests[j].step = "talk" => requests'[j] = requests[j]
          BY <1>2, <2>1
    <3> QED BY <1>0, <2>1, <3>1, AttendedStays
  <2> QED BY <2>1
<1> QED BY <1>2, <1>3, <1>5, <1>6 DEF EditorInv

\* A save that was answered goes on with the revision it was given.
LEMMA SavedIsOK ==
  ASSUME NEW c \in CallRecords, NEW p, NEW o, NEW F, NEW s, CallOK(c, p, o, F, s),
         NEW r \in Nat, NEW text \in Texts, Known([revision |-> r], F[c.agent], s)
  PROVE  LET d == [[c EXCEPT !.step = "settle", !.revision = r, !.content = text] EXCEPT !.reply = Nothing]
         IN  d \in CallRecords /\ CallOK(d, p, o, F, s)
<1> DEFINE d == [[c EXCEPT !.step = "settle", !.revision = r, !.content = text] EXCEPT !.reply = Nothing]
<1>1. /\ d \in CallRecords /\ d.step = "settle" /\ d.for = c.for /\ d.agent = c.agent /\ d.reply = Nothing
      /\ d.revision = r /\ d.mounted = c.mounted /\ d.current = c.current
      BY DEF CallRecords, Steps
<1> HIDE DEF d
<1>2. Known(d, F[d.agent], s)
      BY <1>1 DEF Known
<1>3. CallOK(d, p, o, F, s)
      BY <1>1, <1>2 DEF CallOK
<1> QED BY <1>1, <1>3 DEF d

\* A call's continuation that keeps what it captured.
LEMMA StepIsOK ==
  ASSUME NEW c \in CallRecords, NEW p, NEW o, NEW F, NEW s, CallOK(c, p, o, F, s),
         NEW step \in {"check", "publish", "talk", "stop"},
         step \in {"talk", "stop"} => c.for \in Trying,
         step \in {"check", "publish"} => c.step \in Revised
  PROVE  LET d == [[c EXCEPT !.step = step] EXCEPT !.reply = Nothing]
         IN  /\ d \in CallRecords /\ CallOK(d, p, o, F, s)
             /\ d.step = step /\ d.for = c.for /\ d.current = c.current
<1> DEFINE d == [[c EXCEPT !.step = step] EXCEPT !.reply = Nothing]
<1>1. /\ d \in CallRecords /\ d.step = step /\ d.for = c.for /\ d.agent = c.agent /\ d.reply = Nothing
      /\ d.revision = c.revision /\ d.mounted = c.mounted /\ d.current = c.current
      BY DEF CallRecords, Steps
<1> HIDE DEF d
<1>2. step \in Revised => Known(d, F[d.agent], s)
      BY <1>1 DEF CallOK, Known, Revised
<1>3. CallOK(d, p, o, F, s)
      BY <1>1, <1>2 DEF CallOK
<1> QED BY <1>1, <1>3 DEF d

\* What is shown of an answer is known from then on.
LEMMA ShowingIsKnown ==
  ASSUME NEW x \in Answers, NEW F, NEW s, Told(x, F[x.agent])
  PROVE  /\ RecordOf(x) \in ShownRecords /\ RecordOf(x).agent = x.agent
         /\ Known(RecordOf(x), F[RecordOf(x).agent], s \union x.content)
<1>1. /\ RecordOf(x) \in ShownRecords /\ RecordOf(x).agent = x.agent /\ RecordOf(x).revision = x.revision
      BY DEF RecordOf, ShownRecords, Answers
<1> QED BY <1>1 DEF Known, Told

\* The call of a continuation, and what its answer says.
LEMMA CallRead ==
  ASSUME EditorInv, NEW i \in Slots, requests[i].step # "free"
  PROVE  LET c == requests[i]
         IN  /\ c \in CallRecords /\ c # Free /\ CallOK(c, page, drawer.open, files, seen)
             /\ c.reply \notin {Nothing, Failed} =>
                   /\ c.reply \in Answers /\ c.reply.agent = c.agent /\ Told(c.reply, files[c.reply.agent])
                   /\ c.reply.content \in Texts /\ c.reply.current \in BOOLEAN /\ c.reply.revision \in Nat
<1> DEFINE c == requests[i]
<1>1. c \in CallRecords /\ c # Free
      BY CallsAreNotFree, FreeIsNoCall, FilesAreRegisters DEF EditorInv, Tables
<1>2. CallOK(c, page, drawer.open, files, seen)
      BY <1>1 DEF EditorInv, CallsOK
<1>3. c.reply \in Answers \union {Nothing, Failed}
      BY <1>1 DEF CallRecords
<1>4. ASSUME c.reply \notin {Nothing, Failed}
      PROVE  /\ c.reply \in Answers /\ c.reply.agent = c.agent /\ Told(c.reply, files[c.reply.agent])
             /\ c.reply.content \in Texts /\ c.reply.current \in BOOLEAN /\ c.reply.revision \in Nat
      BY <1>2, <1>3, <1>4 DEF CallOK, Answers
<1> QED BY <1>1, <1>2, <1>4

\* An editor that is still there shows an answer.
LEMMA ShowingKeeps ==
  ASSUME EditorInv, NEW i \in Slots, requests[i].step \notin {"free", "talk"},
         requests[i].reply \notin {Nothing, Failed},
         NEW d \in CallRecords \union {Free}, requests' = [requests EXCEPT ![i] = d],
         d # Free => CallOK(d, page, drawer.open, files, seen \union requests[i].reply.content),
         requests[i].mounted, NEW b \in BOOLEAN, Shows(requests[i].reply, b),
         UNCHANGED <<files, page, begun, drawer, talk, edits>>
  PROVE  EditorInv'
<1> DEFINE c == requests[i]
           x == c.reply
<1>0. EditorTyped /\ drawer \in [open : BOOLEAN, owned : BOOLEAN] /\ talk \in {"off", "starting", "on"} /\ seen \in Texts
      BY DEF EditorInv, EditorTyped
<1>1. x \in Answers /\ Told(x, files[x.agent]) /\ x.content \in Texts
      BY CallRead
<1>2. /\ RecordOf(x) \in ShownRecords /\ Known(RecordOf(x), files[RecordOf(x).agent], seen \union x.content)
      BY <1>1, ShowingIsKnown
<1>3. editor' = [record |-> RecordOf(x), draft |-> x.content, current |-> b] /\ seen' = seen \union x.content
      BY DEF Shows
<1>4. /\ editor' \in EditorRecords /\ editor'.record = RecordOf(x) /\ editor'.draft \subseteq seen'
      /\ seen' \in Texts /\ seen \subseteq seen'
      BY <1>0, <1>1, <1>2, <1>3 DEF EditorRecords, Texts
<1>5. /\ requests[i].mounted /\ editor'.record \in ShownRecords
      /\ Known(editor'.record, files[editor'.record.agent], seen')
      BY <1>2, <1>3, <1>4
<1>6. d # Free => CallOK(d, page, drawer.open, files, seen')
      BY <1>3
<1>7. /\ requests[i].step # "free" /\ requests[i].step # "talk" /\ drawer' = drawer /\ talk' = talk
      /\ drawer'.open = drawer.open
      OBVIOUS
<1>8. drawer' \in [open : BOOLEAN, owned : BOOLEAN] /\ talk' \in {"off", "starting", "on"}
      BY <1>0, <1>7
<1> HIDE DEF c, x
<1> QED BY <1>4, <1>5, <1>6, <1>7, <1>8, ContinuationKeeps

\* A continuation that shows nothing new: the editor keeps its record and its draft.
LEMMA NotingKeeps ==
  ASSUME EditorInv, NEW i \in Slots, requests[i].step \notin {"free", "talk"},
         NEW d \in CallRecords \union {Free}, requests' = [requests EXCEPT ![i] = d],
         d # Free => CallOK(d, page, drawer.open, files, seen),
         NEW b \in BOOLEAN, editor' = [editor EXCEPT !.current = b] \/ editor' = editor,
         UNCHANGED <<files, page, begun, edits, seen>>,
         drawer' \in [open : BOOLEAN, owned : BOOLEAN], drawer'.open = drawer.open,
         talk' \in {"off", "starting", "on"},
         (drawer' = drawer /\ talk' = talk) \/ PreviewIsAttended'
  PROVE  EditorInv'
<1>0. editor \in EditorRecords /\ editor.draft \subseteq seen /\ seen \in Texts
      BY DEF EditorInv, EditorTyped, ScreenOK, EditorRecords
<1>1. editor' \in EditorRecords /\ editor'.record = editor.record /\ editor'.draft \subseteq seen'
      BY <1>0 DEF EditorRecords
<1>2. seen \subseteq seen' /\ seen' \in Texts /\ requests[i].step # "free"
      BY <1>0
<1>3. (requests[i].step # "talk" /\ drawer' = drawer /\ talk' = talk) \/ PreviewIsAttended'
      OBVIOUS
<1>4. d # Free => CallOK(d, page, drawer.open, files, seen')
      OBVIOUS
<1> QED BY <1>1, <1>2, <1>3, <1>4, ContinuationKeeps

\* The continuations of the builder.
LEMMA BuilderContinues ==
  ASSUME EditorInv, NEW i \in Slots,
         Loaded(i) \/ Saved(i) \/ Settled(i) \/ Checked(i) \/ Published(i) \/ Refreshed(i)
  PROVE  EditorInv'
<1> DEFINE c == requests[i]
<1>0. /\ drawer \in [open : BOOLEAN, owned : BOOLEAN] /\ talk \in {"off", "starting", "on"}
      /\ editor.current \in BOOLEAN /\ Free \in CallRecords \union {Free}
      BY DEF EditorInv, EditorTyped
<1>1. c.step \notin {"free", "talk"} /\ c.reply # Nothing
      BY DEF Loaded, Saved, Settled, Checked, Published, Refreshed
<1>2. /\ c \in CallRecords /\ CallOK(c, page, drawer.open, files, seen)
      /\ c.reply # Failed =>
            /\ c.reply \in Answers /\ c.reply.agent = c.agent /\ Told(c.reply, files[c.reply.agent])
            /\ c.reply.content \in Texts /\ c.reply.current \in BOOLEAN /\ c.reply.revision \in Nat
      BY <1>1, CallRead
<1>3. ASSUME Ends(i), UNCHANGED <<files, page, drawer, talk, edits>>,
             \/ UNCHANGED <<editor, seen>>
             \/ c.mounted /\ c.reply # Failed /\ (Shows(c.reply, c.reply.current) \/ Shows(c.reply, TRUE))
             \/ \E b \in BOOLEAN : editor' = [editor EXCEPT !.current = b] /\ UNCHANGED seen
      PROVE  EditorInv'
  <2>1. requests' = [requests EXCEPT ![i] = Free] /\ begun' = begun
        BY <1>3 DEF Ends
  <2>2. CASE c.mounted /\ c.reply # Failed /\ (Shows(c.reply, c.reply.current) \/ Shows(c.reply, TRUE))
        BY <1>0, <1>1, <1>2, <1>3, <2>1, <2>2, ShowingKeeps
  <2>3. CASE UNCHANGED <<editor, seen>>
        BY <1>0, <1>1, <1>3, <2>1, <2>3, NotingKeeps
  <2>4. CASE \E b \in BOOLEAN : editor' = [editor EXCEPT !.current = b] /\ UNCHANGED seen
        BY <1>0, <1>1, <1>3, <2>1, <2>4, NotingKeeps
  <2> QED BY <1>3, <2>2, <2>3, <2>4
<1>4. CASE Loaded(i)
      BY <1>3, <1>4 DEF Loaded
<1>5. CASE Published(i)
      BY <1>3, <1>5 DEF Published
<1>6. CASE Refreshed(i)
      BY <1>3, <1>6 DEF Refreshed
<1>7. CASE Saved(i)
  <2>1. CASE c.reply = Failed
        BY <1>3, <1>7, <2>1 DEF Saved
  <2>2. CASE c.reply # Failed
    <3> DEFINE r == c.reply.revision
               text == c.reply.content
               d == [[c EXCEPT !.step = "settle", !.revision = r, !.content = text] EXCEPT !.reply = Nothing]
    <3>1. c.step = "save" /\ text \subseteq seen /\ r \in Nat /\ text \in Texts /\ Told(c.reply, files[c.agent])
          BY <1>1, <1>2, <1>7, <2>2 DEF Saved, CallOK
    <3>2. Known([revision |-> r], files[c.agent], seen)
          BY <3>1 DEF Known, Told
    <3>3. requests' = [requests EXCEPT ![i] = d] /\ begun' = begun
          BY <1>7, <2>2 DEF Saved, Advances
    <3>4. IF c.mounted THEN Shows(c.reply, editor.current) ELSE UNCHANGED <<editor, seen>>
          BY <1>7, <2>2 DEF Saved
    <3>5. UNCHANGED <<files, page, drawer, talk, edits>>
          BY <1>7 DEF Saved
    <3>6. d \in CallRecords /\ CallOK(d, page, drawer.open, files, seen)
      <4> HIDE DEF r, text
      <4> QED BY <1>2, <3>1, <3>2, SavedIsOK
    <3>7. seen \union text = seen
          BY <3>1
    <3> HIDE DEF d
    <3>8. CASE c.mounted
      <4>1. CallOK(d, page, drawer.open, files, seen \union c.reply.content)
            BY <3>6, <3>7
      <4> QED BY <1>0, <1>1, <1>2, <2>2, <3>3, <3>4, <3>5, <3>6, <3>8, <4>1, ShowingKeeps
    <3>9. CASE ~c.mounted
          BY <1>0, <1>1, <3>3, <3>4, <3>5, <3>6, <3>9, NotingKeeps
    <3> QED BY <3>8, <3>9
  <2> QED BY <2>1, <2>2
<1>8. ASSUME NEW step \in {"check", "publish"}, Advances(i, [c EXCEPT !.step = step]), c.step \in Revised,
             NEW b \in BOOLEAN, editor' = [editor EXCEPT !.current = b] \/ editor' = editor,
             UNCHANGED <<files, page, drawer, talk, edits, seen>>
      PROVE  EditorInv'
  <2> DEFINE d == [[c EXCEPT !.step = step] EXCEPT !.reply = Nothing]
  <2>1. requests' = [requests EXCEPT ![i] = d] /\ begun' = begun
        BY <1>8 DEF Advances
  <2>2. d \in CallRecords /\ CallOK(d, page, drawer.open, files, seen)
        BY <1>2, <1>8, StepIsOK
  <2> HIDE DEF d
  <2> QED BY <1>0, <1>1, <1>8, <2>1, <2>2, NotingKeeps
<1>9. CASE Settled(i)
  <2>1. (c.reply # Failed /\ c.reply.current) \in BOOLEAN
        OBVIOUS
  <2> DEFINE b == c.reply # Failed /\ c.reply.current
  <2>2. editor' = [editor EXCEPT !.current = b] \/ editor' = editor
        BY <1>9 DEF Settled
  <2>3. c.step \in Revised /\ UNCHANGED <<files, page, drawer, talk, edits, seen>>
        BY <1>9 DEF Settled, Revised
  <2>4. Advances(i, [c EXCEPT !.step = "check"]) \/ Ends(i)
        BY <1>9 DEF Settled
  <2> HIDE DEF b
  <2>5. b \in BOOLEAN
        BY <2>1 DEF b
  <2>6. CASE Ends(i)
        BY <1>3, <2>2, <2>3, <2>5, <2>6
  <2>7. CASE Advances(i, [c EXCEPT !.step = "check"])
        BY <1>8, <2>2, <2>3, <2>5, <2>7
  <2> QED BY <2>4, <2>6, <2>7
<1>10. CASE Checked(i)
  <2>1. /\ editor' = IF c.mounted /\ c.reply # Failed THEN [editor EXCEPT !.current = c.reply.current] ELSE editor
        /\ c.step \in Revised /\ UNCHANGED <<files, page, drawer, talk, edits, seen>>
        /\ Advances(i, [c EXCEPT !.step = "publish"]) \/ Ends(i)
        BY <1>10 DEF Checked, Revised
  <2>2. \E b \in BOOLEAN : editor' = [editor EXCEPT !.current = b] \/ editor' = editor
        BY <1>2, <2>1
  <2>3. CASE Ends(i)
        BY <1>3, <2>1, <2>2, <2>3
  <2>4. CASE Advances(i, [c EXCEPT !.step = "publish"])
        BY <1>8, <2>1, <2>2, <2>4
  <2> QED BY <2>1, <2>3, <2>4
<1> QED BY <1>4, <1>5, <1>6, <1>7, <1>9, <1>10

\* The continuations that move the page.
LEMMA PageContinues ==
  ASSUME EditorInv, NEW i \in Slots, Deleted(i) \/ Created(i) PROVE EditorInv'
<1> DEFINE c == requests[i]
<1>0. /\ drawer \in [open : BOOLEAN, owned : BOOLEAN] /\ talk \in {"off", "starting", "on"}
      /\ requests \in Tables
      BY FilesAreRegisters DEF EditorInv, EditorTyped
<1>1. c.step \notin {"free", "talk"} /\ c.reply # Nothing
      BY DEF Deleted, Created
<1>2. ASSUME requests' = [requests EXCEPT ![i] = Free],
             UNCHANGED <<files, page, editor, begun, drawer, talk, edits, seen>>
      PROVE  EditorInv'
      BY <1>0, <1>1, <1>2, NotingKeeps
<1>3. CASE Deleted(i)
  <2>1. CASE c.reply = Failed
        BY <1>2, <1>3, <2>1 DEF Deleted, Ends
  <2>2. CASE c.reply # Failed
    <3> DEFINE gone == Unmounted(requests)
    <3>1. /\ Leaves /\ requests' = [gone EXCEPT ![i] = Free]
          /\ UNCHANGED <<files, begun, edits, seen>>
          BY <1>3, <2>2 DEF Deleted
    <3>2. /\ gone \in Tables /\ Hushes(requests, gone)
          /\ \A j \in Slots : gone[j] # Free => ~gone[j].mounted /\ ~gone[j].current
          BY <1>0, CallsHush
    <3> HIDE DEF gone
    <3>3. requests' \in Tables /\ Hushes(gone, requests')
          BY <3>1, <3>2, CallsHush
    <3>4. Hushes(requests, requests')
          BY <3>2, <3>3, HushesCompose
    <3>5. \A j \in Slots : requests'[j] # Free => ~requests'[j].mounted /\ ~requests'[j].current
          BY <3>1, <3>2 DEF Tables
    <3> QED BY <3>1, <3>3, <3>4, <3>5, LeavingKeeps
  <2> QED BY <2>1, <2>2
<1>4. CASE Created(i)
  <2> DEFINE rest == [requests EXCEPT ![i] = Free]
  <2>1. CASE requests' = rest /\ UNCHANGED <<begun, page, editor, drawer, talk>>
        BY <1>2, <1>4, <2>1 DEF Created
  <2>2. CASE /\ page' = c.agent
             /\ IF page = Nothing THEN BeginsLoad(rest, c.agent) /\ UNCHANGED <<drawer, talk>>
                ELSE BeginsLoad(GenerationEnds(Superseded(rest)), c.agent) /\ DrawerGoes
    <3>1. c.agent \in Agents
          BY <1>1, CallRead DEF CallRecords
    <3>2. rest \in Tables /\ Hushes(requests, rest)
          BY <1>0, CallsHush
    <3>3. UNCHANGED <<files, edits, seen>>
          BY <1>4 DEF Created
    <3> HIDE DEF rest
    <3> QED BY <2>2, <3>1, <3>2, <3>3, BuilderOpens
  <2> QED BY <1>4, <2>1, <2>2 DEF Created
<1> QED BY <1>3, <1>4

\* The continuations of the preview.
LEMMA PreviewContinues ==
  ASSUME EditorInv, NEW i \in Slots, PreviewSaved(i) \/ Stopped(i) \/ Started(i) PROVE EditorInv'
<1> DEFINE c == requests[i]
           talks == [[c EXCEPT !.step = "talk"] EXCEPT !.reply = Nothing]
           stops == [[c EXCEPT !.step = "stop"] EXCEPT !.reply = Nothing]
<1>0. /\ drawer \in [open : BOOLEAN, owned : BOOLEAN] /\ talk \in {"off", "starting", "on"}
      /\ requests \in Tables /\ editor \in EditorRecords /\ editor.draft \subseteq seen /\ seen \in Texts
      /\ PreviewIsAttended
      BY FilesAreRegisters DEF EditorInv, EditorTyped, EditorRecords, ScreenOK
<1>1. c.step # "free"
      BY DEF PreviewSaved, Stopped, Started
<1>2. c \in CallRecords /\ CallOK(c, page, drawer.open, files, seen)
      BY <1>1, CallRead
<1>3. c.for \in Trying
      BY <1>2 DEF PreviewSaved, Stopped, Started, CallOK, Trying
<1>4. c.current => drawer.open
      BY <1>2, <1>3 DEF CallOK
<1>5. /\ talks \in CallRecords /\ CallOK(talks, page, drawer.open, files, seen)
      /\ talks.step = "talk" /\ talks.for = c.for /\ talks.current = c.current
      BY <1>2, <1>3, StepIsOK
<1>6. stops \in CallRecords /\ CallOK(stops, page, drawer.open, files, seen)
      BY <1>2, <1>3, StepIsOK
<1>7. ASSUME c.current, c.step # "talk", requests' = [requests EXCEPT ![i] = talks], talk' = "starting",
             UNCHANGED <<files, page, begun, drawer, edits, seen>>,
             NEW b \in BOOLEAN, editor' = [editor EXCEPT !.current = b] \/ editor' = editor
      PROVE  EditorInv'
  <2> HIDE DEF talks
  <2>1. requests'[i] = talks
        BY <1>0, <1>7 DEF Tables
  <2>2. i \in Previews' /\ requests'[i].step = "talk" /\ drawer'.open
        BY <1>3, <1>4, <1>5, <1>7, <2>1 DEF Previews, Trying
  <2>3. PreviewIsAttended'
        BY <2>2 DEF PreviewIsAttended
  <2>4. /\ drawer' \in [open : BOOLEAN, owned : BOOLEAN] /\ drawer'.open = drawer.open
        /\ talk' \in {"off", "starting", "on"}
        BY <1>0, <1>7
  <2> QED BY <1>1, <1>5, <1>7, <2>3, <2>4, NotingKeeps
<1>8. ASSUME c.step # "talk", requests' = [requests EXCEPT ![i] = Free],
             UNCHANGED <<files, page, begun, drawer, talk, edits, seen>>,
             NEW b \in BOOLEAN, editor' = [editor EXCEPT !.current = b] \/ editor' = editor
      PROVE  EditorInv'
      BY <1>0, <1>1, <1>8, NotingKeeps
<1>9. CASE PreviewSaved(i)
  <2> DEFINE b == c.reply # Failed /\ c.reply.current
  <2>1. /\ b \in BOOLEAN /\ (editor' = [editor EXCEPT !.current = b] \/ editor' = editor)
        /\ c.step # "talk" /\ UNCHANGED <<files, page, edits, seen>>
        BY <1>9 DEF PreviewSaved
  <2> HIDE DEF b
  <2>2. CASE ~c.current
        BY <1>8, <1>9, <2>1, <2>2 DEF PreviewSaved, Ends
  <2>3. CASE c.current /\ c.for = "start"
        BY <1>7, <1>9, <2>1, <2>3 DEF PreviewSaved, Advances
  <2>4. CASE c.current /\ c.for # "start"
    <3>1. /\ requests' = [requests EXCEPT ![i] = stops] /\ begun' = begun
          /\ talk' = "off" /\ drawer' = [drawer EXCEPT !.owned = FALSE]
          BY <1>9, <2>4 DEF PreviewSaved, Advances, StopsForRestart
    <3>2. drawer' \in [open : BOOLEAN, owned : BOOLEAN] /\ drawer'.open = drawer.open
          BY <1>0, <3>1
    <3>3. PreviewIsAttended' /\ talk' \in {"off", "starting", "on"}
          BY <3>1 DEF PreviewIsAttended
    <3> HIDE DEF stops
    <3> QED BY <1>1, <1>6, <2>1, <3>1, <3>2, <3>3, NotingKeeps
  <2> QED BY <2>2, <2>3, <2>4
<1>10. CASE Stopped(i)
  <2>1. c.step # "talk" /\ UNCHANGED <<files, page, editor, drawer, edits, seen>> /\ TRUE \in BOOLEAN
        BY <1>10 DEF Stopped
  <2>2. CASE c.current
        BY <1>7, <1>10, <2>1, <2>2 DEF Stopped, Advances
  <2>3. CASE ~c.current
        BY <1>8, <1>10, <2>1, <2>3 DEF Stopped, Ends
  <2> QED BY <2>2, <2>3
<1>11. CASE Started(i)
  <2>1. /\ requests' = [requests EXCEPT ![i] = Free] /\ UNCHANGED <<files, page, editor, begun, edits, seen>>
        /\ c.step = "talk"
        BY <1>11 DEF Started, Ends
  <2>2. /\ drawer' \in [open : BOOLEAN, owned : BOOLEAN] /\ drawer'.open = drawer.open
        /\ talk' \in {"off", "starting", "on"}
        BY <1>0, <1>11 DEF Started
  <2>3. PreviewIsAttended'
    <3>1. CASE ~c.current /\ UNCHANGED <<drawer, talk>>
      <4>1. CASE talk' = "off"
            BY <4>1 DEF PreviewIsAttended
      <4>2. CASE talk' # "off"
        <5>1. drawer.open /\ (drawer.owned \/ \E j \in Previews : requests[j].step = "talk")
              BY <1>0, <3>1, <4>2 DEF PreviewIsAttended
        <5>2. ASSUME NEW j \in Previews, requests[j].step = "talk"
              PROVE  j \in Previews' /\ requests'[j].step = "talk"
          <6>1. j \in Slots /\ j # i
                BY <3>1 DEF Previews
          <6>2. requests'[j] = requests[j]
                BY <1>0, <2>1, <6>1 DEF Tables
          <6> QED BY <5>2, <6>1, <6>2 DEF Previews
        <5> QED BY <3>1, <5>1, <5>2 DEF PreviewIsAttended
      <4> QED BY <4>1, <4>2
    <3>2. CASE c.current /\ talk' = "off"
          BY <3>2 DEF PreviewIsAttended
    <3>3. CASE c.current /\ drawer' = [drawer EXCEPT !.owned = TRUE]
      <4>1. drawer'.open /\ drawer'.owned
            BY <1>0, <1>4, <3>3
      <4> QED BY <4>1 DEF PreviewIsAttended
    <3> QED BY <1>11, <3>1, <3>2, <3>3 DEF Started
  <2>4. editor' \in EditorRecords /\ editor'.record = editor.record /\ editor'.draft \subseteq seen'
        /\ seen \subseteq seen' /\ seen' \in Texts
        BY <1>0, <2>1
  <2> QED BY <1>1, <2>1, <2>2, <2>3, <2>4, ContinuationKeeps
<1> QED BY <1>9, <1>10, <1>11

\* Every step of the builder, of the registry and of other clients keeps the invariant.
LEMMA EditorKeeps ==
  ASSUME EditorInv, [EditorNext]_editorVars PROVE EditorInv'
<1>1. CASE EditorNext
  <2>1. ASSUME NEW a \in Agents, GoTo(a) \/ OthersEdit(a) \/ Duplicate(a)
        PROVE  EditorInv'
        BY <2>1, PageKeeps, EditsKeep, ButtonsKeep
  <2>2. CASE Leave \/ Reload
        BY <2>2, PageKeeps
  <2>3. CASE Type \/ Restore
        BY <2>3, EditsKeep
  <2>4. CASE PressSave \/ PressPublish \/ Refresh \/ PressDelete \/ StartPreview
        BY <2>4, ButtonsKeep
  <2>5. CASE OpenPreview \/ ClosePreview \/ RestartPreview \/ EndPreview \/ HangsUp
        BY <2>5, DrawerKeeps
  <2>6. ASSUME NEW i \in Slots, Serve(i) \/ Continue(i)
        PROVE  EditorInv'
        BY <2>6, ServeKeeps, BuilderContinues, PageContinues, PreviewContinues DEF Continue
  <2> QED BY <1>1, <2>1, <2>2, <2>3, <2>4, <2>5, <2>6 DEF EditorNext
<1>2. CASE UNCHANGED editorVars
      BY <1>2 DEF editorVars, EditorInv, EditorTyped, CallsOK, CallOK, Known, Told, ScreenOK, PreviewIsAttended, Previews
<1> QED BY <1>1, <1>2

\* The editor's inductive invariant: every call under way knows what it may touch and
\* whether its builder and its drawer are still there.
THEOREM EditorInvariant == EditorSpec => []EditorInv
<1>1. EditorInv /\ [EditorNext]_editorVars => EditorInv'
      BY EditorKeeps
<1> QED BY <1>1, EditorInitially, PTL DEF EditorSpec

\* A conversation of the preview never outlives the drawer that shows it, whatever the
\* requests it waits for (AgentsPanel.tsx:1464-1473, and current() after each await of
\* start and restart).
THEOREM PreviewStaysAttended == EditorSpec => []PreviewIsAttended
<1>1. EditorInv => PreviewIsAttended
      BY DEF EditorInv
<1> QED BY <1>1, EditorInvariant, PTL

\* What the gateway changes in answer to a call of this editor, the editor has shown.
LEMMA ServingIsSeen ==
  ASSUME EditorInv, NEW i \in Slots, Serve(i), NEW a \in Agents
  PROVE  /\ files[a].content \subseteq files'[a].content \union seen
         /\ \A version \in files'[a].versions \ files[a].versions : version \subseteq seen
<1> DEFINE c == requests[i]
           old == files[c.agent]
<1>1. c.step # "free" /\ files \in Registers
      BY FilesAreRegisters DEF Serve, EditorInv
<1>2. c \in CallRecords /\ CallOK(c, page, drawer.open, files, seen) /\ c.agent \in Agents /\ old \in FileRecords
  <2>1. c \in CallRecords /\ CallOK(c, page, drawer.open, files, seen)
        BY <1>1, CallRead
  <2> QED BY <1>1, <2>1 DEF CallRecords, Registers
<1>3. CASE UNCHANGED files
      BY <1>3
<1>4. ASSUME NEW file, Writes(i, c.agent, file),
             old.content \subseteq file.content \union seen,
             \A version \in file.versions \ old.versions : version \subseteq seen
      PROVE  /\ files[a].content \subseteq files'[a].content \union seen
             /\ \A version \in files'[a].versions \ files[a].versions : version \subseteq seen
  <2>1. files'[a] = IF a = c.agent THEN file ELSE files[a]
        BY <1>1, <1>4 DEF Writes, Registers
  <2>2. CASE a = c.agent
        BY <1>4, <2>1, <2>2
  <2>3. CASE a # c.agent
        BY <2>1, <2>3
  <2> QED BY <2>2, <2>3
<1>5. c.step \in Revised /\ Matches(c) => old.content \subseteq seen
      BY <1>2 DEF CallOK, Known, Matches
<1>6. ASSUME c.step = "save", Matches(c), Writes(i, c.agent, [old EXCEPT !.revision = @ + 1, !.content = c.content])
      PROVE  /\ files[a].content \subseteq files'[a].content \union seen
             /\ \A version \in files'[a].versions \ files[a].versions : version \subseteq seen
  <2> DEFINE file == [old EXCEPT !.revision = @ + 1, !.content = c.content]
  <2>1. file.versions = old.versions
        BY <1>2 DEF FileRecords
  <2>2. old.content \subseteq file.content \union seen
        BY <1>5, <1>6 DEF Revised
  <2> HIDE DEF file
  <2>3. Writes(i, c.agent, file)
        BY <1>6 DEF file
  <2> QED BY <1>4, <2>1, <2>2, <2>3
<1>7. ASSUME c.step = "publish", Matches(c),
             Writes(i, c.agent, [old EXCEPT !.revision = @ + 1, !.latest = old.content, !.versions = @ \union {old.content}])
      PROVE  /\ files[a].content \subseteq files'[a].content \union seen
             /\ \A version \in files'[a].versions \ files[a].versions : version \subseteq seen
  <2> DEFINE file == [old EXCEPT !.revision = @ + 1, !.latest = old.content, !.versions = @ \union {old.content}]
  <2>1. file.versions = old.versions \union {old.content} /\ file.content = old.content
        BY <1>2 DEF FileRecords
  <2>2. old.content \subseteq seen
        BY <1>5, <1>7 DEF Revised
  <2> HIDE DEF file
  <2>3. Writes(i, c.agent, file)
        BY <1>7 DEF file
  <2> QED BY <1>4, <2>1, <2>2, <2>3
<1>8. ASSUME c.step = "delete", Matches(c),
             Writes(i, c.agent, [old EXCEPT !.life = "gone", !.content = {}, !.versions = {}, !.latest = Nothing])
      PROVE  /\ files[a].content \subseteq files'[a].content \union seen
             /\ \A version \in files'[a].versions \ files[a].versions : version \subseteq seen
  <2> DEFINE file == [old EXCEPT !.life = "gone", !.content = {}, !.versions = {}, !.latest = Nothing]
  <2>1. file.versions = {}
        BY <1>2 DEF FileRecords
  <2>2. old.content \subseteq file.content \union seen
        BY <1>5, <1>8 DEF Revised
  <2> HIDE DEF file
  <2>3. Writes(i, c.agent, file)
        BY <1>8 DEF file
  <2> QED BY <1>4, <2>1, <2>2, <2>3
<1>9. ASSUME old.life = "unborn",
             Writes(i, c.agent, [old EXCEPT !.life = "live", !.revision = 1, !.content = c.content])
      PROVE  /\ files[a].content \subseteq files'[a].content \union seen
             /\ \A version \in files'[a].versions \ files[a].versions : version \subseteq seen
  <2> DEFINE file == [old EXCEPT !.life = "live", !.revision = 1, !.content = c.content]
  <2>1. file.versions = old.versions
        BY <1>2 DEF FileRecords
  <2>2. old.content = {}
        BY <1>2, <1>9 DEF EditorInv, ScreenOK
  <2> HIDE DEF file
  <2>3. Writes(i, c.agent, file)
        BY <1>9 DEF file
  <2> QED BY <1>4, <2>1, <2>2, <2>3
<1> QED BY <1>3, <1>6, <1>7, <1>8, <1>9 DEF Serve

\* Nothing else changes a file but another client, who adds to it.
LEMMA StepIsSeen ==
  ASSUME EditorInv, EditorNext, NEW a \in Agents
  PROVE  /\ files[a].content \subseteq files'[a].content \union seen
         /\ \A version \in files'[a].versions \ files[a].versions : version \subseteq seen
<1>1. ASSUME NEW b \in Agents, OthersEdit(b)
      PROVE  /\ files[a].content \subseteq files'[a].content \union seen
             /\ \A version \in files'[a].versions \ files[a].versions : version \subseteq seen
  <2> DEFINE file == [files[b] EXCEPT !.revision = @ + 1, !.content = @ \union {edits + 1}]
  <2>1. files \in Registers
        BY FilesAreRegisters DEF EditorInv
  <2>2. files' = [files EXCEPT ![b] = file]
        BY <1>1 DEF OthersEdit
  <2>3. files[b].content \subseteq file.content /\ file.versions = files[b].versions
        BY <2>1 DEF Registers, FileRecords
  <2> HIDE DEF file
  <2>4. files'[a] = IF a = b THEN file ELSE files[a]
        BY <2>1, <2>2 DEF Registers
  <2>5. CASE a = b
        BY <2>3, <2>4, <2>5
  <2>6. CASE a # b
        BY <2>4, <2>6
  <2> QED BY <2>5, <2>6
<1>2. ASSUME NEW b \in Agents, GoTo(b) \/ Duplicate(b)
      PROVE  UNCHANGED files
      BY <1>2 DEF GoTo, Duplicate
<1>3. CASE \/ Leave \/ Reload \/ Type \/ Restore \/ PressSave \/ PressPublish \/ Refresh \/ PressDelete
           \/ OpenPreview \/ ClosePreview \/ StartPreview \/ RestartPreview \/ EndPreview \/ HangsUp
  <2>1. UNCHANGED files
        BY <1>3 DEF Leave, Reload, Type, Restore, PressSave, PressPublish, Refresh, PressDelete,
                    OpenPreview, ClosePreview, StartPreview, RestartPreview, EndPreview, HangsUp
  <2> QED BY <2>1
<1>4. ASSUME NEW i \in Slots, Continue(i)
      PROVE  UNCHANGED files
      BY <1>4 DEF Continue, Loaded, Saved, Settled, Checked, Published, Refreshed, Deleted, Created,
                  PreviewSaved, Stopped, Started
<1>5. CASE UNCHANGED files
      BY <1>5
<1> QED BY <1>1, <1>2, <1>3, <1>4, <1>5, ServingIsSeen DEF EditorNext

\* No save of this editor overwrites, no deletion removes and no publication ships an
\* edit of somebody else that this editor has never shown (AgentsPanel.tsx:993-1042,
\* and the revision every mutation carries).
THEOREM UnseenStaysUntouched == EditorSpec => UnseenIsUntouched
<1> DEFINE untouched == \A a \in Agents :
              /\ files[a].content \subseteq files'[a].content \union seen
              /\ \A version \in files'[a].versions \ files[a].versions : version \subseteq seen
<1>1. EditorInv /\ [EditorNext]_editorVars => [untouched]_editorVars
  <2> SUFFICES ASSUME EditorInv, EditorNext PROVE untouched
      OBVIOUS
  <2> QED BY StepIsSeen
<1> QED BY <1>1, EditorInvariant, PTL DEF EditorSpec, UnseenIsUntouched

-----------------------------------------------------------------------------
(* The run controller.                                                     *)

Speeches == [c : Controller, queued : Seq(1..MaxRuns)]

\* The state a run is in is terminal from the moment its outcome is reported.
Reports(c) == IsTerminal(c) <=> c.execution \in Terminal

\* A granted cancellation: the run is being cancelled or has ended so, no narration of
\* it waits, and only a foreign executor or the drain deadline makes it a failure.
GrantedPart ==
    cancelled => /\ ctl.execution = "cancelling" \/ IsTerminal(ctl)
                 /\ Queues(mouth) = {}
                 /\ ctl.reported # "completed"
                 /\ ctl.reported = "failed" => executor.kind = "foreign" \/ ending = "done"

RunInv == /\ AgentTypeOK /\ Reports(ctl) /\ GrantedPart
          /\ consuming => run # 0

\* What a transition makes of the controller and its queue.
Same(s, t) == t \in Speeches /\ t.c.execution = s.c.execution /\ t.c.reported = s.c.reported

\* What is said, and what waits to be said.
LEMMA DeliverIs ==
  ASSUME run \in 1..MaxRuns, NEW s \in Speeches
  PROVE  /\ Same(s, deliver(s)) /\ Same(s, flushPendingMilestone(s)) /\ Same(s, speakMilestone(s))
         /\ Same(s, Requeued(s))
<1>1. ASSUME NEW t \in Speeches, NEW c \in Controller, c.execution = t.c.execution, c.reported = t.c.reported,
             NEW q \in Seq(1..MaxRuns)
      PROVE  Same(t, With(c, q))
  <2>1. With(c, q) \in Speeches
        BY DEF With, Speeches
  <2>2. With(c, q).c = c
        BY DEF With
  <2> QED BY <1>1, <2>1, <2>2 DEF Same
<1>2. ASSUME NEW t \in Speeches
      PROVE  /\ t.c \in Controller /\ t.queued \in Seq(1..MaxRuns) /\ <<>> \in Seq(1..MaxRuns)
             /\ Append(t.queued, run) \in Seq(1..MaxRuns)
      BY DEF Speeches
<1>3. ASSUME NEW t \in Speeches PROVE Same(t, deliver(t))
  <2> DEFINE c == [t.c EXCEPT !.speaking = TRUE, !.recent = TRUE]
  <2>1. CASE IsTerminal(t.c)
        BY <2>1 DEF deliver, Same
  <2>2. CASE ~IsTerminal(t.c)
    <3>1. c \in Controller /\ c.execution = t.c.execution /\ c.reported = t.c.reported
          BY <1>2 DEF Controller
    <3>2. deliver(t) = With(c, Append(t.queued, run))
          BY <2>2 DEF deliver
    <3> HIDE DEF c
    <3> QED BY <1>1, <1>2, <3>1, <3>2
  <2> QED BY <2>1, <2>2
<1> DEFINE c == [s.c EXCEPT !.staged = FALSE]
           d == [s.c EXCEPT !.staged = TRUE]
<1>4. /\ c \in Controller /\ c.execution = s.c.execution /\ c.reported = s.c.reported
      /\ d \in Controller /\ d.execution = s.c.execution /\ d.reported = s.c.reported
      BY <1>2 DEF Controller
<1>5. /\ Requeued(s) = With(c, <<>>)
      /\ flushPendingMilestone(s) = IF s.c.staged /\ ~s.c.recent THEN deliver(With(c, s.queued)) ELSE s
      /\ speakMilestone(s) = IF ~s.c.recent THEN deliver(s) ELSE With(d, s.queued)
      BY DEF Requeued, flushPendingMilestone, speakMilestone
<1> HIDE DEF c, d
<1>6. Same(s, With(c, <<>>)) /\ Same(s, With(c, s.queued)) /\ Same(s, With(d, s.queued))
      BY <1>1, <1>2, <1>4
<1>7. Same(s, Requeued(s)) /\ Same(s, speakMilestone(s))
      BY <1>3, <1>5, <1>6
<1>8. Same(s, flushPendingMilestone(s))
  <2>1. Same(With(c, s.queued), deliver(With(c, s.queued)))
        BY <1>3, <1>6 DEF Same
  <2>2. Same(s, deliver(With(c, s.queued)))
        BY <1>6, <2>1 DEF Same
  <2>3. Same(s, s)
        BY DEF Same
  <2> QED BY <1>5, <2>2, <2>3
<1> QED BY <1>3, <1>7, <1>8

\* A run that ends reports how.
LEMMA FinishIs ==
  ASSUME NEW c \in Controller, NEW state \in Terminal
  PROVE  /\ finishRun(c, state) \in Controller /\ Reports(finishRun(c, state))
         /\ finishRun(c, state).reported = state /\ IsTerminal(finishRun(c, state))
<1>1. state \in Executions /\ state # "no" /\ state \in {"no"} \union Terminal
      BY DEF Executions, Terminal
<1>2. finishRun(c, state) \in Controller /\ finishRun(c, state).execution = state
         /\ finishRun(c, state).reported = state
      BY <1>1 DEF finishRun, Controller
<1> QED BY <1>1, <1>2 DEF Reports, IsTerminal

\* What an event makes of the controller.
LEMMA AcceptIs ==
  ASSUME run \in 1..MaxRuns, NEW s \in Speeches, Reports(s.c), NEW e \in Events,
         ~IsTerminal(s.c) => s.c.execution = "cancelling" \/ ~Refuses(s.c, e)
  PROVE  /\ accept(s, e) \in Speeches /\ Reports(accept(s, e).c)
         /\ IsTerminal(s.c) => accept(s, e) = s
         /\ s.c.execution = "cancelling" =>
              /\ accept(s, e).queued = s.queued
              /\ accept(s, e).c = s.c \/ accept(s, e).c.reported = "cancelled"
<1>1. s.c \in Controller /\ s.queued \in Seq(1..MaxRuns)
      BY DEF Speeches
<1>2. \A c \in Controller, q \in Seq(1..MaxRuns) : LET w == With(c, q) IN w \in Speeches /\ w.c = c /\ w.queued = q
      BY DEF With, Speeches
<1>3. \A t : Same(s, t) => t \in Speeches /\ Reports(t.c)
      BY DEF Same, Reports, IsTerminal
<1>4. CASE IsTerminal(s.c)
  <2>1. accept(s, e) = s
        BY <1>4 DEF accept
  <2>2. s.c.execution # "cancelling"
        BY <1>4 DEF Reports, Terminal
  <2> QED BY <2>1, <2>2
<1>5. CASE ~IsTerminal(s.c) /\ s.c.execution = "cancelling"
  <2>1. accept(s, e) = IF e \in Terminal THEN With(finishRun(s.c, "cancelled"), s.queued) ELSE s
        BY <1>5 DEF accept
  <2>2. LET f == finishRun(s.c, "cancelled") IN f \in Controller /\ Reports(f) /\ f.reported = "cancelled"
        BY <1>1, FinishIs DEF Terminal
  <2> QED BY <1>1, <1>2, <1>5, <2>1, <2>2
<1>6. CASE ~IsTerminal(s.c) /\ s.c.execution # "cancelling"
  <2>1. ~Refuses(s.c, e)
        BY <1>6
  <2> SUFFICES accept(s, e) \in Speeches /\ Reports(accept(s, e).c)
      BY <1>6
  <2> DEFINE r == Requeued(s)
             f == flushPendingMilestone(s)
  <2>2. Same(s, r) /\ Same(s, f) /\ r \in Speeches /\ f \in Speeches
        BY DeliverIs DEF Same
  <2>3. CASE e = "started"
    <3>1. accept(s, e) = With([s.c EXCEPT !.execution = "running"], s.queued)
          BY <1>6, <2>3 DEF accept
    <3>2. [s.c EXCEPT !.execution = "running"] \in Controller /\ Reports([s.c EXCEPT !.execution = "running"])
          BY <1>1, <1>6 DEF Controller, Reports, IsTerminal, Executions, Terminal
    <3> QED BY <1>1, <1>2, <3>1, <3>2
  <2>4. CASE e = "answer"
    <3>1. accept(s, e) = deliver(r)
          BY <1>6, <2>4 DEF accept
    <3>2. Same(r, deliver(r))
          BY <2>2, DeliverIs
    <3> HIDE DEF r
    <3> QED BY <1>3, <2>2, <3>1, <3>2 DEF Same
  <2>5. CASE e = "progress"
    <3>1. accept(s, e) = speakMilestone(f)
          BY <1>6, <2>5 DEF accept
    <3>2. Same(f, speakMilestone(f))
          BY <2>2, DeliverIs
    <3> HIDE DEF f
    <3> QED BY <1>3, <2>2, <3>1, <3>2 DEF Same
  <2>6. CASE e = "artifact"
    <3>1. accept(s, e) = f
          BY <1>6, <2>6 DEF accept
    <3> QED BY <1>3, <2>2, <3>1
  <2>7. CASE e = "completed"
    <3>1. accept(s, e) = With(finishRun(f.c, "completed"), f.queued)
          BY <1>6, <2>7 DEF accept
    <3>2. f.c \in Controller /\ f.queued \in Seq(1..MaxRuns)
          BY <2>2 DEF Speeches
    <3> HIDE DEF f
    <3>3. finishRun(f.c, "completed") \in Controller /\ Reports(finishRun(f.c, "completed"))
          BY <3>2, FinishIs DEF Terminal
    <3> QED BY <1>2, <3>1, <3>2, <3>3
  <2>8. CASE e = "failed"
    <3> DEFINE t == deliver(r)
    <3>1. accept(s, e) = With(finishRun(t.c, "failed"), t.queued)
          BY <1>6, <2>8 DEF accept
    <3>2. t \in Speeches
          BY <2>2, DeliverIs DEF Same
    <3> HIDE DEF t
    <3>3. t.c \in Controller /\ t.queued \in Seq(1..MaxRuns)
          BY <3>2 DEF Speeches
    <3>4. finishRun(t.c, "failed") \in Controller /\ Reports(finishRun(t.c, "failed"))
          BY <3>3, FinishIs DEF Terminal
    <3> QED BY <1>2, <3>1, <3>3, <3>4
  <2>9. CASE e = "cancelled"
        BY <2>1, <2>9 DEF Refuses
  <2> QED BY <2>3, <2>4, <2>5, <2>6, <2>7, <2>8, <2>9 DEF Events, Working, Terminal
<1> QED BY <1>4, <1>5, <1>6

\* The operators on the controller keep it one that reports what it came to.
LEMMA ControllerIs ==
  ASSUME NEW c \in Controller, Reports(c)
  PROVE  /\ failed(c) \in Controller /\ Reports(failed(c)) /\ IsTerminal(failed(c))
         /\ failed(c).reported = IF IsTerminal(c) THEN c.reported ELSE "failed"
         /\ IsTerminal(c) => failed(c) = c
         /\ MayCancel(c) => /\ requestCancel(c) \in Controller /\ Reports(requestCancel(c))
                            /\ requestCancel(c).execution = "cancelling" /\ requestCancel(c).reported = "no"
                            /\ ~IsTerminal(c)
<1>1. /\ failed(c) \in Controller /\ Reports(failed(c)) /\ IsTerminal(failed(c))
      /\ failed(c).reported = IF IsTerminal(c) THEN c.reported ELSE "failed"
      /\ IsTerminal(c) => failed(c) = c
      BY FinishIs DEF failed, Terminal
<1>2. ASSUME MayCancel(c)
      PROVE  /\ requestCancel(c) \in Controller /\ Reports(requestCancel(c))
             /\ requestCancel(c).execution = "cancelling" /\ requestCancel(c).reported = "no"
             /\ ~IsTerminal(c)
  <2>1. c.execution \notin Terminal /\ c.reported = "no"
        BY <1>2 DEF MayCancel, Terminal, Reports, IsTerminal
  <2>2. requestCancel(c) \in Controller /\ requestCancel(c).execution = "cancelling"
        /\ requestCancel(c).reported = c.reported
        BY DEF requestCancel, Controller, Executions
  <2> QED BY <2>1, <2>2 DEF Reports, IsTerminal, Terminal
<1> QED BY <1>1, <1>2

Mouths == [queued : Seq(1..MaxRuns), turn : 0..MaxRuns, sounds : BOOLEAN]

\* A run's narration that does not wait before does not wait after.
LEMMA MouthIs ==
  ASSUME mouth \in Mouths
  PROVE  /\ Hushed \in Mouths /\ Hushed.queued = <<>> /\ Silence \in Mouths /\ Silence.queued = <<>>
         /\ \A q \in Seq(1..MaxRuns) : [mouth EXCEPT !.queued = q] \in Mouths
                                       /\ [mouth EXCEPT !.queued = q].queued = q
         /\ \A m \in Mouths : m.queued = <<>> => Queues(m) = {}
<1>1. mouth.queued \in Seq(1..MaxRuns) /\ <<>> \in Seq(1..MaxRuns) /\ mouth.turn \in 0..MaxRuns
      BY DEF Mouths
<1>2. 0 \in 0..MaxRuns
      BY AgentAssumption
<1>3. Hushed \in Mouths /\ Hushed.queued = <<>>
      BY <1>1, <1>2 DEF Hushed, Mouths
<1>4. Silence \in Mouths /\ Silence.queued = <<>>
      BY <1>1, <1>2 DEF Silence, Mouths
<1>5. \A q \in Seq(1..MaxRuns) : [mouth EXCEPT !.queued = q] \in Mouths
                                       /\ [mouth EXCEPT !.queued = q].queued = q
      BY DEF Mouths
<1>6. \A m \in Mouths : m.queued = <<>> => Queues(m) = {}
      BY DEF Queues
<1> QED BY <1>3, <1>4, <1>5, <1>6

\* What an action must keep of the parts that are not the controller's.
Executors == [kind : Kinds, goesOn : BOOLEAN, published : 0..MaxEvents]
Promises == [{"steer", "cancel", "close"} -> {"none", "asked", "settled"}]
RestOK == /\ run \in 0..MaxRuns /\ stream \in Seq(Events) /\ executor \in Executors
          /\ calls \in Promises /\ consuming \in BOOLEAN /\ cancelled \in BOOLEAN
          /\ ending \in {"no", "draining", "done"}

\* The types, part by part.
LEMMA TypesAre == AgentTypeOK <=> ctl \in Controller /\ mouth \in Mouths /\ RestOK
  BY DEF AgentTypeOK, Mouths, RestOK, Executors, Promises

\* NoCalls is a record: a function on the names of the calls.
LEMMA CallsAre ==
  /\ NoCalls \in Promises
  /\ calls \in Promises => \A k \in {"steer", "cancel", "close"}, v \in {"none", "asked", "settled"} :
                              [calls EXCEPT ![k] = v] \in Promises
<1>1. NoCalls \in Promises
      BY DEF NoCalls, Promises
<1>2. calls \in Promises => \A k \in {"steer", "cancel", "close"}, v \in {"none", "asked", "settled"} :
                              [calls EXCEPT ![k] = v] \in Promises
      BY DEF Promises
<1> QED BY <1>1, <1>2

\* To ask the executor changes neither its kind nor what it is.
LEMMA AskIs ==
  ASSUME RestOK, NEW call \in {"cancel", "close"}, AskExecutor(call)
  PROVE  calls' \in Promises /\ stream' \in Seq(Events) /\ executor' \in Executors /\ executor'.kind = executor.kind
<1>1. calls \in Promises /\ stream \in Seq(Events) /\ executor \in Executors
      BY DEF RestOK
<1>2. CASE UNCHANGED <<calls, stream, executor>>
      BY <1>1, <1>2
<1>3. CASE calls' = [calls EXCEPT ![call] = "asked"] /\ calls[call] = "none"
  <2>1. calls' \in Promises
        BY <1>1, <1>3, CallsAre
  <2>2. Append(stream, "cancelled") \in Seq(Events)
        BY <1>1 DEF Events, Terminal
  <2>3. [executor EXCEPT !.goesOn = FALSE] \in Executors /\ [executor EXCEPT !.goesOn = FALSE].kind = executor.kind
        BY <1>1 DEF Executors
  <2>4. stream' \in {stream, Append(stream, "cancelled")} /\ executor' \in {executor, [executor EXCEPT !.goesOn = FALSE]}
        BY <1>3 DEF AskExecutor
  <2> QED BY <1>1, <2>1, <2>2, <2>3, <2>4
<1> QED BY <1>2, <1>3 DEF AskExecutor

\* An action that leaves the controller's outcome and adds no narration keeps the invariant.
LEMMA RunKeeps ==
  ASSUME RunInv, RestOK', ctl' \in Controller, mouth' \in Mouths, Reports(ctl'),
         UNCHANGED run, executor'.kind = executor.kind,
         ending = "done" => ending' = "done",
         consuming' => consuming,
         cancelled' => \/ /\ cancelled /\ ctl'.execution = ctl.execution /\ ctl'.reported = ctl.reported
                       \/ cancelled /\ IsTerminal(ctl') /\ ctl'.reported = "cancelled"
                       \/ /\ cancelled /\ IsTerminal(ctl') /\ ctl'.reported = "failed"
                          /\ executor.kind = "foreign" \/ ending' = "done"
                       \/ ctl'.execution = "cancelling" /\ ctl'.reported = "no" /\ mouth'.queued = <<>>,
         \/ mouth'.queued \in {mouth.queued, <<>>}
         \/ mouth.queued # <<>> /\ mouth'.queued = Tail(mouth.queued)
         \/ ~cancelled
  PROVE  RunInv'
<1>1. AgentTypeOK'
      BY TypesAre DEF AgentTypeOK, Mouths, RestOK, Executors, Promises
<1>2. mouth \in Mouths /\ mouth.queued \in Seq(1..MaxRuns) /\ GrantedPart /\ Reports(ctl)
      BY TypesAre DEF RunInv, Mouths
<1>3. GrantedPart'
  <2>1. ASSUME cancelled', cancelled, mouth'.queued \in {mouth.queued, <<>>} \/ (mouth.queued # <<>> /\ mouth'.queued = Tail(mouth.queued))
        PROVE  Queues(mouth)' = {}
    <3>1. \A i \in DOMAIN mouth.queued : mouth.queued[i] # run
          BY <1>2, <2>1 DEF GrantedPart, Queues
    <3>2. ASSUME mouth.queued # <<>>, NEW i \in DOMAIN Tail(mouth.queued)
          PROVE  Tail(mouth.queued)[i] = mouth.queued[i + 1] /\ i + 1 \in DOMAIN mouth.queued
          BY <1>2, <3>2
    <3>3. \A i \in DOMAIN mouth'.queued : mouth'.queued[i] # run
      <4> SUFFICES ASSUME NEW i \in DOMAIN mouth'.queued PROVE mouth'.queued[i] # run
          OBVIOUS
      <4>1. CASE mouth'.queued = mouth.queued
            BY <3>1, <4>1
      <4>2. CASE mouth'.queued = <<>>
            BY <4>2
      <4>3. CASE mouth.queued # <<>> /\ mouth'.queued = Tail(mouth.queued)
        <5>1. i \in DOMAIN Tail(mouth.queued)
              BY <4>3
        <5>2. Tail(mouth.queued)[i] = mouth.queued[i + 1] /\ i + 1 \in DOMAIN mouth.queued
              BY <3>2, <4>3, <5>1
        <5> QED BY <3>1, <4>3, <5>2
      <4> QED BY <2>1, <4>1, <4>2, <4>3
    <3> QED BY <3>3 DEF Queues
  <2>2. mouth'.queued = <<>> => Queues(mouth)' = {}
        BY DEF Queues
  <2> QED BY <1>2, <2>1, <2>2 DEF GrantedPart, IsTerminal
<1> QED BY <1>1, <1>3 DEF RunInv

\* What every step but a start and those of the controller leaves as it is.
LEMMA OtherKeeps ==
  ASSUME RunInv, RestOK', UNCHANGED <<ctl, run, cancelled>>, executor'.kind = executor.kind,
         ending = "done" => ending' = "done", consuming' => consuming, mouth' \in Mouths,
         \/ mouth'.queued \in {mouth.queued, <<>>}
         \/ mouth.queued # <<>> /\ mouth'.queued = Tail(mouth.queued)
  PROVE  RunInv'
<1>1. ctl' \in Controller /\ Reports(ctl')
      BY TypesAre DEF RunInv
<1> QED BY <1>1, RunKeeps

\* What a queue gives when its first entry is taken.
LEMMA FirstAndRest ==
  ASSUME NEW S, NEW q \in Seq(S), q # <<>>
  PROVE  Tail(q) \in Seq(S) /\ Head(q) \in S
OBVIOUS

\* The narrator moves within its own speech: it sounds, and it ends.
LEMMA MouthMoves ==
  ASSUME NEW S, NEW T, NEW m \in [queued : S, turn : T, sounds : BOOLEAN], 0 \in T
  PROVE  /\ [m EXCEPT !.turn = 0, !.sounds = FALSE] \in [queued : S, turn : T, sounds : BOOLEAN]
         /\ [m EXCEPT !.turn = 0, !.sounds = FALSE].queued = m.queued
         /\ [m EXCEPT !.sounds = TRUE] \in [queued : S, turn : T, sounds : BOOLEAN]
         /\ [m EXCEPT !.sounds = TRUE].queued = m.queued
<1>1. [m EXCEPT !.turn = 0, !.sounds = FALSE] \in [queued : S, turn : T, sounds : BOOLEAN]
      OBVIOUS
<1>2. [m EXCEPT !.turn = 0, !.sounds = FALSE].queued = m.queued
      OBVIOUS
<1>3. [m EXCEPT !.sounds = TRUE] \in [queued : S, turn : T, sounds : BOOLEAN]
      OBVIOUS
<1>4. [m EXCEPT !.sounds = TRUE].queued = m.queued
      OBVIOUS
<1> QED BY <1>1, <1>2, <1>3, <1>4

\* The same of the narrator of this session.
LEMMA NarratorMoves ==
  ASSUME mouth \in Mouths
  PROVE  /\ [mouth EXCEPT !.turn = 0, !.sounds = FALSE] \in Mouths
         /\ [mouth EXCEPT !.turn = 0, !.sounds = FALSE].queued = mouth.queued
         /\ [mouth EXCEPT !.sounds = TRUE] \in Mouths
         /\ [mouth EXCEPT !.sounds = TRUE].queued = mouth.queued
<1> DEFINE Q == Seq(1..MaxRuns)
           T == 0..MaxRuns
<1>1. mouth \in [queued : Q, turn : T, sounds : BOOLEAN] /\ 0 \in T
      BY AgentAssumption DEF Mouths
<1>2. Mouths = [queued : Q, turn : T, sounds : BOOLEAN]
      BY DEF Mouths
<1> HIDE DEF Q, T
<1> QED BY <1>1, <1>2, MouthMoves

\* A session starts a run with a controller of its own.
LEMMA StartRunKeeps ==
  ASSUME RunInv, StartRun
  PROVE  RunInv'
<1>1. mouth \in Mouths /\ RestOK
      BY TypesAre DEF RunInv
<1>2. run < MaxRuns /\ run' = run + 1 /\ ctl' = NewController /\ calls' = NoCalls /\ consuming' = TRUE
      /\ cancelled' = FALSE /\ UNCHANGED <<mouth, ending>>
      BY DEF StartRun
<1>3. PICK kind \in Kinds : /\ executor' = [kind |-> kind, goesOn |-> TRUE, published |-> 0]
                            /\ stream' = IF kind = "own" THEN <<"started">> ELSE <<>>
      BY DEF StartRun
<1>4. ctl' \in Controller /\ Reports(ctl')
      BY <1>2 DEF NewController, Controller, Executions, Reports, IsTerminal, Terminal
<1>5. executor' \in Executors
      BY <1>3, AgentAssumption DEF Executors
<1>6. stream' \in Seq(Events)
  <2>1. "started" \in Events
        BY DEF Events
  <2>2. <<>> \in Seq(Events) /\ <<"started">> \in Seq(Events)
        BY <2>1
  <2> QED BY <1>3, <2>2
<1>7. run' \in 0..MaxRuns /\ run' # 0
      BY <1>1, <1>2, AgentAssumption DEF RestOK
<1>8. RestOK'
      BY <1>1, <1>2, <1>5, <1>6, <1>7, CallsAre DEF RestOK
<1>9. AgentTypeOK'
      BY <1>1, <1>2, <1>4, <1>8, TypesAre DEF AgentTypeOK, Mouths, RestOK, Executors, Promises
<1> QED BY <1>2, <1>4, <1>7, <1>9 DEF RunInv, GrantedPart

\* The inputs of the user and the end of the session.
LEMMA SessionKeeps ==
  ASSUME RunInv, steer \/ cancel \/ BargeIn \/ EndSession \/ CleanUp \/ RunDrained \/ DrainTimeout
  PROVE  RunInv'
<1>1. ctl \in Controller /\ mouth \in Mouths /\ RestOK /\ Reports(ctl) /\ GrantedPart
      BY TypesAre DEF RunInv
<1>2. mouth.queued \in Seq(1..MaxRuns) /\ <<>> \in Seq(1..MaxRuns)
      BY <1>1 DEF Mouths
<1>3. /\ Hushed \in Mouths /\ Hushed.queued = <<>> /\ Silence \in Mouths /\ Silence.queued = <<>>
      /\ [mouth EXCEPT !.queued = <<>>] \in Mouths /\ [mouth EXCEPT !.queued = <<>>].queued = <<>>
      BY <1>1, <1>2, MouthIs
<1>4. CASE steer
  <2>1. /\ ~IsTerminal(ctl) /\ ctl.execution = "running"
        /\ ctl' = [ctl EXCEPT !.execution = "steering", !.staged = FALSE]
        /\ mouth' = [mouth EXCEPT !.queued = <<>>]
        /\ calls' = [calls EXCEPT !.steer = "asked"]
        /\ UNCHANGED <<run, stream, executor, consuming, ending, cancelled>>
        BY <1>4 DEF steer
  <2>2. ~cancelled
        BY <1>1, <2>1 DEF GrantedPart
  <2>3. ctl' \in Controller /\ Reports(ctl')
        BY <1>1, <2>1 DEF Controller, Executions, Reports, IsTerminal, Terminal
  <2>4. calls' \in Promises
        BY <1>1, <2>1, CallsAre DEF RestOK
  <2>5. RestOK'
        BY <1>1, <2>1, <2>4 DEF RestOK
  <2> QED BY <1>3, <2>1, <2>2, <2>3, <2>5, RunKeeps
<1>5. CASE cancel
  <2>1. /\ MayCancel(ctl) /\ ctl' = requestCancel(ctl) /\ mouth' = Hushed /\ cancelled' = TRUE
        /\ AskExecutor("cancel") /\ UNCHANGED <<run, consuming, ending>>
        BY <1>5 DEF cancel
  <2>2. calls' \in Promises /\ stream' \in Seq(Events) /\ executor' \in Executors /\ executor'.kind = executor.kind
        BY <1>1, <2>1, AskIs
  <2>3. RestOK'
        BY <1>1, <2>1, <2>2 DEF RestOK
  <2>4. ctl' \in Controller /\ Reports(ctl') /\ ctl'.execution = "cancelling" /\ ctl'.reported = "no"
        BY <1>1, <2>1, ControllerIs
  <2> QED BY <1>3, <2>1, <2>2, <2>3, <2>4, RunKeeps
<1>6. CASE BargeIn
  <2>1. UNCHANGED <<run, stream, executor, calls, consuming, ending, cancelled>>
        BY <1>6 DEF BargeIn
  <2>2. RestOK'
        BY <1>1, <2>1 DEF RestOK
  <2>3. CASE ctl' = [ctl EXCEPT !.speaking = FALSE, !.staged = FALSE, !.recent = TRUE] /\ mouth' = Silence
    <3>1. ctl' \in Controller /\ ctl'.execution = ctl.execution /\ ctl'.reported = ctl.reported
          BY <1>1, <2>3 DEF Controller
    <3>2. Reports(ctl')
          BY <1>1, <3>1 DEF Reports, IsTerminal
    <3> QED BY <1>3, <2>1, <2>2, <2>3, <3>1, <3>2, RunKeeps
  <2>4. CASE mouth' = [mouth EXCEPT !.turn = 0, !.sounds = FALSE] /\ UNCHANGED ctl
    <3>1. mouth' \in Mouths /\ mouth'.queued = mouth.queued
          BY <1>1, <2>4, NarratorMoves
    <3> QED BY <2>1, <2>2, <2>4, <3>1, OtherKeeps
  <2> QED BY <1>6, <2>3, <2>4 DEF BargeIn
<1>7. CASE EndSession
  <2>1. /\ ending' = "draining" /\ mouth' = Silence
        /\ ctl' = IF MayCancel(ctl) THEN requestCancel(ctl) ELSE ctl
        /\ AskExecutor("close") \/ AskExecutor("cancel")
        /\ ending = "no" /\ UNCHANGED <<run, consuming, cancelled>>
        BY <1>7 DEF EndSession
  <2>2. calls' \in Promises /\ stream' \in Seq(Events) /\ executor' \in Executors /\ executor'.kind = executor.kind
        BY <1>1, <2>1, AskIs
  <2>3. RestOK'
        BY <1>1, <2>1, <2>2 DEF RestOK
  <2>4. CASE MayCancel(ctl)
    <3>1. ctl' \in Controller /\ Reports(ctl') /\ ctl'.execution = "cancelling" /\ ctl'.reported = "no"
          BY <1>1, <2>1, <2>4, ControllerIs
    <3> QED BY <1>3, <2>1, <2>2, <2>3, <3>1, RunKeeps
  <2>5. CASE ~MayCancel(ctl)
        BY <1>3, <2>1, <2>2, <2>3, <2>5, OtherKeeps
  <2> QED BY <2>4, <2>5
<1>8. CASE CleanUp
  <2>1. AskExecutor("close") /\ UNCHANGED <<ctl, mouth, run, consuming, ending, cancelled>>
        BY <1>8 DEF CleanUp
  <2>2. calls' \in Promises /\ stream' \in Seq(Events) /\ executor' \in Executors /\ executor'.kind = executor.kind
        BY <1>1, <2>1, AskIs
  <2>3. RestOK'
        BY <1>1, <2>1, <2>2 DEF RestOK
  <2> QED BY <1>1, <2>1, <2>2, <2>3, OtherKeeps
<1>9. CASE RunDrained
  <2>1. ending' = "done" /\ UNCHANGED <<ctl, mouth, run, stream, executor, calls, consuming, cancelled>>
        BY <1>9 DEF RunDrained
  <2>2. RestOK'
        BY <1>1, <2>1 DEF RestOK
  <2> QED BY <1>1, <2>1, <2>2, OtherKeeps
<1>10. CASE DrainTimeout
  <2>1. AskExecutor("close") /\ ctl' = failed(ctl) /\ ending' = "done" /\ UNCHANGED <<mouth, run, consuming, cancelled>>
        BY <1>10 DEF DrainTimeout
  <2>2. calls' \in Promises /\ stream' \in Seq(Events) /\ executor' \in Executors /\ executor'.kind = executor.kind
        BY <1>1, <2>1, AskIs
  <2>3. RestOK'
        BY <1>1, <2>1, <2>2 DEF RestOK
  <2>4. /\ ctl' \in Controller /\ Reports(ctl') /\ IsTerminal(ctl')
        /\ ctl'.reported = IF IsTerminal(ctl) THEN ctl.reported ELSE "failed"
        /\ IsTerminal(ctl) => ctl' = ctl
        BY <1>1, <2>1, ControllerIs
  <2>5. cancelled' => \/ /\ cancelled /\ ctl'.execution = ctl.execution /\ ctl'.reported = ctl.reported
                      \/ /\ cancelled /\ IsTerminal(ctl') /\ ctl'.reported = "failed"
                         /\ executor.kind = "foreign" \/ ending' = "done"
        BY <2>1, <2>4
  <2> QED BY <1>1, <2>1, <2>2, <2>3, <2>4, <2>5, RunKeeps
<1> QED BY <1>4, <1>5, <1>6, <1>7, <1>8, <1>9, <1>10

\* The loop's speech, the clock and the executor's promises.
LEMMA SettlingKeeps ==
  ASSUME RunInv, \/ Narrate \/ Sounds \/ NarrationEnds \/ IntervalPasses \/ Publish
                 \/ SteerSettles \/ CancelSettles \/ CancelRejects \/ CloseSettles
  PROVE  RunInv'
<1>1. ctl \in Controller /\ mouth \in Mouths /\ RestOK /\ Reports(ctl) /\ GrantedPart
      BY TypesAre DEF RunInv
<1>2. mouth.queued \in Seq(1..MaxRuns)
      BY <1>1 DEF Mouths
<1>3. CASE Narrate
  <2>1. /\ mouth.queued # <<>> /\ mouth' = [mouth EXCEPT !.queued = Tail(@), !.turn = Head(mouth.queued)]
        /\ UNCHANGED <<ctl, run, stream, executor, calls, consuming, ending, cancelled>>
        BY <1>3 DEF Narrate
  <2>2. Tail(mouth.queued) \in Seq(1..MaxRuns) /\ Head(mouth.queued) \in 0..MaxRuns
    <3>1. Tail(mouth.queued) \in Seq(1..MaxRuns) /\ Head(mouth.queued) \in 1..MaxRuns
          BY <1>2, <2>1, FirstAndRest
    <3> QED BY <3>1, AgentAssumption
  <2>3. mouth' \in Mouths /\ mouth'.queued = Tail(mouth.queued)
        BY <1>1, <2>1, <2>2 DEF Mouths
  <2>4. RestOK'
        BY <1>1, <2>1 DEF RestOK
  <2> QED BY <2>1, <2>3, <2>4, OtherKeeps
<1>4. CASE Sounds \/ NarrationEnds
  <2>1. /\ mouth' \in {[mouth EXCEPT !.sounds = TRUE], [mouth EXCEPT !.turn = 0, !.sounds = FALSE]}
        /\ UNCHANGED <<ctl, run, stream, executor, calls, consuming, ending, cancelled>>
        BY <1>4 DEF Sounds, NarrationEnds
  <2>2. mouth' \in Mouths /\ mouth'.queued = mouth.queued
        BY <1>1, <2>1, NarratorMoves
  <2>3. RestOK'
        BY <1>1, <2>1 DEF RestOK
  <2> QED BY <2>1, <2>2, <2>3, OtherKeeps
<1>5. CASE IntervalPasses
  <2>1. /\ ctl' = [ctl EXCEPT !.recent = FALSE]
        /\ UNCHANGED <<mouth, run, stream, executor, calls, consuming, ending, cancelled>>
        BY <1>5 DEF IntervalPasses
  <2>2. ctl' \in Controller /\ ctl'.execution = ctl.execution /\ ctl'.reported = ctl.reported
        BY <1>1, <2>1 DEF Controller
  <2>3. Reports(ctl') /\ RestOK'
        BY <1>1, <2>1, <2>2 DEF Reports, IsTerminal, RestOK
  <2> QED BY <1>1, <2>1, <2>2, <2>3, RunKeeps
<1>6. CASE Publish
  <2>1. /\ executor.published < MaxEvents /\ UNCHANGED <<ctl, mouth, run, calls, consuming, ending, cancelled>>
        BY <1>6 DEF Publish
  <2>2. PICK e \in Events : /\ stream' = Append(stream, e)
                            /\ executor' = [executor EXCEPT !.published = @ + 1, !.goesOn = @ /\ e \notin Terminal]
        BY <1>6 DEF Publish
  <2>3. executor \in Executors /\ stream \in Seq(Events)
        BY <1>1 DEF RestOK
  <2>4. stream' \in Seq(Events)
        BY <2>2, <2>3
  <2>5. executor.published + 1 \in 0..MaxEvents /\ (executor.goesOn /\ e \notin Terminal) \in BOOLEAN
        BY <2>1, <2>3, AgentAssumption DEF Executors
  <2>6. executor' \in Executors /\ executor'.kind = executor.kind
        BY <2>2, <2>3, <2>5 DEF Executors
  <2>7. RestOK'
        BY <1>1, <2>1, <2>4, <2>6 DEF RestOK
  <2> QED BY <1>1, <2>1, <2>6, <2>7, OtherKeeps
<1>7. CASE SteerSettles
  <2>1. /\ calls' = [calls EXCEPT !.steer = "none"]
        /\ ctl' = IF ctl.execution = "steering" THEN [ctl EXCEPT !.execution = "running"] ELSE ctl
        /\ UNCHANGED <<mouth, run, stream, executor, consuming, ending, cancelled>>
        BY <1>7 DEF SteerSettles
  <2>2. calls' \in Promises
        BY <1>1, <2>1, CallsAre DEF RestOK
  <2>3. RestOK'
        BY <1>1, <2>1, <2>2 DEF RestOK
  <2>4. CASE ctl.execution = "steering"
    <3>1. ctl' \in Controller /\ Reports(ctl') /\ ~cancelled
          BY <1>1, <2>1, <2>4 DEF Controller, Executions, Reports, IsTerminal, Terminal, GrantedPart
    <3> QED BY <1>1, <2>1, <2>3, <3>1, RunKeeps
  <2>5. CASE ctl.execution # "steering"
        BY <1>1, <2>1, <2>3, <2>5, OtherKeeps
  <2> QED BY <2>4, <2>5
<1>8. CASE CancelSettles \/ CloseSettles
  <2>1. /\ calls' \in {[calls EXCEPT !.cancel = "settled"], [calls EXCEPT !.close = "settled"]}
        /\ UNCHANGED <<ctl, mouth, run, stream, executor, consuming, ending, cancelled>>
        BY <1>8 DEF CancelSettles, CloseSettles
  <2>2. calls' \in Promises
        BY <1>1, <2>1, CallsAre DEF RestOK
  <2>3. RestOK'
        BY <1>1, <2>1, <2>2 DEF RestOK
  <2> QED BY <1>1, <2>1, <2>3, OtherKeeps
<1>9. CASE CancelRejects
  <2>1. /\ executor.kind = "foreign" /\ ctl' = failed(ctl)
        /\ calls' = [calls EXCEPT !.cancel = "settled", !.close = IF @ = "none" THEN "asked" ELSE @]
        /\ UNCHANGED <<mouth, run, stream, executor, consuming, ending, cancelled>>
        BY <1>9 DEF CancelRejects
  <2>2. calls' \in Promises
        BY <1>1, <2>1 DEF RestOK, Promises
  <2>3. RestOK'
        BY <1>1, <2>1, <2>2 DEF RestOK
  <2>4. /\ ctl' \in Controller /\ Reports(ctl') /\ IsTerminal(ctl')
        /\ ctl'.reported = IF IsTerminal(ctl) THEN ctl.reported ELSE "failed"
        /\ IsTerminal(ctl) => ctl' = ctl
        BY <1>1, <2>1, ControllerIs
  <2>5. cancelled' => \/ /\ cancelled /\ ctl'.execution = ctl.execution /\ ctl'.reported = ctl.reported
                      \/ /\ cancelled /\ IsTerminal(ctl') /\ ctl'.reported = "failed"
                         /\ executor.kind = "foreign" \/ ending' = "done"
        BY <2>1, <2>4
  <2> QED BY <1>1, <2>1, <2>3, <2>4, <2>5, RunKeeps
<1> QED BY <1>3, <1>4, <1>5, <1>6, <1>7, <1>8, <1>9

\* The event stream is read, and ends.
LEMMA StreamKeeps ==
  ASSUME RunInv, Consume \/ StreamEnds
  PROVE  RunInv' /\ (IsTerminal(ctl) => ctl' = ctl /\ mouth'.queued = mouth.queued)
<1>1. ctl \in Controller /\ mouth \in Mouths /\ RestOK /\ Reports(ctl) /\ GrantedPart /\ (consuming => run # 0)
      BY TypesAre DEF RunInv
<1>2. mouth.queued \in Seq(1..MaxRuns)
      BY <1>1 DEF Mouths
<1>3. /\ failed(ctl) \in Controller /\ Reports(failed(ctl)) /\ IsTerminal(failed(ctl))
      /\ failed(ctl).reported = IF IsTerminal(ctl) THEN ctl.reported ELSE "failed"
      /\ IsTerminal(ctl) => failed(ctl) = ctl
      BY <1>1, ControllerIs
<1>4. ASSUME failRun
      PROVE  /\ ctl' = failed(ctl) /\ mouth' \in Mouths /\ mouth'.queued \in {mouth.queued, <<>>}
             /\ IsTerminal(ctl) => mouth' = mouth
      BY <1>1, <1>4, MouthIs DEF failRun
<1>5. CASE StreamEnds
  <2>1. /\ executor.kind = "foreign" /\ failRun /\ consuming' = FALSE
        /\ executor' = [executor EXCEPT !.goesOn = FALSE]
        /\ UNCHANGED <<run, stream, calls, ending, cancelled>>
        BY <1>5 DEF StreamEnds
  <2>2. executor' \in Executors /\ executor'.kind = executor.kind
        BY <1>1, <2>1 DEF RestOK, Executors
  <2>3. RestOK'
        BY <1>1, <2>1, <2>2 DEF RestOK
  <2>4. cancelled' => \/ /\ cancelled /\ ctl'.execution = ctl.execution /\ ctl'.reported = ctl.reported
                      \/ /\ cancelled /\ IsTerminal(ctl') /\ ctl'.reported = "failed"
                         /\ executor.kind = "foreign" \/ ending' = "done"
        BY <1>3, <1>4, <2>1
  <2>5. RunInv'
        BY <1>3, <1>4, <2>1, <2>2, <2>3, <2>4, RunKeeps
  <2> QED BY <1>3, <1>4, <2>1, <2>5
<1>6. CASE Consume
  <2> DEFINE e == Head(stream)
             s == With(ctl, mouth.queued)
             t == accept(s, e)
             refused == ~IsTerminal(ctl) /\ ctl.execution # "cancelling" /\ Refuses(ctl, e)
  <2>1. /\ consuming /\ stream # <<>> /\ stream' = Tail(stream) /\ UNCHANGED <<run, executor, calls, ending, cancelled>>
        /\ IF refused THEN failRun /\ consuming' = FALSE
           ELSE ctl' = t.c /\ mouth' = [mouth EXCEPT !.queued = t.queued] /\ consuming' = ~IsTerminal(t.c)
        BY <1>6 DEF Consume
  <2>2. e \in Events /\ stream' \in Seq(Events) /\ consuming' \in BOOLEAN
    <3>1. stream \in Seq(Events)
          BY <1>1 DEF RestOK
    <3>2. e \in Events
          BY <2>1, <3>1
    <3>3. stream' \in Seq(Events)
          BY <2>1, <3>1
    <3>4. consuming' \in BOOLEAN
          BY <2>1 DEF IsTerminal
    <3> QED BY <3>2, <3>3, <3>4
  <2>3. RestOK'
        BY <1>1, <2>1, <2>2 DEF RestOK
  <2>4. CASE refused
    <3>1. ~cancelled /\ ~IsTerminal(ctl)
          BY <1>1, <2>4 DEF GrantedPart
    <3>2. RunInv'
          BY <1>3, <1>4, <2>1, <2>3, <2>4, <3>1, RunKeeps
    <3> QED BY <3>1, <3>2
  <2>5. CASE ~refused
    <3>1. run \in 1..MaxRuns
          BY <1>1, <2>1, AgentAssumption DEF RestOK
    <3>2. s \in Speeches /\ s.c = ctl /\ s.queued = mouth.queued
          BY <1>1, <1>2 DEF With, Speeches
    <3> HIDE DEF e, s
    <3>3. ~IsTerminal(s.c) => s.c.execution = "cancelling" \/ ~Refuses(s.c, e)
          BY <2>5, <3>2
    <3>4. /\ t \in Speeches /\ Reports(t.c) /\ (IsTerminal(s.c) => t = s)
          /\ s.c.execution = "cancelling" => t.queued = s.queued /\ (t.c = s.c \/ t.c.reported = "cancelled")
          BY <1>1, <2>2, <3>1, <3>2, <3>3, AcceptIs
    <3> HIDE DEF t
    <3>5. t.c \in Controller /\ t.queued \in Seq(1..MaxRuns)
          BY <3>4 DEF Speeches
    <3>6. ctl' = t.c /\ mouth' \in Mouths /\ mouth'.queued = t.queued
          BY <1>1, <2>1, <2>5, <3>5, MouthIs
    <3>7. IsTerminal(ctl) => ctl' = ctl /\ mouth'.queued = mouth.queued
          BY <3>2, <3>4, <3>6
    <3>8. /\ cancelled => mouth'.queued = mouth.queued
          /\ cancelled => \/ ctl' = ctl
                          \/ IsTerminal(ctl') /\ ctl'.reported = "cancelled"
          BY <1>1, <3>2, <3>4, <3>6, <3>7 DEF GrantedPart, IsTerminal
    <3>9. RunInv'
          BY <2>1, <2>3, <3>4, <3>5, <3>6, <3>8, RunKeeps
    <3> QED BY <3>7, <3>9
  <2> QED BY <2>4, <2>5
<1> QED BY <1>5, <1>6

\* The invariant of a session's runs, for any number of runs and of events, and whatever a
\* foreign executor does.
THEOREM RunInvariant == AgentSpec => []RunInv
<1>1. AgentInit => RunInv
  <2> SUFFICES ASSUME AgentInit PROVE RunInv
      OBVIOUS
  <2>1. ctl \in Controller /\ Reports(ctl)
        BY DEF AgentInit, NewController, Controller, Executions, Reports, IsTerminal, Terminal
  <2>2. mouth \in Mouths
    <3>1. <<>> \in Seq(1..MaxRuns) /\ 0 \in 0..MaxRuns
          BY AgentAssumption
    <3> QED BY <3>1 DEF AgentInit, Silence, Mouths
  <2>3. RestOK
    <3>1. <<>> \in Seq(Events) /\ 0 \in 0..MaxRuns /\ 0 \in 0..MaxEvents
          BY AgentAssumption
    <3> QED BY <3>1, CallsAre DEF AgentInit, RestOK, Executors, Kinds
  <2> QED BY <2>1, <2>2, <2>3, TypesAre DEF AgentInit, RunInv, GrantedPart
<1>2. RunInv /\ [AgentNext]_agentVars => RunInv'
  <2> SUFFICES ASSUME RunInv, [AgentNext]_agentVars PROVE RunInv'
      OBVIOUS
  <2>1. CASE UNCHANGED agentVars
    <3>1. RestOK' /\ mouth' \in Mouths
          BY <2>1, TypesAre DEF RunInv, RestOK, agentVars
    <3> QED BY <2>1, <3>1, OtherKeeps DEF agentVars
  <2> QED BY <2>1, StartRunKeeps, SessionKeeps, SettlingKeeps, StreamKeeps DEF AgentNext
<1> QED BY <1>1, <1>2, PTL DEF AgentSpec

\* A terminal run stays what it is and says nothing more.
LEMMA FinalStep ==
  ASSUME RunInv, [AgentNext]_agentVars, IsTerminal(ctl), run' = run
  PROVE  /\ ctl'.reported = ctl.reported /\ ctl'.execution = ctl.execution
         /\ Len(mouth'.queued) <= Len(mouth.queued)
<1>1. ctl \in Controller /\ mouth \in Mouths /\ run \in Nat /\ Reports(ctl)
      BY TypesAre DEF RunInv, RestOK
<1>2. mouth.queued \in Seq(1..MaxRuns) /\ Len(mouth.queued) \in Nat /\ Len(<<>>) = 0
      BY <1>1 DEF Mouths
<1>3. ctl.execution \in Terminal /\ ~MayCancel(ctl) /\ ctl.execution \notin {"running", "steering"}
      BY <1>1 DEF Reports, MayCancel, Terminal
<1>4. ASSUME UNCHANGED ctl, mouth'.queued \in {mouth.queued, <<>>}
      PROVE  /\ ctl'.reported = ctl.reported /\ ctl'.execution = ctl.execution
             /\ Len(mouth'.queued) <= Len(mouth.queued)
      BY <1>2, <1>4
<1>5. ~StartRun /\ ~steer /\ ~cancel
      BY <1>1, <1>3 DEF StartRun, steer, cancel
<1>6. CASE BargeIn
  <2>1. CASE ctl' = [ctl EXCEPT !.speaking = FALSE, !.staged = FALSE, !.recent = TRUE] /\ mouth' = Silence
        BY <1>1, <1>2, <2>1 DEF Silence, Controller
  <2>2. CASE mouth' = [mouth EXCEPT !.turn = 0, !.sounds = FALSE] /\ UNCHANGED ctl
        BY <1>1, <1>4, <2>2 DEF Mouths
  <2> QED BY <1>6, <2>1, <2>2 DEF BargeIn
<1>7. CASE EndSession
      BY <1>3, <1>4, <1>7 DEF EndSession, Silence
<1>8. CASE CleanUp \/ RunDrained \/ Publish \/ CancelSettles \/ CloseSettles
      BY <1>4, <1>8 DEF CleanUp, RunDrained, Publish, CancelSettles, CloseSettles
<1>9. CASE DrainTimeout \/ CancelRejects
      BY <1>4, <1>9 DEF DrainTimeout, CancelRejects, failed
<1>10. CASE Narrate
  <2>1. UNCHANGED ctl /\ mouth'.queued = Tail(mouth.queued) /\ mouth.queued # <<>>
        BY <1>1, <1>10 DEF Narrate, Mouths
  <2>2. Len(Tail(mouth.queued)) = Len(mouth.queued) - 1
        BY <1>2, <2>1
  <2> QED BY <1>2, <2>1, <2>2
<1>11. CASE Sounds \/ NarrationEnds
  <2>1. UNCHANGED ctl /\ mouth'.queued = mouth.queued
        BY <1>1, <1>11 DEF Sounds, NarrationEnds, Mouths
  <2> QED BY <1>4, <2>1
<1>12. CASE IntervalPasses
      BY <1>1, <1>2, <1>12 DEF IntervalPasses, Controller
<1>13. CASE Consume \/ StreamEnds
      BY <1>4, <1>13, StreamKeeps
<1>14. CASE SteerSettles
      BY <1>3, <1>4, <1>14 DEF SteerSettles
<1>15. CASE UNCHANGED agentVars
      BY <1>4, <1>15 DEF agentVars
<1> QED BY <1>5, <1>6, <1>7, <1>8, <1>9, <1>10, <1>11, <1>12, <1>13, <1>14, <1>15 DEF AgentNext

\* Once the user's cancellation is granted the run says no more and is reported as cancelled;
\* a terminal run is final, though its stream still comes.
THEOREM OutcomeStays == AgentSpec => OutcomeStands
<1>1. RunInv => CancellationOwnsRun
      BY DEF RunInv, GrantedPart, CancellationOwnsRun
<1>2. RunInv /\ [AgentNext]_agentVars
        => [IsTerminal(ctl) /\ run' = run =>
              /\ ctl'.reported = ctl.reported /\ ctl'.execution = ctl.execution
              /\ Len(mouth'.queued) <= Len(mouth.queued)]_agentVars
      BY FinalStep
<1> QED BY <1>1, <1>2, RunInvariant, PTL DEF AgentSpec, OutcomeStands, TerminalIsFinal

-----------------------------------------------------------------------------
(* The tools' boundary.                                                    *)

Whys == {"none", "cancelled", "timeout", "closed"}
Outcomes == {"none"} \union invocationTerminal

Dispatches == [handler : {"due", "running", "done", "never"}, by : Callers, of : Bodies, effect : Effects,
               cancellable : BOOLEAN, why : Whys, result : Outcomes, late : BOOLEAN, acted : BOOLEAN]

Closings == [at : {"none", "waiting", "drained", "left", "thrown"}, active : SUBSET Keys]

\* What an abort decided, and what was too late for the answer.
Decided(d) ==
    /\ d.handler \in {"due", "running"} /\ d.result # "none" => d.why # "none"
    /\ d.why # "none" => d.result # "none"
    /\ d.late => d.why # "none"
    /\ d.why # "none" /\ (d.late \/ d.handler \notin Ended) => d.result = abortToolResult(d.effect, d.why)

ToolsTyped ==
    /\ tools \in [closed : BOOLEAN, work : [Keys -> Dispatches \union {NoDispatch}]]
    /\ closes \in [Closers -> Closings]

\* What a close has counted on.
CloseKnows(c) ==
    /\ c.at = "waiting" => tools.closed /\ \A k \in Dispatched : IsOver(k) \/ k \in c.active
    /\ c.at = "drained" => tools.closed /\ \A k \in Dispatched : IsOver(k)

\* The invariant of the runner: an answer given before the handler returned is the one the
\* abort decides, and a close knows all that still runs.
ToolInv ==
    /\ ToolsTyped
    /\ \A k \in Dispatched : Decided(tools.work[k])
    /\ \A x \in Closers : CloseKnows(closes[x])

\* What an abort answers is an outcome.
LEMMA AbortTyped ==
  ASSUME NEW effect \in Effects, NEW why \in Whys
  PROVE  abortToolResult(effect, why) \in invocationTerminal
BY DEF abortToolResult, invocationTerminal, Whys, Effects

\* What a dispatch is after an abort.
LEMMA AbortIs ==
  ASSUME NEW d \in Dispatches, Decided(d), NEW why \in Whys \ {"none"}
  PROVE  /\ Abort(d, why) \in Dispatches
         /\ Decided(Abort(d, why))
         /\ Abort(d, why).handler = d.handler
         /\ Abort(d, why).why # "none"
<1>1. CASE d.why # "none"
      BY <1>1 DEF Abort
<1>2. CASE d.why = "none"
  <2> DEFINE r == IF d.result = "none" THEN abortToolResult(d.effect, why) ELSE d.result
             e == [d EXCEPT !.why = why, !.result = r]
  <2>1. Abort(d, why) = e
        BY <1>2 DEF Abort, Dispatches
  <2>2. r \in Outcomes /\ r # "none"
        BY AbortTyped DEF Outcomes, invocationTerminal, Dispatches
  <2>3. e \in Dispatches
        BY <2>2 DEF Dispatches
  <2>4. /\ e.why = why /\ e.result = r /\ e.handler = d.handler /\ e.late = d.late /\ e.effect = d.effect
        BY DEF Dispatches
  <2>5. ~d.late /\ (d.handler \notin Ended => d.result = "none")
        BY <1>2 DEF Decided, Dispatches, Ended
  <2>6. Decided(e)
        BY <2>2, <2>4, <2>5 DEF Decided
  <2> QED BY <2>1, <2>3, <2>4, <2>6
<1> QED BY <1>1, <1>2

\* A dispatch is none other than what was never dispatched.
LEMMA DispatchIs ==
  ASSUME ToolsTyped
  PROVE  /\ NoDispatch \notin Dispatches
         /\ \A k \in Dispatched : k \in Keys /\ tools.work[k] \in Dispatches
         /\ \A k \in Keys : k \notin Dispatched => tools.work[k] = NoDispatch
<1>1. NoDispatch \notin Dispatches
  <2>1. SUFFICES ASSUME NoDispatch \in Dispatches PROVE FALSE
        OBVIOUS
  <2>2. NoDispatch.handler = "none" /\ NoDispatch.handler \in {"due", "running", "done", "never"}
        BY <2>1 DEF NoDispatch, Dispatches
  <2> QED BY <2>2
<1>2. \A k \in Keys : tools.work[k] \in Dispatches \union {NoDispatch}
      BY DEF ToolsTyped
<1> QED BY <1>1, <1>2 DEF Dispatched

\* One dispatch moves on by itself: nothing ends but this, and no more is dispatched.
LEMMA WorkMoves ==
  ASSUME ToolInv, NEW k \in Dispatched, NEW d \in Dispatches, Decided(d),
         tools' = [tools EXCEPT !.work[k] = d], UNCHANGED closes,
         IsOver(k) => d.handler \in Ended
  PROVE  ToolInv'
<1>1. ToolsTyped /\ k \in Keys
      BY DispatchIs DEF ToolInv
<1>2. tools'.closed = tools.closed /\ tools'.work = [tools.work EXCEPT ![k] = d]
      /\ ToolsTyped'
      BY <1>1 DEF ToolsTyped
<1>3. Dispatched' = Dispatched
      BY <1>1, <1>2, DispatchIs DEF Dispatched, ToolsTyped
<1>4. \A j \in Dispatched : tools'.work[j] = IF j = k THEN d ELSE tools.work[j]
      BY <1>1, <1>2, DispatchIs DEF ToolsTyped
<1>5. \A j \in Dispatched' : Decided(tools'.work[j])
      BY <1>3, <1>4 DEF ToolInv
<1>6. \A j \in Dispatched : IsOver(j) => IsOver(j)'
      BY <1>4 DEF IsOver
<1>7. \A x \in Closers : CloseKnows(closes[x])'
  <2> TAKE x \in Closers
  <2>1. CloseKnows(closes[x])
        BY DEF ToolInv
  <2> QED BY <2>1, <1>2, <1>3, <1>6 DEF CloseKnows
<1> QED BY <1>2, <1>5, <1>7 DEF ToolInv

\* Several are aborted at once: none ends, and no more is dispatched.
LEMMA WorkAborts ==
  ASSUME ToolInv, NEW S \in SUBSET Dispatched, NEW why \in Whys \ {"none"}, NEW closed \in BOOLEAN,
         tools.closed => closed,
         tools' = [closed |-> closed,
                   work |-> [k \in Keys |-> IF k \in S THEN Abort(tools.work[k], why) ELSE tools.work[k]]]
  PROVE  /\ ToolsTyped => tools' \in [closed : BOOLEAN, work : [Keys -> Dispatches \union {NoDispatch}]]
         /\ Dispatched' = Dispatched
         /\ \A k \in Dispatched' : Decided(tools'.work[k])
         /\ \A k \in Dispatched : IsOver(k)' <=> IsOver(k)
<1>1. ToolsTyped
      BY DEF ToolInv
<1>2. \A k \in S : /\ Abort(tools.work[k], why) \in Dispatches /\ Decided(Abort(tools.work[k], why))
                   /\ Abort(tools.work[k], why).handler = tools.work[k].handler
  <2> TAKE k \in S
  <2>1. tools.work[k] \in Dispatches /\ Decided(tools.work[k])
        BY <1>1, DispatchIs DEF ToolInv
  <2> QED BY <2>1, AbortIs
<1>3. \A k \in Keys : tools'.work[k] = IF k \in S THEN Abort(tools.work[k], why) ELSE tools.work[k]
      OBVIOUS
<1>4. \A k \in Keys : tools'.work[k] \in Dispatches \union {NoDispatch}
      BY <1>1, <1>2, <1>3 DEF ToolsTyped
<1>5. tools' \in [closed : BOOLEAN, work : [Keys -> Dispatches \union {NoDispatch}]]
      BY <1>3, <1>4
<1>6. Dispatched' = Dispatched
      BY <1>1, <1>2, <1>3, DispatchIs DEF Dispatched
<1>7. \A k \in Dispatched' : Decided(tools'.work[k])
      BY <1>1, <1>2, <1>3, <1>6, DispatchIs DEF ToolInv
<1>8. \A k \in Dispatched : IsOver(k)' <=> IsOver(k)
      BY <1>1, <1>2, <1>3, DispatchIs DEF IsOver
<1> QED BY <1>5, <1>6, <1>7, <1>8

\* A call of run(): it joins, is refused, or dispatches what is new.
LEMMA RunsKeeps ==
  ASSUME ToolInv, NEW c \in Callers, NEW k \in Keys, NEW content \in Bodies, NEW p \in Runnable,
         Runs(c, k, content, p)
  PROVE  ToolInv'
<1> DEFINE new == [handler |-> "due", by |-> c, of |-> content, effect |-> p.effect,
                   cancellable |-> p.cancellable, why |-> "none", result |-> "none", late |-> FALSE,
                   acted |-> FALSE]
           gone == [Abort(new, "cancelled") EXCEPT !.handler = "never"]
<1>1. ToolsTyped /\ UNCHANGED closes
      BY DEF ToolInv, Runs
<1>2. CASE UNCHANGED tools
      BY <1>1, <1>2 DEF ToolInv, ToolsTyped, CloseKnows, Dispatched, IsOver
<1>3. CASE k \notin Dispatched /\ ~tools.closed /\ \E d \in {new, gone} : tools' = [tools EXCEPT !.work[k] = d]
  <2>1. PICK d \in {new, gone} : tools' = [tools EXCEPT !.work[k] = d]
        BY <1>3
  <2>2. p.effect \in Effects /\ p.cancellable \in BOOLEAN
        BY DEF Runnable, Policies
  <2>3. new \in Dispatches /\ Decided(new)
        BY <2>2 DEF Dispatches, Decided, Whys, Outcomes
  <2>4. Abort(new, "cancelled") \in Dispatches /\ Abort(new, "cancelled").why # "none"
        /\ Decided(Abort(new, "cancelled"))
        BY <2>3, AbortIs DEF Whys
  <2>5. Abort(new, "cancelled").handler = "due"
        BY <2>3, AbortIs DEF Whys
  <2> HIDE DEF new
  <2>6. gone \in Dispatches /\ Decided(gone)
    <3> DEFINE a == Abort(new, "cancelled")
    <3>1. a \in Dispatches /\ a.why # "none" /\ Decided(a) /\ a.handler = "due"
          BY <2>4, <2>5
    <3> HIDE DEF a
    <3> DEFINE b == [a EXCEPT !.handler = "never"]
    <3>2. b \in Dispatches /\ b.why = a.why /\ b.result = a.result /\ b.late = a.late /\ b.effect = a.effect
          /\ b.handler = "never"
          BY <3>1 DEF Dispatches
    <3>3. Decided(b)
          BY <3>1, <3>2 DEF Decided, Ended
    <3> QED BY <3>2, <3>3 DEF a
  <2>7. d \in Dispatches /\ Decided(d)
        BY <2>3, <2>6
  <2>8. ToolsTyped' /\ tools'.closed = tools.closed
        BY <1>1, <2>1, <2>7 DEF ToolsTyped
  <2>9. \A j \in Keys : tools'.work[j] = IF j = k THEN d ELSE tools.work[j]
        BY <1>1, <2>1 DEF ToolsTyped
  <2>10. \A j \in Dispatched' : Decided(tools'.work[j])
        BY <2>7, <2>9 DEF ToolInv, Dispatched
  <2>11. \A x \in Closers : CloseKnows(closes[x])'
        BY <1>1, <1>3, <2>8 DEF ToolInv, CloseKnows
  <2> QED BY <2>8, <2>10, <2>11 DEF ToolInv
<1> QED BY <1>2, <1>3 DEF Runs

\* A signal fires: what its call dispatched is aborted.
LEMMA SignalsKeeps ==
  ASSUME ToolInv, NEW c \in Callers, Signals(c)
  PROVE  ToolInv'
<1> DEFINE S == {k \in Dispatched : ~IsOver(k) /\ tools.work[k].by = c /\ tools.work[k].cancellable}
<1>1. ToolsTyped /\ S \in SUBSET Dispatched /\ S \subseteq Keys /\ UNCHANGED closes
      BY DispatchIs DEF ToolInv, Signals
<1>2. tools' = [closed |-> tools.closed,
                work |-> [k \in Keys |-> IF k \in S THEN Abort(tools.work[k], "cancelled") ELSE tools.work[k]]]
  <2>1. tools' = [tools EXCEPT !.work = [k \in Keys |->
                    IF k \in Dispatched /\ ~IsOver(k) /\ tools.work[k].by = c /\ tools.work[k].cancellable
                    THEN Abort(tools.work[k], "cancelled") ELSE tools.work[k]]]
        BY DEF Signals
  <2>2. [k \in Keys |-> IF k \in Dispatched /\ ~IsOver(k) /\ tools.work[k].by = c /\ tools.work[k].cancellable
                        THEN Abort(tools.work[k], "cancelled") ELSE tools.work[k]]
        = [k \in Keys |-> IF k \in S THEN Abort(tools.work[k], "cancelled") ELSE tools.work[k]]
        OBVIOUS
  <2> QED BY <1>1, <2>1, <2>2 DEF ToolsTyped
<1> HIDE DEF S
<1>3. /\ tools' \in [closed : BOOLEAN, work : [Keys -> Dispatches \union {NoDispatch}]]
      /\ Dispatched' = Dispatched /\ \A k \in Dispatched' : Decided(tools'.work[k])
      /\ \A k \in Dispatched : IsOver(k)' <=> IsOver(k)
  <2>1. "cancelled" \in Whys \ {"none"} /\ tools.closed \in BOOLEAN
        BY <1>1 DEF Whys, ToolsTyped
  <2> QED BY <1>1, <1>2, <2>1, WorkAborts
<1>4. tools'.closed = tools.closed
      BY <1>2
<1>5. ToolsTyped'
      BY <1>1, <1>3 DEF ToolsTyped
<1>6. \A x \in Closers : CloseKnows(closes[x])'
      BY <1>1, <1>3, <1>4 DEF ToolInv, CloseKnows
<1> QED BY <1>3, <1>5, <1>6 DEF ToolInv

\* A dispatch starts, runs out of time, acts and returns.
LEMMA HandlerKeeps ==
  ASSUME ToolInv, NEW k \in Keys, Starts(k) \/ TimesOut(k) \/ Acts(k) \/ Returns(k)
  PROVE  ToolInv'
<1> DEFINE d == tools.work[k]
<1>1. ToolsTyped /\ UNCHANGED closes /\ d.handler \in {"due", "running"}
      BY DEF ToolInv, Starts, TimesOut, Acts, Returns
<1>2. k \in Dispatched /\ d \in Dispatches /\ Decided(d) /\ ~IsOver(k)
  <2>1. d # NoDispatch
        BY <1>1 DEF NoDispatch
  <2>2. k \in Dispatched
        BY <2>1 DEF Dispatched
  <2>3. ~IsOver(k)
        BY <1>1 DEF IsOver, Ended
  <2> QED BY <1>1, <2>2, <2>3, DispatchIs DEF ToolInv
<1>3. \A e \in Dispatches : tools' = [tools EXCEPT !.work[k] = e] /\ Decided(e) => ToolInv'
      BY <1>1, <1>2, WorkMoves
<1>4. CASE Starts(k)
  <2> DEFINE e == [d EXCEPT !.handler = "running"]
  <2>1. e \in Dispatches /\ e.handler = "running" /\ e.why = d.why /\ e.result = d.result /\ e.late = d.late
        /\ e.effect = d.effect
        BY <1>2 DEF Dispatches
  <2>2. Decided(e)
        BY <1>1, <1>2, <2>1 DEF Decided, Ended
  <2>3. tools' = [tools EXCEPT !.work[k] = e]
        BY <1>1, <1>4 DEF Starts, ToolsTyped
  <2> QED BY <1>3, <2>1, <2>2, <2>3
<1>5. CASE TimesOut(k)
  <2>1. tools' = [tools EXCEPT !.work[k] = Abort(d, "timeout")]
        BY <1>1, <1>5 DEF TimesOut, ToolsTyped
  <2>2. Abort(d, "timeout") \in Dispatches /\ Decided(Abort(d, "timeout"))
        BY <1>2, AbortIs DEF Whys
  <2> QED BY <1>3, <2>1, <2>2
<1>6. CASE Acts(k)
  <2> DEFINE e == [d EXCEPT !.acted = TRUE, !.late = (d.result # "none")]
  <2>1. e \in Dispatches /\ e.handler = d.handler /\ e.why = d.why /\ e.result = d.result
        /\ e.late = (d.result # "none") /\ e.effect = d.effect
        BY <1>2 DEF Dispatches
  <2>2. Decided(e)
        BY <1>1, <1>2, <2>1 DEF Decided, Ended
  <2>3. tools' = [tools EXCEPT !.work[k] = e]
        BY <1>1, <1>6 DEF Acts, ToolsTyped
  <2> QED BY <1>3, <2>1, <2>2, <2>3
<1>7. CASE Returns(k)
  <2>1. PICK outcome \in {"completed", "failed", "cancelled", "outcome_unknown"} :
            tools' = [tools EXCEPT !.work[k].handler = "done",
                                   !.work[k].result = IF @ = "none" THEN outcome ELSE @]
        BY <1>7 DEF Returns
  <2> DEFINE r == IF d.result = "none" THEN outcome ELSE d.result
             e == [d EXCEPT !.handler = "done", !.result = r]
  <2>2. r \in Outcomes /\ r # "none"
        BY <1>2 DEF Outcomes, invocationTerminal, Dispatches
  <2>3. e \in Dispatches /\ e.handler = "done" /\ e.why = d.why /\ e.result = r /\ e.late = d.late
        /\ e.effect = d.effect
        BY <1>2, <2>2 DEF Dispatches
  <2>4. Decided(e)
        BY <1>1, <1>2, <2>2, <2>3 DEF Decided, Ended
  <2>5. tools' = [tools EXCEPT !.work[k] = e]
        BY <1>1, <1>2, <2>1 DEF ToolsTyped
  <2> QED BY <1>3, <2>3, <2>4, <2>5
<1> QED BY <1>4, <1>5, <1>6, <1>7

\* A close begins, drains, or gives up at its deadline.
LEMMA ClosesKeep ==
  ASSUME ToolInv, NEW x \in Closers, Closes(x) \/ Drains(x) \/ ClosesAnyway(x)
  PROVE  ToolInv'
<1> DEFINE active == {k \in Dispatched : ~IsOver(k)}
<1>1. ToolsTyped /\ active \in SUBSET Keys /\ closes[x] \in Closings
      BY DispatchIs DEF ToolInv, ToolsTyped
<1>2. CASE /\ closes[x].at = "none"
           /\ tools' = [tools EXCEPT !.closed = TRUE, !.work = [k \in Keys |->
                IF k \in active THEN Abort(tools.work[k], "closed") ELSE tools.work[k]]]
           /\ closes' = [closes EXCEPT ![x] =
                [at |-> IF active = {} THEN "drained" ELSE "waiting", active |-> active]]
  <2>1. tools' = [closed |-> TRUE,
                  work |-> [k \in Keys |-> IF k \in active THEN Abort(tools.work[k], "closed") ELSE tools.work[k]]]
        BY <1>1, <1>2 DEF ToolsTyped
  <2>2. /\ tools' \in [closed : BOOLEAN, work : [Keys -> Dispatches \union {NoDispatch}]]
        /\ Dispatched' = Dispatched /\ \A k \in Dispatched' : Decided(tools'.work[k])
        /\ \A k \in Dispatched : IsOver(k)' <=> IsOver(k)
    <3>1. "closed" \in Whys \ {"none"} /\ active \in SUBSET Dispatched
          BY DEF Whys
    <3> HIDE DEF active
    <3> QED BY <1>1, <2>1, <3>1, WorkAborts
  <2>3. [at |-> IF active = {} THEN "drained" ELSE "waiting", active |-> active] \in Closings
        BY <1>1 DEF Closings
  <2>4. ToolsTyped'
        BY <1>1, <1>2, <2>2, <2>3 DEF ToolsTyped
  <2>5. \A z \in Closers : CloseKnows(closes[z])'
    <3> TAKE z \in Closers
    <3>1. CASE z = x
      <4>1. closes'[z] = [at |-> IF active = {} THEN "drained" ELSE "waiting", active |-> active]
            BY <1>1, <1>2, <3>1 DEF ToolsTyped
      <4>2. \A k \in Dispatched' : IsOver(k)' \/ k \in active
            BY <2>2
      <4> QED BY <2>1, <4>1, <4>2 DEF CloseKnows
    <3>2. CASE z # x
      <4>1. closes'[z] = closes[z] /\ CloseKnows(closes[z])
            BY <1>1, <1>2, <3>2 DEF ToolsTyped, ToolInv
      <4> QED BY <2>1, <2>2, <4>1 DEF CloseKnows
    <3> QED BY <3>1, <3>2
  <2> QED BY <2>2, <2>4, <2>5 DEF ToolInv
<1>3. CASE tools' = [tools EXCEPT !.closed = TRUE] /\ closes' = [closes EXCEPT ![x].at = "thrown"]
  <2>1. tools'.closed = TRUE /\ tools'.work = tools.work /\ ToolsTyped'
        BY <1>1, <1>3 DEF ToolsTyped, Closings
  <2>2. Dispatched' = Dispatched /\ \A k \in Dispatched : IsOver(k)' <=> IsOver(k)
        BY <2>1 DEF Dispatched, IsOver
  <2>3. \A z \in Closers : CloseKnows(closes[z])'
    <3> TAKE z \in Closers
    <3>1. closes'[z] = closes[z] \/ closes'[z].at = "thrown"
          BY <1>1, <1>3 DEF ToolsTyped, Closings
    <3>2. CloseKnows(closes[z])
          BY DEF ToolInv
    <3> QED BY <2>1, <2>2, <3>1, <3>2 DEF CloseKnows
  <2> QED BY <2>1, <2>2, <2>3 DEF ToolInv
<1>4. CASE Drains(x) \/ ClosesAnyway(x)
  <2>1. UNCHANGED tools /\ closes[x].at = "waiting"
        BY <1>4 DEF Drains, ClosesAnyway
  <2>2. Dispatched' = Dispatched /\ \A k \in Dispatched : IsOver(k)' <=> IsOver(k)
        BY <2>1 DEF Dispatched, IsOver
  <2>3. closes' \in [Closers -> Closings]
        BY <1>1, <1>4 DEF Drains, ClosesAnyway, ToolsTyped, Closings
  <2>4. ToolsTyped'
        BY <1>1, <2>1, <2>3 DEF ToolsTyped
  <2>5. \A z \in Closers : CloseKnows(closes[z])'
    <3> TAKE z \in Closers
    <3>1. CloseKnows(closes[z]) /\ CloseKnows(closes[x])
          BY DEF ToolInv
    <3>2. CASE Drains(x)
      <4>1. closes'[z] = closes[z] \/ (z = x /\ closes'[z].at = "drained")
        <5>1. closes \in [Closers -> Closings] /\ closes' = [closes EXCEPT ![x].at = "drained"]
              BY <1>1, <3>2 DEF Drains, ToolsTyped
        <5>2. z # x => closes'[z] = closes[z]
              BY <5>1
        <5>3. z = x => closes'[z].at = "drained"
              BY <5>1 DEF Closings
        <5> QED BY <5>2, <5>3
      <4>2. tools.closed /\ \A k \in Dispatched : IsOver(k)
            BY <2>1, <3>1, <3>2 DEF Drains, CloseKnows
      <4> QED BY <2>1, <2>2, <3>1, <4>1, <4>2 DEF CloseKnows
    <3>3. CASE ClosesAnyway(x)
      <4>1. closes'[z] = closes[z] \/ closes'[z].at = "left"
            BY <1>1, <3>3 DEF ClosesAnyway, ToolsTyped, Closings
      <4> QED BY <2>1, <2>2, <3>1, <4>1 DEF CloseKnows
    <3> QED BY <1>4, <3>2, <3>3
  <2> QED BY <2>1, <2>2, <2>4, <2>5 DEF ToolInv
<1> QED BY <1>2, <1>3, <1>4 DEF Closes

\* The runner's invariant holds of every behaviour of the boundary.
THEOREM RunnerInvariant == RunnerSpec => []ToolInv
<1> DEFINE Step == (RunnerNext /\ UNCHANGED ledger) \/ (LedgerNext /\ UNCHANGED runnerVars)
<1>1. RunnerInit => ToolInv
  <2> SUFFICES ASSUME RunnerInit PROVE ToolInv
      OBVIOUS
  <2>1. ToolsTyped
        BY DEF RunnerInit, ToolsTyped, Closings
  <2>2. Dispatched = {}
        BY DEF RunnerInit, Dispatched
  <2>3. \A x \in Closers : closes[x].at = "none"
        BY DEF RunnerInit
  <2> QED BY <2>1, <2>2, <2>3 DEF ToolInv, CloseKnows
<1>2. ToolInv /\ [Step]_<<runnerVars, ledger>> => ToolInv'
  <2> SUFFICES ASSUME ToolInv, [Step]_<<runnerVars, ledger>> PROVE ToolInv'
      OBVIOUS
  <2>1. CASE RunnerNext
    <3>1. CASE \E c \in Callers : Signals(c) \/ \E k \in Keys, content \in Bodies, p \in Runnable : Runs(c, k, content, p)
          BY <3>1, SignalsKeeps, RunsKeeps
    <3>2. CASE \E k \in Keys : Starts(k) \/ TimesOut(k) \/ Acts(k) \/ Returns(k)
          BY <3>2, HandlerKeeps
    <3>3. CASE \E x \in Closers : Closes(x) \/ Drains(x) \/ ClosesAnyway(x)
          BY <3>3, ClosesKeep
    <3> QED BY <2>1, <3>1, <3>2, <3>3 DEF RunnerNext
  <2>2. CASE UNCHANGED runnerVars
        BY <2>2 DEF runnerVars, ToolInv, ToolsTyped, CloseKnows, Dispatched, IsOver
  <2> QED BY <2>1, <2>2
<1> QED BY <1>1, <1>2, PTL DEF RunnerSpec

\* An external tool that acted after its answer was given was answered "outcome unknown",
\* unless its caller cancelled it, and a runner that has drained runs nothing any more:
\* for any callers, closes and invocations (the first part of ToolsAreAccounted).
THEOREM RunnerStaysHonest == RunnerSpec => []RunnerIsHonest
<1>1. ToolInv => RunnerIsHonest
  <2> SUFFICES ASSUME ToolInv PROVE RunnerIsHonest
      OBVIOUS
  <2>1. ASSUME NEW k \in Dispatched, tools.work[k].late, tools.work[k].effect = "external"
        PROVE  \/ tools.work[k].result = "outcome_unknown"
               \/ tools.work[k].result = "cancelled" /\ tools.work[k].why = "cancelled"
    <3> DEFINE d == tools.work[k]
    <3>1. d \in Dispatches /\ Decided(d)
          BY DispatchIs DEF ToolInv
    <3>2. d.why \in {"cancelled", "timeout", "closed"} /\ d.result = abortToolResult("external", d.why)
          BY <2>1, <3>1 DEF Decided, Dispatches, Whys
    <3> QED BY <3>2 DEF abortToolResult
  <2>2. \A x \in Closers : closes[x].at = "drained" => tools.closed /\ \A k \in Dispatched : IsOver(k)
        BY DEF ToolInv, CloseKnows
  <2> QED BY <2>1, <2>2 DEF RunnerIsHonest
<1> QED BY <1>1, RunnerInvariant, PTL

\* What the ledger holds of each invocation.
LedgerTyped == ledger \in [Keys -> [state : {"absent", "prepared", "waiting_confirmation", "running", "committed"}
                                              \union invocationTerminal, effect : Effects]]

\* What one call of the ledger may do to one entry.
Moves(old, new, effect) ==
    /\ old \in invocationTerminal => new = old
    /\ old = "committed" => new # "cancelled"
    /\ new = "completed" /\ new # old /\ effect = "external" => old = "committed"

\* A move of one entry, from states that are not outcomes.
LEMMA TransitionMoves ==
  ASSUME LedgerTyped, NEW k \in Keys, NEW from, NEW to \in {"waiting_confirmation", "running", "committed"} \union invocationTerminal,
         transition(k, from, to), from \intersect invocationTerminal = {},
         to = "cancelled" => "committed" \notin from,
         to = "completed" /\ ledger[k].effect = "external" => from \subseteq {"committed"}
  PROVE  /\ LedgerTyped'
         /\ \A j \in Keys : Moves(ledger[j].state, ledger'[j].state, ledger[j].effect)
<1>1. ledger[k].state \in from /\ ledger' = [ledger EXCEPT ![k].state = to]
      BY DEF transition
<1>2. \A j \in Keys : ledger'[j].state = IF j = k THEN to ELSE ledger[j].state
      BY <1>1 DEF LedgerTyped
<1>3. LedgerTyped'
      BY <1>1 DEF LedgerTyped
<1>4. ASSUME NEW j \in Keys PROVE Moves(ledger[j].state, ledger'[j].state, ledger[j].effect)
  <2>1. CASE j = k
        BY <1>1, <1>2, <2>1 DEF Moves
  <2>2. CASE j # k
        BY <1>2, <2>2 DEF Moves, invocationTerminal
  <2> QED BY <2>1, <2>2
<1> QED BY <1>3, <1>4

\* One step of the ledger.
LEMMA LedgerMoves ==
  ASSUME LedgerTyped, LedgerNext
  PROVE  /\ LedgerTyped'
         /\ \A j \in Keys : Moves(ledger[j].state, ledger'[j].state, ledger[j].effect)
<1>1. PICK k \in Keys :
        \/ \E effect \in Effects : Prepares(k, effect)
        \/ transition(k, {"prepared"}, "waiting_confirmation")
        \/ transition(k, {"prepared", "waiting_confirmation"}, "running")
        \/ transition(k, {"running"}, "committed")
        \/ CancelsInvocation(k) \/ FinishesInvocation(k)
      BY DEF LedgerNext
<1>2. CASE \E effect \in Effects : Prepares(k, effect)
  <2>1. PICK effect \in Effects : Prepares(k, effect)
        BY <1>2
  <2>2. ledger[k].state = "absent" /\ ledger' = [ledger EXCEPT ![k] = [state |-> "prepared", effect |-> effect]]
        BY <2>1 DEF Prepares
  <2>3. \A j \in Keys : ledger'[j].state = IF j = k THEN "prepared" ELSE ledger[j].state
        BY <2>2 DEF LedgerTyped
  <2>4. LedgerTyped'
        BY <2>2 DEF LedgerTyped
  <2>5. \A j \in Keys : Moves(ledger[j].state, ledger'[j].state, ledger[j].effect)
        BY <2>2, <2>3 DEF Moves, invocationTerminal
  <2> QED BY <2>4, <2>5
<1>3. CASE transition(k, {"prepared"}, "waiting_confirmation")
      BY <1>3, TransitionMoves DEF invocationTerminal
<1>4. CASE transition(k, {"prepared", "waiting_confirmation"}, "running")
      BY <1>4, TransitionMoves DEF invocationTerminal
<1>5. CASE transition(k, {"running"}, "committed")
      BY <1>5, TransitionMoves DEF invocationTerminal
<1>6. CASE CancelsInvocation(k)
      BY <1>6, TransitionMoves DEF invocationTerminal, CancelsInvocation
<1>7. CASE FinishesInvocation(k)
  <2>1. CASE ledger[k].effect = "external"
    <3>1. \/ transition(k, {"running", "committed"}, "failed") \/ transition(k, {"committed"}, "completed")
          \/ transition(k, {"committed"}, "outcome_unknown")
          BY <1>7, <2>1 DEF FinishesInvocation
    <3> QED BY <3>1, TransitionMoves DEF invocationTerminal
  <2>2. CASE ledger[k].effect # "external"
    <3>1. transition(k, {"running"}, "failed") \/ transition(k, {"running"}, "completed")
          BY <1>7, <2>2 DEF FinishesInvocation
    <3> QED BY <2>2, <3>1, TransitionMoves DEF invocationTerminal
  <2> QED BY <2>1, <2>2
<1> QED BY <1>1, <1>2, <1>3, <1>4, <1>5, <1>6, <1>7

\* An outcome stands, what was committed is never called cancelled, and no external effect
\* is said to have completed without its commit: for any invocations and any order of the
\* ledger's calls.
THEOREM CommitsStand == RunnerSpec => CommitStands
<1> DEFINE Step == (RunnerNext /\ UNCHANGED ledger) \/ (LedgerNext /\ UNCHANGED runnerVars)
           Kept == \A k \in Keys : Moves(ledger[k].state, ledger'[k].state, ledger[k].effect)
<1>1. RunnerInit => LedgerTyped
      BY DEF RunnerInit, Fresh, LedgerTyped, Effects
<1>2. LedgerTyped /\ [Step]_<<runnerVars, ledger>> => LedgerTyped' /\ [Kept]_ledger
      BY LedgerMoves DEF LedgerTyped
<1>3. CommitStands <=> [][Kept]_ledger
      BY DEF CommitStands, Moves
<1> QED BY <1>1, <1>2, <1>3, PTL DEF RunnerSpec

\* What the boundary tells of an effect is true and stays so, for any calls of it.
THEOREM ToolsStayAccounted == RunnerSpec => ToolsAreAccounted
  BY RunnerStaysHonest, CommitsStand DEF ToolsAreAccounted
=============================================================================
