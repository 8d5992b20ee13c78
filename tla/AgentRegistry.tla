---------------------------- MODULE AgentRegistry ----------------------------
(***************************************************************************)
(* The files of one agent (packages/agents/src/index.ts): its draft, its   *)
(* published versions and its lock, changed by the gateway's process and   *)
(* by those of the CLI at once.  In one process the queue of exclusive()   *)
(* serializes; between processes a lock file does, and one that a crash    *)
(* leaves behind is taken over when it is old.                             *)
(*                                                                         *)
(* Every await on a file is a step.  A mutation is taken to last less than *)
(* the lock's thirty seconds, so that a lock is old only when its holder   *)
(* has crashed.                                                            *)
(***************************************************************************)
EXTENDS Naturals, FiniteSets

CONSTANTS
    Editors,      \* processes
    Specs,        \* behaviours a draft may have, told apart by agentSpecHash
    MaxBirths,    \* bound: times the agent is created
    MaxRevision,  \* bound: revisions of one draft
    MaxVersion,   \* bound: published versions
    MaxCrashes    \* bound: processes that crash

ASSUME RegistryAssumption ==
    /\ IsFiniteSet(Editors) /\ "nobody" \notin Editors /\ "none" \notin Specs
    /\ {MaxBirths, MaxRevision, MaxVersion, MaxCrashes} \subseteq Nat

VARIABLES
    draft,    \* the draft file, or NoDraft
    versions, \* the payload of each version file, or NoPayload
    lock,     \* whose lock file it is, or Nobody
    edit,     \* each process: its call of the registry
    births    \* how often the agent was created (names a draft's file)

registryVars == <<draft, versions, lock, edit, births>>

Versions == 1..MaxVersion
NoDraft == [birth |-> 0]
NoPayload == "none"
Nobody == "nobody"
Operations == {"create", "update", "remove", "publish"}

\* saw: the draft its user works from; current: the one read under the lock.
NoEdit == [op |-> "none", at |-> "idle", saw |-> NoDraft, spec |-> NoPayload,
           current |-> NoDraft, version |-> 0]

RegistryInit ==
    /\ draft = NoDraft
    /\ versions = [v \in Versions |-> NoPayload]
    /\ lock = Nobody
    /\ edit = [e \in Editors |-> NoEdit]
    /\ births = 0

Goes(e, at) == edit' = [edit EXCEPT ![e].at = at]
Files == <<draft, versions, births>>

-----------------------------------------------------------------------------
(* exclusive()                                                             *)

\* get: a user loads the draft, and its revision goes with what is asked next.
Loads(e) == /\ edit[e].at = "idle" /\ edit[e].saw # draft
            /\ edit' = [edit EXCEPT ![e].saw = draft]
            /\ UNCHANGED <<Files, lock>>

Asks(e) == /\ edit[e].at = "idle"
           /\ \E op \in Operations, s \in Specs :
                 /\ op = "create" <=> edit[e].saw = NoDraft
                 /\ op # "update" => s = CHOOSE t \in Specs : TRUE
                 /\ edit' = [edit EXCEPT ![e] = [@ EXCEPT !.op = op, !.spec = s, !.at = "waiting"]]
           /\ UNCHANGED <<Files, lock>>

\* open(lockPath, "wx")
Locks(e) == /\ edit[e].at = "waiting" /\ lock = Nobody
            /\ lock' = e
            /\ Goes(e, "reading")
            /\ UNCHANGED Files

\* The deadline of five seconds: the agent is busy.
GivesUp(e) == /\ edit[e].at = "waiting" /\ lock # Nobody
              /\ Goes(e, "idle")
              /\ UNCHANGED <<Files, lock>>

\* Mistake: any lock that is in the way is taken over.
FindsOldLockAnyway(e) ==
    /\ edit[e].at = "waiting" /\ lock # Nobody
    /\ Goes(e, "taking")
    /\ UNCHANGED <<Files, lock>>

\* stat: the lock is older than thirty seconds.
FindsOldLock(e) ==
    /\ edit[e].at = "waiting" /\ lock # Nobody /\ edit[lock].at = "crashed"
    /\ Goes(e, "taking")
    /\ UNCHANGED <<Files, lock>>

\* rm(force): whatever lock is there by now.
TakesOver(e) == /\ edit[e].at = "taking"
                /\ lock' = Nobody
                /\ Goes(e, "waiting")
                /\ UNCHANGED Files

\* finally: the lock file goes, whoever's it is by now.
Unlocks(e) == /\ edit[e].at = "leaving"
              /\ lock' = Nobody
              /\ edit' = [edit EXCEPT ![e] = [NoEdit EXCEPT !.saw = edit[e].saw]]
              /\ UNCHANGED Files

\* The process dies at any await; what it had written stays.
Crashes(e) ==
    /\ edit[e].at \notin {"idle", "crashed"}
    /\ Cardinality({f \in Editors : edit[f].at = "crashed"}) < MaxCrashes
    /\ edit' = [edit EXCEPT ![e] = [NoEdit EXCEPT !.at = "crashed"]]
    /\ UNCHANGED <<Files, lock>>

-----------------------------------------------------------------------------
(* The mutations                                                           *)

\* A draft of its own kind and revision, or the call fails.
Admits(e) == IF edit[e].op = "create" THEN draft = NoDraft
             ELSE draft # NoDraft /\ draft.revision = edit[e].saw.revision

NextVersion(d) == d.published.version + 1

ReadsDraft(e) ==
    /\ edit[e].at = "reading"
    /\ IF ~Admits(e) THEN Goes(e, "leaving")
       ELSE LET op == edit[e].op
            IN  edit' = [edit EXCEPT ![e] =
                   [@ EXCEPT !.current = draft,
                             !.at = CASE op = "remove" -> "removing"
                                      [] op = "publish" -> "linking"
                                      [] OTHER -> "writing",
                             !.version = IF op = "publish" THEN NextVersion(draft) ELSE 0]]
    /\ UNCHANGED <<Files, lock>>

NoVersion == [version |-> 0, payload |-> NoPayload]

\* create and update: the whole record replaces the file.
WritesDraft(e) ==
    /\ edit[e].at = "writing"
    /\ LET c == edit[e]
       IN  IF c.op = "create"
           THEN /\ births < MaxBirths /\ births' = births + 1
                /\ draft' = [birth |-> births', revision |-> 1, spec |-> c.spec, published |-> NoVersion]
           ELSE /\ c.current.revision < MaxRevision
                /\ draft' = [c.current EXCEPT !.revision = @ + 1, !.spec = c.spec]
                /\ UNCHANGED births
    /\ Goes(e, "leaving")
    /\ UNCHANGED <<versions, lock>>

\* remove: the draft first; rm of a draft that has gone throws.
RemovesDraft(e) ==
    /\ edit[e].at = "removing"
    /\ Goes(e, IF draft = NoDraft THEN "leaving" ELSE "clearing")
    /\ draft' = NoDraft
    /\ UNCHANGED <<versions, births, lock>>

ClearsVersions(e) ==
    /\ edit[e].at = "clearing"
    /\ versions' = [v \in Versions |-> NoPayload]
    /\ Goes(e, "leaving")
    /\ UNCHANGED <<draft, births, lock>>

\* Mistake: a version file that is there is taken for the one to publish.
LinksVersionBlindly(e) ==
    /\ edit[e].at = "linking" /\ edit[e].version <= MaxVersion
    /\ versions' = [versions EXCEPT ![edit[e].version] =
                        IF @ = NoPayload THEN edit[e].current.spec ELSE @]
    /\ Goes(e, "pointing")
    /\ UNCHANGED <<draft, births, lock>>

\* link() to a free slot; a slot that is taken by the same payload is adopted,
\* and any other is passed over.
LinksVersion(e) ==
    /\ edit[e].at = "linking" /\ edit[e].version <= MaxVersion
    /\ LET v == edit[e].version
       IN  CASE versions[v] = NoPayload -> /\ versions' = [versions EXCEPT ![v] = edit[e].current.spec]
                                           /\ Goes(e, "pointing")
             [] versions[v] = edit[e].current.spec -> Goes(e, "pointing") /\ UNCHANGED versions
             [] OTHER -> edit' = [edit EXCEPT ![e].version = @ + 1] /\ UNCHANGED versions
    /\ UNCHANGED <<draft, births, lock>>

\* The draft is written with its pointer to the version.
PointsDraft(e) ==
    /\ edit[e].at = "pointing" /\ edit[e].current.revision < MaxRevision
    /\ draft' = [edit[e].current EXCEPT
                    !.revision = @ + 1,
                    !.published = [version |-> edit[e].version, payload |-> edit[e].current.spec]]
    /\ Goes(e, "leaving")
    /\ UNCHANGED <<versions, births, lock>>

-----------------------------------------------------------------------------
RegistryNext ==
    \E e \in Editors :
        \/ Loads(e) \/ Asks(e) \/ Locks(e) \/ GivesUp(e) \/ FindsOldLock(e) \/ TakesOver(e)
        \/ ReadsDraft(e) \/ WritesDraft(e) \/ RemovesDraft(e) \/ ClearsVersions(e)
        \/ LinksVersion(e) \/ PointsDraft(e) \/ Unlocks(e) \/ Crashes(e)

RegistrySpec == RegistryInit /\ [][RegistryNext]_registryVars

-----------------------------------------------------------------------------
(* Properties                                                              *)

Drafts == {NoDraft} \union
          [birth : 1..MaxBirths, revision : 1..MaxRevision, spec : Specs,
           published : [version : 0..MaxVersion, payload : Specs \union {NoPayload}]]

RegistryTypeOK ==
    /\ draft \in Drafts /\ births \in 0..MaxBirths
    /\ versions \in [Versions -> Specs \union {NoPayload}]
    /\ lock \in Editors \union {Nobody}
    /\ \A e \in Editors : edit[e].saw \in Drafts /\ edit[e].current \in Drafts

\* docs/agent-builder-ui.md:328-329, publish "validates the expected revision
\* inside that critical section": between the read under the lock and the write
\* nobody else has written, so no mutation undoes another one.
NoLostEdit ==
    [][\A e \in Editors : draft' # draft /\ edit'[e] # edit[e]
          /\ edit[e].at \in {"writing", "removing", "pointing"}
          => draft = edit[e].current]_registryVars

\* The version a draft points to is there and is the one that was published,
\* whatever crashed between the files that are written one after the other.
PointerResolves ==
    draft # NoDraft /\ draft.published.version # 0 =>
        versions[draft.published.version] = draft.published.payload

\* :330-331 "Editing the mutable draft afterward does not alter or erase that
\* snapshot": what a draft points to stays there, and a version keeps its payload
\* for as long as its agent exists, also one that a crash left without a pointer.
PublishedVersionsStay ==
    [][/\ PointerResolves'
       /\ draft # NoDraft /\ draft' # NoDraft =>
            \A v \in Versions : versions[v] # NoPayload => versions'[v] = versions[v]]_registryVars

\* :325-326: "Concurrent edits fail with a conflict response instead of silently
\* replacing a newer file": what is written over is the draft its user had loaded.
EditsAreInformed ==
    [][\A e \in Editors : draft' # draft /\ edit'[e] # edit[e]
          => edit[e].op = "create" \/ draft = edit[e].saw]_registryVars

\* Nobody's work is lost between editors that share the files of an agent, nor
\* between a crash and the next editor.
FilesAreKept == NoLostEdit /\ PublishedVersionsStay
=============================================================================
