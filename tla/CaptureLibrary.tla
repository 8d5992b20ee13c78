--------------------------- MODULE CaptureLibrary ---------------------------
(***************************************************************************)
(* The capture library (apps/realtime-gateway/src/library.ts): utterances  *)
(* kept as SQLite rows and WAV files under a quota that never takes        *)
(* curated work, with one queue of mutations per capture.                  *)
(*                                                                         *)
(* Captures are numbered in the order they are ingested and weigh one unit *)
(* each.  The process may crash between any two awaits, and the disk may   *)
(* refuse any write or deletion, of a file as of a row; reading it works.  *)
(***************************************************************************)
EXTENDS Naturals, Sequences, FiniteSets

CONSTANTS
    MaxCaptures,   \* bound: utterances offered
    Quota,         \* maxBytes
    MaxRequests,   \* bound: corrections, promotions and deletions asked for
    MaxOpens       \* bound: how often the library is opened

ASSUME LibraryAssumption ==
    MaxCaptures \in Nat /\ Quota \in Nat /\ MaxRequests \in Nat /\ MaxOpens \in Nat \ {0}

Captures == 1..MaxCaptures
NoCapture == 0

VARIABLES
    shelf,     \* captures: their row, what pins them, their files and sidecar
    ingest,    \* each ingest: how far it is, the candidates it has left, its victim
    tails,     \* the mutations waiting for each capture, the first one running
    started,   \* whether the first has passed its check and awaits something
    library,   \* "open", "closing" or "shut"
    opens, requests

libraryVars == <<shelf, ingest, tails, started, library, opens, requests>>

\* files: "none", "tmp" while they are written, "whole" once renamed, "left" of
\* them what could not be deleted.  owed, for the properties: what the disk has
\* failed to do for the capture, and nothing has made up for since.
NoCopy == [row |-> "none", corrected |-> FALSE, promoted |-> FALSE, files |-> "none", ref |-> FALSE,
           owed |-> {}]
NoIngest == [at |-> "idle", cands |-> {}, victim |-> NoCapture]

LibraryInit == /\ shelf = [c \in Captures |-> NoCopy]
               /\ ingest = [c \in Captures |-> NoIngest]
               /\ tails = [c \in Captures |-> <<>>]
               /\ started = [c \in Captures |-> FALSE]
               /\ library = "open" /\ opens = 1 /\ requests = 0

-----------------------------------------------------------------------------
Kept == {c \in Captures : shelf[c].row = "kept"}
IsPinned(c) == shelf[c].corrected \/ shelf[c].promoted
Pinned == {c \in Kept : IsPinned(c)}
OverQuota == Cardinality(Kept) > Quota

\* Never the capture that asks.
evictionCandidates(c) == Kept \ (Pinned \union {c})

\* runExclusive: admitted until the library is closed.
Queues(c, op) == tails' = [tails EXCEPT ![c] = Append(@, op)]

Steps(c, at) == ingest' = [ingest EXCEPT ![c].at = at]

-----------------------------------------------------------------------------
(* Ingest                                                                  *)

\* Admission and the first await: refused if curated work leaves no room.
IngestBegins(c) ==
    /\ library = "open" /\ ingest[c].at = "idle"
    /\ \A d \in 1..(c - 1) : ingest[d].at # "idle"
    /\ IF Cardinality(Pinned) + 1 > Quota
       THEN Steps(c, "refused") /\ UNCHANGED shelf
       ELSE Steps(c, "writing") /\ shelf' = [shelf EXCEPT ![c].files = "tmp"]
    /\ UNCHANGED <<tails, started, library, opens, requests>>

\* The renames, then the row: the insert is the commit point.  Then
\* evictUntilUnderQuota reads its candidates, once.
IngestCommits(c) ==
    /\ library # "shut" /\ ingest[c].at = "writing"
    /\ shelf' = [shelf EXCEPT ![c].row = "kept", ![c].files = "whole"]
    /\ ingest' = [ingest EXCEPT ![c].at = "evicting", ![c].cands = evictionCandidates(c)]
    /\ UNCHANGED <<tails, started, library, opens, requests>>

\* Mistake: what has been written of it stays.
IngestFailsAsItIs(c) ==
    /\ library # "shut" /\ ingest[c].at = "writing"
    /\ Steps(c, "refused")
    /\ UNCHANGED <<shelf, tails, started, library, opens, requests>>

\* A write, a rename or the insert failed: its files are removed and the ingest
\* rejects, whether or not they could be.
IngestFails(c) ==
    /\ library # "shut" /\ ingest[c].at = "writing"
    /\ \E copy \in {NoCopy, [NoCopy EXCEPT !.files = "left", !.owed = {"delete"}]} :
          shelf' = [shelf EXCEPT ![c] = copy]
    /\ Steps(c, "refused")
    /\ UNCHANGED <<tails, started, library, opens, requests>>

\* One victim after the other, the oldest first, each through its own queue.
IngestEvicts(c) ==
    /\ library # "shut" /\ ingest[c].at = "evicting" /\ ingest[c].victim = NoCapture
    /\ LET cands == ingest[c].cands
       IN  IF library # "open" \/ ~OverQuota \/ cands = {}
           THEN Steps(c, "checking") /\ UNCHANGED tails
           ELSE \E d \in cands :
                   /\ \A e \in cands : d <= e
                   /\ ingest' = [ingest EXCEPT ![c].victim = d, ![c].cands = @ \ {d}]
                   /\ Queues(d, [op |-> "evict", for |-> c])
    /\ UNCHANGED <<shelf, started, library, opens, requests>>

\* Mistake: the quota is a target; what curated work leaves over stays.
IngestChecksNothing(c) ==
    /\ library # "shut" /\ ingest[c].at = "checking"
    /\ Steps(c, "done") /\ UNCHANGED tails
    /\ UNCHANGED <<shelf, started, library, opens, requests>>

\* Captures pinned meanwhile may have left it over the quota: it is rolled back.
IngestChecks(c) ==
    /\ library # "shut" /\ ingest[c].at = "checking"
    /\ IF OverQuota /\ library = "open"
       THEN Steps(c, "rollback") /\ Queues(c, [op |-> "remove", for |-> c])
       ELSE Steps(c, "done") /\ UNCHANGED tails
    /\ UNCHANGED <<shelf, started, library, opens, requests>>

-----------------------------------------------------------------------------
(* The requests of the studio                                              *)

Ask(c, op) == /\ library = "open" /\ requests < MaxRequests
              /\ shelf[c].row = "kept"
              /\ requests' = requests + 1
              /\ Queues(c, [op |-> op, for |-> NoCapture])
              /\ UNCHANGED <<shelf, ingest, started, library, opens>>

correct(c) == Ask(c, "correct")
uncorrect(c) == Ask(c, "clear")
promote(c) == Ask(c, "promote")
remove(c) == Ask(c, "remove")

-----------------------------------------------------------------------------
(* The queue of one capture                                                *)

\* Mistake: a candidate is taken as it was when it was chosen.
mayEvictChosen(c) == shelf[c].row = "kept"

\* The unpinned check is run again under the lock.
mayEvict(c) == shelf[c].row = "kept" /\ ~IsPinned(c)

\* What the first mutation of a capture finds when its turn has come.
StillApplies(c) == IF Head(tails[c]).op = "evict" THEN mayEvict(c) ELSE shelf[c].row = "kept"

\* The first mutation is over; an ingest that waits for it goes on, with no more
\* evictions once one of them has failed.
OverWith(c, worked) ==
    LET o == Head(tails[c])
    IN  /\ tails' = [tails EXCEPT ![c] = Tail(@)]
        /\ started' = [started EXCEPT ![c] = FALSE]
        /\ ingest' = IF o.op = "evict"
                     THEN [ingest EXCEPT ![o.for].victim = NoCapture,
                                         ![o.for].cands = IF worked THEN @ ELSE {}]
                     ELSE IF o.for # NoCapture THEN [ingest EXCEPT ![o.for].at = "refused"]
                     ELSE ingest

\* Up to the first await: the row is looked up again and written.
MutationBegins(c) ==
    /\ library # "shut" /\ tails[c] # <<>> /\ ~started[c]
    /\ IF ~StillApplies(c)
       THEN OverWith(c, TRUE) /\ UNCHANGED shelf
       ELSE /\ started' = [started EXCEPT ![c] = TRUE]
            /\ shelf' = [shelf EXCEPT ![c] =
                  LET o == Head(tails[c])
                  IN  CASE o.op = "correct" -> [@ EXCEPT !.corrected = TRUE]
                        [] o.op = "clear" -> [@ EXCEPT !.corrected = FALSE]
                        [] o.op = "promote" -> @
                        [] OTHER -> [@ EXCEPT !.row = "gone"]]
            /\ UNCHANGED <<tails, ingest>>
    /\ UNCHANGED <<library, opens, requests>>

\* The statement that writes the row throws: a request is rejected, an ingest
\* stops evicting, and its rollback counts as done.
MutationFails(c) ==
    /\ library # "shut" /\ tails[c] # <<>> /\ ~started[c]
    /\ StillApplies(c) /\ Head(tails[c]).op # "promote"
    /\ OverWith(c, FALSE)
    /\ shelf' = IF Head(tails[c]) = [op |-> "remove", for |-> c]
                THEN [shelf EXCEPT ![c].owed = @ \union {"rollback"}]
                ELSE shelf
    /\ UNCHANGED <<library, opens, requests>>

\* The row is gone; its files follow, and a deletion that fails is passed over.
DeletesFiles(c) ==
    \E audio, sidecar \in BOOLEAN :
       shelf' = [shelf EXCEPT ![c].files = IF audio THEN "none" ELSE "left",
                              ![c].ref = @ /\ ~sidecar,
                              ![c].owed = IF audio /\ sidecar THEN @ ELSE @ \union {"delete"}]

EvictEnds(c) == Head(tails[c]).op = "evict" /\ DeletesFiles(c)
RemoveEnds(c) == Head(tails[c]).op = "remove" /\ DeletesFiles(c)

\* Mistake: clearing a correction leaves its sidecar.
CorrectEndsOnly(c) ==
    /\ Head(tails[c]).op \in {"correct", "clear"}
    /\ shelf' = [shelf EXCEPT ![c].ref = @ \/ Head(tails[c]).op = "correct",
                              ![c].owed = @ \ {"sidecar"}]

\* The sidecar mirrors the correction, unless it cannot be written or deleted.
CorrectEnds(c) ==
    /\ Head(tails[c]).op \in {"correct", "clear"}
    /\ LET mirrors == Head(tails[c]).op = "correct"
       IN  \E ref \in {mirrors, shelf[c].ref}, done \in BOOLEAN :
              /\ done => ref = mirrors
              /\ shelf' = [shelf EXCEPT ![c].ref = ref,
                                        ![c].owed = IF done THEN @ \ {"sidecar"} ELSE @ \union {"sidecar"}]

\* The engine has answered, and the row could be marked.
PromoteEnds(c) ==
    /\ Head(tails[c]).op = "promote"
    /\ \E answer \in {TRUE, shelf[c].promoted} : shelf' = [shelf EXCEPT ![c].promoted = answer]

MutationEnds(c) ==
    /\ library # "shut" /\ started[c]
    /\ CorrectEnds(c) \/ PromoteEnds(c) \/ EvictEnds(c) \/ RemoveEnds(c)
    /\ OverWith(c, TRUE)
    /\ UNCHANGED <<library, opens, requests>>

-----------------------------------------------------------------------------
(* Closing, crashing and opening                                           *)

CloseLibrary == /\ library = "open"
                /\ library' = "closing"
                /\ UNCHANGED <<shelf, ingest, tails, started, opens, requests>>

Forgets == /\ library' = "shut"
           /\ ingest' = [c \in Captures |-> [NoIngest EXCEPT
                            !.at = IF ingest[c].at = "idle" THEN "idle" ELSE "past"]]
           /\ tails' = [c \in Captures |-> <<>>]
           /\ started' = [c \in Captures |-> FALSE]
           /\ shelf' = [c \in Captures |->
                 IF started[c] /\ Head(tails[c]).op \in {"correct", "clear"}
                 THEN [shelf[c] EXCEPT !.owed = @ \union {"sidecar"}]   \* cut short
                 ELSE shelf[c]]
           /\ UNCHANGED <<opens, requests>>

\* close() waits for what runExclusive has admitted, not for an ingest between
\* two of its mutations.
LibraryDrained == /\ library = "closing"
                  /\ \A c \in Captures : tails[c] = <<>>
                                         /\ ingest[c].at # "writing"
                  /\ Forgets

LibraryCrashes == library # "shut" /\ Forgets

\* Mistake: the files of a row that is gone are left alone.
reconcilesRows(s) ==
    [c \in Captures |-> IF s[c].row = "kept" /\ s[c].files # "whole" THEN [NoCopy EXCEPT !.row = "gone"]
                        ELSE [s[c] EXCEPT !.owed = @ \intersect {"sidecar"}]]

\* A row without its audio is dropped, then every file no row owns.  A sidecar
\* that is missing, or that should not be there, stays so.
reconcile(s) ==
    [c \in Captures |-> IF s[c].row = "kept" /\ s[c].files = "whole"
                        THEN [s[c] EXCEPT !.owed = @ \intersect {"sidecar"}]
                        ELSE [NoCopy EXCEPT !.row = IF s[c].row = "none" THEN "none" ELSE "gone"]]

\* enforceQuotaOnOpen: the oldest that are not pinned go until the rest fits.
evictedOnOpen(s) ==
    LET kept == {c \in Captures : s[c].row = "kept"}
        free == {c \in kept : ~s[c].corrected /\ ~s[c].promoted}
    IN  {c \in free : Cardinality(kept \ {d \in free : d < c}) > Quota}

OpenLibrary ==
    /\ library = "shut" /\ opens < MaxOpens
    /\ opens' = opens + 1 /\ library' = "open"
    /\ LET s == reconcile(shelf)
       IN  shelf' = [c \in Captures |-> IF c \in evictedOnOpen(s) THEN [NoCopy EXCEPT !.row = "gone"] ELSE s[c]]
    /\ UNCHANGED <<ingest, tails, started, requests>>

\* A file cannot be removed while the library is opened, which throws, or the
\* process ends: some are swept, or the files of a victim outlive its row.
OpeningFails ==
    /\ library = "shut" /\ opens < MaxOpens
    /\ LET s == reconcile(shelf)
       IN  \/ \E swept \in SUBSET Captures :
                 shelf' = [c \in Captures |-> IF c \in swept THEN s[c] ELSE shelf[c]]
           \/ \E victim \in evictedOnOpen(s) :
                 shelf' = [c \in Captures |->
                     IF c = victim THEN [s[c] EXCEPT !.row = "gone"]
                     ELSE IF c \in evictedOnOpen(s) /\ c < victim THEN [NoCopy EXCEPT !.row = "gone"]
                     ELSE s[c]]
    /\ UNCHANGED <<ingest, tails, started, library, opens, requests>>

-----------------------------------------------------------------------------
IngestStep(c) == \/ IngestBegins(c) \/ IngestCommits(c) \/ IngestFails(c)
                 \/ IngestEvicts(c) \/ IngestChecks(c)

LibraryNext ==
    \/ \E c \in Captures : \/ IngestStep(c)
                           \/ correct(c) \/ uncorrect(c) \/ promote(c) \/ remove(c)
                           \/ MutationBegins(c) \/ MutationFails(c) \/ MutationEnds(c)
    \/ CloseLibrary \/ LibraryDrained \/ LibraryCrashes \/ OpenLibrary \/ OpeningFails

-----------------------------------------------------------------------------
(* Properties                                                              *)

Settled == /\ library = "open"
           /\ \A c \in Captures : tails[c] = <<>> /\ ingest[c].at \in {"idle", "refused", "done", "past"}

\* Captures the ingest has refused and could not roll back.
Stuck == {c \in Kept : "rollback" \in shelf[c].owed}

\* library.ts:300-301, "the quota is a hard bound, not a target": once every
\* ingest has settled, no capture that came since the library was opened is kept
\* over the quota, however evictions, corrections and rollbacks interleaved and
\* failed.  One that is refused and whose row could not be deleted is beside it.
QuotaHolds == Settled /\ Cardinality(Kept \ Stuck) > Quota => \A c \in Kept \ Stuck : ingest[c].at = "past"

\* What is over the quota when the library has been opened is all curated.
OpeningFits == [][library = "shut" /\ library' = "open" => ~OverQuota' \/ Kept' = Pinned']_libraryVars

\* It need not stay so: clearing a correction evicts nothing (library.ts:340-353).
\* No run checks this.
ExcessIsCurated == Settled => ~OverQuota \/ Kept = Pinned

\* library.ts:127-133: no file without a row outlives an opening, whatever failed
\* or crashed before it, the opening before it included.
OpeningCleans == [][library = "shut" /\ library' = "open" =>
                      \A c \in Captures \ Kept' : shelf'[c].files = "none" /\ ~shelf'[c].ref]_libraryVars

\* No run checks these: what the disk has refused to delete stays until the next
\* opening, and a sidecar that was not written, or not deleted, never follows.
NoStrayFile == Settled => \A c \in Captures \ Kept : shelf[c].files = "none"
SidecarMirrors == Settled => \A c \in Kept : shelf[c].ref = shelf[c].corrected

\* Whenever nothing is under way a row has its audio; what has none has neither
\* files nor a sidecar, except where a deletion has failed since the library was
\* opened; a sidecar is there exactly if there is a correction, except where
\* writing or deleting it failed or was cut short; and what an ingest has
\* refused is not kept, except where its rollback failed.
NothingStranded ==
    Settled => \A c \in Captures :
        /\ c \in Kept => /\ shelf[c].files = "whole"
                         /\ shelf[c].ref = shelf[c].corrected \/ "sidecar" \in shelf[c].owed
                         /\ ingest[c].at = "refused" => c \in Stuck
        /\ c \notin Kept => \/ shelf[c].files = "none" /\ ~shelf[c].ref
                            \/ "delete" \in shelf[c].owed

LibraryHolds == QuotaHolds /\ NothingStranded

\* Eviction never takes a capture that was curated before its turn came; what
\* removes one is a deletion, or the rollback of its own ingest.
EvictionSparesCurated ==
    [][\A c \in Pinned : shelf'[c].row = "gone" =>
         tails[c] # <<>> /\ Head(tails[c]).op = "remove"]_libraryVars

\* library.ts:51-56: "a capture with a human correction or a promotion is curated
\* work and is never auto-deleted".
CuratedIsKept ==
    [][\A c \in Pinned : shelf'[c].row = "gone" =>
         tails[c] # <<>> /\ Head(tails[c]) = [op |-> "remove", for |-> NoCapture]]_libraryVars

\* The library keeps to its quota with files and rows that agree but for what the
\* disk refused, which no opening leaves behind, and makes room only at the cost
\* of captures nobody curated.
LibraryIsKept == []LibraryHolds /\ OpeningFits /\ OpeningCleans /\ EvictionSparesCurated
=============================================================================
