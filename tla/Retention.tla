----------------------------- MODULE Retention -----------------------------
(***************************************************************************)
(* Retained conversations: the trace store's rows                          *)
(* (apps/realtime-gateway/src/trace-store.ts), the media store's rows and  *)
(* files (media-store.ts), and the one queue its disk work goes through.   *)
(*                                                                         *)
(* Two databases and a file system are written without a transaction over  *)
(* them; the process may crash between any two steps, a disk operation may *)
(* fail, and everything volatile is then lost.  A session has one          *)
(* utterance and one reply here, every utterance and every frame of a      *)
(* reply weighs one unit, a header none.                                   *)
(***************************************************************************)
EXTENDS Naturals, Sequences, FiniteSets, SequencesExt, FiniteSetsExt

CONSTANTS
    MaxSessions,  \* bound: conversations
    Recorded,     \* the assets that are recorded: a policy, and a bound
    MaxFrames,    \* bound: frames of a reply
    MaxBytes,     \* the ceiling over retained audio
    MaxPending,   \* maxPendingBytes: what may wait in the queue
    MaxMishaps    \* bound: disk operations that fail, crashes and shutdowns

ASSUME RetentionAssumption ==
    /\ MaxSessions \in Nat /\ MaxFrames \in Nat /\ MaxMishaps \in Nat
    /\ MaxBytes \in Nat \ {0} /\ MaxPending \in Nat \ {0}

Conversations == 1..MaxSessions
Assets == Conversations \X {"input", "output"}
Of(s) == {a \in Assets : a[1] = s}
Nobody == 0

ASSUME RecordedAssumption == Recorded \subseteq Assets

VARIABLES
    \* what survives a crash
    conv,       \* conversations: "none", "active", "ended", "deleting", then gone:
                \* "deleted" through the queue or "evicted" for room
    order,      \* the order they ended in
    media,      \* conversation_media rows and the files behind them
    \* what does not
    up,         \* the process: "up", "closing" or "down"
    ops,        \* tail: the disk operations waiting, the first one running
    at,         \* how far the first has come
    cands,      \* the eviction candidates ensureCapacity has not looked at
    victim,     \* the conversation whose audio is being removed, or Nobody
    recorder,   \* output recorders
    charged,    \* readyBytes and reservedBytes
    jobs,       \* deletionJobs
    mishaps     \* how many there have been

durable == <<conv, order, media>>
running == <<at, cands, victim>>
retentionVars == <<conv, order, media, up, ops, at, cands, victim, recorder, charged,
                   jobs, mishaps>>

NoRow == [row |-> "none", file |-> "none", bytes |-> 0]
NoRecorder == [state |-> "pending", accepted |-> 0, finalized |-> FALSE]

RetentionInit ==
    /\ conv = [s \in Conversations |-> "none"] /\ order = <<>>
    /\ media = [a \in Assets |-> NoRow]
    /\ up = "up" /\ ops = <<>> /\ at = "next" /\ cands = {} /\ victim = Nobody
    /\ recorder = [s \in Conversations |-> NoRecorder]
    /\ charged = [ready |-> 0, reserved |-> 0]
    /\ jobs = {} /\ mishaps = 0

-----------------------------------------------------------------------------
Op(kind, a) == [op |-> kind, of |-> a]
head == Head(ops)

\* queuedBytes: what was copied from the callbacks and not yet consumed.
Queued == Len(SelectSeq(ops, LAMBDA o : o.op \in {"input", "frame"}))
HasRoom == Queued < MaxPending

Reserve(n) == charged' = [charged EXCEPT !.reserved = @ + n]

\* What an operation gives back when it is over with its asset.
Weight(o) == IF o.op = "input" THEN 1
             ELSE IF o.op = "finalize" THEN recorder[o.of[1]].accepted ELSE 0

SumOver(f, S) == MapThenSumSet(LAMBDA x : f[x], S)
ReadyBytes(S) == SumOver([a \in Assets |-> media[a].bytes], {a \in S : media[a].row = "ready"})

\* scheduleDeletion for each of S that has no job yet, in the order the rows come.
Schedules(S) ==
    /\ jobs' = jobs \union S
    /\ \E more \in SetToSeqs(S \ jobs) :
          ops' = ops \o [i \in DOMAIN more |-> Op("delete", <<more[i], "input">>)]

-----------------------------------------------------------------------------
(* The session's callbacks: none of them waits for the disk                *)

Begin(s) ==
    /\ up = "up" /\ conv[s] = "none" /\ \A t \in 1..(s - 1) : conv[t] # "none"
    /\ conv' = [conv EXCEPT ![s] = "active"]
    /\ UNCHANGED <<order, media, up, ops, running, recorder, charged, jobs, mishaps>>

RetainInput(s) ==
    /\ up = "up" /\ conv[s] = "active" /\ <<s, "input">> \in Recorded
    /\ media[<<s, "input">>].row = "none" /\ \A i \in DOMAIN ops : ops[i].of # <<s, "input">>
    /\ IF HasRoom THEN Reserve(1) ELSE UNCHANGED charged
    /\ ops' = Append(ops, Op(IF HasRoom THEN "input" ELSE "refused", <<s, "input">>))
    /\ UNCHANGED <<durable, up, running, recorder, jobs, mishaps>>

\* write(): the first frame that is accepted opens the row.
Write(s) ==
    LET r == recorder[s]
        open == IF r.accepted = 0 THEN <<Op("init", <<s, "output">>)>> ELSE <<>>
    IN  /\ up = "up" /\ conv[s] = "active" /\ <<s, "output">> \in Recorded
        /\ ~r.finalized /\ r.state = "pending" /\ r.accepted < MaxFrames
        /\ IF HasRoom
           THEN /\ recorder' = [recorder EXCEPT ![s].accepted = @ + 1]
                /\ Reserve(1)
                /\ ops' = ops \o open \o <<Op("frame", <<s, "output">>)>>
           ELSE /\ recorder' = [recorder EXCEPT ![s].state = "truncated"]
                /\ ops' = ops \o open \o <<Op("fail", <<s, "output">>)>>
                /\ UNCHANGED charged
    /\ UNCHANGED <<durable, up, running, jobs, mishaps>>

\* finalize(): it comes when the player closes or has been aborted, which may be
\* after the conversation ended, was deleted, or the store began to close.
Finalize(s) ==
    /\ up # "down"
    /\ ~recorder[s].finalized /\ (recorder[s].accepted > 0 \/ recorder[s].state = "truncated")
    /\ recorder' = [recorder EXCEPT ![s].finalized = TRUE]
    /\ ops' = Append(ops, Op("finalize", <<s, "output">>))
    /\ UNCHANGED <<durable, up, running, charged, jobs, mishaps>>

-----------------------------------------------------------------------------
(* The trace store                                                         *)

\* Mistake: only what expires now is removed; a marker left behind is not retried.
prunesExpired(c, expired) ==
    /\ conv' = [s \in Conversations |-> IF s \in expired THEN "deleting" ELSE c[s]]
    /\ Schedules(expired)

\* prune(): every deletion that was left behind is retried, and the oldest ended
\* conversations are marked.
prunes(c, expired) ==
    /\ conv' = [s \in Conversations |-> IF s \in expired THEN "deleting" ELSE c[s]]
    /\ Schedules({s \in Conversations : conv'[s] = "deleting"})

Holding == {s \in Conversations : ReadyBytes(Of(s)) > 0}

\* By age or by count the oldest that ended, by their bytes the oldest that hold any.
Expired(c, o, holding) ==
    {S \in SUBSET {s \in Conversations : c[s] = "ended"} :
        \A i, j \in DOMAIN o :
            i < j /\ o[j] \in S /\ c[o[i]] = "ended" /\ o[i] \in holding => o[i] \in S}

\* finish(), by the observer queue that follows the session's end.
Finish(s) ==
    /\ up = "up" /\ conv[s] = "active"
    /\ order' = Append(order, s)
    /\ LET c == [conv EXCEPT ![s] = "ended"]
       IN  \E expired \in Expired(c, order', Holding) : prunes(c, expired)
    /\ UNCHANGED <<media, up, running, recorder, charged, mishaps>>

\* A listing, a read, or the timer.
Prune ==
    /\ up = "up"
    /\ \E expired \in Expired(conv, order, Holding) : prunes(conv, expired)
    /\ UNCHANGED <<order, media, up, running, recorder, charged, mishaps>>

\* remove(): refused while the conversation is active.
removeConversation(s) ==
    /\ up = "up" /\ conv[s] \in {"ended", "deleting"}
    /\ conv' = [conv EXCEPT ![s] = "deleting"]
    /\ Schedules({s})
    /\ UNCHANGED <<order, media, up, running, recorder, charged, mishaps>>

-----------------------------------------------------------------------------
(* The queue's operations                                                  *)

\* The first operation leaves the queue; `more` is what it appended.
Leaves(more) == /\ ops' = Tail(ops) \o more
                /\ at' = "next" /\ victim' = Nobody /\ cands' = {}

GoesTo(step) == at' = step /\ UNCHANGED <<ops, cands, victim>>

Gives(o) == charged' = [charged EXCEPT !.reserved = @ - Weight(o)]
Set(a, f) == media' = [media EXCEPT ![a] = f]
Row(a, state) == IF media[a].row = "none" THEN media[a] ELSE [media[a] EXCEPT !.row = state]

\* fail(): once for each recorder.
Fails(a) == IF recorder[a[1]].state = "pending" THEN <<Op("fail", a)>> ELSE <<>>

Candidates == {s \in ToSet(order) : conv[s] = "ended" /\ s # head.of[1]}
Oldest(S) == {s \in S : \A i, j \in DOMAIN order : order[i] = s /\ order[j] \in S => i <= j}

StartOp ==
    /\ up # "down" /\ ops # <<>> /\ at = "next"
    /\ LET a == head.of
           rec == recorder[a[1]].state
           looks == at' = "room" /\ cands' = Candidates /\ UNCHANGED <<ops, victim>>
       IN  CASE head.op = "input" ->
                  Set(a, [media[a] EXCEPT !.row = "pending"]) /\ looks /\ UNCHANGED <<charged, jobs>>
             [] head.op = "refused" ->
                  Set(a, [media[a] EXCEPT !.row = "missing"]) /\ Leaves(<<>>)
                  /\ UNCHANGED <<charged, jobs>>
             [] head.op = "init" ->
                  /\ Set(a, [media[a] EXCEPT !.row = rec])
                  /\ IF rec = "pending" THEN looks ELSE Leaves(<<>>)
                  /\ UNCHANGED <<charged, jobs>>
             [] head.op = "frame" ->
                  /\ IF rec = "pending" THEN looks ELSE Leaves(<<>>)
                  /\ UNCHANGED <<media, charged, jobs>>
             [] head.op = "fail" ->
                  Set(a, Row(a, "truncated")) /\ Leaves(<<>>) /\ UNCHANGED <<charged, jobs>>
             [] head.op = "finalize" /\ rec = "truncated" ->
                  /\ Set(a, [Row(a, "truncated") EXCEPT !.file = "none"])
                  /\ Gives(head) /\ Leaves(<<>>) /\ UNCHANGED jobs
             [] head.op = "finalize" /\ rec = "pending" ->
                  GoesTo("rename") /\ UNCHANGED <<media, charged, jobs>>
             [] head.op = "delete" ->
                  /\ at' = "unlink" /\ victim' = a[1]
                  /\ UNCHANGED <<ops, cands, media, charged, jobs>>
    /\ UNCHANGED <<conv, order, up, recorder, mishaps>>

\* Mistake: only what is already there is counted, not what is on its way.
FitsReady == charged.ready <= MaxBytes

Fits == charged.ready + charged.reserved <= MaxBytes

\* Mistake: the refused utterance stays charged.
refusesCharged ==
    /\ Leaves(IF head.op = "input" THEN <<>> ELSE Fails(head.of))
    /\ IF head.op = "input"
       THEN Set(head.of, Row(head.of, "missing")) /\ UNCHANGED <<recorder, charged>>
       ELSE recorder' = [recorder EXCEPT ![head.of[1]].state = "truncated"]
            /\ UNCHANGED <<media, charged>>

\* No room: an utterance is missing, a reply is truncated.
refuses ==
    /\ Leaves(IF head.op = "input" THEN <<>> ELSE Fails(head.of))
    /\ IF head.op = "input"
       THEN Set(head.of, Row(head.of, "missing")) /\ Gives(head) /\ UNCHANGED recorder
       ELSE recorder' = [recorder EXCEPT ![head.of[1]].state = "truncated"]
            /\ UNCHANGED <<media, charged>>

\* Mistake: the candidate is hidden once its bytes are gone, not before.
hidesLate(s) == UNCHANGED conv

hides(s) == conv' = [conv EXCEPT ![s] = "deleting"]

\* ensureCapacity: the next candidate that holds bytes and is not being deleted.
Room ==
    /\ up # "down" /\ at = "room"
    /\ LET worth == {s \in cands \intersect Holding : conv[s] = "ended"}
       IN  IF Fits
           THEN GoesTo("write") /\ UNCHANGED <<conv, media, recorder, charged>>
           ELSE IF worth # {}
           THEN /\ \E s \in Oldest(worth) :
                      at' = "evict" /\ victim' = s /\ cands' = cands \ {s} /\ hides(s)
                /\ UNCHANGED <<ops, media, recorder, charged>>
           ELSE refuses /\ UNCHANGED conv
    /\ UNCHANGED <<order, up, jobs, mishaps>>

\* removeSessionNow: the files go in any order, then the rows and their charge.
Unlink(a) ==
    /\ up # "down" /\ at \in {"unlink", "evict"} /\ a \in Of(victim)
    /\ media[a].row = "ready" /\ media[a].file = "kept"
    /\ media' = [media EXCEPT ![a].file = "none"]
    /\ UNCHANGED <<conv, order, up, ops, running, recorder, charged, jobs, mishaps>>

RowsGo ==
    /\ up # "down" /\ at \in {"unlink", "evict"}
    /\ \A a \in Of(victim) : ~(media[a].row = "ready" /\ media[a].file = "kept")
    /\ media' = [a \in Assets |-> IF a \in Of(victim)
                                  THEN [NoRow EXCEPT !.file = media[a].file] ELSE media[a]]
    /\ charged' = [charged EXCEPT !.ready = @ - ReadyBytes(Of(victim))]
    /\ at' = IF at = "evict" THEN "evicted" ELSE "unlinked"
    /\ UNCHANGED <<conv, order, up, ops, cands, victim, recorder, jobs, mishaps>>

\* finishDeleting, in the other database.
Forget ==
    /\ up # "down" /\ at \in {"unlinked", "evicted"}
    /\ conv' = [conv EXCEPT ![victim] =
                    IF @ # "deleting" THEN @ ELSE IF at = "evicted" THEN "evicted" ELSE "deleted"]
    /\ IF at = "evicted"
       THEN at' = "room" /\ victim' = Nobody /\ UNCHANGED <<ops, cands, jobs>>
       ELSE Leaves(<<>>) /\ jobs' = jobs \ {victim}
    /\ UNCHANGED <<order, media, up, recorder, charged, mishaps>>

\* A file that cannot be removed: the marker stays, and what waited is refused.
UnlinkFails ==
    /\ up # "down" /\ at \in {"unlink", "evict"} /\ mishaps < MaxMishaps
    /\ \E a \in Of(victim) : media[a].row = "ready" /\ media[a].file = "kept"
    /\ IF at = "evict"
       THEN refuses /\ UNCHANGED jobs
       ELSE Leaves(<<>>) /\ jobs' = jobs \ {victim} /\ UNCHANGED <<media, recorder, charged>>
    /\ mishaps' = mishaps + 1
    /\ UNCHANGED <<conv, order, up>>

WriteTemp ==
    /\ up # "down" /\ at = "write"
    /\ media' = [media EXCEPT ![head.of].file = "temp"]
    /\ IF head.op = "input" THEN GoesTo("rename") ELSE Leaves(<<>>)
    /\ UNCHANGED <<conv, order, up, recorder, charged, jobs, mishaps>>

Rename ==
    /\ up # "down" /\ at = "rename"
    /\ media' = [media EXCEPT ![head.of].file = "kept"]
    /\ GoesTo("commit")
    /\ UNCHANGED <<conv, order, up, recorder, charged, jobs, mishaps>>

\* Mistake: nobody looks whether the row was there to become ready.
CommitBlind ==
    /\ up # "down" /\ at = "commit"
    /\ media' = [media EXCEPT ![head.of] = [@ EXCEPT !.row = IF @ = "none" THEN @ ELSE "ready",
                                                     !.bytes = Weight(head)]]
    /\ charged' = [ready |-> charged.ready + Weight(head),
                   reserved |-> charged.reserved - Weight(head)]
    /\ Leaves(<<>>)
    /\ UNCHANGED <<conv, order, up, recorder, jobs, mishaps>>

\* The row becomes ready if it is still there; otherwise the file is removed.
Commit ==
    /\ up # "down" /\ at = "commit"
    /\ IF media[head.of].row = "pending"
       THEN /\ media' = [media EXCEPT ![head.of] = [row |-> "ready", file |-> "kept",
                                                    bytes |-> Weight(head)]]
            /\ charged' = [ready |-> charged.ready + Weight(head),
                           reserved |-> charged.reserved - Weight(head)]
       ELSE /\ media' = [media EXCEPT ![head.of].file = "none"]
            /\ Gives(head)
    /\ Leaves(<<>>)
    /\ UNCHANGED <<conv, order, up, recorder, jobs, mishaps>>

\* A write, a rename or what follows it fails.
DiskFails ==
    /\ up # "down" /\ at \in {"write", "rename", "commit"} /\ mishaps < MaxMishaps
    /\ mishaps' = mishaps + 1
    /\ IF head.op \in {"input", "finalize"}
       THEN /\ Set(head.of, [Row(head.of, "missing") EXCEPT !.file = "none"])
            /\ Gives(head) /\ Leaves(<<>>) /\ UNCHANGED recorder
       ELSE /\ Set(head.of, IF head.op = "init" THEN Row(head.of, "truncated") ELSE media[head.of])
            /\ recorder' = [recorder EXCEPT ![head.of[1]].state = "truncated"]
            /\ Leaves(Fails(head.of)) /\ UNCHANGED charged
    /\ UNCHANGED <<conv, order, up, jobs>>

-----------------------------------------------------------------------------
(* The process                                                             *)

Close == /\ up = "up" /\ mishaps < MaxMishaps
         /\ up' = "closing"
         /\ UNCHANGED <<durable, ops, running, recorder, charged, jobs, mishaps>>

Lost == /\ up' = "down" /\ mishaps' = mishaps + 1
        /\ ops' = <<>> /\ at' = "next" /\ cands' = {} /\ victim' = Nobody
        /\ recorder' = [s \in Conversations |-> [NoRecorder EXCEPT !.finalized = TRUE]]
        /\ charged' = [ready |-> 0, reserved |-> 0]
        /\ jobs' = {}
        /\ UNCHANGED durable

\* close() returns when the queue has drained.
Closed == up = "closing" /\ ops = <<>> /\ Lost

Crash == up # "down" /\ mishaps < MaxMishaps /\ Lost

\* Both constructors: what was being recorded is missing, files and rows that
\* lost each other go, an active row is abandoned, deletions are resumed.
Restart ==
    /\ up = "down" /\ up' = "up"
    /\ LET whole(a) == media[a].row = "ready" /\ media[a].file = "kept"
           known(a) == conv[a[1]] \notin {"deleted", "evicted"}
           row(a) == IF ~known(a) THEN "none"
                     ELSE IF media[a].row = "pending" \/ (media[a].row = "ready" /\ ~whole(a))
                     THEN "missing" ELSE media[a].row
           abandoned == {s \in Conversations : conv[s] = "active"}
           c == [s \in Conversations |-> IF s \in abandoned THEN "ended" ELSE conv[s]]
       IN  /\ media' = [a \in Assets |-> IF whole(a) /\ known(a) THEN media[a]
                                         ELSE [NoRow EXCEPT !.row = row(a)]]
           /\ charged' = [charged EXCEPT
                            !.ready = ReadyBytes({a \in Assets : whole(a) /\ known(a)})]
           /\ \E last \in SetToSeqs(abandoned) : order' = order \o last
           /\ \E expired \in Expired(c, order', {a[1] : a \in {b \in Assets : whole(b) /\ known(b)}}) :
                  prunes(c, expired)
           /\ recorder' = [s \in Conversations |->
                             IF conv[s] = "none" THEN NoRecorder ELSE recorder[s]]
    /\ UNCHANGED <<running, mishaps>>

-----------------------------------------------------------------------------
DiskStep == \/ StartOp \/ Room \/ RowsGo \/ Forget \/ WriteTemp \/ Rename \/ Commit
            \/ \E a \in Assets : Unlink(a)

RetentionNext ==
    \/ \E s \in Conversations : Begin(s) \/ RetainInput(s) \/ Write(s) \/ Finalize(s)
                                \/ Finish(s) \/ removeConversation(s)
    \/ Prune \/ DiskStep \/ UnlinkFails \/ DiskFails
    \/ Close \/ Closed \/ Crash \/ Restart

\* The disk answers, the timer or a reader prunes, and a gateway that went down
\* comes back.
RetentionFairness == /\ WF_retentionVars(DiskStep) /\ WF_retentionVars(Prune)
                     /\ WF_retentionVars(Closed) /\ WF_retentionVars(Restart)

-----------------------------------------------------------------------------
(* Properties                                                              *)

\* The retained audio never exceeds the ceiling, however recordings, evictions
\* and failures interleave, and what is charged for it is what is there.
CeilingKept ==
    /\ ReadyBytes(Assets) <= MaxBytes
    /\ up # "down" => charged.ready = ReadyBytes(Assets)

\* Reservations are given back exactly once: what stays reserved is what the
\* waiting utterances and the recordings that are not over have been promised.
ReservationsReturn ==
    up # "down" =>
        charged.reserved =
            Cardinality({s \in Conversations : \E i \in DOMAIN ops : ops[i] = Op("input", <<s, "input">>)})
            + SumOver([s \in Conversations |-> recorder[s].accepted],
                  {s \in Conversations :
                     ~recorder[s].finalized \/ \E i \in DOMAIN ops : ops[i] = Op("finalize", <<s, "output">>)})

AudioAccounted == CeilingKept /\ ReservationsReturn

\* Audio a conversation lists is there: its row is hidden before its files go.
ListedAudioExists ==
    \A a \in Assets : media[a].row = "ready" /\ conv[a[1]] \in {"active", "ended"}
                        => media[a].file = "kept"

\* trace-store.ts:490-493: no audio of a conversation reappears after DELETE was
\* answered, whatever recordings were still on their way.
DeletedLeavesNothing ==
    \A a \in Assets : conv[a[1]] = "deleted" =>
        /\ media[a].row = "none"
        /\ media[a].file = "kept" => up = "down" \/ (at = "commit" /\ head.of = a)

RemovalIsComplete == ListedAudioExists /\ DeletedLeavesNothing

\* A conversation marked for deletion is removed, through failures, a crash
\* between the databases, and restarts.
MarkedIsRemoved ==
    \A s \in Conversations : conv[s] = "deleting" ~> conv[s] \in {"deleted", "evicted"}

\* server.ts:812-814: retention "can never create audio with no owner-visible
\* Conversation record".
NoUnownedAudio ==
    \A a \in Assets : media[a].row = "ready" => conv[a[1]] \notin {"deleted", "evicted"}

\* What the two stores say of retained audio is so, after any failure and crash:
\* bytes and reservations add up, and what was removed is gone.
StoresAgree == AudioAccounted /\ RemovalIsComplete
=============================================================================
