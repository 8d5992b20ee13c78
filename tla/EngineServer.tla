--------------------------- MODULE EngineServer ---------------------------
(***************************************************************************)
(* The model servers of engines/.  First VoxCPM2's (server_voxcpm2.py and  *)
(* the stores beside it): threads that register, design, delete and speak  *)
(* voices around one GPU pipeline, whose lock is held for a generation,    *)
(* however it ends, but not by those who change the files of a voice.      *)
(* Then the desk of the MOSS transcriber, which bounds its callers.        *)
(*                                                                         *)
(* A take is the content of a reference wav with its transcript; the key   *)
(* of a prompt cache is the hash of that content, so it is a take as well. *)
(* A generation conditions on an anchor: the take of a voice or, where     *)
(* there is none, the first audio of the session itself, named by its      *)
(* request.  Prosody prompts are left out, they only lengthen the key.     *)
(***************************************************************************)
EXTENDS Naturals, Sequences, FiniteSets, SequencesExt

CONSTANTS
    Requests,       \* threads of the servers
    Voices, Wavs,
    Continuations,  \* ids of continuation sessions
    MaxContinuations,    \* capacity of the continuation store
    MaxCaches,      \* capacity of the prompt cache store
    DeskLimit,      \* queue_limit of the transcriber
    None

ASSUME EngineAssumption ==
    /\ MaxContinuations \in Nat \ {0} /\ MaxCaches \in Nat \ {0} /\ DeskLimit \in Nat \ {0}
    /\ None \notin Wavs \union Requests \union Voices \union Continuations

VARIABLES
    req,     \* the requests
    ref,     \* ref.wav of each voice
    meta,    \* meta.json of each voice: the take it describes
    lock,    \* who holds the pipeline
    conts,   \* ContinuationStore._sessions, by updated_at
    memory,  \* PromptCacheStore._entries, by used_at
    disk,    \* the snapshot beside each voice
    desk     \* Admission of the transcriber

engineVars == <<req, ref, meta, lock, conts, memory, disk, desk>>
files == <<ref, meta>>
stores == <<conts, memory, disk>>

Free == [kind |-> "none", at |-> "none", voice |-> None, take |-> None, id |-> None,
         anchor |-> None, key |-> None, raced |-> FALSE]
EngineKinds == {"register", "design", "speech"}
Inside == {"in", "warming", "named", "ready", "speaking"}
NoSnapshot == [key |-> None, of |-> None, raced |-> FALSE]

EngineInit ==
    /\ req = [r \in Requests |-> Free] /\ lock = None
    /\ ref = [v \in Voices |-> None] /\ meta = [v \in Voices |-> None]
    /\ conts = <<>> /\ memory = <<>> /\ disk = [v \in Voices |-> NoSnapshot]
    /\ desk = [reserved |-> 0, active |-> 0, serial |-> None, at |-> [r \in Requests |-> "none"]]

\* What it conditions on is known; of its voice only a design needs more.
Ready(r, anchor) ==
    req' = [req EXCEPT ![r].anchor = anchor, ![r].at = "ready", ![r].key = None, ![r].raced = FALSE,
                       ![r].voice = IF req[r].kind = "design" THEN @ ELSE None]
To(r, at) == req' = [req EXCEPT ![r].at = at]
\* Over: its thread is free for another.
Over(r) == req' = [req EXCEPT ![r] = Free]
Exists(v) == ref[v] # None \/ meta[v] # None \/ disk[v] # NoSnapshot
\* A registration that moves the file of a voice somebody has just named.
Raced(v) == [r \in Requests |-> IF req[r].voice = v /\ req[r].at = "named"
                                THEN [req[r] EXCEPT !.raced = TRUE] ELSE req[r]]

-----------------------------------------------------------------------------
\* The stores.
EntryOf(seq, id) == CHOOSE e \in Range(seq) : e.id = id
Has(seq, id) == \E e \in Range(seq) : e.id = id
Without(seq, id) == IF Has(seq, id) THEN RemoveAt(seq, CHOOSE i \in DOMAIN seq : seq[i].id = id) ELSE seq

\* The oldest goes where there is no room for a new one.
Stored(seq, entry, capacity) ==
    IF Has(seq, entry.id) \/ Len(seq) < capacity THEN Append(Without(seq, entry.id), entry)
    ELSE Append(Tail(seq), entry)

\* heard: what the chunks of the session were conditioned on so far.
HeardBy(id) == IF Has(conts, id) THEN EntryOf(conts, id).heard ELSE {}
put(r, base) == Stored(conts, [id |-> req[r].id, base |-> base, heard |-> HeardBy(req[r].id) \union {req[r].anchor}],
                       MaxContinuations)

\* Mistake: the chunk just spoken is merged into the prompt of the next.
KeepsMerged(r) ==
    conts' \in {Without(conts, req[r].id), put(r, r)}

\* What a session keeps after a chunk: its anchor, which the first one set, or nothing
\* where the request said that it was the last (continuation_end).
Keeps(r) ==
    conts' \in {Without(conts, req[r].id), put(r, req[r].anchor)}

\* prune(): those that nobody updated for long.
Pruned == {SubSeq(conts, n, Len(conts)) : n \in 1..(Len(conts) + 1)}

\* Mistake: the snapshot beside the voice is taken whatever it was made of.
loadsAny(v, key) == disk[v].key # None
\* _load: only of this very content.
loads(v, key) == key # None /\ disk[v].key = key

-----------------------------------------------------------------------------
\* A request to speak: with a voice that has a reference, or without one ("design").
SpeechAsked(r, v, id) ==
    /\ req[r].at = "none"
    /\ v # None => ref[v] # None
    /\ req' = [req EXCEPT ![r] = [Free EXCEPT !.kind = "speech", !.at = "waiting", !.voice = v, !.id = id]]
    /\ UNCHANGED <<files, lock, stores, desk>>

\* _pipeline, lock.acquire(timeout): 503 when it is not free in time; the prewarming of a
\* voice that is registered gives up silently.
TimesOut(r) ==
    /\ req[r].at \in {"waiting", "prewarms"} /\ lock # None
    /\ Over(r)
    /\ UNCHANGED <<files, lock, stores, desk>>

Acquires(r) ==
    /\ req[r].at \in {"waiting", "prewarms"} /\ lock = None
    /\ lock' = r
    /\ To(r, IF req[r].at = "waiting" THEN "in" ELSE "warming")
    /\ IF req[r].id # None THEN conts' \in Pruned ELSE UNCHANGED conts
    /\ UNCHANGED <<files, memory, disk, desk>>

Quits(r) == lock' = None /\ Over(r)

\* What it conditions on: within a session its anchor, without a reference its own audio
\* (so is a design), else the prompt cache of the file, whose content is hashed first.
Names(r) ==
    LET v == req[r].voice
        own == req[r].at = "in" /\ (v = None \/ req[r].kind = "design")
        known == req[r].id # None /\ Has(conts, req[r].id) IN
    /\ req[r].at \in {"in", "warming"}
    /\ \/ known /\ Ready(r, EntryOf(conts, req[r].id).base) /\ UNCHANGED lock
       \/ ~known /\ own /\ Ready(r, r) /\ UNCHANGED lock
       \/ ~known /\ ~own /\ IF ref[v] = None THEN Quits(r)
                           ELSE req' = [req EXCEPT ![r].key = ref[v], ![r].at = "named"] /\ UNCHANGED lock
    /\ UNCHANGED <<files, stores, desk>>

\* get_or_build: from memory, from the snapshot, or from the file as it is by now.
Caches(r) ==
    LET v == req[r].voice
        key == req[r].key
        built == [key |-> key, of |-> ref[v], raced |-> req[r].raced]
        found == IF loads(v, key) THEN disk[v] ELSE built
        anchor == IF Has(memory, key) THEN EntryOf(memory, key).of ELSE found.of IN
    /\ req[r].at = "named"
    /\ IF ~Has(memory, key) /\ ~loads(v, key) /\ ref[v] = None
       THEN Quits(r) /\ UNCHANGED <<memory, disk>>
       ELSE /\ IF Has(memory, key)
               THEN memory' = Append(Without(memory, key), EntryOf(memory, key)) /\ UNCHANGED disk
               ELSE /\ memory' = Stored(memory, [id |-> key, of |-> found.of, raced |-> found.raced], MaxCaches)
                    /\ \/ disk' = [disk EXCEPT ![v] = found]
                       \/ ~loads(v, key) /\ UNCHANGED disk   \* _save may fail
            /\ IF req[r].kind \in {"register", "design"} THEN Quits(r)
               ELSE Ready(r, anchor) /\ UNCHANGED lock
    /\ UNCHANGED <<files, conts, desk>>

\* A generation that is not streamed: a session keeps its anchor if it succeeds.
Generates(r) ==
    /\ req[r].at = "ready" /\ req[r].kind = "speech"
    /\ IF req[r].id # None THEN Keeps(r) ELSE UNCHANGED conts
    /\ Quits(r)
    /\ UNCHANGED <<files, memory, disk, desk>>

\* It fails; a stream keeps the anchor even so, if it has one.
Fails(r) ==
    /\ req[r].at = "ready"
    /\ \/ UNCHANGED conts
       \/ req[r].id # None /\ (Has(conts, req[r].id) \/ req[r].anchor # r) /\ Keeps(r)
    /\ Quits(r)
    /\ UNCHANGED <<files, memory, disk, desk>>

\* The generator is closed, through its encoder's feeder where the stream is Opus: its
\* finally clauses keep the anchor and release the lock.
Closes(r) == Keeps(r) /\ Quits(r)

\* A stream, always of a session: its first chunk is primed before the response starts ...
Yields(r) ==
    /\ req[r].at = "ready" /\ req[r].id # None
    /\ To(r, "speaking")
    /\ UNCHANGED <<files, lock, stores, desk>>

\* Mistake: the generator of a client that went away stays suspended at its yield.
StreamAbandoned(r) ==
    /\ req[r].at = "speaking"
    /\ Keeps(r)
    /\ Over(r)
    /\ \/ lock' = None
       \/ UNCHANGED lock
    /\ UNCHANGED <<files, memory, disk, desk>>

\* ... and its end, its failure, or a client that goes away close it.
StreamEnds(r) ==
    /\ req[r].at = "speaking"
    /\ Closes(r)
    /\ UNCHANGED <<files, memory, disk, desk>>

-----------------------------------------------------------------------------
\* create_voice: the upload is converted, and the file moved into its place ...
Uploads(r, v, take) ==
    /\ req[r].at = "none"
    /\ req' = [Raced(v) EXCEPT ![r] = [Free EXCEPT !.kind = "register", !.at = "stored", !.voice = v, !.take = take]]
    /\ ref' = [ref EXCEPT ![v] = take]
    /\ UNCHANGED <<meta, lock, stores, desk>>

\* ... and then described, unless it fails (a deletion in between).  The prewarming follows.
Describes(r) ==
    LET v == req[r].voice IN
    /\ req[r].at = "stored" /\ (req[r].kind = "design" => ref[v] # None)
    /\ \/ req[r].kind = "register" /\ Over(r) /\ UNCHANGED meta
       \/ ref[v] # None /\ req' = [req EXCEPT ![r].at = "prewarms", ![r].take = None] /\ meta' = [meta EXCEPT ![v] = req[r].take]
    /\ UNCHANGED <<ref, lock, stores, desk>>

\* create_design_profile: the id is free, then the voice is generated ...
DesignAsked(r, v) ==
    /\ req[r].at = "none" /\ ~Exists(v)
    /\ req' = [req EXCEPT ![r] = [Free EXCEPT !.kind = "design", !.at = "waiting", !.voice = v]]
    /\ UNCHANGED <<files, lock, stores, desk>>

\* ... and the pipeline released before its directory is made, which somebody may have.
DesignStores(r, take) ==
    LET v == req[r].voice IN
    /\ req[r].at = "ready" /\ req[r].kind = "design"
    /\ lock' = None
    /\ IF Exists(v) THEN Over(r) /\ UNCHANGED ref
       ELSE /\ req' = [req EXCEPT ![r].at = "stored", ![r].take = take, ![r].anchor = None]
            /\ ref' = [ref EXCEPT ![v] = take]
    /\ UNCHANGED <<meta, stores, desk>>

\* What fails after that removes the directory, with whatever is in it by then.
DesignFails(r) ==
    LET v == req[r].voice IN
    /\ req[r].at = "stored" /\ req[r].kind = "design"
    /\ req' = [Raced(v) EXCEPT ![r] = Free]
    /\ ref' = [ref EXCEPT ![v] = None] /\ meta' = [meta EXCEPT ![v] = None]
    /\ disk' = [disk EXCEPT ![v] = NoSnapshot]
    /\ UNCHANGED <<lock, conts, memory, desk>>

\* delete_voice: the directory goes, under whoever is using it.
DeletesVoice(v) ==
    /\ Exists(v)
    /\ req' = Raced(v)
    /\ ref' = [ref EXCEPT ![v] = None] /\ meta' = [meta EXCEPT ![v] = None]
    /\ disk' = [disk EXCEPT ![v] = NoSnapshot]
    /\ UNCHANGED <<lock, conts, memory, desk>>

\* health takes the lock, if it is free, to prune.
Health ==
    /\ lock = None /\ conts' \in Pruned
    /\ UNCHANGED <<req, files, lock, memory, disk, desk>>

-----------------------------------------------------------------------------
\* The transcriber: enter() refuses past the limit, then waits for the one context.
Enters(r) ==
    /\ desk.at[r] = "none" /\ desk.reserved < DeskLimit
    /\ desk' = [desk EXCEPT !.reserved = @ + 1, !.at[r] = "waiting"]
    /\ UNCHANGED <<req, files, lock, stores>>

Transcribes(r) ==
    /\ desk.at[r] = "waiting" /\ desk.serial = None
    /\ desk' = [desk EXCEPT !.serial = r, !.active = @ + 1, !.at[r] = "active"]
    /\ UNCHANGED <<req, files, lock, stores>>

\* leave(), from the finally of the handler: the counts, and then the context.
LeavesDesk(r) ==
    /\ desk.at[r] = "active"
    /\ desk' = [desk EXCEPT !.reserved = @ - 1, !.active = @ - 1, !.at[r] = "leaving"]
    /\ UNCHANGED <<req, files, lock, stores>>

ReleasesDesk(r) ==
    /\ desk.at[r] = "leaving"
    /\ desk' = [desk EXCEPT !.serial = None, !.at[r] = "none"]
    /\ UNCHANGED <<req, files, lock, stores>>

SpeechNext ==
    \/ Health
    \/ \E v \in Voices : DeletesVoice(v)
    \/ \E r \in Requests :
          \/ \E v \in Voices \union {None}, id \in Continuations \union {None} : SpeechAsked(r, v, id)
          \/ TimesOut(r) \/ Acquires(r) \/ Names(r) \/ Caches(r) \/ Generates(r) \/ Fails(r)
          \/ Yields(r) \/ StreamEnds(r) \/ Describes(r) \/ DesignFails(r)
          \/ \E v \in Voices : DesignAsked(r, v)
          \/ \E take \in Wavs : DesignStores(r, take) \/ \E v \in Voices : Uploads(r, v, take)

DeskNext == \E r \in Requests : Enters(r) \/ Transcribes(r) \/ LeavesDesk(r) \/ ReleasesDesk(r)

-----------------------------------------------------------------------------
EngineTypeOK ==
    /\ lock \in Requests \union {None}
    /\ ref \in [Voices -> Wavs \union {None}] /\ meta \in [Voices -> Wavs \union {None}]
    /\ Len(conts) <= MaxContinuations /\ Len(memory) <= MaxCaches
    /\ \A r \in Requests : req[r].kind \in EngineKinds \union {"none"} /\ req[r].key \in Wavs \union {None}

\* The pipeline is its user's: its lock is held by a request that is generating, and by
\* none that is over; every chunk of a session was conditioned on the anchor the session
\* keeps; a prompt cache is made of the content that it is found by, unless a registration
\* moved the file between its hash and its reading; the desk counts whom it serves.
PipelineIsKept ==
    /\ \A r \in Requests : lock = r <=> req[r].at \in Inside
    /\ \A e \in Range(conts) : e.heard = {e.base}
    /\ \A e \in Range(memory) : e.of = e.id \/ e.raced
    /\ \A v \in Voices : disk[v].of = disk[v].key \/ disk[v].raced
    /\ desk.reserved = Cardinality({r \in Requests : desk.at[r] \in {"waiting", "active"}})
    /\ desk.reserved <= DeskLimit /\ desk.active <= 1

\* Identical bytes hit the cache of those bytes (prompt_caches.py:24-25).  Not kept: the
\* lock does not protect the file from a registration while the cache is built.
CachesAreTrue == \A e \in Range(memory) : e.of = e.id

\* A voice is described by the transcript of its reference.  Not kept: two registrations
\* of one id may each write one of the two files last.
PairsMatch == \A v \in Voices :
    (\A r \in Requests : req[r].voice # v) => meta[v] = None \/ meta[v] = ref[v]
=============================================================================
