----------------------------- MODULE MCSession -----------------------------
(***************************************************************************)
(* Three sides of one gateway session for TLC: its life from start() to    *)
(* done, its reply audio, and its kernel under an arbitrary caller (three  *)
(* turns of up to two revisions: enough for a stale call to name an older  *)
(* turn while a third one is superseding it).  A behaviour is of one side, *)
(* the others stay where they began; no step of one reads another.         *)
(***************************************************************************)
EXTENDS SessionCore, MediaPlayer, DuplexSession

VARIABLE side

MCInit == /\ side \in {"core", "media", "kernel"}
          /\ CoreInit /\ PlayerInit /\ Init
          /\ side # "core" => ~agentMode

MCNext == /\ UNCHANGED side
          /\ \/ side = "core" /\ CoreNext /\ UNCHANGED <<playerVars, duplex>>
             \/ side = "media" /\ PlayerNext /\ UNCHANGED <<coreVars, duplex>>
             \/ side = "kernel" /\ Next /\ UNCHANGED <<coreVars, playerVars>>

\* A side that stays where it began has no fair step enabled.
MCSpec == MCInit /\ [][MCNext]_<<side, coreVars, playerVars, duplex>> /\ CoreFairness /\ PlayerFairness

\* Whoever waits hears: for the end of a session, and for a write or a close of its reply.
SessionAnswers == SessionIsReleased /\ CallsSettle
=============================================================================
