------------------------- MODULE MCConversationLoop -------------------------
(***************************************************************************)
(* The sessions the runs of ConversationLoop look at.  A run explores each *)
(* of its sessions separately: the options never change once chosen.       *)
(***************************************************************************)
EXTENDS ConversationLoop

\* Barge-in is allowed and turn-taking is speculative, the defaults.
Open(features, controls, calls) ==
    [allowBargeIn |-> TRUE, speculative |-> TRUE,
     features |-> features, controls |-> controls, calls |-> calls]

\* No barge-in, as vox listen runs beside external speakers.
Protected(features, controls) ==
    [Open(features, controls, 0) EXCEPT !.allowBargeIn = FALSE]

\* Hard ends: a finished utterance is never reopened.
HardEnds(session) == [session EXCEPT !.speculative = FALSE]

\* Every feature and control in some session, beside what it can disturb:
\* tools with reopens, two calls in one reply, tools with typed turns, the
\* owner's controls with agent speech, protected mode with and without reopens.
SafetySessions ==
    { Open({}, {}, 1),
      HardEnds(Open({"keyterms"}, {"session.stop"}, 2)),
      HardEnds(Open({}, {"turn.text"}, 1)),
      Open({"welcome", "nudge"}, Controls, 0),
      Protected({}, {"turn.text"}),
      HardEnds(Protected({"welcome", "nudge"}, {"turn.interrupt"})) }

\* Turns nobody interrupts by command, beside agent speech and typed turns.
LiveSessions ==
    { Open({"welcome", "nudge"}, {"agent.speech", "session.stop"}, 0),
      Open({}, {"turn.text"}, 0) }

\* The smallest sessions that show each disagreement.
InterruptSessions == { Open({}, {"turn.interrupt"}, 0) }
ToolSessions == { Open({}, {}, 1) }
ProtectedSessions == { Protected({}, {}) }
=============================================================================
