----------------------------- MODULE MCGateway -----------------------------
(***************************************************************************)
(* What the gateway's processes keep together, for TLC, where only safety  *)
(* is asked: the process around the sessions, the voice bank, the engines  *)
(* behind it, the segmenters of its conversations and the tools of one.  A *)
(* behaviour is of one part, the others stay where they began; no step of  *)
(* one reads another.                                                      *)
(***************************************************************************)
EXTENDS GatewayServer, VoiceBank, EngineServer, SessionTools, SpeechSegmenter, TLC

VARIABLE part

\* Of two conversations, one hears more than the other.
MCStreams == {"long", "short"}
MCClock == ("long" :> 8) @@ ("short" :> 2)

\* One pronounced term is as good as another.
MCSymmetry == Permutations(Terms)

\* The fourth dispatch is there for a second persist to overtake the first; no more than
\* two of four dispatches are then spoken.
MCSpoken == 2
FewSpoken == Live' = MaxDispatches =>
                Len(SelectSeq(dispatch', LAMBDA d : d.kind = "spoken")) <= MCSpoken

Init == /\ part \in {"server", "voices", "engine", "desk", "tools", "speech"}
        /\ ServerInit /\ VoiceInit /\ EngineInit /\ ToolsInit /\ SegmenterInit

\* A conversation is followed up to its last dispatches, speech until inferences have failed or
\* no model could be loaded; no other part may stop.
Followed == /\ Live >= MaxDispatches - 1
            /\ UNCHANGED toolsVars

Failed == /\ \A s \in Streams : vad[s] = "failed" \/ seg[s].at = "ended"
          /\ UNCHANGED segmenterVars

Next == /\ UNCHANGED part
        /\ \/ /\ part = "server" /\ ServerNext
              /\ UNCHANGED <<voiceVars, engineVars, toolsVars, segmenterVars>>
           \/ /\ part = "voices" /\ VoiceNext
              /\ UNCHANGED <<serverVars, engineVars, toolsVars, segmenterVars>>
           \/ /\ part = "engine" /\ SpeechNext
              /\ UNCHANGED <<serverVars, voiceVars, toolsVars, segmenterVars>>
           \/ /\ part = "desk" /\ DeskNext
              /\ UNCHANGED <<serverVars, voiceVars, toolsVars, segmenterVars>>
           \/ /\ part = "tools" /\ (ToolsNext \/ Followed) /\ FewSpoken
              /\ UNCHANGED <<serverVars, voiceVars, engineVars, segmenterVars>>
           \/ /\ part = "speech" /\ (SegmenterNext \/ Failed)
              /\ UNCHANGED <<serverVars, voiceVars, engineVars, toolsVars>>

Spec == Init /\ [][Next]_<<part, serverVars, voiceVars, engineVars, toolsVars, segmenterVars>>
=============================================================================
