------------------------------ MODULE MCStudio ------------------------------
(***************************************************************************)
(* One exploration of the browser's four: the link to its sessions, the    *)
(* studio's conversations, the microphone and the speaker.  They share no  *)
(* state that is modelled, so a behaviour is one of one of them: side says *)
(* which, and the others stay at their initial states.                     *)
(***************************************************************************)
EXTENDS SessionLink, StudioConversation, MicCapture, SpeakerOutput

VARIABLE side

mcVars == <<linkVars, studioVars, micVars, speakerVars, side>>

MCInit ==
    /\ LinkInit /\ StudioInit /\ MicInit /\ SpeakerInit
    /\ side \in {"link", "studio", "mic", "speaker"}

MCNext ==
    /\ UNCHANGED side
    /\ \/ side = "link" /\ LinkNext /\ UNCHANGED <<studioVars, micVars, speakerVars>>
       \/ side = "studio" /\ StudioNext /\ UNCHANGED <<linkVars, micVars, speakerVars>>
       \/ side = "mic" /\ MicNext /\ UNCHANGED <<linkVars, studioVars, speakerVars>>
       \/ side = "speaker" /\ SpeakerNext /\ UNCHANGED <<linkVars, studioVars, micVars>>

\* A side that stays where it began has no fair step enabled.
MCSpec == /\ MCInit /\ [][MCNext]_mcVars
          /\ LinkFairness /\ StudioFairness /\ MicFairness /\ SpeakerFairness

\* What was left, stopped or announced comes to its end: a session that nobody returns to
\* ends, a stopped conversation lets go of what it holds, and a drain is answered.
BrowserSettles == ForgottenSessionEnds /\ StopReleases /\ DrainAnswers
=============================================================================
