------------------------------ MODULE MCStores ------------------------------
(***************************************************************************)
(* The gateway's two stores for TLC: the retained conversations and the    *)
(* capture library.  They share nothing, so a behaviour is of one of them  *)
(* and the other stays where it began.                                     *)
(***************************************************************************)
EXTENDS Retention, CaptureLibrary

VARIABLE store

\* The first conversation keeps both sides, the second what was heard.
MCRecorded == {<<1, "input">>, <<1, "output">>, <<2, "input">>}

Init == store \in {"retention", "library"} /\ RetentionInit /\ LibraryInit

Next == /\ UNCHANGED store
        /\ \/ store = "retention" /\ RetentionNext /\ UNCHANGED libraryVars
           \/ store = "library" /\ LibraryNext /\ UNCHANGED retentionVars

\* Prune alone is enabled in a retention store that has just begun, and changes
\* nothing there.
Spec == Init /\ [][Next]_<<store, retentionVars, libraryVars>> /\ RetentionFairness
=============================================================================
