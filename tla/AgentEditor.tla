---------------------------- MODULE AgentEditor ----------------------------
(***************************************************************************)
(* The agent builder of the studio (apps/web/src/panels/AgentsPanel.tsx):  *)
(* one editor over the gateway's registry, which other clients edit too,   *)
(* and its drawer in which the agent is tried live.                        *)
(*                                                                         *)
(* What an agent says is a set of edits.  A request is answered in two     *)
(* steps: the gateway serves it, and later its continuation runs with the  *)
(* values it captured when it was issued.  The editor's component is the   *)
(* same when the page goes from one agent directly to another; when it is  *)
(* unmounted, its continuations run on and set nothing.                    *)
(***************************************************************************)
EXTENDS Naturals, FiniteSets

CONSTANTS
    Agents,      \* ids of agents
    Original,    \* the one that exists at first; the others may be made from it
    Nothing,     \* no agent, no record, no answer
    MaxEdits,    \* bound: edits typed, by whomever, and versions restored
    MaxRequests     \* bound: operations begun that call the gateway

ASSUME EditorAssumption == Original \in Agents /\ Nothing \notin Agents /\ MaxEdits \in Nat /\ MaxRequests \in Nat

VARIABLES
    files,    \* the gateway's records of the agents, and their published versions
    page,     \* the agent whose builder is open
    editor,   \* the builder's record, the draft over it, and what an audit said last
    requests,    \* the operations that call the gateway
    begun,    \* ... how many were begun
    drawer,   \* the drawer of the live preview
    talk,     \* the preview's conversation: off, starting or on
    edits,    \* edits and restorations so far
    seen      \* edits this editor has shown

editorVars == <<files, page, editor, requests, begun, drawer, talk, edits, seen>>

Edits == 1..MaxEdits
Contents == SUBSET Edits
Slots == 1..MaxRequests

Blank == [record |-> Nothing, draft |-> {}, current |-> FALSE]
Closed == [open |-> FALSE, owned |-> FALSE]
Free == [step |-> "free"]
Failed == [failed |-> TRUE]

\* What the gateway answers: the agent's record, and whether an audit finds the draft
\* to be the version published last.
Answer(a, file) == [agent |-> a, revision |-> file.revision, content |-> file.content,
                    current |-> file.latest = file.content]
RecordOf(answer) == [agent |-> answer.agent, revision |-> answer.revision, content |-> answer.content]

\* The builder is drawn: it has a record, and no load is under way.
Visible == /\ editor.record # Nothing
           /\ ~\E i \in Slots : requests[i].step = "load" /\ requests[i].mounted /\ requests[i].current
Dirty == editor.record # Nothing /\ editor.draft # editor.record.content

Pending(steps) == \E i \in Slots : requests[i].step \in steps /\ requests[i].mounted
Saves == {"save", "settle"}
Previews == {i \in Slots : requests[i].step # "free" /\ requests[i].for \in {"start", "restart"} /\ requests[i].current}

\* A request: the step it is at, what it is part of, and what it captured.
\* mounted: its editor is.  current: its operation of the preview is the last
\* one, or it is of no preview.
Call(step, for, a) ==
    [step |-> step, for |-> for, agent |-> a, revision |-> 0, content |-> {},
     dirty |-> FALSE, mounted |-> TRUE, current |-> TRUE, reply |-> Nothing]

IssuesAmong(cs, c) == /\ begun < MaxRequests /\ begun' = begun + 1
                      /\ requests' = [cs EXCEPT ![begun + 1] = c]
Issues(c) == IssuesAmong(requests, c)
Advances(i, c) == requests' = [requests EXCEPT ![i] = [c EXCEPT !.reply = Nothing]] /\ UNCHANGED begun
Ends(i) == requests' = [requests EXCEPT ![i] = Free] /\ UNCHANGED begun

\* setRecord(next); setDraft(draftFrom(next)).
Shows(answer, current) ==
    /\ editor' = [record |-> RecordOf(answer), draft |-> answer.content, current |-> current]
    /\ seen' = seen \union answer.content

EditorInit ==
    /\ files = [a \in Agents |->
          IF a = Original THEN [life |-> "live", revision |-> 1, content |-> {}, versions |-> {}, latest |-> Nothing]
          ELSE [life |-> "unborn", revision |-> 0, content |-> {}, versions |-> {}, latest |-> Nothing]]
    /\ page = Nothing /\ editor = Blank /\ requests = [i \in Slots |-> Free] /\ begun = 0
    /\ drawer = Closed /\ talk = "off" /\ edits = 0 /\ seen = {}

-----------------------------------------------------------------------------
(* The page                                                                *)

\* The requests of a builder that goes, of a load that a later one supersedes, of a
\* preview whose operation was superseded.
Unmounted(cs) == [i \in Slots |->
    IF cs[i].step = "free" THEN cs[i] ELSE [cs[i] EXCEPT !.mounted = FALSE, !.current = FALSE]]
Superseded(cs) == [i \in Slots |->
    IF cs[i].step # "free" /\ cs[i].for = "load" THEN [cs[i] EXCEPT !.current = FALSE] ELSE cs[i]]
GenerationEnds(cs) == [i \in Slots |->
    IF cs[i].step # "free" /\ cs[i].for \in {"start", "restart"} THEN [cs[i] EXCEPT !.current = FALSE] ELSE cs[i]]

\* The drawer unmounts, with its builder or by itself: it stops what it owns or starts.
DrawerGoes ==
    /\ drawer' = Closed
    /\ talk' = IF drawer.owned \/ Previews # {} THEN "off" ELSE talk

\* load() for agent a among the requests cs: the editor is emptied first.
BeginsLoad(cs, a) == IssuesAmong(cs, Call("load", "load", a)) /\ editor' = Blank

\* openAgent, or back and forward: to another agent's builder, from the list or from
\* the builder of this one.  A dirty draft is given up only when the user says so.
GoTo(a) ==
    /\ files[a].life # "unborn" /\ page # a
    /\ IF page = Nothing THEN BeginsLoad(requests, a) /\ UNCHANGED <<drawer, talk>>
       ELSE /\ BeginsLoad(GenerationEnds(Superseded(requests)), a)
            /\ DrawerGoes
    /\ page' = a
    /\ UNCHANGED <<files, edits, seen>>

\* closeAgent, setTab and back to the list; removeBuilderAgent does it by force.
Leaves ==
    /\ page' = Nothing /\ editor' = Blank
    /\ IF page = Nothing THEN UNCHANGED <<drawer, talk>> ELSE DrawerGoes

Leave ==
    /\ page # Nothing
    /\ Leaves /\ requests' = Unmounted(requests)
    /\ UNCHANGED <<files, begun, edits, seen>>

\* The refresh button of a builder that could not be loaded.
Reload ==
    /\ page # Nothing /\ editor.record = Nothing
    /\ ~\E i \in Slots : requests[i].step = "load" /\ requests[i].mounted /\ requests[i].current
    /\ BeginsLoad(requests, page)
    /\ UNCHANGED <<files, page, drawer, talk, edits, seen>>

-----------------------------------------------------------------------------
(* The user's edits, and those of other clients                            *)

Type ==
    /\ Visible /\ edits < MaxEdits
    /\ edits' = edits + 1
    /\ editor' = [editor EXCEPT !.draft = @ \union {edits + 1}]
    /\ seen' = seen \union {edits + 1}
    /\ UNCHANGED <<files, page, requests, begun, drawer, talk>>

OthersEdit(a) ==
    /\ files[a].life = "live" /\ edits < MaxEdits
    /\ edits' = edits + 1
    /\ files' = [files EXCEPT ![a].revision = @ + 1, ![a].content = @ \union {edits + 1}]
    /\ UNCHANGED <<page, editor, requests, begun, drawer, talk, seen>>

\* restoreVersion(version)
Restore ==
    /\ Visible /\ edits < MaxEdits /\ edits' = edits + 1
    /\ \E version \in files[editor.record.agent].versions :
          /\ editor' = [editor EXCEPT !.draft = version]
          /\ seen' = seen \union version
    /\ UNCHANGED <<files, page, requests, begun, drawer, talk>>

-----------------------------------------------------------------------------
(* Saving, publishing and the rest of the builder's requests               *)

\* The first await of save(): none when there is nothing to save.
SaveCall(for) == [Call("save", for, editor.record.agent) EXCEPT
                     !.revision = editor.record.revision, !.content = editor.draft]
SavedAlready(step, for) == [Call(step, for, editor.record.agent) EXCEPT
                     !.revision = editor.record.revision, !.content = editor.record.content]

PressSave ==
    /\ Visible /\ Dirty
    /\ ~Pending(Saves) /\ ~Pending({"check", "publish"})
    /\ Issues(SaveCall("button"))
    /\ UNCHANGED <<files, page, editor, drawer, talk, edits, seen>>

\* publishDisabled: while it saves or publishes, and when what is shown is published.
PressPublish ==
    /\ Visible
    /\ ~Pending(Saves) /\ ~Pending({"check", "publish"})
    /\ ~(editor.current /\ ~Dirty)
    /\ Issues(IF Dirty THEN SaveCall("publish") ELSE SavedAlready("check", "publish"))
    /\ UNCHANGED <<files, page, editor, drawer, talk, edits, seen>>

\* openVersions, and the drawer's reload: refreshVersions captures `dirty`.
Refresh ==
    /\ Visible
    /\ Issues([Call("refresh", "versions", page) EXCEPT !.dirty = Dirty])
    /\ UNCHANGED <<files, page, editor, drawer, talk, edits, seen>>

PressDelete ==
    /\ Visible /\ ~Pending({"delete"})
    /\ Issues([Call("delete", "delete", editor.record.agent) EXCEPT !.revision = editor.record.revision])
    /\ UNCHANGED <<files, page, editor, drawer, talk, edits, seen>>

\* DuplicateAgentDialog.submit: what the editor shows, saved or not, becomes agent a.
Duplicate(a) ==
    /\ Visible /\ files[a].life = "unborn" /\ ~Pending({"create"})
    /\ Issues([Call("create", "create", a) EXCEPT !.content = editor.draft])
    /\ UNCHANGED <<files, page, editor, drawer, talk, edits, seen>>

\* The gateway's answers: a record of the registry as it is now, or a refusal
\* (AgentRegistry has these as steps on files).  The network may fail any request.
Writes(i, a, record) == /\ files' = [files EXCEPT ![a] = record]
                        /\ requests' = [requests EXCEPT ![i].reply = Answer(a, record)]
Matches(c) == files[c.agent].life = "live" /\ files[c.agent].revision = c.revision

Serve(i) ==
    LET c == requests[i]
        file == files[c.agent]
        answers(reply) == requests' = [requests EXCEPT ![i].reply = reply] /\ UNCHANGED files
    IN  /\ c.step \notin {"free", "talk", "stop"} /\ c.reply = Nothing
        /\ \/ answers(Failed)
           \/ /\ c.step \in {"load", "refresh", "settle", "check"} /\ file.life = "live"
              /\ answers(Answer(c.agent, file))
           \/ /\ c.step = "save" /\ Matches(c)
              /\ Writes(i, c.agent, [file EXCEPT !.revision = @ + 1, !.content = c.content])
           \/ /\ c.step = "publish" /\ Matches(c)
              /\ Writes(i, c.agent, [file EXCEPT !.revision = @ + 1, !.latest = file.content,
                                                 !.versions = @ \union {file.content}])
           \/ /\ c.step = "delete" /\ Matches(c)
              /\ Writes(i, c.agent, [file EXCEPT !.life = "gone", !.content = {}, !.versions = {}, !.latest = Nothing])
           \/ /\ c.step = "create" /\ file.life = "unborn"
              /\ Writes(i, c.agent, [file EXCEPT !.life = "live", !.revision = 1, !.content = c.content])
        /\ UNCHANGED <<page, editor, begun, drawer, talk, edits, seen>>

\* The continuations of the requests of the builder.  They set nothing when it is gone.
Loaded(i) ==
    LET c == requests[i] IN
    /\ c.step = "load" /\ c.reply # Nothing /\ Ends(i)
    /\ IF c.mounted /\ c.current /\ c.reply # Failed THEN Shows(c.reply, c.reply.current) ELSE UNCHANGED <<editor, seen>>
    /\ UNCHANGED <<files, page, drawer, talk, edits>>

\* updateAgent answered: the record and the draft become the answer, whatever was typed
\* meanwhile and whichever agent is open now.  save() goes on to an audit.
Saved(i) ==
    LET c == requests[i] IN
    /\ c.step = "save" /\ c.reply # Nothing
    /\ IF c.reply = Failed THEN Ends(i) /\ UNCHANGED <<editor, seen>>
       ELSE /\ Advances(i, [c EXCEPT !.step = "settle", !.revision = c.reply.revision, !.content = c.reply.content])
            /\ IF c.mounted THEN Shows(c.reply, editor.current) ELSE UNCHANGED <<editor, seen>>
    /\ UNCHANGED <<files, page, drawer, talk, edits>>

\* ... which may fail without harm; then save() returns to whoever called it.
Settled(i) ==
    LET c == requests[i] IN
    /\ c.step = "settle" /\ c.reply # Nothing /\ c.for \in {"button", "publish"}
    /\ editor' = IF c.mounted THEN [editor EXCEPT !.current = c.reply # Failed /\ c.reply.current] ELSE editor
    /\ IF c.for = "publish" THEN Advances(i, [c EXCEPT !.step = "check"]) ELSE Ends(i)
    /\ UNCHANGED <<files, page, drawer, talk, edits, seen>>

\* publish() after its own audit: nothing to do when the agent is current.
Checked(i) ==
    LET c == requests[i] IN
    /\ c.step = "check" /\ c.reply # Nothing
    /\ editor' = IF c.mounted /\ c.reply # Failed THEN [editor EXCEPT !.current = c.reply.current] ELSE editor
    /\ IF c.reply = Failed \/ c.reply.current THEN Ends(i) ELSE Advances(i, [c EXCEPT !.step = "publish"])
    /\ UNCHANGED <<files, page, drawer, talk, edits, seen>>

Published(i) ==
    LET c == requests[i] IN
    /\ c.step = "publish" /\ c.reply # Nothing /\ Ends(i)
    /\ IF c.mounted /\ c.reply # Failed THEN Shows(c.reply, TRUE) ELSE UNCHANGED <<editor, seen>>
    /\ UNCHANGED <<files, page, drawer, talk, edits>>

\* Mistake: the base always advances, and a dirty draft is kept over it.
RefreshedUnderDraft(i) ==
    LET c == requests[i] IN
    /\ c.step = "refresh" /\ c.reply # Nothing /\ Ends(i)
    /\ IF c.mounted /\ c.reply # Failed
       THEN /\ editor' = [editor EXCEPT !.record = RecordOf(c.reply), !.draft = IF c.dirty THEN @ ELSE c.reply.content]
            /\ seen' = IF c.dirty THEN seen ELSE seen \union c.reply.content
       ELSE UNCHANGED <<editor, seen>>
    /\ UNCHANGED <<files, page, drawer, talk, edits>>

\* A clean editor advances with its versions; a dirty one keeps the base it has.
Refreshed(i) ==
    LET c == requests[i] IN
    /\ c.step = "refresh" /\ c.reply # Nothing /\ Ends(i)
    /\ IF c.mounted /\ c.reply # Failed /\ ~c.dirty THEN Shows(c.reply, c.reply.current) ELSE UNCHANGED <<editor, seen>>
    /\ UNCHANGED <<files, page, drawer, talk, edits>>

\* onClose(true): whatever page is open by then is closed, without a question.
Deleted(i) ==
    LET c == requests[i] IN
    /\ c.step = "delete" /\ c.reply # Nothing
    /\ IF c.reply = Failed THEN Ends(i) /\ UNCHANGED <<page, editor, drawer, talk>>
       ELSE Leaves /\ requests' = [Unmounted(requests) EXCEPT ![i] = Free] /\ UNCHANGED begun
    /\ UNCHANGED <<files, edits, seen>>

\* onCreated opens the copy, after a question if the draft is dirty.
Created(i) ==
    LET c == requests[i]
        rest == [requests EXCEPT ![i] = Free]
        stays == requests' = rest /\ UNCHANGED <<begun, page, editor, drawer, talk>>
    IN  /\ c.step = "create" /\ c.reply # Nothing
        /\ \/ (c.reply = Failed \/ Dirty \/ page = c.agent) /\ stays
           \/ /\ c.reply # Failed /\ page # c.agent /\ page' = c.agent
              /\ IF page = Nothing THEN BeginsLoad(rest, c.agent) /\ UNCHANGED <<drawer, talk>>
                 ELSE BeginsLoad(GenerationEnds(Superseded(rest)), c.agent) /\ DrawerGoes
        /\ UNCHANGED <<files, edits, seen>>

-----------------------------------------------------------------------------
(* The live preview                                                        *)

OpenPreview ==
    /\ Visible /\ ~drawer.open /\ drawer' = [Closed EXCEPT !.open = TRUE]
    /\ UNCHANGED <<files, page, editor, requests, begun, talk, edits, seen>>

ClosePreview ==
    /\ drawer.open /\ DrawerGoes /\ requests' = GenerationEnds(requests)
    /\ UNCHANGED <<files, page, editor, begun, edits, seen>>

\* start(): a dirty draft is saved first.
StartPreview ==
    /\ drawer.open /\ Previews = {} /\ talk = "off"
    /\ \/ Dirty /\ Issues(SaveCall("start")) /\ UNCHANGED talk
       \/ Issues(SavedAlready("talk", "start")) /\ talk' = "starting"    \* clean, or a published version
    /\ UNCHANGED <<files, page, editor, drawer, edits, seen>>

\* restart(): the conversation goes on while the draft is saved, and is stopped after it.
StopsForRestart(c) == /\ talk' = "off" /\ drawer' = [drawer EXCEPT !.owned = FALSE]
                      /\ c.step = "stop"

RestartPreview ==
    /\ drawer.open /\ drawer.owned /\ Previews = {} /\ talk = "on"
    /\ \/ Dirty /\ Issues(SaveCall("restart")) /\ UNCHANGED <<drawer, talk>>
       \/ LET c == SavedAlready("stop", "restart") IN Issues(c) /\ StopsForRestart(c)
    /\ UNCHANGED <<files, page, editor, edits, seen>>

EndPreview ==
    /\ drawer.open /\ drawer.owned /\ Previews = {} /\ talk = "on"
    /\ drawer' = [drawer EXCEPT !.owned = FALSE] /\ talk' = "off"
    /\ UNCHANGED <<files, page, editor, requests, begun, edits, seen>>

\* Mistake: a start whose drawer was closed during the save goes on.
PreviewSavedLate(i) ==
    LET c == requests[i] IN
    /\ c.step = "settle" /\ c.reply # Nothing /\ c.for \in {"start", "restart"}
    /\ IF c.for = "start"
       THEN Advances(i, [c EXCEPT !.step = "talk"]) /\ talk' = "starting" /\ UNCHANGED drawer
       ELSE LET next == [c EXCEPT !.step = "stop"] IN Advances(i, next) /\ StopsForRestart(next)
    /\ UNCHANGED <<files, page, editor, edits, seen>>

\* save() returned to the preview: current() is asked before anything else.
PreviewSaved(i) ==
    LET c == requests[i] IN
    /\ c.step = "settle" /\ c.reply # Nothing /\ c.for \in {"start", "restart"}
    /\ IF ~c.current THEN Ends(i) /\ UNCHANGED <<drawer, talk>>
       ELSE IF c.for = "start"
       THEN Advances(i, [c EXCEPT !.step = "talk"]) /\ talk' = "starting" /\ UNCHANGED drawer
       ELSE LET next == [c EXCEPT !.step = "stop"] IN Advances(i, next) /\ StopsForRestart(next)
    /\ editor' = IF c.mounted THEN [editor EXCEPT !.current = c.reply # Failed /\ c.reply.current] ELSE editor
    /\ UNCHANGED <<files, page, edits, seen>>

\* stopConversation() returned to restart().
Stopped(i) ==
    LET c == requests[i] IN
    /\ c.step = "stop"
    /\ IF c.current THEN Advances(i, [c EXCEPT !.step = "talk"]) /\ talk' = "starting" ELSE Ends(i) /\ UNCHANGED talk
    /\ UNCHANGED <<files, page, editor, drawer, edits, seen>>

\* startConversation() settles.  One that was stopped meanwhile starts nothing.
Started(i) ==
    LET c == requests[i] IN
    /\ c.step = "talk" /\ Ends(i)
    /\ \/ ~c.current /\ UNCHANGED <<drawer, talk>>
       \/ c.current /\ talk' = "off" /\ UNCHANGED drawer
       \/ c.current /\ talk' = "on" /\ drawer' = [drawer EXCEPT !.owned = TRUE]
    /\ UNCHANGED <<files, page, editor, edits, seen>>

\* The session ends by itself.
HangsUp ==
    /\ talk = "on" /\ talk' = "off"
    /\ UNCHANGED <<files, page, editor, requests, begun, drawer, edits, seen>>

-----------------------------------------------------------------------------
Continue(i) == \/ Loaded(i) \/ Saved(i) \/ Settled(i) \/ Checked(i) \/ Published(i) \/ Refreshed(i)
               \/ Deleted(i) \/ Created(i) \/ PreviewSaved(i) \/ Stopped(i) \/ Started(i)

EditorNext ==
    \/ \E a \in Agents : GoTo(a) \/ OthersEdit(a) \/ Duplicate(a)
    \/ Leave \/ Reload \/ Type \/ Restore
    \/ PressSave \/ PressPublish \/ Refresh \/ PressDelete
    \/ OpenPreview \/ ClosePreview \/ StartPreview \/ RestartPreview \/ EndPreview \/ HangsUp
    \/ \E i \in Slots : Serve(i) \/ Continue(i)

-----------------------------------------------------------------------------
(* Properties                                                              *)

\* The type invariant of the editor's state.
EditorTypeOK ==
    /\ \A a \in Agents : /\ files[a].life \in {"unborn", "live", "gone"} /\ files[a].revision \in Nat
                         /\ files[a].content \in Contents /\ files[a].versions \subseteq Contents
    /\ page \in Agents \union {Nothing}
    /\ editor.draft \in Contents /\ editor.current \in BOOLEAN
    /\ editor.record # Nothing => editor.record.agent \in Agents /\ editor.record.content \in Contents
    /\ drawer \in [open : BOOLEAN, owned : BOOLEAN] /\ talk \in {"off", "starting", "on"}
    /\ edits \in 0..MaxEdits /\ seen \in Contents

\* No save of this editor overwrites, no deletion removes and no publication ships an
\* edit of somebody else that this editor has never shown: whatever was answered late,
\* the draft and the revision it is saved against stay a pair
\* (AgentsPanel.tsx:993-994 and the revision every mutation carries).
UnseenIsUntouched == [][\A a \in Agents :
    /\ files[a].content \subseteq files'[a].content \union seen
    /\ \A version \in files'[a].versions \ files[a].versions : version \subseteq seen]_editorVars

\* A conversation of the preview never outlives the drawer that shows it: it is on or
\* starting only under an open drawer that owns it or whose current operation starts it
\* (AgentsPanel.tsx:1464-1473, and current() after each await of start and restart).
PreviewIsAttended ==
    talk # "off" => /\ drawer.open
                    /\ drawer.owned \/ \E i \in Previews : requests[i].step = "talk"

\* What is typed stays in the draft until it is saved, while the page and its agent
\* stay (a restored version replaces it after a question).  The code violates this.
NothingTypedIsLost == [][
    (page # Nothing /\ page' = page /\ editor.record # Nothing /\ ~Restore)
       => editor.draft \subseteq editor'.draft \union files'[page].content]_editorVars

\* The editor shows the agent whose page it is.  The code violates this.
EditorShowsItsAgent == editor.record # Nothing => editor.record.agent = page
=============================================================================
