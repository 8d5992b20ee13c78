# Formal models of VoxStudio

TLA+ specifications of the parts of VoxStudio that decide *when* something
happens: whose turn it is in a conversation, which of several overlapping pieces
of work may still speak, what a reconnect, a crash or a late answer leaves behind,
when a request may reach an engine and who pays for it. The models are translated
from the TypeScript sources, checked with TLC on small instances, and in part
proved with TLAPS for every instance. `PROJECT.json` maps each definition to the
lines it models, lists the runs, the hazards and the theorems.

Run things from this directory: `tlc -workers 2 -config LoopSafety.cfg
MCConversationLoop.tla`, `tlapm DuplexSession_proofs.tla`.

## 1. The system

VoxStudio is a voice stack. A **gateway** (Bun, one process, one event loop)
accepts sockets and HTTP requests, runs conversations against ASR, LLM and TTS
**engines**, and keeps accounts, captures and traces. A **web studio** in the
browser talks to it over a WebSocket or through LiveKit. Each of the two runs on
one thread: the only points where two activities of one process interleave are
`await`s, timers and callbacks, so an atomic action of a model is the code between
two of them. Between processes (gateway, browser, a second CLI editing the same
files) anything may happen at any time.

| Component | Source | State it keeps | Operations | What makes it correct |
|---|---|---|---|---|
| Duplex session kernel | `packages/duplex-session` | state, active turn with revision, abort controllers, timing profile | `start`, `startUserSpeech/UserText/AgentTurn`, `finalize…`, `softFinalize…`, `reopen`, `startThinking/Speaking`, `mark`, `complete`, `interrupt`, `close` | one turn at a time, one live handle, a turn ends once, no reopen after speaking |
| VAD segmenters | `packages/duplex-session`, `platforms/bun/src/silero.ts`, `FrameQueue` of `session.ts` | queued frames, samples pending and of one utterance, recurrence of the network; one inference session for all | `push`, `reset`, `process`, `createSessionVad` | whole utterances, events of one utterance in order, none after a reset, an inference for each that waits |
| Conversation loop | `packages/conversation` | `activeTurn`, `speculative`, `continuationPrefix`, `pendingExternal`, nudge, suppression, running dispatches | frame loop, `processTurn`, `speakAgentTurn`, controls | no turn without somebody who ends it, no superseded reply heard, external actions run once and only after being asked for |
| Session tools | `conversation/src/builtin.ts`, `session.ts`, `listen.ts` | utterances a tool may refer to, pronunciations said, unsaved and on file, the voice | tools, their confirmation, `recordUtterance` | a tool does what its question was about |
| Reply pipeline | `packages/orchestration` | text buffer, one piece of lookahead | pull | nothing synthesized ahead of an abort |
| Session core | `realtime-gateway/src/session.ts` | `stopped`, kernel, lifetime timer, agent controllers, `done` | `start`, `stop`, `endAfterTurn`, agent input | stop releases everything and nothing revives the session |
| Reply player | `session.ts`, `createPlayer` | bounded queue, pump, backpressure episode, `lastAckedTurnId` | `write`, `close`, `abort`, acknowledge | every wait ends, nothing of an aborted reply is sent |
| Session link | `session.ts`, `server.ts`, `web/lib/client.ts` | sink, grace timer, pending starts; the client's id and view | `attach`, `detach`, commands, snapshot | a reconnect shows the session as it is, nobody leaves one behind |
| Agent run controller, executor | `agent-run-controller.ts`, `agent-speech-sink.ts`, `packages/agent-executor` | run state, speech queue, event stream | `start`, `steer`, `cancel`, `end` | a run ends once and speaks only while it may |
| Tool runner and ledger | `packages/agent-executor` | dispatches by key, the state of each invocation | `run`, `close`, `commit`, `cancel`, `finish` | an effect that may have happened is not denied, nobody waits for a handler |
| Synthesis gate | `synthesis-gate.ts` | `inFlight`, `waiting` | `run` | no slot leaks, no lost wakeup |
| Usage quota | `quota.ts` | window per account | `charge`, `refund`, sweep | allowance per window, refunds only undo |
| Speech requests | `server.ts` | charges of a request | charge, refuse, gate, proxy | every charge decided once, refusals are free |
| Media and trace stores | `media-store.ts`, `trace-store.ts` | rows in two databases, files, a disk queue, reserved bytes | record, finalize, evict, prune, remove, reconcile | rows, files and counters agree, also after a crash |
| Capture library | `library.ts` | rows, WAV files, a queue per capture | ingest, correct, promote, remove, evict, reconcile | the quota holds and never takes curated work; files follow their rows, or what failed of that is known |
| Realtime dialect | `openai-realtime.ts` | lazy start, one pending call with a timer, envelope | translate | an answer settles its own call, neither end outlives the other |
| LiveKit adapter | `livekit-agent-adapter.ts`, `livekit-bootstrap.ts`, `server.ts` | grants, reservations, rooms, timers; chunk chain, carry | grant, connect, session, expire, publish, acknowledge | limits hold, everything is given back, acknowledged means played |
| Agent registry | `packages/agents` | draft file, version files, lock file | create, update, publish, remove | one writer, versions never change |
| Agent builder | `apps/web/src/panels/AgentsPanel.tsx`, `App.tsx` | record and draft of the open agent, requests in flight, the preview's drawer | load, save, publish, delete, duplicate, restore, preview | an edit nobody saw is not overwritten, a preview has its drawer |
| Web studio | `apps/web` | conversation controller, LiveKit client, microphone, speaker worklet, store | start, stop, recover, play | devices are released, the newest conversation is left alone |
| Gateway process | `server.ts`, `main.ts` | sockets, sessions, the observers' queue, the open stores | first command, `createSession`, `flushTraces`, `stop`, crash, restart | every conversation that began is ended in the store, with how it went |
| Voice bank | `server.ts`, `routes.ts` | charges of a request, its calls of the engines | register, design, promote, delete | an engine is asked for what was paid, paid is what was done |
| Accounts, limiter | `auth/*` | database rows, attempt windows | login, sessions | (rows; the limiter uses the quota ledger) |
| Gateway HTTP surface | `routes.ts`, `discovery.ts`, `protocol.ts`, … | none | parsing, descriptions | — |
| Audio, text, config, contracts, clients, MCP client | `packages/*` | none | pure conversions and HTTP calls | — |
| CLI, MCP server | `apps/cli`, `apps/mcp` | none | one-shot calls; `listen` runs the loop | — |
| Engine servers | `engines/voxcpm2-server`, `engines/moss-transcribe` | files of the voices, pipeline lock, continuation sessions, prompt caches, waiting room | speech, registration, design, deletion, transcription | one generation at a time whose lock is always given back, stores at their capacity, a session keeps its voice |
| Other engines, native audio | `engines/*`, `platforms/*`, `packages/native-audio` | outside the process | model servers, devices | external |

How they interact. The loop *calls* the kernel synchronously and is called back
by nobody; the kernel *calls* its observer in the middle of a transition, and in
the gateway that observer may call the kernel again. Dispatches run beside the
frame loop and share its local variables. The gateway session owns the loop: it
feeds it frames, calls its controls (`submitUserText`, `queueAgentSpeech`) and the
kernel (`interrupt`, `close`) whenever a command, a timer or a lost socket says so.
Each reply of the loop has a player in the session; each agent run a controller,
whose narration comes back as queued agent speech. Sessions are reached through
three doors: the gateway's own socket, the realtime dialect, and a LiveKit room.
What a session records goes through callbacks that never wait into the queue of
the media store. A speech request goes through quota, gate and proxy in that order
and back.

What is hard here: work that was superseded and does not know yet (the turn's id
stays when it is reopened, only its abort signal tells); state read before an
await and used after it; two copies of one fact (kernel and loop, two databases,
draft and version file, the studio's `current` and the store's `active`); every
path out of a dispatch, a start or a request having to give back what it holds;
messages that name no rendition or no revision and arrive late. `PROJECT.json`
lists these hazards with their lines.

## 2. Modules

```
TurnLifecycle            abstract: what a turn promises
   ^ implemented by      ^ implemented by
DuplexSession            ConversationLoop        SynthesisGate   QuotaLedger
   \  EXTENDS              /  EXTENDS                  \ EXTENDS   /
    DuplexKernel ---------'                             Admission
MCSession          MCConversationLoop             MCAdmission

SessionCore  MediaPlayer   AgentRun  ToolRunner  AgentRegistry  AgentEditor   Retention  CaptureLibrary
      \        /                  \       |           |       /                     \        /
      MCSession                             MCAgents                                 MCStores

RealtimeEndpoint  LiveKitRoom  LiveKitAudio
            \          |          /
                  MCEndpoints

GatewayServer  VoiceBank  EngineServer  SessionTools  SpeechSegmenter
            \      |          |       /             /
                          MCGateway

SessionLink  StudioConversation  MicCapture  SpeakerOutput
       \             |               |          /
                       MCStudio
```

The conversation:

* **DuplexKernel** has no variables. The kernel's session is a record and every
  method of `DuplexSession` an operator from record to record
  (`startUserSpeech(s)`, `reopen(s, t)`, …) with its refusal as a guard
  (`mayReopen`). Written so, a caller can chain several kernel calls in one atomic
  step, as the code does between two awaits. A handle `<<turn, revision>>` stands
  for the `DuplexTurn` object with its `AbortSignal`; `aborted` is the set of
  handles whose signal has fired. `timings` and `ends` count the `turn.timing` and
  ending events of each turn. Constant `ObserverReenters` says whether the observer
  of `interrupt` calls it again, as the gateway's does when it narrates.
* **DuplexSession** is the kernel under an arbitrary caller: one action per method.
  **TurnLifecycle** is the abstract specification: at most one open turn in a phase,
  one live handle; open, supersede, answer, reopen, speak, end.
* **ConversationLoop** is `runConversation` in its LLM-reply mode. `loop` says where
  the frame loop is suspended, `push` what its awaited `vad.push` will report,
  `work[h]` where the dispatch of handle `h` is suspended and the few locals that
  matter (`offered`: the pending action it may confirm; `said`, `acted`, `calls`).
  `options` is a record chosen from the constant `Sessions` and never changed.

Around the conversation, in the gateway:

* **SessionCore** is `GatewaySession` from `start()` to `done`: the three pieces of
  a start between its awaits, the loop with the one await that no abort check
  follows (`KeytermsArrive`), the agent runs `stop` has to drain, the lifetime
  timer and `endAfterTurn`. `Stops` is `stop()`, and every path that calls it uses it.
* **MediaPlayer** is `createPlayer`: one record per rendition holding what its writer,
  its pump and its closer wait for; `pressure` is the session's one episode of
  backpressure, and `Told` its resolution to all who wait.
* **SessionLink** is a client with the gateway's side of its sockets. A socket is two
  queues; when it `Breaks`, any suffix of what was in flight is lost. Both ends
  learn of it separately. `sess` holds the sessions with their grace timer and sink.
* **AgentRun** is the controller (`ctl`, a record, with each method an operator on
  it), the mouth its narration comes out of, the executor's event stream and the
  promises of `steer`, `cancel`, `close`. The executor is of its `own` kind, which
  keeps the contract of the fake run of the repository, or `foreign`, which may
  break any of it: settle late or never, end without a terminal event, publish after one.
* **ToolRunner** is the boundary to an agent's tools: `tools.work[k]` is the one dispatch under a
  key, with the reason it was aborted for, its answer and what its handler really did;
  `runs` are its callers, `closes` the calls of `close()`, `ledger` the ledger beside it.
  Nothing in the repository but tests calls either, so its callers do anything in any order.
* **Retention** is the trace store and the media store with the one disk queue between
  them. `conv` and `media` survive a crash, the rest does not; each disk await is
  a step. A conversation has one utterance and one reply, each unit of audio weighs one.
* **CaptureLibrary** is `library.ts`, with the queue of each capture, the check that is
  run again under it, and reconciliation when it opens. Any write or deletion of a file
  or a row may fail: an ingest's (its `catch`), a sidecar's, the deletions that are passed
  over, the statements of a mutation, and those of an opening, which then does not open.
  `owed` is a history variable of the properties: which failure of the disk, or crash,
  nothing has made up for. Reads are assumed to work, the text of a correction is there or
  not, and one sweep of a directory is a set of captures.
* **AgentRegistry** is the files of one agent between several processes. Every await on
  a file is a step at which a process may crash, and what it wrote stays.
* **AgentEditor** is the builder in which the agent is edited, over records of the
  registry that other clients edit too. `requests` holds its operations in flight with
  what each captured when it was issued: the gateway `Serve`s a request, and later its
  continuation runs, whatever was typed or opened meanwhile. `drawer` and `talk` are
  the live preview. What an agent says is a set of edits, so that `UnseenIsUntouched`
  can ask whether one was overwritten that this editor never showed.
* **GatewayServer** is the process around the sessions: the first command of each socket,
  the queue through which the sessions' observers reach the trace store (at its
  ceiling an ordinary event makes room for an ending), its timer, and the orderly
  shutdown, the exit and the crash with what a restart reconciles.
* **VoiceBank** is every request that registers a voice: one charge before its body is
  read, the others before the engines are called, and what goes back when one of
  them cannot be reached. `call[e]` keeps apart what an engine did and what the gateway heard.
* **EngineServer** is the VoxCPM2 server: threads that speak, register, design and
  delete voices around one pipeline lock, the continuation sessions, the prompt
  caches in memory and on disk; and the waiting room of the MOSS transcriber.
* **SessionTools** is what the tools of a conversation keep: `heard` the utterances they may
  refer to, `lexicon` the pronunciations of the session, the unsaved ones and the file's,
  `parked` the action that waits to be confirmed. `dispatch` is the sequence of dispatches,
  and `doing` what a tool's handler is awaiting, which goes on when its dispatch is superseded.
* **SpeechSegmenter** goes from microphone frames to utterances: `ear` is the frame queue,
  `seg` a segmenter with the push its loop awaits (`asm` its assembler, whose operators `append`
  and `pushed` are that class's methods), `backend.line` the inferences of all conversations.
  A stretch of audio is an interval of what its segmenter was `fed`.
* **SynthesisGate** and **QuotaLedger** model the two classes, each caller of `run()`
  and each account's window; **Admission** composes them as the request path of
  `POST /v1/audio/speech`, where each of its steps is a step of one or of both.

The doors and the browser:

* **RealtimeEndpoint** is one connection of the OpenAI dialect: `starting` and
  `watched` for the lazy start, `pendingCall` for the one slot, `fcall` for what
  became of each function call. The session behind it is an environment whose turns
  open, abort and end as ConversationLoop's do.
* **LiveKitRoom** follows a request from its grant to the end of its room: two
  reservations, two timers, the session that starts while its room may close.
  **LiveKitAudio** is the playout of one room: chunks in a chain of promises, a
  carry of half a frame, a native queue, and the acknowledgement that follows them.
* **StudioConversation** is the conversation controller over either transport. `convs`
  says where each `start()` waits and what it holds, `stopping` where each run of
  `stop()` is (the user's and the failed start's may run at once).
* **MicCapture** is microphone recovery: one loop, one timer, one watchdog.
  **SpeakerOutput** is the playback worklet and its port: messages in each
  direction are ordered, and the two directions are not.

### Composites

A module `MC…` with a variable `side` (`store`, `part`) explores several components in
one run: the initial state chooses one of them, and only its actions are taken.
Nothing is composed by that, and nothing is lost: the components of one composite
share no state that is modelled. What they do share is inside one module:
SessionLink has client and gateway, Retention both databases, Admission gate and
ledger. The kernel is a side of MCSession under an arbitrary caller; under its real one
it is inside ConversationLoop. A side that does not move has no fair step enabled, so the fairness of the
others asks nothing of it.

### Mistakes

A definition whose comment begins with "Mistake:" is not part of a specification. It
is a plausible wrong version of its neighbour; with it in the neighbour's place
TLC finds the property of its row in `PROJECT.json` violated.

### What is abstracted

* Samples, text, transcripts, history and tool arguments are not data of the
  models: what matters is that there is a transcript or not, a first word or not,
  a successful call or not, all chosen freely.
* One `vad.push` reports at most one event. A long frame may make the segmenter
  report two in one call (start and confirmation); here they come from successive
  pushes, with whatever else can happen in between. A push with no event is not
  suspended in: nothing follows its await.
* Clocks are choices: a nudge may be due, a speech start may be within `reopenMs`,
  a grace, an expiry or a drain deadline may pass while it is armed. Which of two
  timers fires first is never assumed.
* `mark()` is in DuplexSession; the loop's stamps are left out of ConversationLoop.
* In Admission, the proxy's refund and the gate's `finally` are one step, and so
  are the microtasks between a refusal and its response.
* SessionLink has no idempotency keys: the client never sends a command twice.
* In RealtimeEndpoint client messages while a start is pending have no effect, so
  its inbox is not modelled, and the session emits output only of its open turn
  (SessionStaleAudio shows when that is not so).
* EngineServer takes the removal of a directory as one step, leaves prosody prompts out (they
  lengthen the key of a cache), and lets a speech request turn out to be of its kind,
  or the end of its session, when that first matters.
* SessionTools names an utterance by the dispatch that recorded it, says that a voice of the bank
  is on the engine of its name, and leaves out the tools that keep nothing. A config file
  has this session as its only writer; between two sessions the last one to write wins.
* ToolRunner sorts the hosts a policy names instead of parsing them.
* A WAV header and a recording's header weigh nothing in Retention.
* AgentRegistry takes a mutation to last less than the thirty seconds after which a
  lock is old; section 5 says what happens otherwise.

## 3. Runs

Each run finishes within three minutes with two workers, most of them within one and a half.

| Run | What it checks | Instance |
|---|---|---|
| `MCGateway` | `EndingsAreRecorded` of the process; `PaidIsDone` of the voice bank; `PipelineIsKept` of the engine; `ReferentsHold` of the tools; `SpeechIsSegmented` of the segmenters | 2 sockets, queue of 4, 1 mishap; 2 engines, 2 requests, allowance 3; 2 threads, 1 voice, 2 takes, 2 sessions, stores of 1, 1 place; 4 dispatches of which 2 are spoken, 2 terms up to symmetry; 2 conversations of 8 and 2 samples, windows of 2, frames of 2 and 3, utterances up to 6; 2 679 000 states |
| `LoopSafety` | `EveryTurnIsOwned`, `SupersededWorkIsMute`, `ActionsAreAskedOnce`, `DeafnessIsOwned`, `OnlyHeldSpeechOpensTurn`, `ImplementsLifecycle` | 2 turns, 1 reopen, six sessions; 860 000 states |
| `LoopLive` | `EveryTurnEnds` (and the soft-end marker), `QuietMicHoldsNoTurn` | 2 turns, 1 reopen, two sessions; 65 000 states |
| `Admission` | `NobodyWaitsForAFreeSlot`, `ChargesAreHeld`, `WaitersAreServed` | 3 requests, 2 accounts, 1 slot, 1 place in the queue, allowance 2; 69 000 states |
| `MCSession` | `OnlyCurrentHandleLives`, `EachTurnEndsOnce`, `ImplementsLifecycle` of the kernel; `NotRevived` of the core; `SilentAfterAbort` of the player; `SessionAnswers` (`SessionIsReleased`, `CallsSettle`) of both | 3 turns, 2 reopens; 2 controllers, 3 utterances; 2 renditions of 2 frames, queue of 1, 2 sockets; 248 000 states |
| `MCAgents` | `OutcomeStands` of a run; `FilesAreKept` (`NoLostEdit`, `PublishedVersionsStay`) of the registry; `UnseenIsUntouched`, `PreviewIsAttended` of the builder; `ToolsAreAccounted` (`RunnerIsHonest`, `CommitStands`) of the tool runner and its ledger; `SilenceIsAnswered` (`SessionSettles`, `RunnerAnswers`) of both | 2 runs of 3 events; 2 processes, 2 behaviours, 2 births, 3 revisions, 2 versions, 1 crash; 2 agents, 2 edits, 3 requests; 2 callers, 1 key; 439 000 states |
| `MCStores` | `StoresAgree` (`AudioAccounted`, `RemovalIsComplete`), `MarkedIsRemoved` of retention; `LibraryIsKept` (`LibraryHolds`, `OpeningFits`, `OpeningCleans`, `EvictionSparesCurated`) of the library | 2 conversations, 3 assets, ceiling 1, 2 pending, 1 mishap; 2 captures, quota 1, 2 requests, opened twice; 582 000 states |
| `MCEndpoints` | `AnswersAreOwn` of a connection; `RoomsAccounted` of the rooms; `CompleteMeansHeard` of a room's audio; `EndpointsSettle` (`ConnectionSettles`, `AbandonedRoomCloses`, `PlayoutAnswers`) of the three | 3 calls, 3 turns; 3 requests of 2 owners, 2 rooms, 1 each; 2 replies of 4 half frames; 44 000 states |
| `MCStudio` | `CaughtUp` of the link; `NoneIsForgotten` of the conversations; `MicIsHeldOnce`, `RouteFollowsDevice` of the microphone; `BrowserSettles` (`ForgottenSessionEnds`, `StopReleases`, `DrainAnswers`) of the sessions left behind, the conversations and the speaker | 3 sockets, 2 sessions; 2 conversations; 4 streams, 3 incidents; 2 renditions of 3 chunks; 174 000 states |
| `LoopInterruptedCapture`, `SessionStaleAudio`, `StudioStaleReset` | one property each that a comment or document states and the code does not keep | section 5 |

What they show, in words. **The conversation:** a turn that has begun has somebody who
will end it, at every point of every dispatch; work that was superseded neither
speaks nor ends its successor's turn; an external action is run, cancelled or
dropped once, by another reply than the one that asked. **The gateway:** every conversation that was claimed is ended in the store, by its
session, by the shutdown or by the next start, whatever the queue had to drop; a
voice is paid once per engine that did or may have done the work; the lock of the
pipeline is free after every way a generation can end, and a session goes on in the
voice it began in. A voice is registered from the utterance its question was about, unless the
pin was taken from it by a cancellation or another registration, and what was remembered is unsaved or in the file. An utterance is one
stretch of what was heard, nothing twice, judged by a network whose state is that of its
own last window, though a typed turn resets it in mid-inference. **The session:** once
stopped it stays stopped, and whoever waits for it or for a player is let go
whatever the endpoint does. **The agents:** a granted cancellation decides the
outcome, a terminal run stays as it was reported, and hanging up ends the run even
if the executor never answers; a tool is answered and its runner closes though its
handler never returns, and what was committed is not called cancelled. **The files:** two editors never overwrite what they
have not read under the lock, a version that was published stays, and the builder does
not save over what its user never saw. **The stores:**
retained audio keeps to its ceiling, the two counters are exact after every failure,
a deletion is complete when it is answered and is finished through crashes; curated
captures are not evicted. **The doors:** an answer settles its own call only, rooms
keep to their limits and give everything back, and a reply is acknowledged after it
was played. **The browser:** after any sequence of lost sockets the client shows the
session it is attached to, a session its client has forgotten ends, a stopped
conversation keeps no device, and a capture follows the device or says that it could not.

**Bounds.** `MaxTurns`: two turns are the least in which one supersedes another
and its late work meets the new turn; three (kernel) let a third meet both. The
kernel and the loop compare only "current or not", never two old turns.
`MaxRevision` 1: a reopened turn has an aborted and a live dispatch of the same
id, and no code counts revisions beyond that. `MaxQueued` 1: one queued speech
competes with the nudge and the user. `calls` up to 2: parking and confirming in
one reply. `MaxTime` (three ticks from the start with a window of two): a window
opens, passes, is swept while another account's runs, and a second one opens.
Three requests on one slot: one works, one is woken, one arrives in between.
Two renditions of two frames with a queue of one: the first may be orphaned,
blocked or acknowledged late while the second plays; its writer has to wait.
Three sockets with two sessions: the present socket, a broken one the gateway has
not noticed, and an older start that still resolves; `MaxOpened` 4 lets any three
of them meet a command. Two conversations: the late start and the one that replaced it.
Three incidents of a microphone: a change during the recovery of another one,
and a mute that passes. Two conversations of retention under a ceiling of one: each
reply needs the other's room. One mishap: a failure, crash or shutdown at each
step, and reconciliation after it; a second crash meets the state of the first
restart, which is one of those the run begins with. Two captures under a quota of
one: the ingest of one evicts the other while it is curated, and each of their writes and
deletions may fail; a failed opening is tried again, and one may crash. Two editors with one
crash: a lock to take over and somebody to race for it. Three requests of the builder
and two edits: a save and what it meets, a refresh or another client's edit.

**Sessions of the loop.** The options never change during a conversation, so a run
explores a set of sessions side by side rather than one with everything on: every
feature and control occurs in some session of `SafetySessions`, next to what it can
disturb (see the comments in `MCConversationLoop`). Combinations not listed are not
checked, notably tools together with `turn.interrupt` and three turns at once.

Four dispatches of a conversation: the sample, the command, the answer to its question, and a
second persist that overtakes the first. The terms are exchangeable, and the only symmetry used:
nothing of `SessionTools` tells two of them apart, and the run checks no liveness.
Two callers of one key: the second one joins the first, or is refused.
Two sockets with a queue of four: both sessions' endings fill it, so an event has to make
room. Two engines and an allowance of three: a fan-out and a single request that cannot
both be paid. Two threads of the engine: one holds the pipeline, the other waits,
changes the files, or both wait for one cache; stores of one evict at every use.

Eight samples in windows of two: an utterance that is dropped or ended and
another one that begins in what is pending, with a pre-roll of one window; the second conversation
only stands in the line of inferences.

**Deadlock** is checked for MCGateway (where a conversation with its tools may rest once its
last dispatch began, and segmenters once all have failed) and for Admission. In the other runs the system
may stop: a closed session is quiet for good, and every bound ends in silence.

### Fairness

In general: timers that are armed fire, promises that are resolved are heard, work
that was begun settles. Users, clients, devices, networks and clocks that nobody
armed are never fair.

* The loop: a dispatch (`WF` per handle), since engines are given the turn's signal
  and settle every await; the frame loop (`WF`), and `SF` on the segmenter's
  reports: frames keep arriving (silence is frames too), the assembler ends an
  utterance after `silenceMs` or `maxSpeechMs` and decides a provisional start
  after `minSpeechMs`, so a report that stays possible between interruptions is made.
* Admission: a body arrives or its connection breaks, `fetch` settles, resolved
  promises run.
* SessionCore: work settles and drain deadlines pass; `start()` itself may wait for a
  detector or a tool server for ever, and `SessionIsReleased` holds all the same.
* MediaPlayer: the pump, the waiters and the deadline of backpressure; the endpoint need
  not drain, answer or stay.
* SessionLink: the gateway handles what has arrived and its grace timers fire. The
  network may keep a socket open for ever, and a start may hang.
* AgentRun: the drain deadline, the reading of the stream, the cleanup; only an executor
  of the own kind is trusted to settle its promises.
* ToolRunner: microtasks, timeouts and deadlines; never a handler, nor a caller.
* Retention: the disk answers, a reader or the timer prunes, a gateway that went down
  comes back. One failure at a time is enough for the deletions to be retried.
* RealtimeEndpoint, LiveKitRoom, LiveKitAudio: timers fire, an aborted session settles, a
  closed socket closes, the native source plays what it has. `SF` for the audio
  chain, whose turn comes again and again while interruptions cut it short.
* StudioConversation: a `stop()` runs to its end, each of its awaits being the
  browser's; no fairness for a start, which may wait for a permission for ever.
  `MicCapture.stop()` waits for a recovery that asks for the microphone, which is
  taken to be answered there.
* MicCapture, SpeakerOutput: timers, the render thread, the port, and `getUserMedia` of a
  recovery, which needs no permission any more.

## 4. Proofs

Safety is proved for every value of the constants that the assumptions allow: any number
of turns, revisions, requests, engines, voices, agents, edits. Every invariant a run
checks is a theorem.

| Module | Theorems | Argument |
|---|---|---|
| `DuplexKernel_proofs` | lemmas only | what each kernel operator does to the session record |
| `DuplexSession_proofs` | `KernelInvariant`, `TypeCorrect`, `NoTurnIsStranded`, `OneHandleLives`, `ProfileIsPresent`, `SpeakingIsFinal`, `TurnsEndOnce`, `KernelKeepsLifecycle`; of the session around it `CoreInvariant`, `StoppedStaysStopped`; of its player `PlayerInvariant`, `AbortedStaysSilent` | one inductive invariant; one lemma per method; what has stopped has let go of what listened; what an abort leaves of a player |
| `ConversationLoop_proofs` | `LoopInvariant`, `LoopTypeCorrect`, `TurnsStayOwned`, `SupersededStaysMute`, `HeldSpeechOpens`, `ActionsStayAskedOnce`, `DeafnessStaysOwned`, `QuietMicStaysFree`, `LoopKeepsLifecycle` | the kernel's lemmas used again at every call the loop makes; then four invariants on top of one |
| `Gateway_proofs` | `ToolsInvariant`, `ReferentsStayHeld`; `VoiceInvariant`, `PaidStaysDone`; `EngineInvariant`, `PipelineStaysKept`; of the link `LinkInvariant`, `ClientCatchesUp` | which utterance each pin names and where each term is; charges counted as tokens; who holds the lock and what each kept thing was built from; what is on its way on each socket |
| `Agents_proofs` | `RegistryInvariant`, `FilesStayKept`; `EditorInvariant`, `PreviewStaysAttended`, `UnseenStaysUntouched`; `RunInvariant`, `OutcomeStays`; `RunnerInvariant`, `RunnerStaysHonest`, `CommitsStand`, `ToolsStayAccounted` | the holder of the lock knows the files; the editor knows the revisions it carries; what an event makes of the controller; what an abort decided, and what a close still counts |
| `Endpoints_proofs` | of the gate: `GateInvariant`, `NoSlotEverLeaks`, `QueueStaysShallow`, `NoWakeupIsLost`; of the ledger: `CountStaysFair`, `RunningWindowsEndOnTime`; of the path: `PathImplementsGate`, `PathImplementsLedger`, `PathTypeCorrect`, `ChargesStayHeld`, and the properties of the two lifted to it; of the realtime endpoint `SlotInvariant`, `AnswersStayOwn`; of the rooms `RoomInvariant`, `RoomsStayAccounted`; of the microphone `MicInvariant`, `MicTypesHold`, `MicHeldOnce`; of the studio `NoneStaysForgotten`; of a room's audio `AudioInvariant`, `CompleteStaysHeard` | the queue holds each waiting caller once, counts by cardinality; what is outstanding in a window was spent in it; refinement by step, then the records of requests; whose call the slot holds, and which calls were answered; what a request holds at each stage, the limits by cardinality; streams, device and incidents agree; where each frame that was sent is |
| `Queues_proofs` | `ServerInvariant`, `EndingsAlwaysRecorded`; `SegmenterInvariant`, `SpeechStaysSegmented` | what the queue keeps of the endings, operation by operation; what an assembler holds of what was heard, method by method, then each step of the push it belongs to |
| `Stores_proofs` | `RetentionInvariant`, `StoresStayAgreed`; `LibraryInvariant`, `LibraryStaysKept` | sums over finite sets, element by element; what the disk queue may hold in which order, and how far its first operation has come; of the library, whose files there are, what the disk owes, and which captures may exceed the quota |

*Assumptions.* The bounds are naturals, slots and allowance and window are
positive, callers are finite in number and each has an account. These are the
checks of the constructors (`synthesis-gate.ts:55-60`, `quota.ts:41-46`). Rooms are finite in number and
their limits positive; an audio frame has one of finitely many sizes (a message is at most
1 MiB, `media-v2.ts:122`), and a window, the longest utterance and each frame are not empty; a microphone has finitely many streams; engines, requests for voices
and processes are finite in number, and the names for "nobody" and "nothing" are
none of theirs. Three theorems have a condition, each of which some session or deployment meets:

* `TurnsEndOnce` assumes `~ObserverReenters`; with the gateway's observer the code breaks it
  (section 5).
* `QuietMicStaysFree` is about the sessions in which `Uncut` holds: barge-in is allowed and the
  owner has no `turn.interrupt`. The two ways out of it are the two rows of section 5.
* `RegistryInvariant` and `FilesStayKept` assume `LockIsEnough`: no process crashes, or there are
  at most two. With three the second that finds a dead process's lock may remove the fresh one of the
  first (`packages/agents/src/index.ts:320-323`), and the theorem is false.

*Why strengthenings are needed.* In the kernel, "only the current handle lives" is
not inductive by itself: reopening keeps the id, so the invariant also says that
every revision handed out before is aborted, that revisions not handed out are
not, and in which states a turn is active.

The loop's `LoopInv` carries the kernel's invariant and ties the two copies of a turn
together: a turn in capture is the one `mic` holds (`CaptureIsHeld`), a confirmation on its
way is of an utterance the segmenter holds (`ConfirmedIsHeld`), before the first frame there
was no turn (`NothingBefore`), and the dispatches agree with the session: only handles that were issued have one, a live one
is the current turn's, and a turn that is answered has one at work (`BookInv`). With it a dispatch that looks at its signal after an await knows whether it is the
current one, which is why a superseded one is mute. `ActionsStayAskedOnce` adds that whoever
asked about the pending action has come past its question, and that whoever asked about a
settled one is over (`ActionInv`); `DeafnessStaysOwned` that a session with barge-in is never
muted without end; `QuietMicStaysFree` that a held turn is being captured from an
utterance still assembled, or carries a prefix, which a burst of noise gives back (`HeldInv`).
`LoopKeepsLifecycle` uses that each step of the loop is a chain of kernel calls, each of which
was shown to be a step of the lifecycle, and that the chain as a whole is one too.

In the gate, `NobodyWaitsForAFreeSlot` needs that the head of
the queue is a caller that still waits and is nobody else's entry. In the path,
`ChargesAreHeld` needs that a request holds a charge exactly while the gateway
works on it: else opening a window would count its own request twice.
`PathImplementsGate` and `PathImplementsLedger` let the invariants of the two parts
be used for the whole.

In the voice bank a charge is a token, of a request and an engine: `VoiceInv` says of each
whether it is still to be used, and `PaidIsDone` follows by counting. In the engine, `PipelineInv`
says which request is inside the lock and at which step, what anchor a session is
in, and that a store never holds more than it may; the waiting room of the transcriber is
apart (`DeskInv`). Of the tools, `ReferentsHold` could not be proved as it had been
stated: a persist that read the file before another one wrote it takes the other's terms out
again. No instance of three dispatches had room for that; with the fourth TLC finds it. The
model now keeps such terms in `lexicon.reverted`, `ReferentsHold` excepts them by name, and
`SavedStaysSaved` (section 5) is what the code promises of them.

In the registry, whoever works holds the lock and what it read is still there
(`HolderKnows`), so that it overwrites nothing it has not read; before the pointer of a draft is set, the
version it names is there with the payload it means. In the builder, `EditorInv` says of every
revision that is shown or travels in a request that it is *known*: it is at most the
one on file, and if it is that one its content has been shown. Then a save that
is accepted, because its revision is the file's, overwrites nothing unseen. In a run, `RunInv` says that
its state is terminal from the moment an outcome is reported, and `GrantedPart` that a run whose cancellation
was granted is being cancelled or over, with nothing of it queued: the events still read then change no more than that. At the
tools' boundary, `ToolInv` has an answer that came before its handler returned be the one the abort decides, and a
close that waits hold every dispatch that still runs.

In the
microphone, an incident is counted before it is mended, so the streams that were
opened never exceed the incidents by more than the first. In the rooms, a reservation
without its timer belongs to a request that has no room yet: without that a limit
could be given back twice.

In the gateway process, `ServerInv` says that a session's markers (it failed, it is over) are in the
queue at most once, only after it stopped, the failure before the ending. Then a queue of nothing but
markers is shorter than its ceiling, which is why an ending always finds room, and a row is
never written completed before its failure. `ServerAssumption` has the ceiling hold two markers for
each socket: with a smaller one than that (the code has 5 000 entries) the code drops endings. What the queue
and the rows become is a fold (`FoldLeft`, `FoldSet`); its steps are
numbered, and what each keeps is proved by induction from the library's
`WFMin`: a set of naturals that lacks some natural lacks a least one (`Inductive`, `FiniteInductive`).

In the segmenters, `SegmenterInv` says of each whose answer will be heard that its assembler
holds one chain of stretches, from some point after the last reset up to all that was judged
(`Gathered`), shorter than the longest utterance while it speaks and than the pre-roll while it
does not; that the events of the push lead from what the loop was last told to where the assembler is
(`Leads`); and that the network was last given what its state was made of (`NetHolds`). `LineHolds` has an
inference in line for each segmenter that awaits one and for no other. Of a late answer and a failed segmenter it says
nothing of the kind: what they hold is thrown away. A reset during an inference leaves a window in line that the
fresh state knows nothing of, so `stale` has to stay until the answer is taken. The length of
an utterance is a fold over its stretches, and what `Kept` drops from it is chosen as the first cut that fits; both are
unfolded by the same induction.

In the stores, `RetentionInv` has seven parts. Two say what may wait: nothing is begun behind a deletion of its
conversation, a recording's end comes once and only a failure may come behind it (`Behind`), and whoever
waits finds its row and recorder as it needs them (`Stands`). `StepPart` says how far the first operation has come, so
that a row becomes ready only where its file has just been kept, and rows go only when their
conversation is hidden (`StoredPart`). The bytes need more than the ceiling: an operation that was found room
writes later, when others were found room too, so `BytesPart` bounds what is ready together with all
that has been granted: the recordings of which no frame waits for room (`Granted`) and the utterance that
is being written (`Passed`). What is reserved is what waits and what open recordings accepted; that it is given back
once is why the set of open recordings and the queue are tied. The sums are the library's `MapThenSumSet`, which takes
elements in the order of a `CHOOSE`; that any other order gives the same (`SumTakes`) is proved by
induction on the size of the set. After a crash the counters are zero and come back from the rows: the part of
them that is whole, which is no more than was there.

In the capture library, `LibraryInv` says that nothing waits for a capture that never had a
row, so that a row is first written while its queue is empty; that a mutation past its first await
has written the row it found (`StartedPart`); whose files there may be that no row owns: those of an
ingest or a removal under way, and what the disk refused to delete (`FilesPart`); that a sidecar
agrees with its row, is being written or is owed (`SidecarPart`); and that a refused ingest is
kept only where its rollback failed (`RefusedPart`). A mutation that ends does one of a few things to one record, which
`FollowsIs` sums up; an opening, complete or not, one of four things to each (`SweptKeeps`). Its
`QuotaPart` counts what is kept apart from the captures that are committed and not yet checked or could
not be rolled back. The quota property could not be proved as it had been stated, that whatever exceeds
the quota is curated: opening keeps curated captures beyond it, and clearing the correction of one evicts nothing.
With two requests no instance had room for that, with a third TLC finds it. `QuotaHolds` now
says what the code keeps, that no capture that came since the library was opened is kept over the quota, and
`OpeningFits` what opening leaves; `ExcessIsCurated` is in section 5.

In the session, `CoreInv` says that `stop()` left the kernel closed and the lifetime timer off: a
start that goes on after it finds both so, and may fall through all its awaits without arming or opening anything.
In its player, `PlayerInv` says which frames have been written, queued and sent (`Whole`), and each method, a pump that was
woken late included, is a chain of moves that send nothing once the player is aborted (`Moves`).

In the studio, `NoneIsForgotten` is inductive with the type of the conversations: a step that begins none
lets nobody listen who did not (`AfterAll`), and one that begins one has stopped the one before.

In a room's audio, `AudioInv` says where what was sent of the turn that speaks is: heard, in the native
source, in the chain, or left over as less than a frame (`Accounted`). The pieces are counted by prefix
sums, which are stated and not computed (`CountIs`), so that adding, cutting and taking a piece need no induction. A chunk that will be
passed over holds none of the turn (`Fresh`), since an interruption is of the turn before; and the announcement of
the reply's end stands behind all of its chunks (`Ending`).

In the link, `LinkInv` is about the messages on their way. What is lost when a socket breaks is a suffix, so
it is stated of sequences in such a way that the first ones of them keep it (`FirstOnes`). A client asks for a session once per
socket, in its first command or again after it was told that its session is unknown: at most one such question or such
an answer is under way (`AsksOnce`), and none once a session came (`Answered`). Hence a socket to which a session
speaks was never told of another (`RouteOK`), and a client that is told of a session has it or has none yet
(`Knows`). `Learns` is `CaughtUp` before the events in flight are read: the last of them that shows anything shows
the session as it is, or none does and the client shows it already. It asks for a start that has settled, because
the client is shown a new session only by the acceptance of its start. Most steps are a session that speaks to its
present route (`SessionSpeaks`, with `HearsKeeps` for the sockets that hear it); the others touch one socket
(`OneSocket`) except an attach, which takes the route from one and gives it to another, and a start that makes a session.

*Only model-checked.* All liveness (`EveryTurnEnds`, `WaitersAreServed`, `MarkedIsRemoved`,
`SessionAnswers`, `SilenceIsAnswered`, `RouteFollowsDevice`, `EndpointsSettle`, and `BrowserSettles` with
`ForgottenSessionEnds` in it), which needs fairness and `ENABLED`. Every safety property that a run checks is a theorem.

## 5. Where code and documentation disagree

With a run that shows it; `PROJECT.json` quotes the lines:

* `LoopInterruptedCapture`: `turn.interrupt` during capture leaves `activeTurn`
  set; the microphone is dead until a typed turn.
* `SessionStaleAudio`: a reply whose synthesis fails has its abort listener taken off
  before its turn is interrupted, so its player goes on into the next turn. Its
  recorder is never finalized, and its reservation in the media store stays.
* `StudioStaleReset`: the late `stop()` of an earlier start resets the store under a
  newer conversation, whose End button disappears while it listens.

With a property that states it, defined in the module and in no cfg. To see one
fail, copy the run's cfg and make it the only property:

| Property | Module (cfg to copy) | What the code does |
|---|---|---|
| `EachTurnEndsOnce` with `ObserverReenters = TRUE` | DuplexSession (`MCSession`) | the gateway's observer interrupts inside `interrupt`, and a turn that was speaking ends twice (`duplex-session/src/index.ts:646`, the comment at `:35`) |
| `QuietMicHoldsNoTurn` over `ProtectedSessions` | ConversationLoop (`LoopInterruptedCapture`) | in protected mode a superseded dispatch suppresses the capture that superseded it (`conversation/src/index.ts:585`) |
| `DroppedOnlyByHeardTurns` over `ToolSessions` | ConversationLoop (`LoopSafety`) | the confirmation window closes when generation ends, not when the turn was heard (`:563`, `docs/mcp-tools.md:64-66`) |
| `RunOnlyAfterHeardQuestion` over `ToolSessions` | ConversationLoop (`LoopSafety`) | an action parked by an aborted dispatch can be confirmed though its question was not spoken (`:490`, `docs/mcp-tools.md:54-58`) |
| `EngineIsSpared` | Admission | a streamed reply frees its slot at its first byte (`server.ts:643`) |
| `RefusalsAreFree` | Admission | a request for an unknown engine is refused and charged (`server.ts:1933`) |
| `AllowanceHolds` | QuotaLedger (`Admission`) | a refund credits the window that is open, not its own (`quota.ts:86`) |
| `CompletedMeansWell` | GatewayServer (`MCGateway`) | the failure of a session's loop is an ordinary event that the queue may drop, or comes after the ending was written, and its conversation is listed as completed (`server.ts:551-552`, `session.ts:634-645`) |
| `MisdirectedIsFree` | VoiceBank (`MCGateway`) | a design profile or promotion for an unknown engine, or a spoken registration where no engine speaks, is refused and stays charged (`server.ts:1659-1660`, `:1870-1871`; the comment at `:1207-1212`) |
| `CachesAreTrue` | EngineServer (`MCGateway`) | the key of a prompt cache is hashed from a file that a registration, which holds no lock, may replace before it is read again to build it (`prompt_caches.py:24-29`; `server_voxcpm2.py:335`) |
| `PairsMatch` | EngineServer (`MCGateway`) | a registration that fails after its move, or two at once, leave the audio of one and the transcript of another (`server_voxcpm2.py:335-359`) |
| `AttachedSessionLives` | SessionLink (`MCStudio`) | a session whose first socket closed while it was starting is stopped when its start returns, though a client has attached to it since (`server.ts:1058-1061`; `session.ts:277-281`, `:451`) |
| `CancelledRunIsSilent` | AgentRun (`MCAgents`) | a cancellation interrupts a narration only while it sounds; one still being synthesized is spoken (`session.ts:407`; `docs/agent-lifecycle.md:57-58`) |
| `ActedIsNotDenied` | ToolRunner (`MCAgents`) | an external tool that acted is called cancelled by its caller's signal, and failed when it throws afterwards or its output is too large (`agent-executor/src/index.ts:478`, `:498`; `docs/agent-lifecycle.md:123-125`) |
| `PinIsTheSample` | SessionTools (`MCGateway`) | a save command that was typed, or cut in two by a reopen, has another utterance before it than the sample (`builtin.ts:151-156`, `:179`) |
| `SavedAsAsked` | SessionTools (`MCGateway`) | the success of another registration, or `cancel_action` with nothing to cancel, clears the pin, and the command itself is registered; the first command with no sample before it registers itself too (`builtin.ts:181-186`) |
| `ReplyHasItsEngine` with `Speakers = {s1, s2}` | SessionTools (`MCGateway`) | `set_voice` during a reply sends the rest of it to the new engine under the old voice (`session.ts:515-521`; `conversation/src/index.ts:514`; the comment at `session.ts:510-511`) |
| `SavedStaysSaved` | SessionTools (`MCGateway`) | a persist reads the file, and writes it back whole later, without a lock: of two under way the second to write drops what the first one added, which both were told is saved (`platforms/bun/src/index.ts:73-84`; `builtin.ts:287-293`) |
| `NoReadingIsLost` with `Readings = {p1, p2}` | SessionTools (`MCGateway`) | a term remembered again while the config is written is taken to be saved (`builtin.ts:288-292`) |
| `ClocksAgree` | SpeechSegmenter (`MCGateway`) | the Silero segmenter counts only what it was given, so its times fall behind the frames' after a pause or dropped frames (`duplex-session/src/index.ts:381-382`; `session.ts:240-253`) |
| `NoUnownedAudio` | Retention (`MCStores`) | a recording that is finalized after its conversation was removed leaves a row nobody lists (`media-store.ts:284-301`; `server.ts:812-814`); the next start of the gateway removes it |
| `CuratedIsKept` | CaptureLibrary (`MCStores`) | a capture promoted or corrected while its own ingest still evicts can be rolled back (`library.ts:297-308`; `:51-56`) |
| `ExcessIsCurated` | CaptureLibrary (`MCStores` with `MaxRequests = 3`) | a library that was opened over its quota, all of it curated, keeps the excess when a correction is cleared: nothing is evicted before the next ingest or opening (`library.ts:340-353`; `:51-56`, `:300-301`) |
| `NoStrayFile` | CaptureLibrary (`MCStores`) | a file that could not be deleted with its row stays on the disk, outside the quota, while the library is open; the next opening sweeps it (`library.ts:211`, `:366`, `:289-292`) |
| `SidecarMirrors` | CaptureLibrary (`MCStores`) | a sidecar that could not be written or deleted, or was cut short by a crash, disagrees with its row for good: no opening mends it (`library.ts:345-350`; the comment at `:347`) |
| `LeftoverIsFresh` | LiveKitAudio (`MCEndpoints`) | half a frame of an interrupted reply may lead the next one (`livekit-agent-adapter.ts:497`; `docs/realtime-media-transport.md:735`) |
| `NothingTypedIsLost` | AgentEditor (`MCAgents`) | the answer of a save, a publish or a refresh replaces the draft, and what was typed since it was sent is gone (`AgentsPanel.tsx:950`, `:983-1000`; the comment at `:993-994` says a draft is kept) |
| `EditorShowsItsAgent` | AgentEditor (`MCAgents` with `MaxEdits = 1`, `MaxRequests = 4`) | the answer to a save of one agent is shown in the builder of the next, when the page went directly there (`AgentsPanel.tsx:950`) |
| `EditsAreInformed` | AgentRegistry (`MCAgents`) | an agent that was deleted and created again has the same first revision, and an edit of the old draft replaces it (`docs/agent-builder-ui.md:325-326`) |

Met while modelling, visible in the models' actions, stated by no property:

* The loop: a stop while `vad.push` is awaited makes `startUserSpeech` throw (`loop`
  becomes `crashed`), against `apps/cli/src/commands/listen.ts:25-26`; in protected
  mode a confirmation already awaited interrupts a reply that has just started.
* The library: an ingest whose rollback could not delete its row is refused as rolled
  back, and its capture stays beside the quota (`library.ts:304-306`).
* The gate: between a release and the woken caller's continuation a newcomer can take
  the slot too, so `inFlight` passes the limit by one.
* The session: `endAfterTurn` is never reset, so a session hangs up after a later,
  unrelated turn (`session.ts:336`). A loop that throws settles `done` before the
  agent runs are drained (`:960-961`, `:355-358`). A run can be started by a turn
  that outlived the hang-up. A stale `playback.complete` overwrites
  `lastAckedTurnId`. A player made for a signal that has already fired is never
  aborted. After a burst the microphone's clock runs ahead (`:229-274`).
* The link: the acceptance of an attach goes to the route the session had before
  (`server.ts:1095-1096`), and a client never restarts its pings after a reconnect
  (`client.ts:145-150`). An attach of an older socket that arrives after the newer
  one's takes the route back; `CaughtUp` is about the client on the route. Stopping
  the server awaits no session (`server.ts:2071-2072`: the map is emptied first).
* The process: a start that fails after its session was stopped is recorded as completed; a
  session that starts while the gateway drains is never stopped.
* The engine: saving a prompt cache recreates the directory of a voice that was deleted
  meanwhile. A continuation without a reference that was evicted goes on in a new random
  voice. A design that fails removes whatever others put under its name.
* Agent runs: a cancellation while the lifecycle is idle is lost, and a stop then
  reports "failed". A reopened turn delivers its text under the id of the first
  delivery, which the executor drops; a second steer while one is awaited throws.
  Talking over the narration of a finished run leaves its queued speech. A tool's `run()` that
  is closed in the same tick still starts its handler; the signals of callers that join a
  dispatch are not connected to it; `close()` with an invalid deadline throws and closes.
* The registry: with three processes, or a holder slower than thirty seconds, stat and
  rm of an old lock can remove a fresh one. A crash between the two deletions of a
  remove leaves its versions to the next agent of that name. In the studio, the answer to
  a deletion closes whatever builder is open by then (`AgentsPanel.tsx:1061-1063`).
* The stores: an SQLite insert that throws outside the try block keeps its bytes
  reserved. A `finish` that fails leaves its conversation active until a restart. A
  correction's sidecar file is not reconciled after a crash.
* LiveKit: a room closed during the last await of its connect is granted with 200; the
  expiry timer closes a room whose session is starting; a connect closed while it
  publishes its track leaks the audio source; a session whose start hangs cannot
  be stopped by its closed room. WebSocket sessions ignore pending grants, so a
  granted token may be refused. After an acknowledgement timeout a carry can be
  played twice.
* The browser: a LiveKit "closed" event that is handled late can stop the next
  conversation; a room that reports its end while its connect fails stops the
  WebSocket fallback. A short mute within 350 ms of a device change calls off the
  recovery for that change (`calledOff` in `RouteFollowsDevice`), and a second
  request is lost when the recovery under way fails. A late "drained" of one
  rendition is taken for the next one's (`stale` in `AckMeansHeard`). A stop that
  waits for a pending recovery keeps the speaker open meanwhile.

The passing runs leave out what these show to be broken, by name: `LoopLive` checks
`QuietMicHoldsNoTurn` in sessions without `turn.interrupt` and with barge-in
allowed, the kernel's passing run has no re-entrant observer, `calledOff` and `stale`
are excepted in the two properties that name them.

Further invariants are stated in the modules and hold, in no cfg: the type invariants
(`TypeOK`, `CoreTypeOK` and their like, proved for the modules of section 4),
`ProfileFollowsState`, `SpeakingCommits` and `TurnMatchesState` of the kernel (proved),
`EveryChargeIsDecided`, `GraceIffDetached`,
`HeldByOwnSocket`, `AckMeansHeard`.

## 6. Not modelled

* What is loud, what the Silero network computes and where its bytes come from: signal
  processing and a download, both external to the segmenters.
* The tools that keep nothing between calls (`set_speed`, `get_engine_status`, `generate_take`,
  `audit_profile`, `redo_last_reply`), and the servers of `packages/mcp`: one call each.
* The studio's panels but for the agent builder, telemetry and reference recorder; the CLI, the MCP server.
* Accounts, HTTP parsing, the pure packages, the other engines and native audio: no shared
  state of their own whose interleavings could matter, or outside the process.
* Of `server.ts`: transcription and chat go through the same proxy and refunds as
  speech without the gate.
