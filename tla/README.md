# A formal model of freeswitch-webrtc-bench

freeswitch-webrtc-bench makes (`role: "uac"`) or takes (`role: "uas"`) WebRTC
calls through a FreeSWITCH server, as many at a time as its call profile says,
and counts how they end. This directory holds TLA+ modules that model its
concurrent core and its media path, TLC configurations that check them, and proofs checked by
TLAPS. Source paths are relative to `src/`.

## 1. The system

### Components

| Component | Source | State | Operations | Modelled by |
|---|---|---|---|---|
| caller program (dispatcher) | `main.go` `uac` | `inCall`, `idleUac`, counters, round-robin position, `mainCtx` | take a report, account a snapshot of reports, start a call, stop | `UacMain` |
| callee program (collector) | `main.go` `uas` | counters, `mainCtx` | take a report, account a snapshot, stop | `UasMain` |
| SIP user agent | `sip/ua.go` `UA` | `currentSession`, `mediaCancel`, the duration timer, `hangupByMe`, `cr`, eight channels | the cases of its `select`, `InviteStateHandler`, the reporting goroutine | `UserAgent`, and its promise to main, `CallSlots` |
| SIP stack (vendored) | `vendor/.../go-sip-ua/pkg` | table of sessions, session status | requests, responses, BYE, CANCEL, ACK; calls the handler | the `Stack` actions of `UserAgent` |
| media session | `rtc/media.go` `MediaFunc` | contexts, remote SDP, peer connection, tracks, log channel | wait for the offer, gather, send the SDP, wait for the answer, run, close | `MediaSession`, its promise to the loop, `MediaContract`, and the `Media` actions of `UserAgent` |
| log lines | `logHelper` of `media.go` and of `ua.go` | `logChan`, `cr.Logs` | write a line, read one, empty the channel after a call | `CallLog` |
| recording | `handleTrack`, `writeTrackToDisk`, `rtc/h264writer`, `rtc/g711writer` | the open files; key frame seen | open, ask for key frames, write a packet, close | `VideoCall` (video) |
| peer connection (vendored) | `vendor/github.com/pion/webrtc` | connection state, senders | connect, fail, close; calls the callbacks; packetize | `ClosePc`, `Connected`, `Failed` of `MediaSession`; `Payloads`, `Unmarshal` of the video modules |
| ingesters | `rtc/ingester.go` | the open file, the RTP sender, the group being read | pace samples until cancelled or closed | the `ingester` process of `MediaSession`; `VideoSender` for what a video file becomes |
| interceptors | `rtc/interceptor.go` | the write hook, set once | pass packets on, clear the marker | `Marker` of `VideoSender` |
| H.264 reader | `rtc/h264reader` | scan buffer, zero count | next NAL | `H264Reader` |
| helpers | `rtc/util.go` | wall-clock position | SDP line edits, STAP-A packaging, `Tick` | `SdpEdit`, `VideoSender`; not `Tick` |
| profile | `profile/profile.go` | none | `ParseCallProfile`, `parseRangePattern` | `CallProfile`, and with main and `UA` in `CallSetup` |
| report, call details | `report/report.go`, `main.go` | the report; a JSON file | fill in, write | the report's index, session, result and lines |
| start-up, logging | `main.go`, `chans/chans.go` | files | open, format | which agents are started, in `CallSetup`; the rest is pure I/O |

### How they interact

* main starts `MaxConcurrentCalls` goroutines running `UA` and shares with them
  `mainCtx` (cancelled once, by a signal or when enough calls are over), one
  `startCallChan[n]` of capacity 1 per caller's agent, and one `callEndChan` of
  capacity `MaxConcurrentCalls`.
* `UA` has an event loop over `mainCtx.Done()`, `startCallChan`,
  `sdpFromMediaChan`, `callConfirmedChan`, `callReceivedChan`,
  `callTerminatedChan`, `callDurationCtx.Done()` and `logChan`. Each channel but
  the last has capacity 1.
* The SIP stack calls `InviteStateHandler` in goroutines of its own. It puts the
  remote SDP into `sdpToMediaChan`, then the session into one of the three
  session channels; each send may block. It writes `cr` directly.
* `MediaFunc` runs in one goroutine per call. It reads `sdpToMediaChan`, writes
  `sdpFromMediaChan`, and its last act is to put a token into
  `mediaFuncEndChan`, which the loop waits for after every `mediaCancel()`.
* Within `MediaFunc` one goroutine watches the context, one reads RTCP and one
  ingests the file; the peer connection calls back in goroutines of its own;
  `doClose` is called by the body's deferred call and by the watcher.
* A caller reports its finished call from a goroutine (after five seconds when
  it hung up itself), a callee from its event loop.

### What is hard

Four kinds of goroutine share small channels and one `cr` with no lock. The
questions a test hardly reaches:

1. does every call that was started get exactly one report, with its own
   result, and does the dispatcher's idea of who is idle stay true;
2. can an SDP, a confirmation, a timer or a result of one call reach another;
3. can loop, handler, `MediaFunc` and main wait for one another for ever;
4. does the program end: after `TotalCalls`, after a signal, with agents that
   failed to start, with callers that keep calling;
5. is anything of a call left running when its `MediaFunc` says it has ended;
6. does the log of a call reach the call's report, and can a full `logChan` stop
   the agent;
7. is what is sent and recorded the video in the file, with parameter sets and
   markers where a decoder needs them;
8. does an accepted profile have something for every agent.

`PROJECT.json` lists these hazards one by one at the line where each bites.

### What makes each component correct

* dispatcher: an agent marked idle is idle (`IdleMeansFree`), a call is in one
  place (`OneCallPerAgent`), the books balance (`Books`), never too many calls
  (`NeverTooMany`), no send blocks (`NoBlockedSender`), no search spins
  (`SearchEnds`).
* collector: no report lost or counted twice (`Books`), it stops
  (`CollectorStops`).
* agent: one report per call (`SlotSpec`, in `Contracts`), with its own result
  (`OwnResult`); the right SDP and the right timer to the right call
  (`NothingStale`, `OwnAnswer`); a clean hand-over between media sessions
  (`HandoverContract`); the end of the call it holds is on its way to the loop
  once the stack has no more to tell (`NoZombie`).
* media session: the end message is last (`EndIsLast`), a cancelled or failed
  call ends (`MediaEnds`), one SDP in order and one end message
  (`KeepsContract`).
* log: the whole log of a call in its report (`CompleteLog`), no wait for room
  that nobody makes (`NoStuck`, `WaitEnds`).
* video: one time stamp per access unit (`MarkerEndsPicture`), no key picture
  without parameter sets (`ParameterSetsKept`), the recording is the file
  (`SameVideo`, `RecordingStarts`), both sides stop (`BothStop`).
* profile and SDP: every agent has its account, password, port and called party
  (`AgentsProvided`), pion gets one medium and the peer one address (`SdpsFit`).
* all: they end (`ExitsIfAllStart`, `Shutdown`, `AgentExits`, `CollectorStops`).

## 2. The modules

```
         CallSlots                    MediaContract
        /        \                     /         \
   EXTENDS       INSTANCE       INSTANCE         INSTANCE
      /              \            /                 \
  UacMain             UserAgent                MediaSession        UasMain
     |                  |     \                      |                 |
  UacMainProofs         |  MCUserAgent       MediaSessionProofs  UasMainProofs
                        |
                 UserAgentProofs
                        |
                 UserAgentResultProofs

  CallLog        H264Reader                CallProfile   SdpEdit
     |                |                           \       /
  CallLogProofs  VideoSender                      CallSetup
                      |                           /       \
                  VideoCall             MCCallSetup      CallSetupProofs
                  /       \
        MCVideoCall     VideoCallProofs
```

**CallSlots** is the contract between a caller's agents and the dispatcher. An
agent is a slot: it takes a command, conducts a call, and hands over exactly one
report; main gives a command only to an agent that is `Free`. It is used twice:
`UacMain` is built on its actions, so that the dispatcher is checked against
every agent that keeps the contract; and `UserAgent` is shown to keep it
(`SlotSpec`, in `Contracts`), with a refinement mapping that puts agent 0 into the loop
"with a call" while it has a `mediaCancel` or is wrapping the call up. The agent
model has the dispatcher's side for one agent (`MainProgram`).

**UacMain** has one action per channel operation of `uac`, or per piece of local
work between two. `pc` is the position in the loops: `select` is the `select` at
main.go:136, `len` the point between the receive and `len(callEndChan)`,
`account` the accounting loop, `decide` the if-chain at main.go:178, `pick` the
search and `send` the send into `startCallChan`. `i` and `j` are the source's.
`i--; continue` leaves `i` as it was.

**UasMain** does the same for `uas`. Its agents start or fail to, and report now
and then: nobody gives them calls, and what matters is that an agent blocked in
`callEndChan <- cr` sees nothing else. That an agent in its loop leaves it when
the program is stopped is a step it may take, and no fairness says that it does.

**UserAgent** is `UA` in either role, with the handler calls, `MediaFunc`, the
reporting goroutine, the SIP stack and main as processes.

| In the model | In the code |
|---|---|
| `ua.pc = "select"` | the `select` of the loop; `"invite"` is inside `ua.Invite`, `"waitMedia"` and `"leave"` in `<-mediaFuncEndChan`, `"report"` in a callee's `callEndChan <-`, `"join"` in `wg.Wait()` |
| `ua.mediaCancel` | `mediaCancel != nil`, equivalently `mediaCtx != context.TODO()` |
| `ua.timer` | the duration timer; its value, the session whose confirmation started it, is only looked at by `NothingStale` |
| a record of `handlers` | a call of `InviteStateHandler` in progress, `at` the next statement that can block or be seen |
| `chan` | the channels of capacity one; 0 is empty |
| `mf` | `MediaFunc`: its position, context and the session whose SDP it applied |
| `status`, `cancels` | the stack's table of sessions, and CANCELs its goroutine has not processed |
| `outcome`, `answered`, `reported` | history, read by properties only |
| `env` | what this run's environment may do, one of `Envs`, chosen at the start: no state of the code |

An SDP is the number of the session it belongs to. Go's `select` chooses among
ready cases at random, so the loop's cases are disjuncts. A context that is
derived from another is done when the other is, hence `mf.cancelled \/ mainDone`
and a `TimerFires` that needs no reason.

What the stack does was read from the vendored code: an authenticated INVITE is
handled by two nested `RequestWithContext` calls, which both see the 200 and
both report `Confirmed` one after the other (`ConfirmedAgain`); a session leaves
the table before its last handler call, so `Over` happens to it once; `Invite`
returns without waiting for a response and looks its session up in the table;
the goroutine reading CANCELs starts after the INVITE's handler has returned.

**MediaContract** is the abstract specification between an agent's event loop
and the media sessions of its calls: one at a time, one SDP each, in order and
never over another, one end message, and a start only after the end of the one
before was taken. `UserAgent` implements it (`HandoverContract`, and as part of
`Contracts`), where a media
session has a few steps, and so does one detailed `MediaFunc` (`KeepsContract`).

**MediaSession** is one call of `MediaFunc`. `body` is the position of its own
goroutine; `"close"`, `"join"` and `"notify"` are its two deferred calls.
`worker` holds the positions of the goroutines it starts: `"check"` is
`for ctx.Err() == nil`, `"use"` the point after it, `"busy"` inside `Read` or
`Ingest`. `closer[a]` is where caller `a` of `doClose` is: test and assignment
of `doClosed` are two steps, and an ingester's `Close` is three.
`sender` is the field that `Close` sets to nil; when it is nil, `Read` and
`GetParameters` end the program, which is `crashed`. `inner` is `cancel()`
called by the callback, so `CtxDone == inner \/ mediaCtx`; `iceCtx` ends at last
in any case, so `Gathered` has no other guard. The goroutines of the medium that
is not sent return at once, and the model has the two of the other.
What an earlier call left in the channels is chosen in `Init`, and the agent
puts and takes SDPs only where the body can still notice.

**CallLog** is `logChan` between `MediaFunc` and the loop, and `cr.Logs`. `pc`
is the loop's position: `"drain"` is the `for logLen := len(logChan)` after
`<-mediaFuncEndChan`, with `snapshot` its `logLen`. `media = "log"` is a
goroutine of `MediaFunc` in the send `lh.logChan <- ...`, which looks at no
context. Lines of the peer connection's callbacks (`CallbackLogs`) may come at
any time during or after their call, as nobody waits for callbacks. `writer` is a
goroutine in the middle of `append(cr.Logs, ...)`: the SIP stack's handlers and
the goroutine that called `MediaFunc` append to the slice the loop appends to.
It has read `Logs` when it starts and writes what it read and its line, so lines
appended in between are lost; or it loses its own.

**H264Reader** is a function of a file. `Cut` gives the units between start
codes as `processByte` and `NextNAL` find them byte by byte, and `NextNAL`, at a
position in them, skips SEI units except one at the end of the file.
**VideoSender** is the goroutine that calls `Ingest`: `"open"` is the test of
the context in `media.go:544`, `"group"` that of the outer loop in `Ingest`,
`"read"` the inner loop. A group is a run of parameter sets and the unit after
it; it becomes one STAP-A and the unit, of which only the last takes time.
`Payloads` and `Packets` are pion's payloader and packetizer and the
interceptor. To the payloader a STAP-A is a unit as any other: one above its limit
is cut into pieces too. **VideoCall** puts the other end to it: the recording of an agent's
first call. `track` is the goroutine in which pion calls `OnTrack`, which
`wg.Wait` does not count, `pli` the one that asks for key frames, which it does.
`Refused` are the payloads for which `H264Packet.Unmarshal` returns an error, so
that nothing is written. `FileFails` leaves `dv_h264` as Go does, an interface
that is not nil around a writer that is (`"typednil"`), and `DoClose` then ends
the program (`"panicked"`).

**CallProfile** has `parseRangePattern` and `ParseCallProfile` as operators on a
profile, **SdpEdit** the edits of `util.go` and `media.go` as operators on an
SDP, a sequence of lines that are sequences of items. **CallSetup** puts them in
the order of the program: the profile, the agents, and one call's descriptions.

## 3. The runs

| Run | Bounds | What it shows |
|---|---|---|
| `UacMain_calls` | 2 agents that may fail, 4 calls, batches of 2 | the safety properties of the dispatcher, `SlotSpec`, exit when stopped, and exit and completion as far as calls end |
| `MCUserAgent_uac` | 2 calls; three environments: challenged INVITEs and timer with racing ends; the same in order, with 1 incoming call, CANCEL and failures of start and INVITE; no challenge and no timer, with failing media | both contracts, own results, nothing stale, every call reported that is set up and hung up |
| `MCUserAgent_uas` | room for 1 report; 3 incoming calls in order, or 2 with racing ends and failures of start and media | own answers and results, no zombie, the hand-over contract, every call reported, exit unless a report finds no room |
| `MediaSession_calls` | one call, every role and medium, failures | `EndIsLast`, `MediaEnds`, `KeepsContract` |
| `UasMain_collect` | 2 agents that may fail to start, 6 calls for a channel of 2, limit 3, signals | `Books`, the collector stops when as many calls are over, exit if the agents' loops leave and no report is held up for ever |
| `CallLog_lines` | 2 calls of at most 2 lines, 1 late line, a channel for 3 | the whole log in the report, no wait for room |
| `MCVideoCall_file` | 4 files of two pictures, two of them with a unit of one byte at the end, played twice, payloads of 13 bytes, one packet lost or overtaken, a file that may not open | markers, parameter sets, the recording, both sides stop |
| `MCCallSetup_profiles` | patterns of up to two names with repetitions -1, 1, 2 parts, limits -1 to 3, 4 SDPs | agents provided, SDPs fit |

Why the bounds are enough. Two agents and four calls: every agent is reused,
the round-robin position wraps, both agents report before the snapshot is
taken, one agent can be gone while the other works, one can be in a call that never ends,
and a batch ends with calls in progress. Two calls of one agent: everything one call can leave behind for
the next. Three calls at a callee: one established, one declined meanwhile, one
after both; and `callEndChan` has room for one report, so that the loop does find
it full when main reads no more. One `MediaFunc`: calls share nothing else but the channels, and
their left-overs are in its initial states. The log's channel is just large
enough: one line more would not fit. The video files have each thing that makes
the reader or the sender take another branch (delimiters or none, an SEI unit or
none between parameter sets and picture, long and short start codes, units that
need one packet or three, a unit of one byte that the recorder refuses), with
bytes that look like part of a start code, as `<<0, 0, 3, 1>>` does; the second
pass comes after an end of file. The limit of 13 bytes is above the 11 of the
files' STAP-A and below the longer pictures.
Every bound is a constant of its module; the only counters are bounded by
`TotalCalls`, `MaxCalls`, `MaxIncoming`, `MaxArrivals`, `MaxLines`, `MaxLate`,
`MaxPasses`, `MaxWire` and `MaxFaults`.

`UasMain_collect` and `MCUserAgent_cancel_deadlock` do not check for deadlock,
as agents really stop for ever there. All others do. That an agent of
`MCUserAgent_uac` exits when it is stopped is not among its properties; what
remains of it there is that no state of the run is a deadlock. `Shutdown` of
`UacMain` takes from `CallSlots` that it does.

### Assumptions of the runs of UserAgent

Each behaviour has one `env`, and `MCUserAgent` lists those that are checked.
`RacingEnds = FALSE` makes two assumptions about the environment, named in
`UserAgent`: `Quiet`, a call ends only when its earlier SIP events have been
handled, or their handler is blocked; `Settled`, an INVITE arrives when the
agent is idle or its call is established. They hold for a bench on a quiet
network. The code does not enforce them, and without them the data of one call
does reach another: `NothingStale`, `OwnAnswer` and `IncomingReported` hold with
them only, and `NoZombie` asks about declined sessions with them only.
`OwnResult` excepts `Cancels`, and `IncomingReported` excepts `MediaMayFail`.
`CallReported` does not except an environment but names what it may come to
(`SetUpFailed`): `ua.Invite` returned no session, or `MediaFunc` failed before its
offer was sent. It has two conditions, that somebody hangs up (`HangsUp`, the
remote party where there is no duration) and that a failed `MediaFunc` leaves no
answer behind (`AnswersTaken`).

### Divergences

Each of these runs has one property, a statement of the profile's or the code's
comments, and TLC shows how the code breaks it. `PROJECT.json` quotes the lines.

| Run | Violated | How |
|---|---|---|
| `UacMain_lost` | `ProgramExits` | an agent fails to start and its call is never reported |
| `MCUserAgent_stale_answer` | `SdpOfThisCall` | the second answer of a challenged INVITE survives the clearing of `sdpToMediaChan` |
| `MCUserAgent_cancel_deadlock` | `AgentExits` | a left-over answer in `sdpFromMediaChan` blocks the next `MediaFunc`, for which the loop waits |
| `MediaSession_nil` | `NoNilSender` | a reader that passed its context check reads from the sender that `doClose` has just set to nil |

Others show with the same modules when a condition in front of a property is
taken away or a constant is changed:

* `OwnResult` without its exception: the handler of a CANCELled INVITE, which a
  caller declines, overwrites the result of the caller's own call.
* `OwnTimer` without its condition, challenged INVITEs: a late second
  confirmation starts a timer for the next call.
* `NothingStale` at a caller whose `MediaFunc` may fail: the failed `MediaFunc`
  leaves the answer in `sdpToMediaChan`; when the loop clears it, the blocked
  handler of a second confirmation puts the SDP again, for the next call.
* `NothingStale`, `OwnAnswer` and `NoZombie` at a callee whose callers CANCEL:
  the call ends before its confirmation is heard of. These two are why the
  theorems about them have the conditions they have.
* `OwnAnswer` without its condition, three incoming calls: the offer of a
  declined call reaches the next `MediaFunc`.
* `IncomingReported` without its condition: the end of a call is taken before
  its beginning and the call is never reported.
* `CallReported` without `SetUpFailed`: nothing reports a call for which
  `ua.Invite` returned no session (the TODO at ua.go:266), nor one whose
  `MediaFunc` fails before its offer is sent (media.go:237-250, 578-585), as its
  end message is read only when a session ends. The loop keeps its `mediaCancel`
  for ever. So `ExitsIfAllStart` and `CallsComplete` of `UacMain` have the
  condition `CallEnds`; without it both are violated.
* `CallReported` without `AnswersTaken`: with challenged INVITEs, the answer of a
  call whose `MediaFunc` failed stays in `sdpToMediaChan` (the second
  confirmation put it there again after the clearing). The handler of the next
  call's confirmation is stuck behind it, that call is never confirmed to the
  loop, and no timer hangs it up.
* `NoZombie` with racing ends, if a declined session counted as gone (`Gone`): a
  confirmation that is taken after its call ended starts a duration timer at
  ua.go:277; it fires while the next session is still "received" and declines it.
  The stack makes no further handler call for a session declined so, and the loop
  holds it for ever.
* `AgentExits` without `NoRoom`, and `Shutdown` of `UasMain` without `HeldUp`:
  with more reports to come than `callEndChan` holds, agents block in their event
  loop after main has stopped reading (ua.go:331, 389), and the program does not
  exit.
* `CollectorStops` without its condition that `TotalCalls` calls are over: when
  the agents fail to start, nothing ever arrives and the collector waits until a
  signal comes.
* `BothStop` without `Crashed`: when the recording's file cannot be created,
  `dv_h264` is an interface around a nil pointer (media.go:396), the test at
  media.go:159 passes and `Close` ends the program (h264writer.go:68). The audio
  writers are kept in interfaces in the same way.
* `MarkerEndsPicture` and `ParameterSetsKept` without `PairsFit`, for instance
  with the files of `MCVideoCall` and a limit of 10 bytes: the STAP-A is cut into
  FU-A, whose last piece keeps its marker as its type is not 24 (ingester.go:158),
  no key picture has a STAP-A before it, and the recorder never takes a packet for
  parameter sets, so nothing is recorded. The code's limit is 1188 bytes.
* `NoStuck` and `WaitEnds` with a `logChan` that does not hold the lines of one
  call: `MediaFunc` waits for room and the loop for `MediaFunc`. The code's 50
  lines are more than a call logs, unless candidates or state changes abound.

What reading the code for the video and profile modules showed, and no run is
about:

* `dumpmedia` of the profile is read nowhere: an agent's first call is recorded
  in any case (ua.go:247-252, profile.go:104-108).
* A group with only one of the two parameter sets loses it
  (ingester.go:135-144). With access unit delimiters each delimiter counts as a
  unit that takes time, so time stamps advance twice per picture; a picture of
  several slices gets a time stamp per slice.
* Units of one or two bytes that are not parameter sets, the end of a sequence or
  of a stream, are sent and not recorded: `H264Packet.Unmarshal` refuses them
  (h264_packet.go:158). `Plain`, and so `SameVideo`, leaves them out.
* The forbidden bit of a unit's header is lost when the unit is cut into pieces;
  `Encoded` assumes it is not set.
* An SEI unit that ends the file is returned (h264reader.go:146-154).
* A video file that cannot be opened is tried again at once, for ever
  (media.go:551-553).
* A track that starts after `doClose` opens a file that nobody closes, and may
  call `wg.Add` after `wg.Wait` has returned.
* A recording that loses the first piece of a unit has the later ones without a
  start code, which `SameVideo` leaves out with `faults = 0`.
* Passwords, ports and called parties may outnumber the accounts, although the
  comments ask for the same length (profile.go:49-79, 144); `callsperbatch` is
  not checked.

### Fairness

Goroutines that can run do run: weak fairness of the dispatcher, of the
collector, of each agent's channel operations, of an agent's loop, its reporting
goroutine, its handlers and its `MediaFunc`, each as a whole. Weak fairness of
the loop does not promise that a particular ready case is taken, and neither
does Go. From the environment we assume what timers guarantee: a request gets
its final response or times out, and a 200 gets its ACK (or the call its end).
In `MediaSession` the body, each caller of `doClose`, each goroutine and the
callbacks run; nothing makes the connection come up or fail. In `CallLog` the
loop runs, a line is written when there is room, and a cancelled `MediaFunc`
returns, which is `MediaEnds` of `MediaSession`. In `VideoCall` the goroutines
of both sides run; nothing makes a packet arrive or a call end. A blocked
`ReadRTP` returns when the context is done, since `doClose` closes the
connection.
In `UserAgent` main reads reports until it
is stopped, which is what `UacMain` does while it has calls in progress. Nothing
makes a remote party hang up, call or cancel, or a signal come.

What the code does not guarantee is no fairness assumption but a condition in the
properties that need it, so that a reader sees where: that a caller's call ends
(`CallEnds` in `UacMain`; there is no fairness of `EndCall`), that somebody hangs
up (`HangsUp` in `UserAgent`), that a callee's loop comes round to
`mainCtx.Done()` (`AgentsLeave` in `UasMain`; there is none of `Leave`), and that
as many calls as are waited for have come (`CollectorStops`; there is none of
`CallOver`). `CallReported` and `AgentExits` of `UserAgent` say under which
circumstances the first and the third hold.

## 4. The proofs

`UacMainProofs` proves, for every number of agents, every `TotalCalls` and
every `CallsPerBatch`, with or without agents that fail to start:

| Theorem | Statement |
|---|---|
| `TypeCorrect` | `Spec => []TypeOK` |
| `OneCallAtATime` | `Spec => []OneCallPerAgent` |
| `IdleAgentsFree` | `Spec => []IdleMeansFree` |
| `SearchTerminates` | `Spec => []SearchEnds` |
| `BooksBalance` | `Spec => []Books` |
| `CallLimit` | `Spec => []NeverTooMany` |
| `NeverBlocked` | `Spec => []NoBlockedSender` |
| `Implementation` | `Spec => SlotSpec` |

They use `ConcurrencyAssumption`, `StartAssumption`, `TotalAssumption` and
`BatchAssumption`: at least one agent, a Boolean and two integers.

The argument. None of the invariants is inductive alone. That the search ends
needs that `idleUac` counts idle agents (`Books`); that an idle agent's command
channel has room needs that nothing of an earlier call is left
(`IdleMeansFree`); that accounting a report makes the agent free needs that no
second report of it exists (`OneCallPerAgent`); that the type of `idleUac` and
of `j` holds needs both. So the inductive invariant is their conjunction

    IInv == TypeOK /\ OneCallPerAgent /\ IdleMeansFree /\ SearchEnds
              /\ Books /\ NeverTooMany /\ SnapshotHeld

and `Invariance` shows `Init => IInv` and `IInv /\ [Next]_vars => IInv'`, by one
lemma per conjunct or per group of actions. `SnapshotHeld`, that the receives of
the accounting loop find a report each, is inductive because only the dispatcher
takes reports out. That a sender finds room is a counting argument: with a
report pending, the agents whose reports are queued are all the others at most,
one report each, so fewer than the capacity. `Implementation` follows from
`IdleMeansFree`: the one step of the dispatcher that is not a stutter or a
receive is `SendStart`, and its agent is `Free`.

`MediaSessionProofs` proves, for either role, every medium, and whether or not
steps may fail (`MediaAssumption`, a Boolean):

| Theorem | Statement |
|---|---|
| `TypeCorrect` | `Spec => []TypeOK` |
| `EndComesLast` | `Spec => []EndIsLast` |
| `Implementation` | `Spec => KeepsContract` |

The inductive invariant is `TypeOK /\ Counted /\ Places /\ Closing`. `EndIsLast`
speaks of the moment of the end message only; that nothing is left then follows
from what holds all along. `Counted`: the WaitGroup counts the goroutines that
have not ended. `Places`: which positions of the body, the watcher and the two
callers of `doClose` go together. `Closing`: once `doClosed` is set, some caller
is between its mark and its return, or the connection is closed and the sender
nil. The last is what survives the unsynchronised test of `doClosed`: a caller
that returns at once leaves the work to one that has not returned, and if that
one is the watcher, the WaitGroup waits for it. The model's data are finite, so
the gain over TLC is an argument and not a larger instance.

`UasMainProofs` proves, for every number of agents, every `TotalCalls` and any
number of arriving calls (`UasAssumption`):

| Theorem | Statement |
|---|---|
| `TypeCorrect` | `Spec => []TypeOK` |
| `AccountingNeverBlocks` | the accounting loop finds a report for each receive |
| `BooksBalance` | `Spec => []Books` |

The invariant is `TypeOK /\ SnapshotHeld`, and `Books` is then inductive
relative to it: what arrived is reported and counted, queued, or in the hands of
an agent, and a sender waits only at a full channel. Agents that wait are counted
by `Cardinality`, so that a step of one agent changes the sum by one.

`UserAgentProofs` proves `TypeCorrect` (`Spec => []TypeOK`) of one user agent,
in either role, for any numbers of sessions and commands and any set of
environments (the assumptions of `UserAgent`). `TypeOK` says more than shapes:
no session is reported twice, `callEndChan` stays within its capacity,
`uasCallIndex` within the number of incoming sessions, and `Invite` looks up a
session of the agent. Each of these rests on what other processes do:

    IInv == TypeOK /\ Control /\ OneMedia /\ Begins /\ CallsCounted
              /\ UacCalls /\ UacOffer /\ UacToken /\ Reported

* `Control`: at which positions the loop has a `mediaCancel` and a current
  session. `OneMedia`: from `StartMedia` until `mediaFuncEndChan` is read there
  is a `MediaFunc` or its end message, and otherwise neither.
* `Begins` and `CallsCounted`: the handler of an INVITE and `callReceivedChan`
  hand a session on, it is in one place, and the loop takes it once. That bounds
  `uasCallIndex` and the reports of a callee.
* `UacCalls` and `UacToken`: a caller's call is in one place, in `startCallChan`,
  the loop, the reporting goroutine or `callEndChan`, and `inCall` covers it.
  `UacOffer`: its offer is taken before the call can end, which is why the offer
  of one call is never sent in the INVITE of the next.
* `Reported`: a session that is still to be reported was not reported.

Every step of the loop, of the handlers, of `MediaFunc`, of the SIP stack and of
the program preserves it (`Invariance`).

It also proves that the agent keeps its contracts:

| Theorem | Statement |
|---|---|
| `HandoverKept` | `Spec => HandoverContract`, in either role |
| `ContractsKept` | for `Role = "uac"`, `Spec => Contracts`: `CallSlots` and `MediaContract` |

Both are step simulations under `IInv`. For `MediaContract` the one step that
needs an argument is the start of a `MediaFunc`, which must find the one before
gone: `OneMedia`. For `CallSlots` each step of the agent is a slot's receive, end
of call, report or exit, or does not show (`SameView`). That the report which is
sent is the pending one, that a command is given to a free slot only, and that
nothing is left at the exit are `UacToken` and `UacCalls`. With `Implementation`
of `UacMainProofs` and of `MediaSessionProofs`, each side of the two contracts is
proved to keep it.

`UserAgentResultProofs` proves:

| Theorem | Statement |
|---|---|
| `ResultIsItsOwn` | `Spec => []OwnResult` |
| `EndIsHeard` | `Spec => [](Role = "uac" \/ ~env.Cancels => NoZombie)` |

`cr` is shared by the loop and all handlers, and no handler looks at whose it is.
The invariant `RInv == Ended /\ Owned /\ Written /\ Queued /\ Held` follows a
result on its way. `Owned` is the heart: without CANCEL only the session of the
call in the agent is active or ending, since a declined INVITE gets no end from
the stack. So the handler that writes `cr.CallResult` writes it for the call
whose `cr` it is (`Written`), from its write to the message on
`callTerminatedChan`, from there to the report, and in `callEndChan` (`Queued`).
No assumption about races is made: `RacingEnds` may be true. `Held` is the part of
`NoZombie` about sessions that are over; the other part, that a callee whose ends
do not race holds no session it declined, is `Declined`, which rests on the
invariants below.

It also proves, when ends do not race with earlier events
(`~RacingEnds`, part of both properties):

| Theorem | Statement |
|---|---|
| `SdpAndTimerAreOfThisCall` | `NothingStale` holds always, at a caller without `MediaMayFail` and at a callee without `Cancels` |
| `AnswerIsItsOwn` | `OwnAnswer` holds always, at a callee without `Cancels` |

`sdpToMediaChan`, `sdpFromMediaChan` and `callConfirmedChan` carry no session. So
`CallerInv` and `CalleeInv` say, for each position of the loop and of `MediaFunc`,
which of them can be full and whose their content then is. At a caller: its
`MediaFunc` runs until the call ends (`CallerMedia`), answers and confirmations
come from the session in the agent while it lives, and one confirmation is
handled at a time (`CallerSip`), and what is left of them is of that call until
the loop has cleared it (`CallerOwn`). At a callee: the offer in the channel is
the one its `MediaFunc` waits for, and INVITEs that come meanwhile are blocked
(`CalleeOffer`); the answer is sent before the call can end (`CalleeAnswer`); the
confirmation is heard of before it ends (`CalleeTimer`). Without the conditions on
`MediaMayFail` and `Cancels` both are false, as TLC shows (see Divergences).

`CallLogProofs` proves, for every capacity of `logChan` and any numbers of
calls, lines and late lines (`LogAssumption`, natural numbers):

| Theorem | Statement |
|---|---|
| `TypeCorrect` | `Spec => []TypeOK` |
| `NeverStuck` | `Spec => []NoStuck` |
| `ReportsAreComplete` | `Spec => []CompleteLog` |

The inductive invariant of the first two is `TypeOK /\ Places /\ Emptied`. `Emptied` is the
count: between calls there are only late lines in `logChan` beyond the loop's
snapshot, so while a `MediaFunc` runs there are at most its own lines and the
late ones. That is what the loop's emptying of the channel after each
`mediaFuncEndChan` is for; with the snapshot left out the count would grow from
call to call. `Places` says which positions of the loop and of `MediaFunc` go
together, `TypeOK` contains that the snapshot is never more than is there.
Here the theorem covers the capacity of 50 and lines without number, of which
the run has three.

`ReportsAreComplete` adds `Swept /\ Fresh /\ Gathered`: from the start of a call
to its report, the lines its `MediaFunc` has sent are the media lines of
`Logs \o logChan`, in order (`Gathered`); with no `MediaFunc` there is none of
them behind the snapshot (`Swept`); and no goroutine has written to the log of a
call to come (`Fresh`). Reading a line moves it within `Logs \o logChan`, and
when the snapshot is read the rest can be cut off. `CompleteLog` speaks of
positions in the log, with no selected subsequence, so that it can be proved
without induction over the log.

`VideoCallProofs` proves, for every set of files, every limit on a payload that
the files' pairs of parameter sets fit in, any number of passes and any number of
packets lost or overtaken:

| Theorem | Statement |
|---|---|
| `ReaderExact` | `Opened(BytesOf(units))` has exactly the units, if they are `Encoded` |
| `TypesKept` | `Spec => []TypeOK` |
| `PicturesMarked` | `Spec => []MarkerEndsPicture` |
| `KeyPicturesComplete` | `Spec => []ParameterSetsKept` |
| `RecordingPlayable` | `Spec => []RecordingStarts` |
| `VideoArrives` | `Spec => []SameVideo` |

They use `SenderAssumption` (the payload limit is above 2, which the FU-A header
takes, and below 2^16, so that the lengths in a STAP-A that fits are right),
`CallAssumption`, and `FileAssumption` about the files. The reader and
the ingester accept any bytes; the properties hold for what an encoder writes. A
unit holds no start code, does not end with a zero and has no forbidden bit. Its
type is one of 1 to 23. A pair of parameter sets fits in a payload as one STAP-A
(`PairsFit`): pairs are tens of bytes and the code's limit is 1188. Parameter sets
come in pairs, the first pair before anything else that is sent; after a pair, or after
SEI units that follow it, comes a picture; and a key picture comes after a pair
only, so it has one slice. `examples/tea_video.h264` is such a file: 778 units,
in pairs and pictures of one slice. Files of other orders are under Divergences.

That what the reader returns is what the file was made of needs the places of
units and start codes in the file (`FilePlaces`, `PlacesGrow`, `PlacesCover`): a
start code ends where one was written and, as the units are `Encoded`, nowhere
else, also not across a border; and the third zero before it is the code's and
not the unit's. This step is proved once and then a step of the program speaks of
units only. The inductive invariant is

    IInv == TypeOK /\ FileCut /\ PacketsInv /\ SenderInv
              /\ RecorderInv /\ RecordingInv

* `FileCut`: the file is in units, with the order that `FileAssumption` gives
  them, and `plain` is what of them is to be seen.
* `SenderInv` says, for each position of the ingester, which units the group can
  have (none, an SPS, a pair) and what is left of it while it is written; and
  that the last packet has closed its picture (`Closed`), except between a STAP-A
  and the picture after it. A cancelled ingester may stop anywhere in between.
* `PacketsInv` joins the two packet properties: what is sent next fits the last
  packet sent because `Closed` or its exception holds.
* `RecorderInv` and `RecordingInv`: nothing is written before a STAP-A that holds
  a pair, so the file starts with one, and only appends follow.

Where `PairsFit` enters is `Fit`: the parameter sets of a group are a pair of the
file, so their STAP-A is one packet.

`VideoArrives` adds `ContentInv` and `ArrivedInv`. `ContentInv`: the bytes that
will be written of all packets sent, and then those of the samples and the group that wait, are the
file's, over and over, up to the reader's position. `ArrivedInv`, with no fault:
until the first parameter sets arrive everything sent is under way; then what is
recorded and what is under way are together what was sent, as long as the file is
open; and it stays a prefix of it afterwards. That the pieces of a long unit are
put together to the unit again is `PiecesOf`.

`CallSetupProofs` proves, for every set of profiles and of offers:

| Theorem | Statement |
|---|---|
| `EveryAgentProvided` | `Spec => []AgentsProvided` |
| `DescriptionsFit` | `Spec => []SdpsFit` |

They use `ProfileAssumption`, that profiles have the fields' types (any patterns,
with any repetitions, and any numbers), and `OffersAssumption`: an SDP of
FreeSWITCH has at least one section and at most one of each medium. The inductive
invariant is `Places /\ NoPanic /\ RemoteFits /\ SentFits`. For `NoPanic` the
proof follows `ParseCallProfile` and finds that what it does not refuse has, for
each agent up to `maxconcurrentcalls`, an entry in every slice (`AcceptedProfile`).
The one delicate case is that no ports were given: `"0{n}"` then has as many
names as there are accounts. For `RemoteFits` the line that begins the audio
section is found before or behind the video's and the cut leaves exactly one
section either way, and the attributes appended begin none (`AttributesAtEnd`).

`Cardinality` facts come from `FiniteSetTheorems`, facts about `Append`, `Tail`
and `\o` from `SequenceTheorems`. What joined sequences contain is defined by
recursion over them, and the theorems about induction take an operator, which
the provers cannot instantiate. Two lemmas stand in for them: `LeastNumber`, that
a set of numbers has a least one, from `WFMin` of `WellFoundedInduction`, and
`NumberInduction`, that a set with 0 and every successor has all numbers. The set
`{n \in Nat : ...}` takes the place of the predicate.

### Only model-checked

Every type invariant and every safety invariant of the passing runs is proved,
and so are the contracts `SlotSpec`, `HandoverContract`, `Contracts` and
`KeepsContract`. TLC alone shows:

* Liveness: `ExitsIfAllStart`, `Shutdown`, `AgentExits`, `CallReported`,
  `IncomingReported`, `WaitEnds`, `MediaEnds`, `CollectorStops`, `BothStop` and
  the like. They rest on fairness, for which the prover has no support.
* That no run deadlocks.

`NothingStale`, `OwnAnswer` and `NoZombie` are proved under conditions on the
environment, which all environments of the runs meet. Without the conditions they
are false (see Divergences), so there is nothing left to prove.

## 5. Not modelled, and why

* Times and sleeps: an action may be taken at any later moment. So pacing of
  media (`wallClock`) is left out.
* The loop's own log lines, and the files lines are written to.
* Registration after the first answer, its refresh and its data race on
  `registerState`: starting is one step that succeeds or fails.
* Re-INVITE and early media, which the handler ignores.
* `uasCallIndex` is shared by all agents under a mutex; the model has one agent
  and so its own counter.
* `CallsPerBatch <= 0`: allowed by the model and the proofs, where `uac` spins as
  in the code; the division at main.go:212 is not modelled.
* Audio from file to packet and its recording: Ogg pages or 160 bytes at a time
  become samples one to one, and the writers keep no state. `IngestPCMU` leaves
  its file to the garbage collector (ingester.go:304-308).
* The choice of codecs and header extensions, ICE and DTLS, the peer
  connection's disconnected state, RTCP.
* A remote SDP of another type than expected: the agent never passes one on. An
  SDP has at most one section of each medium here, as FreeSWITCH's have.
* How names of a range pattern are spelt: names are numbers, and a part that is
  spelt wrongly is one that is not `wellFormed`.
* `pc.Close` is two steps here, its start, which makes a second call return, and
  its end.
* The rest of `util.go` (`removeNthLineOfSDP`) is not used by the program.

## 6. Plan

Done: `CallSlots`, `UacMain`, `UserAgent`, `UasMain`, `MediaContract`,
`MediaSession`, `CallLog`, `H264Reader`, `VideoSender`, `VideoCall`,
`CallProfile`, `SdpEdit`, `CallSetup`, and the proofs of `UacMain`, `UasMain`,
`UserAgent` (in two modules), `MediaSession`, `CallLog`, `VideoCall` and
`CallSetup`.

What would come next: the refresh of the registration and its race on
`registerState`, which is one step today; files with several slices per picture,
for which a weaker `MarkerEndsPicture` would have to be found first; and the
audio files, if their reading ever gets a state of its own.
