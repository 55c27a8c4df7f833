-------------------------------- MODULE CallLog --------------------------------
(***************************************************************************)
(* The log lines of an agent's calls: logChan between MediaFunc and the    *)
(* event loop, and cr.Logs, which becomes part of the call's report.       *)
(*                                                                         *)
(* MediaFunc's goroutines write into logChan with a plain send, which      *)
(* waits for room whether or not the call is cancelled.  Only the loop     *)
(* reads the channel: a line at a time in its select, and a snapshot of    *)
(* len(logChan) lines after mediaFuncEndChan.  The loop reads nothing      *)
(* while it waits for mediaFuncEndChan.                                    *)
(*                                                                         *)
(* Lines come from the goroutines MediaFunc waits for ("media"), from      *)
(* callbacks of its peer connection, which nobody waits for ("late"), and  *)
(* from goroutines that append to cr.Logs themselves ("direct").  The      *)
(* loop's own lines are left out.                                          *)
(***************************************************************************)
EXTENDS Integers, Sequences

CONSTANTS
    Capacity,    \* capacity of logChan: 50
    MaxCalls,    \* bound: calls of the agent
    MaxLines,    \* bound: lines one MediaFunc logs
    MaxLate      \* bound: lines of callbacks, of all calls together

ASSUME LogAssumption ==
    /\ Capacity \in Nat /\ MaxCalls \in Nat
    /\ MaxLines \in Nat /\ MaxLate \in Nat

Calls == 1 .. MaxCalls
Line == [call : Calls, kind : {"media", "late", "direct"}, no : Nat]

VARIABLES
    role,        \* cp.Role, which does not change
    pc,          \* the event loop
    leaving,     \* has the loop seen mainCtx.Done()?
    snapshot,    \* logLen, the lines still to read after mediaFuncEndChan
    call,        \* cr.CallIndex
    Logs,        \* cr.Logs
    logChan,
    media,       \* MediaFunc: "ended" is its message in mediaFuncEndChan
    cancelled,   \* is its context done?
    said,        \* said[c]: lines MediaFunc of call c has decided to log
    late,        \* lines of callbacks so far
    reporter,    \* does the goroutine reporting a caller's call run?
    writer,      \* a goroutine appending to cr.Logs, and what it has read
    report,      \* report[c]: the Logs in the report of call c
    direct       \* history: calls for which a writer ran

mediaVars == <<media, cancelled, said>>
writerVars == <<writer, direct>>
vars == <<role, pc, leaving, snapshot, call, Logs, logChan, mediaVars, late, reporter,
          writerVars, report>>

NoReport == <<[call |-> 0]>>
NoWriter == [call |-> 0, read |-> <<>>]

TypeOK ==
    /\ role \in {"uac", "uas"}
    /\ pc \in {"select", "waitMedia", "drain", "report", "exited"}
    /\ leaving \in BOOLEAN /\ cancelled \in BOOLEAN /\ reporter \in BOOLEAN
    /\ snapshot \in Nat /\ snapshot <= Len(logChan)
    /\ call \in 0 .. MaxCalls
    /\ Logs \in Seq(Line) /\ logChan \in Seq(Line)
    /\ Len(logChan) <= Capacity
    /\ media \in {"none", "work", "log", "ended"}
    /\ said \in [Calls -> 0 .. MaxLines]
    /\ late \in 0 .. MaxLate
    /\ writer \in [call : 0 .. MaxCalls, read : Seq(Line)]
    /\ report \in [Calls -> Seq(Line) \cup {NoReport}]
    /\ direct \subseteq Calls

Init ==
    /\ role \in {"uac", "uas"}
    /\ pc = "select" /\ leaving = FALSE /\ snapshot = 0
    /\ call = 0 /\ Logs = <<>> /\ logChan = <<>>
    /\ media = "none" /\ cancelled = FALSE
    /\ said = [c \in Calls |-> 0]
    /\ late = 0 /\ reporter = FALSE
    /\ writer = NoWriter /\ direct = {}
    /\ report = [c \in Calls |-> NoReport]

-----------------------------------------------------------------------------
(***************************************************************************)
(* The event loop.                                                         *)
(***************************************************************************)

\* A start command or an incoming call; main gives a caller no command before
\* it has the last report.
TakeCall ==
    /\ pc = "select" /\ media = "none" /\ ~reporter
    /\ call < MaxCalls
    /\ call' = call + 1
    /\ Logs' = <<>>
    /\ media' = "work" /\ cancelled' = FALSE
    /\ UNCHANGED <<pc, leaving, snapshot, logChan, said, late, reporter, writerVars, report>>

\* case log := <-logChan.
TakeLine ==
    /\ pc = "select"
    /\ logChan # <<>>
    /\ Logs' = Append(Logs, Head(logChan))
    /\ logChan' = Tail(logChan)
    /\ UNCHANGED <<pc, leaving, snapshot, call, mediaVars, late, reporter, writerVars, report>>

\* The call is over: mediaCancel(), then <-mediaFuncEndChan.
TerminatedThen(cancel) ==
    /\ pc = "select" /\ media # "none"
    /\ pc' = "waitMedia"
    /\ cancelled' = cancel
    /\ UNCHANGED <<leaving, snapshot, call, Logs, logChan, media, said, late, reporter,
                   writerVars, report>>

\* Mutant: the context is not cancelled.
TerminatedOnly == TerminatedThen(FALSE)

Terminated == TerminatedThen(TRUE)

\* case <-mainCtx.Done(): the call in progress is not reported.
Leave ==
    /\ pc = "select"
    /\ leaving' = TRUE
    /\ pc' = IF media = "none" THEN "exited" ELSE "waitMedia"
    /\ cancelled' = TRUE
    /\ UNCHANGED <<snapshot, call, Logs, logChan, media, said, late, reporter,
                   writerVars, report>>

MediaEndedWith(lines) ==
    /\ pc = "waitMedia" /\ media = "ended"
    /\ media' = "none"
    /\ snapshot' = lines
    /\ pc' = "drain"
    /\ UNCHANGED <<leaving, call, Logs, logChan, cancelled, said, late, reporter,
                   writerVars, report>>

\* Mutants: the channel is not emptied; one line more is expected.
MediaEndedUndrained == MediaEndedWith(0)
MediaEndedOneMore == MediaEndedWith(Len(logChan) + 1)

MediaEnded == MediaEndedWith(Len(logChan))

\* for logLen := len(logChan); logLen > 0; logLen-- { log := <-logChan ... }
Drain ==
    /\ pc = "drain" /\ snapshot > 0
    /\ snapshot' = snapshot - 1
    /\ Logs' = Append(Logs, Head(logChan))
    /\ logChan' = Tail(logChan)
    /\ UNCHANGED <<pc, leaving, call, mediaVars, late, reporter, writerVars, report>>

\* A caller's report is left to a goroutine, a callee's is sent at once.
Drained ==
    /\ pc = "drain" /\ snapshot = 0
    /\ pc' = IF leaving THEN "exited" ELSE IF role = "uac" THEN "select" ELSE "report"
    /\ reporter' = (~leaving /\ role = "uac")
    /\ UNCHANGED <<leaving, snapshot, call, Logs, logChan, mediaVars, late, writerVars, report>>

LoopReports ==
    /\ pc = "report"
    /\ pc' = "select"
    /\ report' = [report EXCEPT ![call] = Logs]
    /\ UNCHANGED <<leaving, snapshot, call, Logs, logChan, mediaVars, late, reporter, writerVars>>

\* callEndChan <- cr copies cr as it is by then.
Reporter ==
    /\ reporter
    /\ reporter' = FALSE
    /\ report' = [report EXCEPT ![call] = Logs]
    /\ UNCHANGED <<pc, leaving, snapshot, call, Logs, logChan, mediaVars, late, writerVars>>

Loop ==
    \/ TakeCall \/ TakeLine \/ Terminated \/ Leave
    \/ MediaEnded \/ Drain \/ Drained \/ LoopReports

-----------------------------------------------------------------------------
(***************************************************************************)
(* MediaFunc's logHelper.                                                  *)
(***************************************************************************)

\* Mutant: a channel shorter by one.
ShorterChan == Len(logChan) + 1 < Capacity

HasRoom == Len(logChan) < Capacity

Send(kind, c, no) ==
    logChan' = Append(logChan, [call |-> c, kind |-> kind, no |-> no])

\* One of the goroutines has something to log: from here on it is in the send.
MediaWantsToLog ==
    /\ media = "work"
    /\ said[call] < MaxLines
    /\ said' = [said EXCEPT ![call] = @ + 1]
    /\ media' = "log"
    /\ UNCHANGED <<logChan, cancelled>>

MediaLogs ==
    /\ media = "log"
    /\ HasRoom
    /\ Send("media", call, said[call])
    /\ media' = "work"
    /\ UNCHANGED <<cancelled, said>>

\* It ends when it is cancelled, or because something failed.
MediaReturns ==
    /\ media = "work"
    /\ media' = "ended"
    /\ UNCHANGED <<logChan, cancelled, said>>

Media ==
    /\ MediaWantsToLog \/ MediaLogs \/ MediaReturns
    /\ UNCHANGED <<pc, leaving, snapshot, call, Logs, late, reporter, writerVars, report>>

\* A callback of the peer connection of this or an earlier call.
CallbackLogs(c) ==
    /\ c <= call /\ late < MaxLate
    /\ HasRoom
    /\ Send("late", c, late)
    /\ late' = late + 1
    /\ UNCHANGED <<pc, leaving, snapshot, call, Logs, mediaVars, reporter, writerVars, report>>

-----------------------------------------------------------------------------
(***************************************************************************)
(* cr.Logs is appended to without a lock, not only by the loop: the        *)
(* goroutine that called MediaFunc logs the error it returned, after the   *)
(* end message, and a handler logs that the call failed.                   *)
(***************************************************************************)

DirectReads(c) ==
    /\ c \in 1 .. call
    /\ c \notin direct /\ writer = NoWriter
    /\ writer' = [call |-> c, read |-> Logs]
    /\ direct' = direct \cup {c}
    /\ UNCHANGED <<pc, leaving, snapshot, call, Logs, logChan, mediaVars, late, reporter, report>>

\* What was appended meanwhile is lost, or this line is, overwritten by an
\* append that had read cr.Logs before.
DirectWrites ==
    /\ writer # NoWriter
    /\ \/ Logs' = Append(writer.read, [call |-> writer.call, kind |-> "direct", no |-> 0])
       \/ UNCHANGED Logs
    /\ writer' = NoWriter
    /\ UNCHANGED <<pc, leaving, snapshot, call, logChan, mediaVars, late, reporter, report,
                   direct>>

-----------------------------------------------------------------------------
Done ==
    /\ pc = "exited" /\ media = "none"
    /\ UNCHANGED vars

Next ==
    /\ UNCHANGED role
    /\ \/ Loop \/ Reporter \/ Media
       \/ \E c \in Calls : CallbackLogs(c) \/ DirectReads(c)
       \/ DirectWrites
       \/ Done

Spec == Init /\ [][Next]_vars

\* The loop and the goroutines run, and a cancelled MediaFunc returns.
FairSpec ==
    /\ Spec
    /\ WF_vars(Loop /\ UNCHANGED role)
    /\ WF_vars(Reporter /\ UNCHANGED role)
    /\ WF_vars(MediaLogs /\ Media /\ UNCHANGED role)
    /\ WF_vars(cancelled /\ MediaReturns /\ Media /\ UNCHANGED role)

-----------------------------------------------------------------------------
\* The media lines among these are lines 1 .. m of call c, in this order.
MediaLinesAre(lines, c, m) ==
    /\ \A k \in DOMAIN lines : lines[k].kind = "media" =>
          lines[k].call = c /\ lines[k].no \in 1 .. m
    /\ \A n \in 1 .. m : \E k \in DOMAIN lines : lines[k].kind = "media" /\ lines[k].no = n
    /\ \A j, k \in DOMAIN lines :
          j < k /\ lines[j].kind = "media" /\ lines[k].kind = "media" =>
              lines[j].no < lines[k].no

\* The report of a call holds every line its MediaFunc logged, in order and
\* nobody else's, unless a goroutine appended to cr.Logs on its own: the end
\* message comes after the last line, and the loop empties logChan before it
\* reports (ua.go:359).
CompleteLog ==
    \A c \in Calls :
        report[c] # NoReport /\ direct \cap (1 .. c) = {} =>
            MediaLinesAre(report[c], c, said[c])

\* When logChan holds the lines of one call and all late ones, a goroutine of
\* MediaFunc never waits for room while the loop waits for MediaFunc
\* (ua.go:211 and 358): neither could go on.
Fits == MaxLines + MaxLate <= Capacity

NoStuck == Fits /\ pc = "waitMedia" /\ media = "log" => HasRoom

\* The loop does not wait for MediaFunc for ever.
WaitEnds == pc = "waitMedia" ~> pc \in {"select", "exited"}
=============================================================================
