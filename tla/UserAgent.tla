------------------------------ MODULE UserAgent ------------------------------
(***************************************************************************)
(* One user agent: the function UA of sip/ua.go in either role.            *)
(*                                                                         *)
(* Concurrent processes: the event loop, the InviteStateHandler calls that *)
(* the SIP stack makes in goroutines of its own, the goroutine running     *)
(* rtc.MediaFunc, the goroutine that reports a caller's finished call, and *)
(* the environment (SIP stack with the remote party, main).                *)
(*                                                                         *)
(* A session is a number.  A caller's k-th call makes session k; sessions  *)
(* above MaxCalls are incoming.  An SDP is represented by the session it   *)
(* belongs to, and its type follows from the role: a caller is sent        *)
(* answers and makes offers, a callee the reverse.  A buffered channel of  *)
(* capacity one is a field of chan that is 0 when the channel is empty.    *)
(***************************************************************************)
EXTENDS Integers, Sequences, FiniteSets

CONSTANTS
    Role,                \* cp.Role
    MaxConcurrentCalls,  \* capacity of callEndChan
    MaxCalls,            \* bound: start commands given (0 for a callee)
    MaxIncoming,         \* bound: incoming INVITEs
    Envs                 \* the environments there may be, one of which is chosen

\* What may happen around the agent.
Env ==
    [HasDuration : BOOLEAN,     \* cp.CallDuration > 0
     AuthChallenge : BOOLEAN,   \* does the server challenge INVITEs (401/407)?
     StartMayFail : BOOLEAN,    \* may listening or registering fail?
     InviteMayFail : BOOLEAN,   \* may ua.Invite return no session?
     MediaMayFail : BOOLEAN,    \* may MediaFunc end with an error?
     Cancels : BOOLEAN,         \* may the remote party CANCEL?
     RacingEnds : BOOLEAN,      \* may the end of a call race with other SIP events?
     invites : 0 .. MaxIncoming] \* incoming INVITEs

ASSUME UAAssumption ==
    /\ Role \in {"uac", "uas"}
    /\ MaxConcurrentCalls \in Nat \ {0}
    /\ MaxCalls \in Nat /\ MaxIncoming \in Nat
    /\ Role = "uas" => MaxCalls = 0
    /\ Envs \subseteq Env

Outgoing == 1 .. MaxCalls
Incoming == (MaxCalls + 1) .. (MaxCalls + MaxIncoming)
Sessions == Outgoing \cup Incoming
None == 0
SessionOrNone == Sessions \cup {None}

VARIABLES
    env,           \* the environment, which does not change
    ua,            \* the event loop's position and locals
    cr,            \* the call report being filled in, shared with the handlers
    chan,          \* the channels of capacity one
    callEndChan,   \* the channel of reports to main
    mf,            \* MediaFunc: its position, context and remote SDP
    status,        \* status[s]: the SIP stack's view of session s
    cancels,       \* sessions with a CANCEL waiting in the transaction
    handlers,      \* InviteStateHandler calls in progress
    mainDone,      \* has mainCtx been cancelled?
    started,       \* start commands main has given
    inCall,        \* main's inCall[n]: is a call of this agent unreported?
    outcome,       \* history: how session s really ended
    answered,      \* history: session whose offer the 200 to s answers
    reported       \* history: how many reports named session s

chanVars  == <<chan, callEndChan>>
sipVars   == <<status, cancels, handlers>>
mainVars  == <<mainDone, started, inCall>>
ghostVars == <<outcome, answered, reported>>
vars == <<env, ua, cr, chanVars, mf, sipVars, mainVars, ghostVars>>

Results == {"Successful", "Failed", ""}
Reports == [CallIndex : Nat, CallID : SessionOrNone, CallResult : Results]
NoReport == [CallIndex |-> 0, CallID |-> None, CallResult |-> ""]

UATypes ==
    [pc : {"starting", "select", "invite", "waitMedia", "wrapup", "report",
           "leave", "join", "exited"},
     currentSession : SessionOrNone,
     mediaCancel : BOOLEAN,      \* are mediaCtx and mediaCancel set?
     timer : SessionOrNone,      \* session whose confirmation set callDurationCtx
     hangupByMe : BOOLEAN,
     sending : Reports,          \* callee: the report the loop is sending
     reporter : BOOLEAN,         \* caller: does the reporting goroutine run?
     uasCallIndex : 0 .. MaxIncoming]

ChanTypes ==
    [startCall : 0 .. MaxCalls,
     sdpToMedia : SessionOrNone, sdpFromMedia : SessionOrNone,
     callConfirmed : SessionOrNone, callReceived : SessionOrNone,
     callTerminated : SessionOrNone,
     mediaFuncEnd : BOOLEAN]

MediaTypes ==
    [at : {"none", "waitOffer", "gather", "sendSdp", "waitAnswer", "run", "exit"},
     call : SessionOrNone,       \* the call it was started for
     cancelled : BOOLEAN,        \* was mediaCancel() called?
     remoteSdp : SessionOrNone]  \* session of the remote SDP it applied

Handlers ==
    [kind : {"received", "confirmed", "ended"}, sess : Sessions,
     at : {"load", "sdp", "write", "notify"}, again : BOOLEAN, result : Results]

TypeOK ==
    /\ env \in Envs
    /\ ua \in UATypes
    /\ cr \in Reports
    /\ chan \in ChanTypes
    /\ callEndChan \in Seq(Reports) /\ Len(callEndChan) <= MaxConcurrentCalls
    /\ mf \in MediaTypes
    /\ status \in [Sessions -> {"new", "sent", "received", "answered", "confirmed",
                                "bye", "rejected", "over"}]
    /\ cancels \subseteq Incoming
    /\ handlers \subseteq Handlers
    /\ mainDone \in BOOLEAN
    /\ started \in 0 .. MaxCalls
    /\ inCall \in BOOLEAN
    /\ outcome \in [Sessions -> Results]
    /\ answered \in [Sessions -> SessionOrNone]
    /\ reported \in [Sessions -> 0 .. 1]

Init ==
    /\ env \in Envs
    /\ ua = [pc |-> "starting", currentSession |-> None, mediaCancel |-> FALSE,
             timer |-> None, hangupByMe |-> FALSE, sending |-> NoReport,
             reporter |-> FALSE, uasCallIndex |-> 0]
    /\ cr = NoReport
    /\ chan = [startCall |-> 0, sdpToMedia |-> None, sdpFromMedia |-> None,
               callConfirmed |-> None, callReceived |-> None,
               callTerminated |-> None, mediaFuncEnd |-> FALSE]
    /\ callEndChan = <<>>
    /\ mf = [at |-> "none", call |-> None, cancelled |-> FALSE, remoteSdp |-> None]
    /\ status = [s \in Sessions |-> "new"]
    /\ cancels = {}
    /\ handlers = {}
    /\ mainDone = FALSE
    /\ started = 0
    /\ inCall = FALSE
    /\ outcome = [s \in Sessions |-> ""]
    /\ answered = [s \in Sessions |-> None]
    /\ reported = [s \in Sessions |-> 0]

-----------------------------------------------------------------------------
(***************************************************************************)
(* The SIP stack and the remote party (external).                          *)
(***************************************************************************)

StackUp == ua.pc \notin {"starting", "exited"}

\* A session that is in the stack's table.
Alive(s) == status[s] \notin {"new", "over"}

\* Session.End(): an INVITE not yet answered by us is declined, an answered
\* one is ended with BYE.  The CANCEL of an INVITE we sent leaves the session
\* as it is until the final response, and an ended session is left alone.
EndSession(s) ==
    /\ status' = [status EXCEPT ![s] = CASE @ = "received" -> "rejected"
                                         [] @ \in {"answered", "confirmed"} -> "bye"
                                         [] OTHER -> @]
    /\ outcome' = [outcome EXCEPT ![s] = IF status[s] = "received" THEN "Failed" ELSE @]

Invoke(kind, s, at, again, result) ==
    handlers' = handlers \cup {[kind |-> kind, sess |-> s, at |-> at,
                                again |-> again, result |-> result]}

\* A handler that cannot go on until somebody reads sdpToMediaChan.
Blocked(h) == h.at = "sdp" /\ chan.sdpToMedia # None

\* Without RacingEnds a call ends only when earlier events are through.
Quiet ==
    \/ env.RacingEnds
    \/ /\ \A h \in handlers : h.kind \in {"received", "confirmed"} => Blocked(h)
       /\ chan.callConfirmed = None /\ chan.callReceived = None
       /\ mf.at # "waitOffer"
       /\ ~(mf.at = "waitAnswer" /\ chan.sdpToMedia # None)

\* The session leaves the stack's table, so this happens to it once.  When it
\* happens before ua.Invite looks the session up, Invite finds none.
Over(s, result) ==
    /\ ua.pc = "invite" /\ s = cr.CallIndex => env.InviteMayFail
    /\ status' = [status EXCEPT ![s] = "over"]
    /\ outcome' = [outcome EXCEPT ![s] = IF @ = "" THEN result ELSE @]
    /\ Invoke("ended", s, "write", FALSE, result)
    /\ UNCHANGED <<cancels, answered, reported>>

\* A live session changes its state and the handler is called.
Turns(s, to, at, again) ==
    /\ status' = [status EXCEPT ![s] = to]
    /\ Invoke(IF to = "received" THEN "received" ELSE "confirmed", s, at, again, "")
    /\ UNCHANGED <<cancels, ghostVars>>

\* 200 to our INVITE.  An authenticated INVITE is answered to two nested
\* request calls, and each of them reports the session as confirmed.
CallAnswered(s) == status[s] = "sent" /\ Turns(s, "confirmed", "sdp", env.AuthChallenge)

\* A final response other than 200, or none, to our INVITE.
CallFailed(s) == status[s] = "sent" /\ Over(s, "Failed")

\* BYE from the remote party.
ByeReceived(s) ==
    /\ Quiet
    /\ status[s] \in {"confirmed", "bye"} \/ (env.RacingEnds /\ status[s] = "answered")
    /\ Over(s, "Successful")

\* The response to our BYE, or none.
ByeAnswered(s) ==
    /\ Quiet
    /\ status[s] = "bye"
    /\ \E result \in {"Successful", "Failed"} : Over(s, result)

\* Without RacingEnds an INVITE arrives when no call is being set up or
\* ended: the agent is idle, or its call is established.
Settled ==
    /\ ua.pc = "select"
    /\ chan.callTerminated = None
    /\ \A h \in handlers : h.kind # "ended"
    /\ \A r \in Sessions : status[r] # "bye"
    /\ \/ ua.currentSession = None /\ handlers = {} /\ chan.callReceived = None
       \/ ua.currentSession # None /\ mf.at = "run"

InviteReceived(s) ==
    /\ s \in Incoming /\ s - MaxCalls <= env.invites
    /\ status[s] = "new"
    /\ \A r \in Incoming : r < s => status[r] # "new"
    /\ env.RacingEnds \/ Settled
    /\ Turns(s, "received", "sdp", FALSE)

\* A CANCEL reaches the server transaction of an INVITE not yet answered.
CancelArrives(s) ==
    /\ env.Cancels
    /\ status[s] = "received"
    /\ cancels' = cancels \cup {s}
    /\ UNCHANGED <<status, handlers, ghostVars>>

\* The goroutine that reads the CANCEL starts when the handler of the INVITE
\* has returned.
CancelProcessed(s) ==
    /\ s \in cancels
    /\ Alive(s)
    /\ \A h \in handlers : ~(h.kind = "received" /\ h.sess = s)
    /\ Over(s, "Successful")

\* ACK to our 200.
AckReceived(s) == status[s] = "answered" /\ Turns(s, "confirmed", "notify", FALSE)

Stack(s) ==
    /\ StackUp
    /\ \/ CallAnswered(s) \/ CallFailed(s) \/ ByeReceived(s) \/ ByeAnswered(s)
       \/ InviteReceived(s) \/ CancelArrives(s) \/ CancelProcessed(s) \/ AckReceived(s)
    /\ UNCHANGED <<ua, cr, chanVars, mf, mainVars>>

-----------------------------------------------------------------------------
(***************************************************************************)
(* InviteStateHandler.                                                     *)
(***************************************************************************)

Advance(h, at) == handlers' = (handlers \ {h}) \cup {[h EXCEPT !.at = at]}
Return(h) == handlers' = handlers \ {h}

\* InviteReceived at a callee and Confirmed at a caller: the remote SDP goes
\* to MediaFunc first.
HandleSdp(h) ==
    /\ h.at = "sdp"
    /\ h.kind = "received" => Role = "uas"
    /\ chan.sdpToMedia = None
    /\ chan' = [chan EXCEPT !.sdpToMedia = h.sess]
    /\ Advance(h, "notify")
    /\ UNCHANGED <<cr, status, outcome>>

\* "uac rejects incoming call to keep logic sanity".
HandleUnwanted(h) ==
    /\ h.kind = "received"
    /\ Role = "uac"
    /\ EndSession(h.sess)
    /\ Return(h)
    /\ UNCHANGED <<cr, chan>>

\* Then the loop is told.
NotifyReceived(h) ==
    /\ h.kind = "received" /\ h.at = "notify"
    /\ chan.callReceived = None
    /\ chan' = [chan EXCEPT !.callReceived = h.sess]
    /\ Return(h)
    /\ UNCHANGED <<cr, status, outcome>>

NotifyConfirmed(h) ==
    /\ h.kind = "confirmed" /\ h.at = "notify"
    /\ chan.callConfirmed = None
    /\ chan' = [chan EXCEPT !.callConfirmed = h.sess]
    /\ IF h.again THEN Advance(h, "load") ELSE Return(h)
    /\ UNCHANGED <<cr, status, outcome>>

\* The outer request call gets the same 200 and looks the session up again.
ConfirmedAgain(h) ==
    /\ h.kind = "confirmed" /\ h.at = "load"
    /\ handlers' = (handlers \ {h}) \cup
                     (IF Alive(h.sess) THEN {[h EXCEPT !.at = "sdp", !.again = FALSE]} ELSE {})
    /\ UNCHANGED <<cr, chan, status, outcome>>

\* Canceled, Failure or Terminated: the result is written into cr at once,
\* whichever session it is about.
WriteResult(h, result) ==
    /\ h.kind = "ended" /\ h.at = "write"
    /\ cr' = [cr EXCEPT !.CallResult = result]
    /\ Advance(h, "notify")
    /\ UNCHANGED <<chan, status, outcome>>

\* Mutant: Failure is not told from the other two.
HandleEndedWell(h) == WriteResult(h, "Successful")

HandleEnded(h) == WriteResult(h, h.result)

NotifyEnded(h) ==
    /\ h.kind = "ended" /\ h.at = "notify"
    /\ chan.callTerminated = None
    /\ chan' = [chan EXCEPT !.callTerminated = h.sess]
    /\ Return(h)
    /\ UNCHANGED <<cr, status, outcome>>

HandlerStep ==
    /\ \E h \in handlers :
          \/ HandleSdp(h) \/ HandleUnwanted(h) \/ NotifyReceived(h) \/ NotifyConfirmed(h)
          \/ ConfirmedAgain(h) \/ HandleEnded(h) \/ NotifyEnded(h)
    /\ UNCHANGED <<ua, callEndChan, mf, cancels, mainVars, answered, reported>>

-----------------------------------------------------------------------------
(***************************************************************************)
(* The event loop.                                                         *)
(***************************************************************************)

Goto(pc) == ua' = [ua EXCEPT !.pc = pc]

Registered ==
    /\ ua.pc = "starting"
    /\ Goto("select")
    /\ UNCHANGED <<cr, chanVars, mf, status, ghostVars>>

StartFails ==
    /\ env.StartMayFail
    /\ ua.pc = "starting"
    /\ Goto("exited")
    /\ UNCHANGED <<cr, chanVars, mf, status, ghostVars>>

\* wg.Add(1) and go func() { ... }: the goroutine of MediaFunc is created.
StartMedia(c) ==
    mf' = [at |-> IF Role = "uac" THEN "gather" ELSE "waitOffer",
           call |-> c, cancelled |-> FALSE, remoteSdp |-> None]

\* case callIndex := <-startCallChan; the guard's branch only logs.
TakeCall ==
    /\ ua.pc = "select"
    /\ chan.startCall # 0
    /\ chan' = [chan EXCEPT !.startCall = 0]
    /\ IF ua.currentSession # None \/ ua.mediaCancel
       THEN UNCHANGED <<ua, cr, mf>>
       ELSE /\ cr' = [NoReport EXCEPT !.CallIndex = chan.startCall]
            /\ ua' = [ua EXCEPT !.mediaCancel = TRUE]
            /\ StartMedia(chan.startCall)
    /\ UNCHANGED <<callEndChan, status, ghostVars>>

\* case sdp := <-sdpFromMediaChan with an offer: ua.Invite puts the session
\* into the stack's table and returns without waiting for a response.
SendInvite ==
    /\ ua.pc = "select"
    /\ Role = "uac"
    /\ chan.sdpFromMedia # None
    /\ chan' = [chan EXCEPT !.sdpFromMedia = None]
    /\ status' = [status EXCEPT ![cr.CallIndex] = "sent"]
    /\ Goto("invite")
    /\ UNCHANGED <<cr, callEndChan, mf, ghostVars>>

\* The request cannot be sent: Invite returns nil ("TODO: error handling").
InviteError ==
    /\ env.InviteMayFail
    /\ ua.pc = "select"
    /\ Role = "uac"
    /\ chan.sdpFromMedia # None
    /\ chan' = [chan EXCEPT !.sdpFromMedia = None]
    /\ ua' = [ua EXCEPT !.currentSession = None]
    /\ UNCHANGED <<cr, callEndChan, mf, status, ghostVars>>

\* Invite returns what it finds in the table.
InviteReturns ==
    /\ ua.pc = "invite"
    /\ LET found == Alive(cr.CallIndex) IN
       /\ ua' = [ua EXCEPT !.pc = "select",
                           !.currentSession = IF found THEN cr.CallIndex ELSE None]
       /\ cr' = [cr EXCEPT !.CallID = IF found THEN cr.CallIndex ELSE @]
    /\ UNCHANGED <<chanVars, mf, status, ghostVars>>

\* case sdp := <-sdpFromMediaChan with an answer: it is given to whatever
\* session is current, and dropped when there is none.
SendAnswer ==
    /\ ua.pc = "select"
    /\ Role = "uas"
    /\ chan.sdpFromMedia # None
    /\ chan' = [chan EXCEPT !.sdpFromMedia = None]
    /\ IF ua.currentSession # None
       THEN /\ answered' = [answered EXCEPT ![ua.currentSession] = chan.sdpFromMedia]
            /\ status' = [status EXCEPT ![ua.currentSession] =
                                IF @ = "received" THEN "answered" ELSE @]
       ELSE UNCHANGED <<answered, status>>
    /\ UNCHANGED <<ua, cr, callEndChan, mf, outcome, reported>>

\* case <-callConfirmedChan: the first confirmation sets the timer; which
\* session was confirmed is not looked at.
ConfirmedWith(duration) ==
    /\ ua.pc = "select"
    /\ chan.callConfirmed # None
    /\ chan' = [chan EXCEPT !.callConfirmed = None]
    /\ ua' = [ua EXCEPT !.timer = IF duration /\ @ = None THEN chan.callConfirmed ELSE @]
    /\ UNCHANGED <<cr, callEndChan, mf, status, ghostVars>>

\* Mutant: no timer is created.
ConfirmedOnly == ConfirmedWith(FALSE)

Confirmed == ConfirmedWith(env.HasDuration)

\* case sess := <-callReceivedChan while on a call: the new call is declined
\* and reported as failed.
RejectBusyAs(result, kept) ==
    /\ ua.pc = "select"
    /\ chan.callReceived # None
    /\ ua.currentSession # None
    /\ chan' = [chan EXCEPT !.callReceived = None]
    /\ LET callIndex == ua.uasCallIndex + 1
           newcr == [CallIndex |-> callIndex, CallID |-> chan.callReceived,
                     CallResult |-> result]
       IN IF ua.currentSession = chan.callReceived
             THEN /\ ua' = [ua EXCEPT !.uasCallIndex = callIndex]
                  /\ UNCHANGED <<status, outcome>>
             ELSE /\ ua' = [ua EXCEPT !.uasCallIndex = callIndex, !.sending = newcr,
                                      !.currentSession = kept, !.pc = "report"]
                  /\ EndSession(chan.callReceived)
    /\ UNCHANGED <<cr, callEndChan, mf, answered, reported>>

\* Mutants: newcr keeps the result of the cr it is a copy of; currentSession
\* is set before the check.
RejectBusyCopied   == RejectBusyAs(cr.CallResult, ua.currentSession)
RejectBusySwitches == RejectBusyAs("Failed", chan.callReceived)

RejectBusy == RejectBusyAs("Failed", ua.currentSession)

\* The same while idle: the call is taken.
AcceptCall ==
    /\ ua.pc = "select"
    /\ chan.callReceived # None
    /\ ua.currentSession = None
    /\ chan' = [chan EXCEPT !.callReceived = None]
    /\ cr' = [CallIndex |-> ua.uasCallIndex + 1, CallID |-> chan.callReceived,
              CallResult |-> ""]
    /\ ua' = [ua EXCEPT !.uasCallIndex = @ + 1, !.currentSession = chan.callReceived,
                        !.mediaCancel = TRUE]
    /\ StartMedia(chan.callReceived)
    /\ UNCHANGED <<callEndChan, status, ghostVars>>

\* Mutant: every end is ignored.
IgnoreTerminatedAll ==
    /\ ua.pc = "select"
    /\ chan.callTerminated # None
    /\ chan' = [chan EXCEPT !.callTerminated = None]
    /\ UNCHANGED <<ua, cr, callEndChan, mf, status, ghostVars>>

\* case sess := <-callTerminatedChan with no current session or another one.
IgnoreTerminated ==
    /\ ua.pc = "select"
    /\ chan.callTerminated # None
    /\ ua.currentSession # chan.callTerminated
    /\ chan' = [chan EXCEPT !.callTerminated = None]
    /\ UNCHANGED <<ua, cr, callEndChan, mf, status, ghostVars>>

\* The current call is over: MediaFunc is cancelled, and the loop blocks in
\* <-mediaFuncEndChan.
TerminatedThen(pc) ==
    /\ ua.pc = "select"
    /\ chan.callTerminated # None
    /\ ua.currentSession = chan.callTerminated
    /\ chan' = [chan EXCEPT !.callTerminated = None]
    /\ ua' = [ua EXCEPT !.currentSession = None, !.pc = pc]
    /\ mf' = [mf EXCEPT !.cancelled = @ \/ ua.mediaCancel]
    /\ UNCHANGED <<cr, callEndChan, status, ghostVars>>

\* Mutant: the loop does not wait for MediaFunc.
TerminatedAtOnce == TerminatedThen("wrapup")

Terminated == TerminatedThen(IF ua.mediaCancel THEN "waitMedia" ELSE "wrapup")

\* MediaFunc has ended.  What is in sdpToMediaChan is thrown away; a handler
\* blocked on the channel can then put its SDP into it.
MediaEndedLeaving(sdp) ==
    /\ ua.pc = "waitMedia"
    /\ chan.mediaFuncEnd
    /\ chan' = [chan EXCEPT !.mediaFuncEnd = FALSE, !.sdpToMedia = sdp]
    /\ ua' = [ua EXCEPT !.mediaCancel = FALSE, !.pc = "wrapup"]
    /\ UNCHANGED <<cr, callEndChan, mf, status, ghostVars>>

\* Mutant: sdpToMediaChan is not cleared.
MediaEndedKeepsSdp == MediaEndedLeaving(chan.sdpToMedia)

MediaEnded == MediaEndedLeaving(None)

\* The duration timer is cancelled and the call is reported: by a goroutine
\* at a caller, by the loop itself at a callee.
WrapUp ==
    /\ ua.pc = "wrapup"
    /\ ua' = IF Role = "uac"
             THEN [ua EXCEPT !.timer = None, !.reporter = TRUE, !.pc = "select"]
             ELSE [ua EXCEPT !.timer = None, !.sending = cr, !.pc = "report"]
    /\ UNCHANGED <<cr, chanVars, mf, status, ghostVars>>

\* callEndChan <- r, which waits for room.
Put(r) ==
    /\ Len(callEndChan) < MaxConcurrentCalls
    /\ callEndChan' = Append(callEndChan, r)
    /\ reported' = [s \in Sessions |-> IF s = r.CallID THEN reported[s] + 1 ELSE reported[s]]

LoopReports ==
    /\ ua.pc = "report"
    /\ Put(ua.sending)
    /\ ua' = [ua EXCEPT !.sending = NoReport, !.pc = "select"]
    /\ UNCHANGED <<cr, chan, mf, status, outcome, answered>>

\* case <-callDurationCtx.Done(): by timeout, or because mainCtx is done.
TimerFires ==
    /\ ua.pc = "select"
    /\ ua.timer # None
    /\ IF ua.currentSession # None
       THEN /\ EndSession(ua.currentSession)
            /\ ua' = [ua EXCEPT !.timer = None, !.hangupByMe = TRUE]
       ELSE /\ UNCHANGED <<status, outcome>>
            /\ ua' = [ua EXCEPT !.timer = None]
    /\ UNCHANGED <<cr, chanVars, mf, answered, reported>>

\* case <-mainCtx.Done().
Leave ==
    /\ ua.pc = "select"
    /\ mainDone
    /\ IF ua.currentSession # None THEN EndSession(ua.currentSession)
                                   ELSE UNCHANGED <<status, outcome>>
    /\ mf' = [mf EXCEPT !.cancelled = @ \/ ua.mediaCancel]
    /\ ua' = [ua EXCEPT !.timer = None, !.pc = IF ua.mediaCancel THEN "leave" ELSE "join"]
    /\ UNCHANGED <<cr, chanVars, answered, reported>>

MediaLeft ==
    /\ ua.pc = "leave"
    /\ chan.mediaFuncEnd
    /\ chan' = [chan EXCEPT !.mediaFuncEnd = FALSE]
    /\ Goto("join")
    /\ UNCHANGED <<cr, callEndChan, mf, status, ghostVars>>

\* wg.Wait(): MediaFunc and the reporting goroutine are over (handlers are
\* goroutines of the stack and not waited for).
Exit ==
    /\ ua.pc = "join"
    /\ ~ua.reporter
    /\ mf.at = "none"
    /\ Goto("exited")
    /\ UNCHANGED <<cr, chanVars, mf, status, ghostVars>>

Loop ==
    /\ \/ Registered \/ StartFails \/ TakeCall \/ SendInvite \/ InviteError \/ InviteReturns
       \/ SendAnswer \/ Confirmed \/ RejectBusy \/ AcceptCall \/ IgnoreTerminated
       \/ Terminated \/ MediaEnded \/ WrapUp \/ LoopReports \/ TimerFires
       \/ Leave \/ MediaLeft \/ Exit
    /\ UNCHANGED <<cancels, handlers, mainVars>>

\* Mutant: the report may be sent again.
ReporterAgain ==
    /\ ua.reporter
    /\ Put(cr)
    /\ UNCHANGED <<ua, cr, chan, mf, sipVars, mainVars, outcome, answered>>

\* The goroutine that reports a caller's call, after five seconds when we
\* hung up.  It sends cr as it is by then.
Reporter ==
    /\ ua.reporter
    /\ Put(cr)
    /\ ua' = [ua EXCEPT !.reporter = FALSE, !.hangupByMe = FALSE]
    /\ UNCHANGED <<cr, chan, mf, sipVars, mainVars, outcome, answered>>

-----------------------------------------------------------------------------
(***************************************************************************)
(* MediaFunc, as far as its context and channels go.                       *)
(***************************************************************************)

\* A callee's MediaFunc gets the offer, a caller's the answer.
MediaGetsSdp ==
    /\ mf.at \in {"waitOffer", "waitAnswer"}
    /\ chan.sdpToMedia # None
    /\ mf' = [mf EXCEPT !.at = IF @ = "waitOffer" THEN "gather" ELSE "run",
                        !.remoteSdp = chan.sdpToMedia]
    /\ chan' = [chan EXCEPT !.sdpToMedia = None]

\* ICE gathering is complete or five seconds have passed.  iceCtx is derived
\* from mediaCtx, so the select may take this case after a cancellation too.
MediaGathered ==
    /\ mf.at = "gather"
    /\ mf' = [mf EXCEPT !.at = "sendSdp"]
    /\ UNCHANGED chan

\* sdpToUAChan <- ... is not part of a select: it waits for room, cancelled
\* or not.
MediaSendsSdp ==
    /\ mf.at = "sendSdp"
    /\ chan.sdpFromMedia = None
    /\ chan' = [chan EXCEPT !.sdpFromMedia = IF Role = "uac" THEN mf.call ELSE mf.remoteSdp]
    /\ mf' = [mf EXCEPT !.at = IF Role = "uac" THEN "waitAnswer" ELSE "run"]

\* mediaCtx is derived from mainCtx.
MediaCancelled ==
    /\ mf.cancelled \/ mainDone
    /\ mf.at \in {"waitOffer", "gather", "waitAnswer", "run"}
    /\ mf' = [mf EXCEPT !.at = "exit"]
    /\ UNCHANGED chan

\* A step of the set-up fails, or the peer connection does.
MediaFailsTo(at) ==
    /\ env.MediaMayFail
    /\ mf.at \in {"gather", "waitAnswer", "run"}
    /\ mf' = [mf EXCEPT !.at = at]
    /\ UNCHANGED chan

\* Mutant: the failing return does not tell the loop.
MediaFailsSilently == MediaFailsTo("none")

MediaFails == MediaFailsTo("exit")

\* doNotifyMediaFuncExit: the last thing MediaFunc does.
MediaExits ==
    /\ mf.at = "exit"
    /\ ~chan.mediaFuncEnd
    /\ chan' = [chan EXCEPT !.mediaFuncEnd = TRUE]
    /\ mf' = [mf EXCEPT !.at = "none", !.call = None, !.remoteSdp = None]

Media ==
    /\ \/ MediaGetsSdp \/ MediaGathered \/ MediaSendsSdp \/ MediaCancelled
       \/ MediaFails \/ MediaExits
    /\ UNCHANGED <<ua, cr, callEndChan, sipVars, mainVars, ghostVars>>

-----------------------------------------------------------------------------
(***************************************************************************)
(* The contract with main: CallSlots, seen through the agent's variables.  *)
(* A call is in the agent from the moment it takes the command until the   *)
(* reporting goroutine starts, and nothing is left of it once the loop has *)
(* seen mainCtx.Done().                                                    *)
(***************************************************************************)

SlotPhase ==
    CASE ua.pc = "starting" -> "starting"
      [] ua.pc \in {"leave", "join"} -> "exiting"
      [] ua.pc = "exited" -> "exited"
      [] OTHER -> "loop"

InCall == SlotPhase = "loop" /\ (ua.mediaCancel \/ ua.pc = "wrapup")

\* The agent is number 0; the others do nothing.
Agent0(x, idle) == [n \in 0 .. (MaxConcurrentCalls - 1) |-> IF n = 0 THEN x ELSE idle]

Slot == INSTANCE CallSlots WITH
    StartMayFail  <- \E e \in Envs : e.StartMayFail,
    phase         <- Agent0(SlotPhase, "starting"),
    startCallChan <- Agent0(chan.startCall, 0),
    call          <- Agent0(IF InCall THEN cr.CallIndex ELSE 0, 0),
    report        <- Agent0(IF ua.reporter THEN cr.CallIndex ELSE 0, 0),
    callEndChan   <- [k \in 1 .. Len(callEndChan) |->
                        [AccountIndex |-> 0, CallIndex |-> callEndChan[k].CallIndex,
                         CallResult |-> callEndChan[k].CallResult]]

\* main's side: what UacMain does, as far as one agent sees it.
GiveCall ==
    /\ started < MaxCalls
    /\ ~inCall
    /\ chan.startCall = 0
    /\ inCall' = TRUE
    /\ started' = started + 1
    /\ chan' = [chan EXCEPT !.startCall = started + 1]
    /\ UNCHANGED <<callEndChan, mainDone>>

TakeReport ==
    /\ callEndChan # <<>>
    /\ callEndChan' = Tail(callEndChan)
    /\ inCall' = FALSE
    /\ UNCHANGED <<chan, mainDone, started>>

CancelMain ==
    /\ ~mainDone
    /\ mainDone' = TRUE
    /\ UNCHANGED <<chanVars, started, inCall>>

MainProgram ==
    /\ GiveCall \/ TakeReport \/ CancelMain
    /\ UNCHANGED <<ua, cr, mf, sipVars, ghostVars>>

-----------------------------------------------------------------------------
\* The agent has ended.
Done ==
    /\ ua.pc = "exited"
    /\ UNCHANGED vars

Next ==
    /\ UNCHANGED env
    /\ \/ Loop \/ Reporter \/ Media \/ HandlerStep
       \/ \E s \in Sessions : Stack(s)
       \/ MainProgram
       \/ Done

Spec == Init /\ [][Next]_vars

\* Runnable goroutines run, an INVITE and a BYE get a final response or time
\* out, a 200 is acknowledged, and main reads reports until it is stopped.
\* The remote party need not hang up, call or cancel, and main need not stop.
Fixed == UNCHANGED env

Fairness ==
    /\ WF_vars(Loop /\ Fixed) /\ WF_vars(Reporter /\ Fixed)
    /\ WF_vars(Media /\ Fixed) /\ WF_vars(HandlerStep /\ Fixed)
    /\ \A s \in Sessions :
          /\ WF_vars(Stack(s) /\ status[s] = "sent" /\ Fixed)
          /\ WF_vars(Stack(s) /\ status[s] = "bye" /\ Fixed)
          /\ WF_vars(Stack(s) /\ status[s] = "answered" /\ Fixed)
    /\ WF_vars(TakeReport /\ ~mainDone
                 /\ UNCHANGED <<env, ua, cr, mf, sipVars, ghostVars>>)

FairSpec == Spec /\ Fairness

-----------------------------------------------------------------------------
(***************************************************************************)
(* Safety.                                                                 *)
(***************************************************************************)

\* The SDP a MediaFunc applies is the one of its own call (sip/ua.go:136 and
\* 150: "set sdp to pion"), until the program is stopped.
SdpOfThisCall == ~mainDone /\ mf.remoteSdp # None => mf.remoteSdp = mf.call

\* It is, when the end of a call never races with its other events: what an
\* earlier call leaves behind in the channels is cleared in time.
OwnSdp == ~env.RacingEnds => SdpOfThisCall

\* The answer sent for a session answers that session's offer, when ends do
\* not race: a busy callee never answers the caller it declines, nor with that
\* caller's SDP.
OwnAnswer == ~env.RacingEnds => \A s \in Sessions : answered[s] \in {None, s}

\* The duration timer belongs to the current call (profile.go:83: "how long
\* to send bye after the call is established"), until the program is stopped
\* and when ends do not race: it never hangs up the call after its own.
OwnTimer ==
    ~env.RacingEnds /\ ~mainDone /\ ua.timer # None /\ ua.currentSession # None =>
        ua.timer = ua.currentSession

NothingStale == OwnSdp /\ OwnTimer

\* A report carries the result of its own session, although the handlers
\* write the result into the shared cr without looking at the session.  The
\* exception is a CANCEL of an INVITE the agent declines, which does change
\* the result of the agent's own call.
OwnResult ==
    ~env.Cancels => \A k \in 1 .. Len(callEndChan) :
        callEndChan[k].CallID # None =>
            callEndChan[k].CallResult = outcome[callEndChan[k].CallID]

\* The stack has nothing more to tell of session s than its end, if that.  (A
\* racing end may leave a confirmation whose timer declines the next call:
\* nothing is heard of that session any more.  So this is not asked then.)
Gone(s) == status[s] = "over" \/ (status[s] = "rejected" /\ ~env.RacingEnds)

\* When the stack no longer knows the session that the loop holds, its end is
\* on its way to the loop; and when ends do not race, the loop never holds a
\* session it declined itself, of whose end it would not hear.
NoZombie ==
    LET s == ua.currentSession IN
    s # None /\ Gone(s) =>
        \/ ua.pc \in {"leave", "join", "exited"}
        \/ chan.callTerminated = s
        \/ \E h \in handlers : h.kind = "ended" /\ h.sess = s

-----------------------------------------------------------------------------
(***************************************************************************)
(* Liveness.                                                               *)
(***************************************************************************)

\* The loop is sending a report and there is no room for it.
NoRoom == ua.pc = "report" /\ Len(callEndChan) = MaxConcurrentCalls

\* Once mainCtx is cancelled the agent ends: it never waits for ever for
\* MediaFunc.  What it may wait for, for ever, is room in callEndChan for the
\* report of a callee (ua.go:331 and 389), because main reads no more.
\* The callers do not CANCEL here; with CANCEL this is false of the code.
AgentExits == mainDone ~> (ua.pc = "exited" \/ []NoRoom)

\* The set-up of the caller's call c came to nothing: Invite returned no
\* session, or MediaFunc failed before its offer was sent (its end message is
\* read only when a session ends).  The loop waits with mediaCancel set.
SetUpFailed(c) ==
    /\ env.InviteMayFail \/ env.MediaMayFail
    /\ ua.pc = "select" /\ cr.CallIndex = c /\ ua.mediaCancel
    /\ ua.currentSession = None /\ chan.sdpFromMedia = None
    /\ mf.at \notin {"gather", "sendSdp"}

\* Somebody hangs up the established call c: this agent's timer, or else the
\* remote party.
HangsUp(c) == env.HasDuration \/ ((status[c] = "confirmed") ~> (status[c] # "confirmed"))

\* An answer that a failed MediaFunc did not take may be left in
\* sdpToMediaChan, where the confirmation of the next call is stuck.
AnswersTaken ==
    env.MediaMayFail => ~env.AuthChallenge /\ ~env.RacingEnds

\* Every call the agent was told to make is reported, if the agent starts,
\* somebody hangs the call up and its set-up does not fail.
CallReported ==
    \A c \in Outgoing :
        HangsUp(c) => ((chan.startCall = c /\ AnswersTaken) ~>
                           (reported[c] = 1 \/ mainDone \/ ua.pc = "exited" \/ SetUpFailed(c)))

\* Every call offered to the agent is reported: as declined, or after it was
\* ended by the duration timer or the remote party, when ends do not race and
\* MediaFunc does not fail.
IncomingReported ==
    \A s \in Incoming :
        (status[s] = "received" /\ ~env.RacingEnds /\ ~env.MediaMayFail) ~>
            (reported[s] = 1 \/ mainDone)

-----------------------------------------------------------------------------
(***************************************************************************)
(* The contract between the event loop and MediaFunc, which MediaSession   *)
(* keeps on MediaFunc's side.                                              *)
(***************************************************************************)

Handover == INSTANCE MediaContract WITH
    role      <- Role,
    at        <- mf.at,
    cancelled <- mf.cancelled \/ mainDone,
    sdpIn     <- chan.sdpToMedia # None,
    sdpOut    <- chan.sdpFromMedia # None,
    end       <- chan.mediaFuncEnd

\* The loop, the handlers and MediaFunc of all calls keep the contract: one
\* MediaFunc at a time, started after the end of the one before was taken
\* from mediaFuncEndChan, and no SDP put over another.
HandoverContract == Handover!ContractSpec

\* A caller's agent keeps both of its contracts, with main and with MediaFunc.
Contracts == Slot!SlotSpec /\ Handover!ContractSpec
=============================================================================
