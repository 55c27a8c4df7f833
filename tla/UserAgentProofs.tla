--------------------------- MODULE UserAgentProofs ---------------------------
(***************************************************************************)
(* Proofs about one user agent (UserAgent), for either role, every number  *)
(* of calls and every set of environments.                                 *)
(*                                                                         *)
(* The inductive invariant IInv joins what the processes of the agent rely *)
(* on: where the loop may be with and without a MediaFunc (Control), that  *)
(* at most one MediaFunc or end message exists (OneMedia), that every      *)
(* incoming session is offered to the loop once (Begins, CallsCounted),    *)
(* and, for a caller, that one call at a time is between main's command    *)
(* and its report (UacCalls, UacOffer, UacToken).  TypeOK itself rests on  *)
(* them: a session is reported once (Reported), the calls of a callee are  *)
(* no more than the incoming sessions, and Invite looks up a session of    *)
(* the agent.  With it the agent is shown to keep both its contracts.      *)
(***************************************************************************)
EXTENDS UserAgent, FiniteSetTheorems, SequenceTheorems, TLAPS

-----------------------------------------------------------------------------
(***************************************************************************)
(* The inductive invariant.                                                *)
(***************************************************************************)

\* Where the loop is, and what it holds there.  A callee at its select has a
\* current session exactly when a MediaFunc was started for it.
Control ==
    /\ Role = "uac" => ua.pc # "report"
    /\ Role = "uas" => ua.pc # "invite" /\ ~ua.reporter
    /\ ua.pc \in {"starting", "wrapup"} => ~ua.mediaCancel
    /\ ua.pc \in {"waitMedia", "leave", "invite"} => ua.mediaCancel
    /\ ua.pc \in {"starting", "waitMedia", "wrapup", "invite"} => ua.currentSession = None
    /\ Role = "uas" /\ ua.pc \in {"select", "report"} =>
          (ua.mediaCancel <=> ua.currentSession # None)
    /\ Role = "uac" /\ ua.currentSession # None => ua.mediaCancel

\* Between StartMedia and the receive from mediaFuncEndChan there is either
\* a MediaFunc or its end message, and at other times neither.
OneMedia ==
    /\ ~ua.mediaCancel => mf.at = "none" /\ ~chan.mediaFuncEnd
    /\ ua.mediaCancel /\ ua.pc \notin {"join", "exited"} => (mf.at = "none" <=> chan.mediaFuncEnd)
    /\ ua.pc \in {"join", "exited"} => mf.at = "none" /\ ~chan.mediaFuncEnd
    /\ mf.at = "waitOffer" => Role = "uas"
    /\ mf.at = "waitAnswer" => Role = "uac"
    /\ mf.at # "none" => mf.call # None
    /\ Role = "uas" /\ mf.at \in {"gather", "sendSdp", "run"} => mf.remoteSdp # None

\* The handler of an INVITE and callReceivedChan hand a session on: it is in
\* one place, and only a callee's handler comes as far as the channel.
Begins ==
    /\ \A h \in handlers : h.kind = "received" =>
          /\ h.sess \in Incoming /\ status[h.sess] # "new"
          /\ chan.callReceived # h.sess
          /\ h.at = "sdp" \/ Role = "uas"
    /\ \A g, h \in handlers :
          g.kind = "received" /\ h.kind = "received" /\ g.sess = h.sess => g = h
    /\ chan.callReceived # None =>
          /\ Role = "uas"
          /\ chan.callReceived \in Incoming /\ status[chan.callReceived] # "new"
    /\ \A s \in Sessions : status[s] = "received" => s \in Incoming

\* Incoming sessions that the loop has taken from callReceivedChan (at a
\* caller: whose handler has returned).
Counted ==
    {s \in Incoming : /\ status[s] # "new"
                      /\ chan.callReceived # s
                      /\ \A h \in handlers : ~(h.kind = "received" /\ h.sess = s)}

CallsCounted == ua.uasCallIndex <= Cardinality(Counted)

\* A call is in the agent from the start command to the reporting goroutine.
InAgent == ua.mediaCancel \/ ua.pc = "wrapup"

\* A caller's cr and current session are those of the last command taken.
UacCalls ==
    Role = "uac" =>
        /\ cr.CallIndex <= started
        /\ chan.startCall # 0 => chan.startCall = started /\ cr.CallIndex < started
        /\ cr.CallIndex = 0 => ~InAgent /\ ~ua.reporter
        /\ cr.CallID \in {None, cr.CallIndex}
        /\ ua.currentSession # None =>
              ua.currentSession = cr.CallIndex /\ cr.CallID = cr.CallIndex

\* The offer of a caller's MediaFunc is taken before its call can end, and a
\* session is new until its INVITE is sent.
UacOffer ==
    Role = "uac" =>
        /\ ~ua.mediaCancel => chan.sdpFromMedia = None
        /\ ua.pc \in {"invite", "waitMedia"} \/ ua.currentSession # None =>
              chan.sdpFromMedia = None /\ mf.at \notin {"gather", "sendSdp"}
        /\ chan.sdpFromMedia # None => mf.at \notin {"gather", "sendSdp"}
        /\ chan.sdpFromMedia # None \/ mf.at \in {"gather", "sendSdp"} =>
              status[cr.CallIndex] = "new"
        /\ \A s \in Outgoing : s > cr.CallIndex => status[s] = "new"

\* A caller's call is in one place: the command in startCallChan, the agent,
\* the reporting goroutine or the report in callEndChan; and main, which gives
\* a command only when inCall is false, knows of it.
UacToken ==
    Role = "uac" =>
        /\ chan.startCall # 0 => ~InAgent /\ ~ua.reporter /\ callEndChan = <<>>
        /\ InAgent => ~ua.reporter /\ callEndChan = <<>>
        /\ ua.reporter => callEndChan = <<>>
        /\ Len(callEndChan) <= 1
        /\ chan.startCall # 0 \/ InAgent \/ ua.reporter \/ callEndChan # <<>> => inCall

\* A reported session is none that is to be reported yet.
Reported ==
    /\ Role = "uac" => \A s \in Sessions : reported[s] # 0 =>
          s <= cr.CallIndex /\ (s = cr.CallIndex => ~InAgent /\ ~ua.reporter)
    /\ Role = "uas" =>
          /\ \A s \in Sessions : reported[s] # 0 => s \in Counted
          /\ ua.currentSession # None =>
                /\ ua.currentSession \in Counted /\ cr.CallID = ua.currentSession
                /\ reported[ua.currentSession] = 0
          /\ ua.pc \in {"waitMedia", "wrapup"} => cr.CallID \in Counted /\ reported[cr.CallID] = 0
          /\ ua.pc = "report" =>
                /\ ua.sending.CallID \in Counted /\ ua.sending.CallID # ua.currentSession
                /\ reported[ua.sending.CallID] = 0

IInv ==
    /\ TypeOK /\ Control /\ OneMedia /\ Begins /\ CallsCounted
    /\ UacCalls /\ UacOffer /\ UacToken /\ Reported

-----------------------------------------------------------------------------
(***************************************************************************)
(* The types.                                                              *)
(***************************************************************************)

Statuses == {"new", "sent", "received", "answered", "confirmed", "bye", "rejected", "over"}

\* What the declared constants make of the sets of sessions.
LEMMA Constants ==
    /\ None = 0 /\ None \notin Sessions /\ None \in SessionOrNone
    /\ Sessions \subseteq SessionOrNone /\ Sessions \subseteq Nat \ {0}
    /\ Outgoing \subseteq Sessions /\ Incoming \subseteq Sessions
    /\ Outgoing \cap Incoming = {} /\ Sessions = Outgoing \cup Incoming
    /\ Outgoing = 1 .. MaxCalls
    /\ MaxCalls \in Nat /\ MaxIncoming \in Nat /\ MaxConcurrentCalls \in Nat \ {0}
    /\ Role \in {"uac", "uas"}
    /\ Role = "uas" => MaxCalls = 0 /\ Outgoing = {}
BY UAAssumption DEF None, Sessions, SessionOrNone, Outgoing, Incoming

\* An empty report is one.
LEMMA NoReportType ==
    NoReport \in Reports /\ NoReport.CallIndex = 0 /\ NoReport.CallID = None
BY Constants, Zenon DEF NoReport, Reports, Results

\* The two results of a call are results.
LEMMA ResultsType == "Successful" \in Results /\ "Failed" \in Results
BY Zenon DEF Results

\* Declining or hanging up keeps the tables in their types.
LEMMA EndSessionTypes ==
    ASSUME TypeOK, NEW s \in Sessions, EndSession(s)
    PROVE  status' \in [Sessions -> Statuses] /\ outcome' \in [Sessions -> Results]
BY Zenon DEF EndSession, TypeOK, Results, Statuses

\* A report is put into the channel while there is room, about a session not
\* reported before.
LEMMA PutTypes ==
    ASSUME TypeOK, NEW r \in Reports, Put(r), r.CallID # None => reported[r.CallID] = 0
    PROVE  /\ callEndChan' \in Seq(Reports) /\ Len(callEndChan') <= MaxConcurrentCalls
           /\ reported' \in [Sessions -> 0 .. 1]
<1>1. callEndChan \in Seq(Reports) /\ Len(callEndChan) < MaxConcurrentCalls
      /\ callEndChan' = Append(callEndChan, r)
    BY DEF TypeOK, Put
<1>2. /\ callEndChan' \in Seq(Reports)
      /\ Len(callEndChan') = Len(callEndChan) + 1
    BY <1>1, AppendProperties
<1>3. reported' \in [Sessions -> 0 .. 1]
    BY Constants DEF TypeOK, Put
<1> QED BY <1>1, <1>2, <1>3, Constants

\* MediaFunc starts for a session.
LEMMA StartMediaTypes ==
    ASSUME NEW c \in Sessions, StartMedia(c)
    PROVE  mf' \in MediaTypes
<1>1. (IF Role = "uac" THEN "gather" ELSE "waitOffer") \in
          {"none", "waitOffer", "gather", "sendSdp", "waitAnswer", "run", "exit"}
    OBVIOUS
<1> QED BY <1>1, Constants DEF StartMedia, MediaTypes

\* The callee's loop takes a session: the new cr has no result.
LEMMA AcceptCallEffect ==
    ASSUME AcceptCall
    PROVE  /\ ua.pc = "select" /\ chan.callReceived # None /\ ua.currentSession = None
           /\ chan' = [chan EXCEPT !.callReceived = None]
           /\ \E r \in Results : cr' = [CallIndex |-> ua.uasCallIndex + 1,
                                       CallID |-> chan.callReceived, CallResult |-> r]
           /\ ua' = [ua EXCEPT !.uasCallIndex = ua.uasCallIndex + 1,
                               !.currentSession = chan.callReceived, !.mediaCancel = TRUE]
           /\ StartMedia(chan.callReceived)
           /\ UNCHANGED <<callEndChan, status, outcome, answered, reported>>
BY Zenon DEF AcceptCall, Results, ghostVars

\* What TypeOK needs beyond the types themselves.
Ready ==
    /\ ua.pc = "invite" => cr.CallIndex \in Sessions
    /\ chan.callReceived # None => ua.uasCallIndex < MaxIncoming
    /\ ua.pc = "report" /\ ua.sending.CallID # None => reported[ua.sending.CallID] = 0
    /\ ua.reporter /\ cr.CallID # None => reported[cr.CallID] = 0
    /\ chan.startCall # 0 => chan.startCall \in Sessions

\* The agent's loop.
LEMMA LoopTypes ==
    ASSUME TypeOK, Ready, UNCHANGED env, Loop
    PROVE  TypeOK'
<1>0. /\ ua \in UATypes /\ chan \in ChanTypes /\ cr \in Reports /\ mf \in MediaTypes
      /\ ua.currentSession \in SessionOrNone /\ ua.sending \in Reports
    BY DEF TypeOK, UATypes
<1>1. UNCHANGED <<env, cancels, handlers, mainDone, started, inCall>>
    BY DEF Loop, mainVars
<1> USE <1>0, <1>1, Constants, NoReportType
<1>2. CASE Registered
    BY <1>2 DEF Registered, Goto, TypeOK, UATypes, chanVars, ghostVars
<1>3. CASE StartFails
    BY <1>3 DEF StartFails, Goto, TypeOK, UATypes, chanVars, ghostVars
<1>4. CASE TakeCall
    <2>1. chan' \in ChanTypes
        BY <1>4 DEF TakeCall, ChanTypes
    <2>2. CASE ua.currentSession # None \/ ua.mediaCancel
        <3>1. UNCHANGED <<ua, cr, mf, callEndChan, status, ghostVars>>
            BY <1>4, <2>2, Zenon DEF TakeCall
        <3> QED BY <2>1, <3>1, Zenon DEF TypeOK, ghostVars
    <2>3. CASE ~(ua.currentSession # None \/ ua.mediaCancel)
        <3>0. ua' = [ua EXCEPT !.mediaCancel = TRUE]
            BY <1>4, <2>3, Zenon DEF TakeCall
        <3>1. ua' \in UATypes
            BY <3>0 DEF UATypes
        <3>2. cr' \in Reports
            BY <1>4, <2>3 DEF TakeCall, Reports, ChanTypes
        <3>3. mf' \in MediaTypes
            BY <1>4, <2>3, StartMediaTypes DEF TakeCall, Ready
        <3> QED BY <1>4, <2>1, <3>1, <3>2, <3>3 DEF TakeCall, TypeOK, ghostVars
    <2> QED BY <2>2, <2>3
<1>5. CASE SendInvite
    BY <1>5 DEF SendInvite, Goto, TypeOK, UATypes, ChanTypes, ghostVars
<1>6. CASE InviteError
    BY <1>6 DEF InviteError, TypeOK, UATypes, ChanTypes, ghostVars
<1>7. CASE InviteReturns
    <2>1. cr.CallIndex \in Sessions /\ cr.CallIndex \in SessionOrNone /\ None \in SessionOrNone
        BY <1>7 DEF InviteReturns, Ready
    <2>2. \E s \in SessionOrNone : ua' = [ua EXCEPT !.pc = "select", !.currentSession = s]
        BY <1>7, <2>1 DEF InviteReturns
    <2>3. \E s \in SessionOrNone : cr' = [cr EXCEPT !.CallID = s]
        <3>1. cr.CallID \in SessionOrNone
            BY DEF Reports
        <3> QED BY <1>7, <2>1, <3>1 DEF InviteReturns
    <2>4. ua' \in UATypes
        <3>1. PICK s \in SessionOrNone : ua' = [ua EXCEPT !.pc = "select", !.currentSession = s]
            BY <2>2
        <3> QED BY <3>1 DEF UATypes
    <2>5. cr' \in Reports
        BY <2>3 DEF Reports
    <2>6. UNCHANGED <<chan, callEndChan, mf, status, ghostVars>>
        BY <1>7, Zenon DEF InviteReturns, chanVars
    <2> QED BY <2>4, <2>5, <2>6, Zenon DEF TypeOK, ghostVars
<1>8. CASE SendAnswer
    <2>1. chan' \in ChanTypes /\ chan.sdpFromMedia \in SessionOrNone
        BY <1>8 DEF SendAnswer, ChanTypes
    <2>2. answered' \in [Sessions -> SessionOrNone]
        <3>1. answered \in [Sessions -> SessionOrNone]
            BY DEF TypeOK
        <3>2. \/ answered' = answered
              \/ answered' = [answered EXCEPT ![ua.currentSession] = chan.sdpFromMedia]
            BY <1>8, Zenon DEF SendAnswer
        <3> QED BY <2>1, <3>1, <3>2
    <2>4. status' \in [Sessions -> Statuses]
        <3>1. status \in [Sessions -> Statuses]
            BY DEF TypeOK, Statuses
        <3>2. \/ status' = status
              \/ status' = [status EXCEPT ![ua.currentSession] =
                                IF @ = "received" THEN "answered" ELSE @]
            BY <1>8, Zenon DEF SendAnswer
        <3> QED BY <3>1, <3>2 DEF Statuses
    <2>3. UNCHANGED <<ua, cr, callEndChan, mf, outcome, reported>>
        BY <1>8 DEF SendAnswer
    <2> QED BY <2>1, <2>2, <2>3, <2>4 DEF TypeOK, Statuses
<1>9. CASE Confirmed
    BY <1>9 DEF Confirmed, ConfirmedWith, TypeOK, UATypes, ChanTypes, ghostVars
<1>10. CASE RejectBusy
    <2>0. chan' = [chan EXCEPT !.callReceived = None] /\ chan.callReceived # None
        BY <1>10, Zenon DEF RejectBusy, RejectBusyAs
    <2>1. chan' \in ChanTypes /\ chan.callReceived \in Sessions /\ chan.callReceived \in SessionOrNone
        <3>1. chan' \in ChanTypes
            BY <2>0 DEF ChanTypes
        <3>2. chan.callReceived \in SessionOrNone
            BY DEF ChanTypes
        <3> QED BY <2>0, <3>1, <3>2 DEF SessionOrNone
    <2>2. ua.uasCallIndex + 1 \in 0 .. MaxIncoming /\ ua.uasCallIndex + 1 \in Nat
        BY <1>10 DEF RejectBusy, RejectBusyAs, Ready, UATypes
    <2>3. CASE ua.currentSession = chan.callReceived
        <3>1. ua' = [ua EXCEPT !.uasCallIndex = ua.uasCallIndex + 1] /\ UNCHANGED <<status, outcome>>
            BY <1>10, <2>3, Zenon DEF RejectBusy, RejectBusyAs
        <3>2. UNCHANGED <<cr, callEndChan, mf, answered, reported>>
            BY <1>10, Zenon DEF RejectBusy, RejectBusyAs
        <3>3. ua' \in UATypes
            BY <2>2, <3>1 DEF UATypes
        <3> QED BY <2>1, <3>1, <3>2, <3>3, Zenon DEF TypeOK
    <2>4. CASE ua.currentSession # chan.callReceived
        <3>1. EndSession(chan.callReceived)
            BY <1>10, <2>4 DEF RejectBusy, RejectBusyAs
        <3>2. [CallIndex |-> ua.uasCallIndex + 1, CallID |-> chan.callReceived,
               CallResult |-> "Failed"] \in Reports
            BY <2>1, <2>2, ResultsType DEF Reports
        <3>3. ua' = [ua EXCEPT !.uasCallIndex = ua.uasCallIndex + 1,
                               !.sending = [CallIndex |-> ua.uasCallIndex + 1,
                                            CallID |-> chan.callReceived,
                                            CallResult |-> "Failed"],
                               !.currentSession = ua.currentSession, !.pc = "report"]
            BY <1>10, <2>4, Zenon DEF RejectBusy, RejectBusyAs
        <3>4. ua' \in UATypes
            BY <2>2, <3>2, <3>3 DEF UATypes
        <3> QED BY <1>10, <2>1, <3>1, <3>4, EndSessionTypes
            DEF RejectBusy, RejectBusyAs, TypeOK, Statuses
    <2> QED BY <2>3, <2>4
<1>11. CASE AcceptCall
    <2>0. PICK r \in Results : cr' = [CallIndex |-> ua.uasCallIndex + 1,
                                     CallID |-> chan.callReceived, CallResult |-> r]
        BY <1>11, AcceptCallEffect
    <2>1. chan' \in ChanTypes /\ chan.callReceived \in Sessions /\ chan.callReceived \in SessionOrNone
        BY <1>11, AcceptCallEffect DEF ChanTypes, SessionOrNone
    <2>2. ua.uasCallIndex + 1 \in 0 .. MaxIncoming /\ ua.uasCallIndex + 1 \in Nat
        BY <1>11, AcceptCallEffect DEF Ready, UATypes
    <2>3. cr' \in Reports
        BY <2>0, <2>1, <2>2 DEF Reports
    <2>4. mf' \in MediaTypes
        BY <1>11, <2>1, AcceptCallEffect, StartMediaTypes
    <2>5. ua' \in UATypes
        <3>1. ua' = [ua EXCEPT !.uasCallIndex = ua.uasCallIndex + 1,
                               !.currentSession = chan.callReceived, !.mediaCancel = TRUE]
            BY <1>11, AcceptCallEffect
        <3> QED BY <2>1, <2>2, <3>1 DEF UATypes
    <2> QED BY <1>11, <2>1, <2>3, <2>4, <2>5, AcceptCallEffect DEF TypeOK
<1>12. CASE IgnoreTerminated
    BY <1>12 DEF IgnoreTerminated, TypeOK, ChanTypes, ghostVars
<1>13. CASE Terminated
    <2>1. ua' \in UATypes
        BY <1>13 DEF Terminated, TerminatedThen, UATypes
    <2>2. chan' \in ChanTypes
        BY <1>13 DEF Terminated, TerminatedThen, ChanTypes
    <2>3. mf' \in MediaTypes
        <3>1. mf' = [mf EXCEPT !.cancelled = mf.cancelled \/ ua.mediaCancel]
            BY <1>13, Zenon DEF Terminated, TerminatedThen
        <3> QED BY <3>1 DEF MediaTypes, UATypes
    <2>4. UNCHANGED <<cr, callEndChan, status, ghostVars>>
        BY <1>13, Zenon DEF Terminated, TerminatedThen
    <2> QED BY <2>1, <2>2, <2>3, <2>4, Zenon DEF TypeOK, ghostVars
<1>14. CASE MediaEnded
    BY <1>14 DEF MediaEnded, MediaEndedLeaving, TypeOK, UATypes, ChanTypes, ghostVars
<1>15. CASE WrapUp
    BY <1>15 DEF WrapUp, TypeOK, UATypes, chanVars, ghostVars
<1>16. CASE LoopReports
    <2>1. ua' \in UATypes
        BY <1>16 DEF LoopReports, UATypes
    <2>2. /\ callEndChan' \in Seq(Reports) /\ Len(callEndChan') <= MaxConcurrentCalls
          /\ reported' \in [Sessions -> 0 .. 1]
        BY <1>16, PutTypes DEF LoopReports, Ready
    <2> QED BY <1>16, <2>1, <2>2 DEF LoopReports, TypeOK
<1>17. CASE TimerFires
    <2>1. ua' \in UATypes
        <3>1. \/ ua' = [ua EXCEPT !.timer = None, !.hangupByMe = TRUE]
              \/ ua' = [ua EXCEPT !.timer = None]
            BY <1>17, Zenon DEF TimerFires
        <3>2. CASE ua' = [ua EXCEPT !.timer = None, !.hangupByMe = TRUE]
            BY <3>2 DEF UATypes
        <3>3. CASE ua' = [ua EXCEPT !.timer = None]
            BY <3>3 DEF UATypes
        <3> QED BY <3>1, <3>2, <3>3
    <2>2. status' \in [Sessions -> Statuses] /\ outcome' \in [Sessions -> Results]
        BY <1>17, EndSessionTypes DEF TimerFires, TypeOK, Statuses, SessionOrNone
    <2> QED BY <1>17, <2>1, <2>2 DEF TimerFires, TypeOK, chanVars, Statuses
<1>18. CASE Leave
    <2>1. ua' \in UATypes /\ mf' \in MediaTypes
        BY <1>18 DEF Leave, UATypes, MediaTypes
    <2>2. status' \in [Sessions -> Statuses] /\ outcome' \in [Sessions -> Results]
        BY <1>18, EndSessionTypes DEF Leave, TypeOK, Statuses, SessionOrNone
    <2> QED BY <1>18, <2>1, <2>2 DEF Leave, TypeOK, chanVars, Statuses
<1>19. CASE MediaLeft
    BY <1>19 DEF MediaLeft, Goto, TypeOK, UATypes, ChanTypes, ghostVars
<1>20. CASE Exit
    BY <1>20 DEF Exit, Goto, TypeOK, UATypes, chanVars, ghostVars
<1> QED
    BY <1>2, <1>3, <1>4, <1>5, <1>6, <1>7, <1>8, <1>9, <1>10, <1>11, <1>12, <1>13, <1>14,
       <1>15, <1>16, <1>17, <1>18, <1>19, <1>20 DEF Loop

\* A new handler of session s, in a goroutine of the stack.
HandlerStarts(kind, s, at, again) ==
    \E h \in Handlers : /\ h.kind = kind /\ h.sess = s /\ h.at = at /\ h.again = again
                        /\ handlers' = handlers \cup {h}

\* The handlers that the stack starts.
LEMMA HandlerType ==
    ASSUME NEW s \in Sessions, NEW kind \in {"received", "confirmed", "ended"},
           NEW at \in {"load", "sdp", "write", "notify"}, NEW again \in BOOLEAN,
           NEW result \in Results
    PROVE  [kind |-> kind, sess |-> s, at |-> at, again |-> again, result |-> result] \in Handlers
BY DEF Handlers

\* A session that turns to another state while it lives.
LEMMA TurnsEffect ==
    ASSUME NEW s \in Sessions, NEW to \in Statuses, NEW at \in {"sdp", "notify"},
           NEW again \in BOOLEAN, Turns(s, to, at, again)
    PROVE  /\ status' = [status EXCEPT ![s] = to]
           /\ HandlerStarts(IF to = "received" THEN "received" ELSE "confirmed", s, at, again)
           /\ UNCHANGED <<cancels, outcome, answered, reported>>
<1> DEFINE kind == IF to = "received" THEN "received" ELSE "confirmed"
           h == [kind |-> kind, sess |-> s, at |-> at, again |-> again, result |-> ""]
<1>1. handlers' = handlers \cup {h}
    BY Zenon DEF Turns, Invoke
<1>2. "" \in Results /\ kind \in {"received", "confirmed", "ended"}
    BY Zenon DEF Results
<1>3. h \in Handlers
    BY <1>2, HandlerType
<1>4. h.kind = kind /\ h.sess = s /\ h.at = at /\ h.again = again
    BY Zenon
<1> HIDE DEF h
<1>5. HandlerStarts(kind, s, at, again)
    BY <1>1, <1>3, <1>4 DEF HandlerStarts
<1> QED BY <1>5, Zenon DEF Turns, ghostVars

\* The end of a session: it leaves the table, its handler starts and the
\* first result stays.
Ends(s) ==
    /\ ua.pc = "invite" /\ s = cr.CallIndex => env.InviteMayFail
    /\ status' = [status EXCEPT ![s] = "over"]
    /\ \E h \in Handlers : /\ h.kind = "ended" /\ h.sess = s /\ h.at = "write"
                           /\ handlers' = handlers \cup {h}
                           /\ outcome[s] = "" => outcome' = [outcome EXCEPT ![s] = h.result]
                           /\ outcome[s] # "" => outcome' = outcome
    /\ outcome' \in [Sessions -> Results]
    /\ UNCHANGED <<cancels, answered, reported>>

\* A session over in the stack is one of the ends above.
LEMMA OverEnds ==
    ASSUME TypeOK, NEW s \in Sessions, NEW result \in Results, Over(s, result)
    PROVE  Ends(s)
<1> DEFINE h0 == [kind |-> "ended", sess |-> s, at |-> "write", again |-> FALSE,
                  result |-> result]
<1>1. handlers' = handlers \cup {h0} /\ h0 \in Handlers
    BY HandlerType, Zenon DEF Over, Invoke
<1>2. PICK h \in Handlers : /\ h.kind = "ended" /\ h.sess = s /\ h.at = "write"
                            /\ h.result = result /\ handlers' = handlers \cup {h}
    BY <1>1
<1>3. outcome[s] = "" => outcome' = [outcome EXCEPT ![s] = h.result]
    BY <1>2, Zenon DEF Over
<1>4. outcome[s] # "" => outcome' = outcome
    <2>1. outcome \in [Sessions -> Results]
        BY DEF TypeOK
    <2>2. outcome[s] # "" => outcome' = [outcome EXCEPT ![s] = outcome[s]]
        BY Zenon DEF Over
    <2>3. [outcome EXCEPT ![s] = outcome[s]] = outcome
        BY <2>1
    <2> QED BY <2>2, <2>3, Zenon
<1>5. outcome' \in [Sessions -> Results]
    <2>1. outcome \in [Sessions -> Results]
        BY DEF TypeOK
    <2>2. CASE outcome[s] = ""
        BY <1>2, <1>3, <2>1, <2>2, Zenon
    <2>3. CASE outcome[s] # ""
        BY <1>4, <2>1, <2>3, Zenon
    <2> QED BY <2>2, <2>3
<1> QED BY <1>2, <1>3, <1>4, <1>5, Zenon DEF Ends, Over

\* What the stack does to a session, by what becomes of it.
StackTurns(s) ==
    /\ \/ /\ status[s] = "sent"
          /\ status' = [status EXCEPT ![s] = "confirmed"]
          /\ HandlerStarts("confirmed", s, "sdp", env.AuthChallenge)
       \/ /\ status[s] = "answered"
          /\ status' = [status EXCEPT ![s] = "confirmed"]
          /\ HandlerStarts("confirmed", s, "notify", FALSE)
       \/ /\ status[s] = "new" /\ s \in Incoming
          /\ env.RacingEnds \/ Settled
          /\ status' = [status EXCEPT ![s] = "received"]
          /\ HandlerStarts("received", s, "sdp", FALSE)
    /\ UNCHANGED <<cancels, outcome, answered, reported>>

StackEnds(s) ==
    /\ \/ status[s] = "sent"
       \/ status[s] \in {"confirmed", "bye"} /\ Quiet
       \/ status[s] = "answered" /\ env.RacingEnds
       \/ s \in cancels /\ status[s] \notin {"new", "over"}
    /\ Ends(s)

StackCancels(s) ==
    /\ env.Cancels /\ status[s] = "received"
    /\ cancels' = cancels \cup {s}
    /\ UNCHANGED <<status, handlers, outcome, answered, reported>>

\* Every step of the stack is one of the three.
LEMMA StackEffect ==
    ASSUME TypeOK, NEW s \in Sessions, Stack(s)
    PROVE  /\ UNCHANGED <<ua, cr, chan, callEndChan, mf, mainDone, started, inCall>>
           /\ StackTurns(s) \/ StackEnds(s) \/ StackCancels(s)
<1>1. UNCHANGED <<ua, cr, chan, callEndChan, mf, mainDone, started, inCall>>
    BY DEF Stack, chanVars, mainVars
<1>2. "Successful" \in Results /\ "Failed" \in Results
    BY ResultsType
<1>3. CASE CallAnswered(s)
    <2>1. env.AuthChallenge \in BOOLEAN
        BY UAAssumption DEF TypeOK, Env
    <2>2. Turns(s, "confirmed", "sdp", env.AuthChallenge) /\ status[s] = "sent"
        BY <1>3 DEF CallAnswered
    <2> QED BY <1>1, <2>1, <2>2, TurnsEffect DEF StackTurns, Statuses
<1>4. CASE CallFailed(s)
    BY <1>1, <1>2, <1>4, OverEnds DEF CallFailed, StackEnds
<1>5. CASE ByeReceived(s)
    BY <1>1, <1>2, <1>5, OverEnds DEF ByeReceived, StackEnds
<1>6. CASE ByeAnswered(s)
    BY <1>1, <1>2, <1>6, OverEnds DEF ByeAnswered, StackEnds
<1>7. CASE InviteReceived(s)
    BY <1>1, <1>7, TurnsEffect DEF InviteReceived, StackTurns, Statuses
<1>8. CASE CancelArrives(s)
    BY <1>1, <1>8 DEF CancelArrives, StackCancels, ghostVars
<1>9. CASE CancelProcessed(s)
    BY <1>1, <1>2, <1>9, OverEnds DEF CancelProcessed, Alive, StackEnds
<1>10. CASE AckReceived(s)
    BY <1>1, <1>10, TurnsEffect DEF AckReceived, StackTurns, Statuses
<1> QED BY <1>3, <1>4, <1>5, <1>6, <1>7, <1>8, <1>9, <1>10 DEF Stack

\* The stack.
LEMMA StackTypes ==
    ASSUME TypeOK, UNCHANGED env, cancels' \subseteq Incoming, NEW s \in Sessions, Stack(s)
    PROVE  TypeOK'
<1>1. status' \in [Sessions -> Statuses]
    <2>1. \/ status' = status
          \/ \E to \in Statuses : status' = [status EXCEPT ![s] = to]
        BY StackEffect DEF StackTurns, StackEnds, StackCancels, Ends, Statuses
    <2>2. status \in [Sessions -> Statuses]
        BY DEF TypeOK, Statuses
    <2> QED BY <2>1, <2>2
<1>2. handlers' \subseteq Handlers
    <2>1. handlers' = handlers \/ \E h \in Handlers : handlers' = handlers \cup {h}
        BY StackEffect DEF StackTurns, StackEnds, StackCancels, Ends, HandlerStarts
    <2> QED BY <2>1 DEF TypeOK
<1>3. outcome' \in [Sessions -> Results] /\ UNCHANGED <<answered, reported>>
    BY StackEffect DEF StackTurns, StackEnds, StackCancels, Ends, TypeOK
<1> QED BY StackEffect, <1>1, <1>2, <1>3 DEF TypeOK, Statuses

\* A handler goes on, or returns.
LEMMA HandlerTypes ==
    ASSUME TypeOK, UNCHANGED env, HandlerStep
    PROVE  TypeOK'
<1>1. UNCHANGED <<env, ua, callEndChan, mf, cancels, mainDone, started, inCall, answered, reported>>
    BY DEF HandlerStep, mainVars
<1>2. PICK h \in handlers :
          \/ HandleSdp(h) \/ HandleUnwanted(h) \/ NotifyReceived(h) \/ NotifyConfirmed(h)
          \/ ConfirmedAgain(h) \/ HandleEnded(h) \/ NotifyEnded(h)
    BY DEF HandlerStep
<1>3. h \in Handlers /\ h.sess \in Sessions /\ h.sess \in SessionOrNone /\ h.result \in Results
    BY Constants DEF TypeOK, Handlers
<1>4. handlers' \subseteq Handlers
    <2>1. \A at \in {"sdp", "load", "notify"} : [h EXCEPT !.at = at] \in Handlers
        BY <1>3 DEF Handlers
    <2>2. [h EXCEPT !.at = "sdp", !.again = FALSE] \in Handlers
        BY <1>3 DEF Handlers
    <2> QED BY <1>2, <2>1, <2>2 DEF TypeOK, Return, Advance, HandleSdp, HandleUnwanted,
            NotifyReceived, NotifyConfirmed, ConfirmedAgain, HandleEnded, WriteResult, NotifyEnded
<1>5. chan' \in ChanTypes /\ cr' \in Reports
    BY <1>2, <1>3 DEF TypeOK, ChanTypes, Reports, HandleSdp, HandleUnwanted,
       NotifyReceived, NotifyConfirmed, ConfirmedAgain, HandleEnded, WriteResult, NotifyEnded
<1>6. status' \in [Sessions -> Statuses] /\ outcome' \in [Sessions -> Results]
    BY <1>2, <1>3, EndSessionTypes DEF TypeOK, Statuses, HandleSdp, HandleUnwanted,
       NotifyReceived, NotifyConfirmed, ConfirmedAgain, HandleEnded, WriteResult, NotifyEnded
<1> QED BY <1>1, <1>4, <1>5, <1>6 DEF TypeOK, Statuses

\* The goroutine that reports a caller's call.
LEMMA ReporterTypes ==
    ASSUME TypeOK, Ready, UNCHANGED env, Reporter
    PROVE  TypeOK'
<1>1. ua' \in UATypes
    BY DEF Reporter, TypeOK, UATypes
<1>2. /\ callEndChan' \in Seq(Reports) /\ Len(callEndChan') <= MaxConcurrentCalls
      /\ reported' \in [Sessions -> 0 .. 1]
    BY PutTypes DEF Reporter, Ready, TypeOK
<1> QED BY <1>1, <1>2 DEF Reporter, TypeOK, sipVars, mainVars

\* MediaFunc.
LEMMA MediaSteps ==
    ASSUME TypeOK, UNCHANGED env, Media
    PROVE  TypeOK'
<1>0. chan \in ChanTypes /\ mf \in MediaTypes
    BY DEF TypeOK
<1> USE <1>0, Constants
<1>1. chan' \in ChanTypes /\ mf' \in MediaTypes
    <2>0. MediaGetsSdp \/ MediaGathered \/ MediaSendsSdp \/ MediaCancelled \/ MediaFails \/ MediaExits
        BY DEF Media
    <2>1. CASE MediaGetsSdp
        <3>1. chan' = [chan EXCEPT !.sdpToMedia = None] /\ chan.sdpToMedia \in SessionOrNone
            BY <2>1 DEF MediaGetsSdp, ChanTypes
        <3>2. \/ mf' = [mf EXCEPT !.at = "gather", !.remoteSdp = chan.sdpToMedia]
              \/ mf' = [mf EXCEPT !.at = "run", !.remoteSdp = chan.sdpToMedia]
            BY <2>1, Zenon DEF MediaGetsSdp
        <3>3. chan' \in ChanTypes
            BY <3>1 DEF ChanTypes
        <3>4. mf' \in MediaTypes
            BY <3>1, <3>2 DEF MediaTypes
        <3> QED BY <3>3, <3>4
    <2>2. CASE MediaSendsSdp
        <3>1. \E s \in SessionOrNone : chan' = [chan EXCEPT !.sdpFromMedia = s]
            BY <2>2 DEF MediaSendsSdp, MediaTypes
        <3>2. chan' \in ChanTypes
            BY <3>1 DEF ChanTypes
        <3>3. mf' \in MediaTypes
            BY <2>2 DEF MediaSendsSdp, MediaTypes
        <3> QED BY <3>2, <3>3
    <2>3. CASE MediaGathered \/ MediaCancelled \/ MediaFails
        BY <2>3 DEF MediaGathered, MediaCancelled, MediaFails, MediaFailsTo, MediaTypes
    <2>4. CASE MediaExits
        <3>1. chan' \in ChanTypes
            BY <2>4 DEF MediaExits, ChanTypes
        <3>2. mf' \in MediaTypes
            BY <2>4 DEF MediaExits, MediaTypes
        <3> QED BY <3>1, <3>2
    <2> QED BY <2>0, <2>1, <2>2, <2>3, <2>4
<1> QED BY <1>1 DEF Media, TypeOK, sipVars, mainVars, ghostVars

\* main.
LEMMA MainTypes ==
    ASSUME TypeOK, UNCHANGED env, MainProgram
    PROVE  TypeOK'
<1>0. chan \in ChanTypes
    BY DEF TypeOK
<1>1. CASE GiveCall
    <2>1. chan' \in ChanTypes /\ started' \in 0 .. MaxCalls /\ inCall' \in BOOLEAN
        <3>1. started + 1 \in 0 .. MaxCalls
            BY <1>1, Constants DEF GiveCall, TypeOK
        <3>2. chan' = [chan EXCEPT !.startCall = started + 1] /\ inCall' = TRUE
              /\ started' = started + 1
            BY <1>1, Zenon DEF GiveCall
        <3>3. chan' \in ChanTypes
            BY <1>0, <3>1, <3>2 DEF ChanTypes
        <3> QED BY <3>1, <3>2, <3>3
    <2> QED BY <1>1, <2>1 DEF MainProgram, GiveCall, TypeOK, sipVars, ghostVars
<1>2. CASE TakeReport
    <2>1. callEndChan' \in Seq(Reports) /\ Len(callEndChan') <= MaxConcurrentCalls
        BY <1>2, HeadTailProperties, Constants DEF TakeReport, TypeOK
    <2> QED BY <1>2, <2>1 DEF MainProgram, TakeReport, TypeOK, sipVars, ghostVars
<1>3. CASE CancelMain
    BY <1>3 DEF MainProgram, CancelMain, TypeOK, sipVars, ghostVars, chanVars
<1> QED BY <1>1, <1>2, <1>3 DEF MainProgram

-----------------------------------------------------------------------------
(***************************************************************************)
(* Where the loop is, and its MediaFunc.                                   *)
(***************************************************************************)

\* The call that comes while the callee is busy is never the current one, so
\* it is declined and reported.
LEMMA RejectBusyEffect ==
    ASSUME IInv, RejectBusy
    PROVE  /\ ua.pc = "select" /\ ua.currentSession # None /\ Role = "uas"
           /\ chan.callReceived \in Incoming
           /\ ua.currentSession # chan.callReceived
           /\ chan' = [chan EXCEPT !.callReceived = None]
           /\ ua' = [ua EXCEPT !.uasCallIndex = ua.uasCallIndex + 1,
                               !.sending = [CallIndex |-> ua.uasCallIndex + 1,
                                            CallID |-> chan.callReceived,
                                            CallResult |-> "Failed"],
                               !.currentSession = ua.currentSession, !.pc = "report"]
           /\ EndSession(chan.callReceived)
           /\ UNCHANGED <<cr, callEndChan, mf, answered, reported>>
<1>1. /\ ua.pc = "select" /\ ua.currentSession # None /\ chan.callReceived # None
      /\ chan' = [chan EXCEPT !.callReceived = None]
      /\ UNCHANGED <<cr, callEndChan, mf, answered, reported>>
    BY DEF RejectBusy, RejectBusyAs
<1>2. Role = "uas" /\ chan.callReceived \in Incoming
    BY <1>1 DEF IInv, Begins
<1>3. ua.currentSession # chan.callReceived
    BY <1>1, <1>2 DEF IInv, Reported, Counted
<1> QED BY <1>1, <1>2, <1>3, Zenon DEF RejectBusy, RejectBusyAs

\* What the loop and MediaFunc see of it.
LEMMA RejectBusyKeeps ==
    ASSUME IInv, RejectBusy
    PROVE  /\ ua.pc = "select" /\ ua'.pc = "report"
           /\ ua'.mediaCancel = ua.mediaCancel /\ ua'.currentSession = ua.currentSession
           /\ ua'.reporter = ua.reporter /\ ua'.timer = ua.timer
           /\ chan'.mediaFuncEnd = chan.mediaFuncEnd /\ mf' = mf
<1>1. ua \in UATypes /\ chan \in ChanTypes
    BY DEF IInv, TypeOK
<1>2. chan'.mediaFuncEnd = chan.mediaFuncEnd
    BY <1>1, RejectBusyEffect DEF ChanTypes
<1> QED BY <1>1, <1>2, RejectBusyEffect DEF UATypes

\* The timer may end the current session.
LEMMA TimerFiresEffect ==
    ASSUME TimerFires
    PROVE  /\ ua.pc = "select"
           /\ \/ ua' = [ua EXCEPT !.timer = None, !.hangupByMe = TRUE]
              \/ ua' = [ua EXCEPT !.timer = None]
           /\ \/ ua.currentSession # None /\ EndSession(ua.currentSession)
              \/ UNCHANGED <<status, outcome>>
           /\ UNCHANGED <<cr, chan, callEndChan, mf, answered, reported>>
BY Zenon DEF TimerFires, chanVars

\* Nothing else changes.
LEMMA TimerKeeps ==
    ASSUME ua \in UATypes, TimerFires
    PROVE  /\ ua.pc = "select"
           /\ UNCHANGED <<cr, chan, callEndChan, mf, answered, reported>>
           /\ ua'.pc = ua.pc /\ ua'.mediaCancel = ua.mediaCancel /\ ua'.reporter = ua.reporter
           /\ ua'.currentSession = ua.currentSession /\ ua'.sending = ua.sending
           /\ ua'.uasCallIndex = ua.uasCallIndex /\ ua'.timer = None
<1>1. CASE ua' = [ua EXCEPT !.timer = None, !.hangupByMe = TRUE]
    BY <1>1, TimerFiresEffect DEF UATypes
<1>2. CASE ua' = [ua EXCEPT !.timer = None]
    BY <1>2, TimerFiresEffect DEF UATypes
<1> QED BY <1>1, <1>2, TimerFiresEffect

\* Leaving ends it too.
LEMMA LeaveEffect ==
    ASSUME Leave
    PROVE  /\ ua.pc = "select" /\ mainDone
           /\ ua' = [ua EXCEPT !.timer = None,
                               !.pc = IF ua.mediaCancel THEN "leave" ELSE "join"]
           /\ mf' = [mf EXCEPT !.cancelled = mf.cancelled \/ ua.mediaCancel]
           /\ \/ ua.currentSession # None /\ EndSession(ua.currentSession)
              \/ UNCHANGED <<status, outcome>>
           /\ UNCHANGED <<cr, chan, callEndChan, answered, reported>>
BY Zenon DEF Leave, chanVars

\* The place of the loop agrees with what it has started.
LEMMA LoopControl ==
    ASSUME IInv, Loop, TypeOK'
    PROVE  Control'
<1>0. /\ ua \in UATypes /\ chan \in ChanTypes /\ ua' \in UATypes
      /\ Control
    BY DEF IInv, TypeOK
<1>1. Role = "uas" => chan.startCall = 0
    BY <1>0, Constants DEF ChanTypes
<1> USE <1>0, <1>1, Constants
<1>2. CASE Registered
    BY <1>2 DEF Registered, Goto, Control, UATypes
<1>3. CASE StartFails
    BY <1>3 DEF StartFails, Goto, Control, UATypes
<1>4. CASE TakeCall
    BY <1>4 DEF TakeCall, Control, UATypes
<1>5. CASE SendInvite
    BY <1>5 DEF SendInvite, Goto, Control, UATypes, IInv, UacOffer
<1>6. CASE InviteError
    BY <1>6 DEF InviteError, Control, UATypes
<1>7. CASE InviteReturns
    BY <1>7 DEF InviteReturns, Control, UATypes
<1>8. CASE SendAnswer
    BY <1>8 DEF SendAnswer, Control, UATypes
<1>9. CASE Confirmed
    BY <1>9 DEF Confirmed, ConfirmedWith, Control, UATypes
<1>10. CASE RejectBusy
    <2>1. Role = "uas" /\ ua.pc = "select" /\ ua'.pc = "report"
          /\ ua'.mediaCancel = ua.mediaCancel /\ ua'.currentSession = ua.currentSession
          /\ ua'.reporter = ua.reporter
        BY <1>10, RejectBusyKeeps, RejectBusyEffect
    <2> QED BY <2>1 DEF Control
<1>11. CASE AcceptCall
    BY <1>11, AcceptCallEffect DEF Control, UATypes
<1>12. CASE IgnoreTerminated
    BY <1>12 DEF IgnoreTerminated, Control, UATypes
<1>13. CASE Terminated
    BY <1>13 DEF Terminated, TerminatedThen, Control, UATypes
<1>14. CASE MediaEnded
    BY <1>14 DEF MediaEnded, MediaEndedLeaving, Control, UATypes
<1>15. CASE WrapUp
    BY <1>15 DEF WrapUp, Control, UATypes
<1>16. CASE LoopReports
    BY <1>16 DEF LoopReports, Control, UATypes
<1>17. CASE TimerFires
    BY <1>17, TimerKeeps DEF Control
<1>18. CASE Leave
    BY <1>18 DEF Leave, Control, UATypes
<1>19. CASE MediaLeft
    BY <1>19 DEF MediaLeft, Goto, Control, UATypes
<1>20. CASE Exit
    BY <1>20 DEF Exit, Goto, Control, UATypes
<1> QED
    BY <1>2, <1>3, <1>4, <1>5, <1>6, <1>7, <1>8, <1>9, <1>10, <1>11, <1>12, <1>13, <1>14, <1>15, <1>16, <1>17, <1>18, <1>19, <1>20 DEF Loop


\* The loop starts a MediaFunc only when it has taken the end of the last.
LEMMA LoopOneMedia ==
    ASSUME IInv, Loop
    PROVE  OneMedia'
<1>0. /\ ua \in UATypes /\ chan \in ChanTypes /\ mf \in MediaTypes /\ Control /\ OneMedia
    BY DEF IInv, TypeOK
<1>1. /\ Role = "uas" => chan.startCall = 0
      /\ chan.callReceived # None => Role = "uas"
    BY <1>0, Constants DEF ChanTypes, IInv, Begins
<1> USE <1>0, <1>1, Constants DEF Control, OneMedia, UATypes, ChanTypes, MediaTypes
<1>2. CASE Registered
    BY <1>2 DEF Registered, Goto, chanVars
<1>3. CASE StartFails
    BY <1>3 DEF StartFails, Goto, chanVars
<1>4. CASE TakeCall
    BY <1>4 DEF TakeCall, StartMedia
<1>5. CASE SendInvite
    BY <1>5 DEF SendInvite, Goto
<1>6. CASE InviteError
    BY <1>6 DEF InviteError
<1>7. CASE InviteReturns
    BY <1>7 DEF InviteReturns, chanVars
<1>8. CASE SendAnswer
    BY <1>8 DEF SendAnswer
<1>9. CASE Confirmed
    BY <1>9 DEF Confirmed, ConfirmedWith
<1>10. CASE RejectBusy
    <2>1. /\ ua'.pc = "report" /\ ua'.mediaCancel = ua.mediaCancel /\ ua.pc = "select"
          /\ chan'.mediaFuncEnd = chan.mediaFuncEnd /\ mf' = mf
        BY <1>10, RejectBusyKeeps
    <2> QED BY <2>1
<1>11. CASE AcceptCall
    <2>1. /\ Role = "uas" /\ ~ua.mediaCancel /\ chan'.mediaFuncEnd = chan.mediaFuncEnd
          /\ ua'.mediaCancel /\ ua'.pc = "select"
        <3>1. chan' = [chan EXCEPT !.callReceived = None] /\ chan.callReceived # None
              /\ ua.pc = "select" /\ ua.currentSession = None
              /\ ua' = [ua EXCEPT !.uasCallIndex = ua.uasCallIndex + 1,
                                  !.currentSession = chan.callReceived, !.mediaCancel = TRUE]
            BY <1>11, AcceptCallEffect
        <3>2. ua'.mediaCancel /\ ua'.pc = "select"
            BY <3>1 DEF UATypes
        <3>3. chan'.mediaFuncEnd = chan.mediaFuncEnd
            BY <3>1 DEF ChanTypes
        <3>4. Role = "uas"
            BY <3>1 DEF IInv, Begins
        <3> QED BY <3>1, <3>2, <3>3, <3>4 DEF Control
    <2>2. mf'.at = "waitOffer" /\ mf'.call # None
        BY <1>11, <2>1, AcceptCallEffect DEF StartMedia
    <2> QED BY <2>1, <2>2
<1>12. CASE IgnoreTerminated
    BY <1>12 DEF IgnoreTerminated
<1>13. CASE Terminated
    BY <1>13 DEF Terminated, TerminatedThen
<1>14. CASE MediaEnded
    BY <1>14 DEF MediaEnded, MediaEndedLeaving
<1>15. CASE WrapUp
    BY <1>15 DEF WrapUp, chanVars
<1>16. CASE LoopReports
    BY <1>16 DEF LoopReports
<1>17. CASE TimerFires
    BY <1>17, TimerKeeps
<1>18. CASE Leave
    BY <1>18 DEF Leave, chanVars
<1>19. CASE MediaLeft
    BY <1>19 DEF MediaLeft, Goto
<1>20. CASE Exit
    BY <1>20 DEF Exit, Goto, chanVars
<1> QED
    BY <1>2, <1>3, <1>4, <1>5, <1>6, <1>7, <1>8, <1>9, <1>10, <1>11, <1>12, <1>13, <1>14, <1>15, <1>16, <1>17, <1>18, <1>19, <1>20 DEF Loop


\* A MediaFunc that returns leaves its end in mediaFuncEndChan.
LEMMA MediaOneMedia ==
    ASSUME IInv, Media
    PROVE  OneMedia'
<1>0. /\ chan \in ChanTypes /\ mf \in MediaTypes /\ OneMedia /\ UNCHANGED ua
    BY DEF IInv, TypeOK, Media
<1> USE <1>0, Constants DEF OneMedia, ChanTypes, MediaTypes
<1>1. CASE MediaGetsSdp
    BY <1>1 DEF MediaGetsSdp
<1>2. CASE MediaGathered
    BY <1>2 DEF MediaGathered
<1>3. CASE MediaSendsSdp
    BY <1>3 DEF MediaSendsSdp
<1>4. CASE MediaCancelled
    BY <1>4 DEF MediaCancelled
<1>5. CASE MediaFails
    BY <1>5 DEF MediaFails, MediaFailsTo
<1>6. CASE MediaExits
    BY <1>6 DEF MediaExits
<1> QED BY <1>1, <1>2, <1>3, <1>4, <1>5, <1>6 DEF Media


-----------------------------------------------------------------------------
(***************************************************************************)
(* Incoming sessions on their way to the loop, and those that arrived.     *)
(***************************************************************************)

\* Declining, hanging up, and leaving alone.
LEMMA EndSessionEffect ==
    ASSUME TypeOK, NEW r \in Sessions, EndSession(r)
    PROVE  /\ \A s \in Sessions : s # r => status'[s] = status[s] /\ outcome'[s] = outcome[s]
           /\ status[r] = "received" => status'[r] = "rejected" /\ outcome'[r] = "Failed"
           /\ status[r] \in {"answered", "confirmed"} => status'[r] = "bye"
           /\ status[r] \notin {"received", "answered", "confirmed"} => status'[r] = status[r]
           /\ status[r] # "received" => outcome'[r] = outcome[r]
<1>1. status \in [Sessions -> Statuses] /\ outcome \in [Sessions -> Results]
    BY DEF TypeOK, Statuses
<1> QED BY <1>1, Zenon DEF EndSession

\* No session is new again, and none is offered again.
NoneNew ==
    /\ \A s \in Sessions : status[s] # "new" => status'[s] # "new"
    /\ \A s \in Sessions : status'[s] = "received" => status[s] = "received"

\* The loop begins no session, runs no handler and fills no channel of theirs.
LEMMA LoopStatus ==
    ASSUME IInv, Loop
    PROVE  NoneNew /\ handlers' = handlers /\ chan'.callReceived \in {None, chan.callReceived}
<1>0. /\ status \in [Sessions -> Statuses] /\ TypeOK /\ chan \in ChanTypes
      /\ ua.currentSession \in Sessions \cup {None}
    BY DEF IInv, TypeOK, Statuses, UATypes, SessionOrNone
<1>1. handlers' = handlers
    BY DEF Loop
<1>2. chan'.callReceived \in {None, chan.callReceived}
    BY <1>0 DEF Loop, Registered, StartFails, TakeCall, SendInvite, InviteError, InviteReturns,
       SendAnswer, Confirmed, ConfirmedWith, RejectBusy, RejectBusyAs, AcceptCall,
       IgnoreTerminated, Terminated, TerminatedThen, MediaEnded, MediaEndedLeaving, WrapUp, LoopReports, TimerFires, Leave, MediaLeft, Exit, chanVars, ChanTypes
<1>3. NoneNew
    <2>1. CASE SendInvite
        BY <1>0, <2>1 DEF SendInvite, NoneNew
    <2>2. CASE SendAnswer
        <3>1. \/ status' = status
              \/ status' = [status EXCEPT ![ua.currentSession] =
                                IF @ = "received" THEN "answered" ELSE @]
            BY <2>2, Zenon DEF SendAnswer
        <3> QED BY <1>0, <3>1 DEF NoneNew
    <2>3. CASE \E r \in Sessions : EndSession(r)
        BY <1>0, <2>3, EndSessionEffect DEF NoneNew
    <2>4. CASE UNCHANGED status
        BY <2>4 DEF NoneNew
    <2>5. CASE RejectBusy
        BY <2>3, <2>5, RejectBusyEffect, Constants
    <2>6. CASE TimerFires
        BY <1>0, <2>3, <2>4, <2>6, TimerFiresEffect, Constants
    <2>7. CASE Leave
        BY <1>0, <2>3, <2>4, <2>7, Constants DEF Leave
    <2> QED
        BY <2>1, <2>2, <2>4, <2>5, <2>6, <2>7, AcceptCallEffect DEF Loop, Registered, StartFails,
           TakeCall, InviteError, InviteReturns, Confirmed, ConfirmedWith, IgnoreTerminated,
           Terminated, TerminatedThen, MediaEnded, MediaEndedLeaving, WrapUp,
           LoopReports, MediaLeft, Exit
<1> QED BY <1>1, <1>2, <1>3

\* So the sessions announced stay so, and a session that is counted stays counted.
LEMMA LoopBegins ==
    ASSUME IInv, Loop
    PROVE  Begins' /\ Counted \subseteq Counted'
<1>1. Begins /\ handlers \subseteq Handlers
    BY DEF IInv, TypeOK
<1>2. \A h \in Handlers : h.sess \in Sessions
    BY DEF Handlers
<1>3. Begins'
    BY <1>1, <1>2, LoopStatus, Constants DEF Begins, NoneNew
<1>4. Counted \subseteq Counted'
    BY LoopStatus, Constants DEF Counted, NoneNew
<1> QED BY <1>3, <1>4

\* The stack begins a session once, with the one handler that announces it.
LEMMA StackBegins ==
    ASSUME IInv, NEW s \in Sessions, Stack(s)
    PROVE  Begins' /\ Counted \subseteq Counted' /\ cancels' \subseteq Incoming
<1>0. /\ status \in [Sessions -> Statuses] /\ TypeOK /\ Begins /\ handlers \subseteq Handlers
      /\ cancels \subseteq Incoming /\ chan' = chan
    BY StackEffect DEF IInv, TypeOK, Statuses
<1>1. \A h \in Handlers : h.sess \in Sessions
    BY DEF Handlers
<1>2. CASE StackTurns(s)
    <2>1. cancels' \subseteq Incoming
        BY <1>0, <1>2 DEF StackTurns
    <2>2. CASE status[s] # "new"
        <3>1. PICK h0 \in Handlers : h0.kind = "confirmed" /\ handlers' = handlers \cup {h0}
            BY <1>2, <2>2 DEF StackTurns, HandlerStarts
        <3>2. status' = [status EXCEPT ![s] = "confirmed"]
            BY <1>2, <2>2 DEF StackTurns
        <3>3. Begins'
            BY <1>0, <1>1, <3>1, <3>2, Constants DEF Begins
        <3>4. Counted \subseteq Counted'
            BY <1>0, <3>1, <3>2, Constants DEF Counted
        <3> QED BY <2>1, <3>3, <3>4
    <2>3. CASE status[s] = "new"
        <3>1. PICK h0 \in Handlers : /\ h0.kind = "received" /\ h0.sess = s /\ h0.at = "sdp"
                                     /\ handlers' = handlers \cup {h0}
            BY <1>2, <2>3 DEF StackTurns, HandlerStarts
        <3>2. status' = [status EXCEPT ![s] = "received"] /\ s \in Incoming
            BY <1>2, <2>3 DEF StackTurns
        <3>3. Begins'
            BY <1>0, <1>1, <2>3, <3>1, <3>2, Constants DEF Begins
        <3>4. Counted \subseteq Counted'
            BY <1>0, <2>3, <3>1, <3>2, Constants DEF Counted
        <3> QED BY <2>1, <3>3, <3>4
    <2> QED BY <2>2, <2>3
<1>3. CASE StackEnds(s)
    <2>1. PICK h0 \in Handlers : h0.kind = "ended" /\ handlers' = handlers \cup {h0}
        BY <1>3 DEF StackEnds, Ends
    <2>2. status' = [status EXCEPT ![s] = "over"] /\ cancels' = cancels
        BY <1>3 DEF StackEnds, Ends
    <2>3. Begins'
        BY <1>0, <1>1, <2>1, <2>2, Constants DEF Begins
    <2>4. Counted \subseteq Counted'
        BY <1>0, <2>1, <2>2, Constants DEF Counted
    <2> QED BY <1>0, <2>2, <2>3, <2>4
<1>4. CASE StackCancels(s)
    <2>1. cancels' \subseteq Incoming /\ UNCHANGED <<status, handlers, chan>>
        BY <1>0, <1>4 DEF StackCancels, Begins
    <2> QED BY <1>0, <2>1 DEF Begins, Counted
<1> QED BY <1>2, <1>3, <1>4, StackEffect, <1>0

\* A handler that goes on stays the handler of its session.
LEMMA AdvanceEffect ==
    ASSUME NEW h \in Handlers, NEW at \in {"load", "sdp", "write", "notify"}, Advance(h, at)
    PROVE  \E g \in Handlers : /\ g.kind = h.kind /\ g.sess = h.sess /\ g.result = h.result
                               /\ g.at = at /\ g.again = h.again
                               /\ handlers' = (handlers \ {h}) \cup {g}
<1> DEFINE g0 == [h EXCEPT !.at = at]
<1>1. /\ g0 \in Handlers /\ g0.kind = h.kind /\ g0.sess = h.sess /\ g0.result = h.result
      /\ g0.at = at /\ g0.again = h.again
    BY DEF Handlers
<1>2. handlers' = (handlers \ {h}) \cup {g0}
    BY DEF Advance
<1> HIDE DEF g0
<1> QED BY <1>1, <1>2

\* A handler called again starts over.
LEMMA AgainEffect ==
    ASSUME NEW h \in Handlers
    PROVE  LET g == [h EXCEPT !.at = "sdp", !.again = FALSE]
           IN  /\ g \in Handlers /\ g.kind = h.kind /\ g.sess = h.sess /\ g.result = h.result
               /\ g.at = "sdp" /\ ~g.again
BY DEF Handlers

\* A handler announces its session once, and then it is counted.
LEMMA HandlerBegins ==
    ASSUME IInv, HandlerStep
    PROVE  Begins' /\ Counted \subseteq Counted'
<1>0. /\ status \in [Sessions -> Statuses] /\ TypeOK /\ Begins /\ handlers \subseteq Handlers
      /\ chan \in ChanTypes
    BY DEF IInv, TypeOK, Statuses
<1>1. PICK h \in handlers :
          \/ HandleSdp(h) \/ HandleUnwanted(h) \/ NotifyReceived(h) \/ NotifyConfirmed(h)
          \/ ConfirmedAgain(h) \/ HandleEnded(h) \/ NotifyEnded(h)
    BY DEF HandlerStep
<1>2. h \in Handlers /\ \A g \in Handlers : g.sess \in Sessions
    BY <1>0 DEF Handlers
<1>3. CASE HandleSdp(h)
    <2>1. PICK g \in Handlers : /\ g.kind = h.kind /\ g.sess = h.sess /\ g.at = "notify"
                                /\ handlers' = (handlers \ {h}) \cup {g}
        BY <1>2, <1>3, AdvanceEffect DEF HandleSdp
    <2>2. /\ status' = status /\ chan'.callReceived = chan.callReceived
          /\ h.kind = "received" => Role = "uas"
        BY <1>0, <1>3 DEF HandleSdp, ChanTypes
    <2> QED BY <1>0, <1>2, <2>1, <2>2, Constants DEF Begins, Counted
<1>4. CASE HandleUnwanted(h)
    <2>1. /\ handlers' = handlers \ {h} /\ chan' = chan /\ h.sess \in Sessions
          /\ EndSession(h.sess)
        BY <1>2, <1>4 DEF HandleUnwanted, Return
    <2>2. NoneNew
        BY <1>0, <2>1, EndSessionEffect DEF NoneNew
    <2> QED BY <1>0, <1>2, <2>1, <2>2, Constants DEF Begins, Counted, NoneNew
<1>5. CASE NotifyReceived(h)
    <2>1. /\ handlers' = handlers \ {h} /\ status' = status /\ chan.callReceived = None
          /\ chan'.callReceived = h.sess /\ h.kind = "received" /\ h.at = "notify"
        BY <1>0, <1>5 DEF NotifyReceived, Return, ChanTypes
    <2> QED BY <1>0, <1>2, <2>1, Constants DEF Begins, Counted
<1>6. CASE NotifyConfirmed(h)
    <2>1. /\ h.kind = "confirmed"
          /\ \/ handlers' = handlers \ {h}
             \/ \E g \in Handlers : g.kind = h.kind /\ handlers' = (handlers \ {h}) \cup {g}
        BY <1>2, <1>6, AdvanceEffect DEF NotifyConfirmed, Return
    <2>2. status' = status /\ chan'.callReceived = chan.callReceived
        BY <1>0, <1>6 DEF NotifyConfirmed, ChanTypes
    <2> QED BY <1>0, <1>2, <2>1, <2>2, Constants DEF Begins, Counted
<1>7. CASE ConfirmedAgain(h)
    <2>1. /\ h.kind = "confirmed"
          /\ \/ handlers' = handlers \ {h}
             \/ \E g \in Handlers : g.kind = h.kind /\ handlers' = (handlers \ {h}) \cup {g}
        BY <1>2, <1>7, AgainEffect DEF ConfirmedAgain
    <2>2. status' = status /\ chan' = chan
        BY <1>7 DEF ConfirmedAgain
    <2> QED BY <1>0, <1>2, <2>1, <2>2, Constants DEF Begins, Counted
<1>8. CASE HandleEnded(h)
    <2>1. PICK g \in Handlers : g.kind = h.kind /\ handlers' = (handlers \ {h}) \cup {g}
        BY <1>2, <1>8, AdvanceEffect DEF HandleEnded, WriteResult
    <2>2. status' = status /\ chan' = chan /\ h.kind = "ended"
        BY <1>8 DEF HandleEnded, WriteResult
    <2> QED BY <1>0, <1>2, <2>1, <2>2, Constants DEF Begins, Counted
<1>9. CASE NotifyEnded(h)
    <2>1. handlers' = handlers \ {h} /\ status' = status /\ h.kind = "ended"
          /\ chan'.callReceived = chan.callReceived
        BY <1>0, <1>9 DEF NotifyEnded, Return, ChanTypes
    <2> QED BY <1>0, <1>2, <2>1, Constants DEF Begins, Counted
<1> QED BY <1>1, <1>3, <1>4, <1>5, <1>6, <1>7, <1>8, <1>9

\* The incoming sessions are finitely many.
LEMMA IncomingFinite ==
    ASSUME NEW S, S \subseteq Incoming
    PROVE  IsFiniteSet(S) /\ Cardinality(S) \in Nat /\ Cardinality(S) <= MaxIncoming
<1> DEFINE first == MaxCalls + 1
           last == MaxCalls + MaxIncoming
<1>1. IsFiniteSet(Incoming) /\ Cardinality(Incoming) = MaxIncoming
    <2>1. /\ first \in Int /\ last \in Int /\ MaxIncoming \in Nat
          /\ last - first + 1 = MaxIncoming /\ (first > last => MaxIncoming = 0)
        BY Constants
    <2>2. Incoming = first .. last
        BY DEF Incoming
    <2> HIDE DEF first, last
    <2>3. IsFiniteSet(first .. last)
          /\ Cardinality(first .. last) = IF first > last THEN 0 ELSE last - first + 1
        BY <2>1, FS_Interval
    <2> QED BY <2>1, <2>2, <2>3
<1> QED BY <1>1, FS_Subset, FS_CardinalityType

\* The loop counts the session that it takes from callReceivedChan.
LEMMA TakenIsCounted ==
    ASSUME IInv, chan.callReceived # None, chan'.callReceived = None,
           handlers' = handlers, NoneNew, Counted \subseteq Counted'
    PROVE  Cardinality(Counted) + 1 <= Cardinality(Counted')
<1> DEFINE s == chan.callReceived
<1>1. s \in Incoming /\ s \notin Counted
    BY DEF IInv, Begins, Counted
<1>2. s \in Counted'
    BY <1>1, Constants DEF IInv, Begins, Counted, NoneNew
<1>3. IsFiniteSet(Counted) /\ IsFiniteSet(Counted')
      /\ Cardinality(Counted) \in Nat /\ Cardinality(Counted') \in Nat
    BY IncomingFinite DEF Counted
<1>4. Cardinality(Counted \cup {s}) = Cardinality(Counted) + 1
    BY <1>1, <1>3, FS_AddElement
<1>5. Cardinality(Counted \cup {s}) <= Cardinality(Counted')
    BY <1>2, <1>3, FS_Subset
<1> QED BY <1>3, <1>4, <1>5

\* Each session the loop takes or declines raises the call index by one.
LEMMA LoopCounts ==
    ASSUME IInv, Loop
    PROVE  CallsCounted'
<1>0. /\ ua \in UATypes /\ chan \in ChanTypes /\ CallsCounted
      /\ ua.uasCallIndex \in Nat
    BY Constants DEF IInv, TypeOK, UATypes
<1>1. Counted \subseteq Counted' /\ NoneNew /\ handlers' = handlers
    BY LoopBegins, LoopStatus
<1>2. CASE ua'.uasCallIndex = ua.uasCallIndex
    <2>1. IsFiniteSet(Counted') /\ Cardinality(Counted) \in Nat /\ Cardinality(Counted') \in Nat
        BY IncomingFinite DEF Counted
    <2>2. Cardinality(Counted) <= Cardinality(Counted')
        BY <1>1, <2>1, FS_Subset
    <2> QED BY <1>0, <1>2, <2>1, <2>2 DEF CallsCounted
<1>3. CASE RejectBusy \/ AcceptCall
    <2>1. /\ ua'.uasCallIndex = ua.uasCallIndex + 1
          /\ chan.callReceived # None /\ chan'.callReceived = None
        <3>1. chan.callReceived # None
            BY <1>3 DEF RejectBusy, RejectBusyAs, AcceptCall
        <3>2. CASE RejectBusy
            <4>1. /\ chan' = [chan EXCEPT !.callReceived = None]
                  /\ ua'.uasCallIndex = ua.uasCallIndex + 1
                BY <1>0, <3>2, RejectBusyEffect DEF UATypes
            <4> QED BY <1>0, <3>1, <4>1 DEF ChanTypes
        <3>3. CASE AcceptCall
            <4>1. /\ chan' = [chan EXCEPT !.callReceived = None]
                  /\ ua'.uasCallIndex = ua.uasCallIndex + 1
                BY <1>0, <3>3, AcceptCallEffect DEF UATypes
            <4> QED BY <1>0, <3>1, <4>1 DEF ChanTypes
        <3> QED BY <1>3, <3>2, <3>3
    <2>2. Cardinality(Counted) + 1 <= Cardinality(Counted')
        BY <1>1, <2>1, TakenIsCounted
    <2>3. Cardinality(Counted) \in Nat /\ Cardinality(Counted') \in Nat
        BY IncomingFinite DEF Counted
    <2> QED BY <1>0, <2>1, <2>2, <2>3 DEF CallsCounted
<1>4. RejectBusy \/ AcceptCall \/ ua'.uasCallIndex = ua.uasCallIndex
    BY <1>0, TimerFiresEffect DEF Loop, Registered, StartFails, TakeCall, SendInvite, InviteError,
       InviteReturns, SendAnswer, Confirmed, ConfirmedWith, IgnoreTerminated, Terminated,
       TerminatedThen, MediaEnded, MediaEndedLeaving, WrapUp, LoopReports, Leave,
       MediaLeft, Exit, Goto, UATypes
<1> QED BY <1>2, <1>3, <1>4

-----------------------------------------------------------------------------
(***************************************************************************)
(* A caller's calls, from the command to the report.                       *)
(***************************************************************************)

\* A caller's loop answers no INVITE, and leaves its reports to others.
LEMMA UacLoop ==
    ASSUME IInv, Role = "uac", Loop
    PROVE  /\ \/ Registered \/ StartFails \/ TakeCall \/ SendInvite \/ InviteError
              \/ InviteReturns \/ Confirmed \/ IgnoreTerminated \/ Terminated \/ MediaEnded
              \/ WrapUp \/ TimerFires \/ Leave \/ MediaLeft \/ Exit
           /\ UNCHANGED <<started, inCall, handlers, callEndChan, reported>>
<1>1. /\ ~SendAnswer /\ ~LoopReports /\ ~RejectBusy /\ ~AcceptCall
    BY RejectBusyEffect, AcceptCallEffect DEF SendAnswer, LoopReports, IInv, Control, Begins
<1>2. UNCHANGED <<started, inCall, handlers>>
    BY DEF Loop, mainVars
<1>3. UNCHANGED <<callEndChan, reported>>
    BY <1>1, TimerFiresEffect DEF Loop, Registered, StartFails, TakeCall, SendInvite, InviteError,
       InviteReturns, Confirmed, ConfirmedWith, IgnoreTerminated, Terminated, TerminatedThen,
       MediaEnded, MediaEndedLeaving, WrapUp, Leave, MediaLeft, Exit, chanVars,
       ghostVars
<1> QED BY <1>1, <1>2, <1>3 DEF Loop

\* A command comes only to an agent that is free, so it is never dropped.
LEMMA UacTakesCall ==
    ASSUME IInv, Role = "uac", TakeCall
    PROVE  /\ ua.pc = "select" /\ ~ua.mediaCancel /\ ua.currentSession = None
           /\ chan.startCall \in Outgoing /\ chan.startCall = started
           /\ chan' = [chan EXCEPT !.startCall = 0]
           /\ cr' \in Reports /\ cr'.CallIndex = chan.startCall /\ cr'.CallID = None
           /\ ua' = [ua EXCEPT !.mediaCancel = TRUE]
           /\ mf'.at = "gather" /\ mf'.call = chan.startCall /\ ~mf'.cancelled
           /\ mf'.remoteSdp = None
           /\ UNCHANGED <<callEndChan, status, outcome, answered, reported>>
<1>1. ua.pc = "select" /\ chan.startCall # 0 /\ chan' = [chan EXCEPT !.startCall = 0]
      /\ UNCHANGED <<callEndChan, status, outcome, answered, reported>>
    BY DEF TakeCall, ghostVars
<1>2. ~ua.mediaCancel /\ chan.startCall = started
    BY <1>1 DEF IInv, UacToken, UacCalls, InAgent
<1>3. ua.currentSession = None
    BY <1>2 DEF IInv, Control
<1>4. chan.startCall \in Outgoing
    BY <1>1, Constants DEF IInv, TypeOK, ChanTypes
<1>5. /\ cr' = [NoReport EXCEPT !.CallIndex = chan.startCall]
      /\ ua' = [ua EXCEPT !.mediaCancel = TRUE]
      /\ StartMedia(chan.startCall)
    BY <1>2, <1>3 DEF TakeCall
<1>6. cr' \in Reports /\ cr'.CallIndex = chan.startCall /\ cr'.CallID = None
    BY <1>4, <1>5, NoReportType, Constants DEF Reports
<1>7. mf'.at = "gather" /\ mf'.call = chan.startCall /\ ~mf'.cancelled /\ mf'.remoteSdp = None
    BY <1>5 DEF StartMedia
<1> QED BY <1>1, <1>2, <1>3, <1>4, <1>5, <1>6, <1>7


\* The loop holds the last call that was started, or none.
LEMMA LoopUacCalls ==
    ASSUME IInv, Role = "uac", Loop
    PROVE  UacCalls'
<1>0. /\ ua \in UATypes /\ chan \in ChanTypes /\ cr \in Reports /\ started \in 0 .. MaxCalls
      /\ Control /\ UacCalls /\ UacToken
    BY DEF IInv, TypeOK
<1>1. UNCHANGED started
    BY UacLoop
<1> USE <1>0, <1>1, Constants DEF Control, UacCalls, UacToken, InAgent, UATypes, ChanTypes, Reports
<1>2. CASE Registered
    BY <1>2 DEF Registered, Goto, chanVars
<1>3. CASE StartFails
    BY <1>3 DEF StartFails, Goto, chanVars
<1>4. CASE TakeCall
    BY <1>4, UacTakesCall
<1>5. CASE SendInvite
    BY <1>5 DEF SendInvite, Goto
<1>6. CASE InviteError
    BY <1>6 DEF InviteError
<1>7. CASE InviteReturns
    BY <1>7 DEF InviteReturns, chanVars
<1>8. CASE Confirmed
    BY <1>8 DEF Confirmed, ConfirmedWith
<1>9. CASE IgnoreTerminated
    BY <1>9 DEF IgnoreTerminated
<1>10. CASE Terminated
    BY <1>10 DEF Terminated, TerminatedThen
<1>11. CASE MediaEnded
    BY <1>11 DEF MediaEnded, MediaEndedLeaving
<1>12. CASE WrapUp
    BY <1>12 DEF WrapUp, chanVars
<1>13. CASE TimerFires
    <2>1. /\ UNCHANGED <<cr, chan>>
          /\ ua'.pc = ua.pc /\ ua'.mediaCancel = ua.mediaCancel /\ ua'.reporter = ua.reporter
          /\ ua'.currentSession = ua.currentSession
        BY <1>13, TimerKeeps
    <2> QED BY <2>1
<1>14. CASE Leave
    BY <1>14 DEF Leave, chanVars
<1>15. CASE MediaLeft
    BY <1>15 DEF MediaLeft, Goto
<1>16. CASE Exit
    BY <1>16 DEF Exit, Goto, chanVars
<1> QED
    BY <1>2, <1>3, <1>4, <1>5, <1>6, <1>7, <1>8, <1>9, <1>10, <1>11, <1>12, <1>13, <1>14, <1>15, <1>16, UacLoop


\* The offer of a caller's MediaFunc goes out before the INVITE does.
LEMMA LoopUacOffer ==
    ASSUME IInv, Role = "uac", Loop
    PROVE  UacOffer'
<1>0. /\ ua \in UATypes /\ chan \in ChanTypes /\ cr \in Reports /\ mf \in MediaTypes
      /\ status \in [Sessions -> Statuses]
      /\ Control /\ UacCalls /\ UacOffer /\ OneMedia
    BY DEF IInv, TypeOK, Statuses
<1>1. chan.sdpFromMedia # None \/ mf.at \in {"gather", "sendSdp"} => cr.CallIndex \in Outgoing
    BY <1>0, Constants DEF IInv, TypeOK, UacOffer, OneMedia, UacCalls, InAgent, Reports
<1> USE <1>0, Constants DEF Control, UacCalls, UacOffer, OneMedia, InAgent, UATypes, ChanTypes, Reports
<1>2. CASE Registered
    BY <1>2 DEF Registered, Goto, chanVars
<1>3. CASE StartFails
    BY <1>3 DEF StartFails, Goto, chanVars
<1>4. CASE TakeCall
    BY <1>4, UacTakesCall
<1>5. CASE SendInvite
    BY <1>5 DEF SendInvite, Goto
<1>6. CASE InviteError
    BY <1>6 DEF InviteError
<1>7. CASE InviteReturns
    BY <1>7 DEF InviteReturns, chanVars
<1>8. CASE Confirmed
    BY <1>8 DEF Confirmed, ConfirmedWith
<1>9. CASE IgnoreTerminated
    BY <1>9 DEF IgnoreTerminated
<1>10. CASE Terminated
    BY <1>10 DEF Terminated, TerminatedThen
<1>11. CASE MediaEnded
    BY <1>11 DEF MediaEnded, MediaEndedLeaving
<1>12. CASE WrapUp
    BY <1>12 DEF WrapUp, chanVars
<1>13. CASE TimerFires
    <2>1. /\ UNCHANGED <<cr, chan, mf>>
          /\ ua'.pc = ua.pc /\ ua'.mediaCancel = ua.mediaCancel
          /\ ua'.currentSession = ua.currentSession
        BY <1>13, TimerKeeps
    <2>2. \A s \in Sessions : status[s] = "new" => status'[s] = "new"
        <3>1. \/ status' = status
              \/ ua.currentSession \in Sessions /\ EndSession(ua.currentSession)
            BY <1>13, TimerFiresEffect DEF SessionOrNone
        <3> QED BY <3>1, EndSessionEffect DEF IInv
    <2> QED BY <1>1, <2>1, <2>2
<1>14. CASE Leave
    <2>1. /\ UNCHANGED <<cr, chan>> /\ mf'.at = mf.at
          /\ ua.pc = "select" /\ ua'.pc \in {"leave", "join"}
          /\ ua'.mediaCancel = ua.mediaCancel /\ ua'.currentSession = ua.currentSession
        BY <1>14 DEF Leave, chanVars, MediaTypes
    <2>2. \A s \in Sessions : status[s] = "new" => status'[s] = "new"
        <3>1. \/ status' = status
              \/ ua.currentSession \in Sessions /\ EndSession(ua.currentSession)
            BY <1>14, LeaveEffect DEF SessionOrNone
        <3> QED BY <3>1, EndSessionEffect DEF IInv
    <2> QED BY <1>1, <2>1, <2>2
<1>15. CASE MediaLeft
    BY <1>15 DEF MediaLeft, Goto
<1>16. CASE Exit
    BY <1>16 DEF Exit, Goto, chanVars
<1> QED
    BY <1>2, <1>3, <1>4, <1>5, <1>6, <1>7, <1>8, <1>9, <1>10, <1>11, <1>12, <1>13, <1>14, <1>15, <1>16, UacLoop


\* The one call is in the command, in the agent, in the report, or nowhere.
LEMMA LoopUacToken ==
    ASSUME IInv, Role = "uac", Loop
    PROVE  UacToken'
<1>0. /\ ua \in UATypes /\ chan \in ChanTypes /\ Control /\ UacToken
    BY DEF IInv, TypeOK
<1>1. UNCHANGED <<inCall, callEndChan>>
    BY UacLoop
<1> USE <1>0, <1>1, Constants DEF Control, UacToken, InAgent, UATypes, ChanTypes
<1>2. CASE Registered
    BY <1>2 DEF Registered, Goto, chanVars
<1>3. CASE StartFails
    BY <1>3 DEF StartFails, Goto, chanVars
<1>4. CASE TakeCall
    BY <1>4, UacTakesCall
<1>5. CASE SendInvite
    BY <1>5 DEF SendInvite, Goto
<1>6. CASE InviteError
    BY <1>6 DEF InviteError
<1>7. CASE InviteReturns
    BY <1>7 DEF InviteReturns, chanVars
<1>8. CASE Confirmed
    BY <1>8 DEF Confirmed, ConfirmedWith
<1>9. CASE IgnoreTerminated
    BY <1>9 DEF IgnoreTerminated
<1>10. CASE Terminated
    BY <1>10 DEF Terminated, TerminatedThen
<1>11. CASE MediaEnded
    BY <1>11 DEF MediaEnded, MediaEndedLeaving
<1>12. CASE WrapUp
    BY <1>12 DEF WrapUp, chanVars
<1>13. CASE TimerFires
    BY <1>13, TimerKeeps DEF chanVars
<1>14. CASE Leave
    BY <1>14 DEF Leave, chanVars
<1>15. CASE MediaLeft
    BY <1>15 DEF MediaLeft, Goto
<1>16. CASE Exit
    BY <1>16 DEF Exit, Goto, chanVars
<1> QED
    BY <1>2, <1>3, <1>4, <1>5, <1>6, <1>7, <1>8, <1>9, <1>10, <1>11, <1>12, <1>13, <1>14, <1>15, <1>16, UacLoop


\* A session reported is that of a call which has left the agent.
LEMMA LoopUacReported ==
    ASSUME IInv, Role = "uac", Loop
    PROVE  Reported'
<1>0. /\ ua \in UATypes /\ chan \in ChanTypes /\ cr \in Reports /\ Control /\ UacCalls /\ Reported
    BY DEF IInv, TypeOK
<1>1. UNCHANGED reported
    BY UacLoop
<1> USE <1>0, <1>1, Constants DEF Control, UacCalls, Reported, InAgent, UATypes, ChanTypes, Reports
<1>2. CASE Registered
    BY <1>2 DEF Registered, Goto, chanVars
<1>3. CASE StartFails
    BY <1>3 DEF StartFails, Goto, chanVars
<1>4. CASE TakeCall
    BY <1>4, UacTakesCall
<1>5. CASE SendInvite
    BY <1>5 DEF SendInvite, Goto
<1>6. CASE InviteError
    BY <1>6 DEF InviteError
<1>7. CASE InviteReturns
    BY <1>7 DEF InviteReturns, chanVars
<1>8. CASE Confirmed
    BY <1>8 DEF Confirmed, ConfirmedWith
<1>9. CASE IgnoreTerminated
    BY <1>9 DEF IgnoreTerminated
<1>10. CASE Terminated
    BY <1>10 DEF Terminated, TerminatedThen
<1>11. CASE MediaEnded
    BY <1>11 DEF MediaEnded, MediaEndedLeaving
<1>12. CASE WrapUp
    BY <1>12 DEF WrapUp, chanVars
<1>13. CASE TimerFires
    BY <1>13, TimerKeeps DEF chanVars
<1>14. CASE Leave
    BY <1>14 DEF Leave, chanVars
<1>15. CASE MediaLeft
    BY <1>15 DEF MediaLeft, Goto
<1>16. CASE Exit
    BY <1>16 DEF Exit, Goto, chanVars
<1> QED
    BY <1>2, <1>3, <1>4, <1>5, <1>6, <1>7, <1>8, <1>9, <1>10, <1>11, <1>12, <1>13, <1>14, <1>15, <1>16, UacLoop

-----------------------------------------------------------------------------
(***************************************************************************)
(* A callee's reports.                                                     *)
(***************************************************************************)

\* A callee's loop makes no calls.
LEMMA UasLoop ==
    ASSUME IInv, Role = "uas", Loop
    PROVE  \/ Registered \/ StartFails \/ SendAnswer \/ Confirmed \/ RejectBusy \/ AcceptCall
           \/ IgnoreTerminated \/ Terminated \/ MediaEnded \/ WrapUp \/ LoopReports
           \/ TimerFires \/ Leave \/ MediaLeft \/ Exit
<1>1. chan.startCall = 0 /\ ua.pc # "invite"
    BY Constants DEF IInv, TypeOK, ChanTypes, Control
<1> QED BY <1>1 DEF Loop, TakeCall, SendInvite, InviteError, InviteReturns

\* The loop takes or declines a session that was not counted, so not reported.
LEMMA LoopUasReported ==
    ASSUME IInv, Role = "uas", Loop
    PROVE  Reported'
<1>0. /\ ua \in UATypes /\ chan \in ChanTypes /\ cr \in Reports /\ Control /\ Reported
      /\ reported \in [Sessions -> 0 .. 1]
    BY DEF IInv, TypeOK
<1>1. Counted \subseteq Counted'
    BY LoopBegins
<1>2. chan.callReceived # None =>
          /\ chan.callReceived \in Incoming /\ chan.callReceived \notin Counted
          /\ (chan'.callReceived = None => chan.callReceived \in Counted')
    BY LoopStatus, LoopBegins, Constants DEF IInv, Begins, Counted, NoneNew
<1>2a. chan.callReceived # None => reported[chan.callReceived] = 0
    BY <1>0, <1>2, Constants DEF Reported
<1>3. Counted \subseteq Sessions /\ Counted' \subseteq Sessions
    BY Constants DEF Counted
<1> USE <1>0, <1>1, <1>3, Constants, NoReportType DEF Control, Reported, UATypes
<1>4. CASE Registered
    BY <1>4 DEF Registered, Goto, chanVars, ghostVars
<1>5. CASE StartFails
    BY <1>5 DEF StartFails, Goto, chanVars, ghostVars
<1>6. CASE SendAnswer
    BY <1>6 DEF SendAnswer
<1>7. CASE Confirmed
    BY <1>7 DEF Confirmed, ConfirmedWith, ghostVars
<1>8. CASE RejectBusy
    <2>1. chan' = [chan EXCEPT !.callReceived = None] /\ reported' = reported /\ cr' = cr
        BY <1>8, RejectBusyEffect
    <2>2. chan.callReceived # None /\ chan'.callReceived = None
        BY <1>8, <2>1 DEF RejectBusy, RejectBusyAs, ChanTypes
    <2>3. /\ ua'.pc = "report" /\ ua'.sending.CallID = chan.callReceived
          /\ ua'.currentSession = ua.currentSession /\ ua.pc = "select"
          /\ ua.currentSession # chan.callReceived
        <3>1. ua' = [ua EXCEPT !.uasCallIndex = ua.uasCallIndex + 1,
                               !.sending = [CallIndex |-> ua.uasCallIndex + 1,
                                            CallID |-> chan.callReceived,
                                            CallResult |-> "Failed"],
                               !.currentSession = ua.currentSession, !.pc = "report"]
            BY <1>8, RejectBusyEffect
        <3> QED BY <1>8, <3>1, RejectBusyEffect
    <2> QED BY <1>2, <1>2a, <2>1, <2>2, <2>3
<1>9. CASE AcceptCall
    <2>1. chan' = [chan EXCEPT !.callReceived = None] /\ reported' = reported
          /\ cr'.CallID = chan.callReceived
        BY <1>9, AcceptCallEffect
    <2>2. chan.callReceived # None /\ chan'.callReceived = None
        BY <1>9, <2>1, AcceptCallEffect DEF ChanTypes
    <2>3. /\ ua'.pc = "select" /\ ua'.currentSession = chan.callReceived
        <3>1. ua' = [ua EXCEPT !.uasCallIndex = ua.uasCallIndex + 1,
                               !.currentSession = chan.callReceived, !.mediaCancel = TRUE]
              /\ ua.pc = "select"
            BY <1>9, AcceptCallEffect
        <3> QED BY <3>1
    <2> QED BY <1>2, <1>2a, <2>1, <2>2, <2>3
<1>10. CASE IgnoreTerminated
    BY <1>10 DEF IgnoreTerminated, ghostVars
<1>11. CASE Terminated
    BY <1>11 DEF Terminated, TerminatedThen, ghostVars
<1>12. CASE MediaEnded
    BY <1>12 DEF MediaEnded, MediaEndedLeaving, ghostVars
<1>13. CASE WrapUp
    BY <1>13 DEF WrapUp, ghostVars
<1>14. CASE LoopReports
    BY <1>14 DEF LoopReports, Put
<1>15. CASE TimerFires
    BY <1>15, TimerKeeps, TimerFiresEffect
<1>16. CASE Leave
    BY <1>16 DEF Leave
<1>17. CASE MediaLeft
    BY <1>17 DEF MediaLeft, Goto, ghostVars
<1>18. CASE Exit
    BY <1>18 DEF Exit, Goto, ghostVars
<1> QED
    BY <1>4, <1>5, <1>6, <1>7, <1>8, <1>9, <1>10, <1>11, <1>12, <1>13, <1>14, <1>15, <1>16, <1>17, <1>18, UasLoop

-----------------------------------------------------------------------------
(***************************************************************************)
(* Every step keeps the invariant.                                         *)
(***************************************************************************)

\* The bound on a callee's calls follows from the counting, the rest of Ready
\* from where the one call is.
LEMMA ReadyHolds ==
    ASSUME IInv
    PROVE  Ready
<1>0. /\ ua \in UATypes /\ chan \in ChanTypes /\ cr \in Reports /\ started \in 0 .. MaxCalls
      /\ reported \in [Sessions -> 0 .. 1]
      /\ Control /\ UacCalls /\ Reported /\ CallsCounted /\ ua.uasCallIndex \in Nat
    BY DEF IInv, TypeOK, UATypes
<1>1. ua.pc = "invite" => cr.CallIndex \in Sessions
    BY <1>0, Constants DEF Control, UacCalls, InAgent, Reports
<1>2. chan.callReceived # None => ua.uasCallIndex < MaxIncoming
    <2> SUFFICES ASSUME chan.callReceived # None
                 PROVE  ua.uasCallIndex < MaxIncoming
        OBVIOUS
    <2> DEFINE s == chan.callReceived
    <2>1. s \in Incoming /\ s \notin Counted /\ Counted \subseteq Incoming
        BY DEF IInv, Begins, Counted
    <2>2. IsFiniteSet(Counted) /\ Cardinality(Counted) \in Nat
        BY <2>1, IncomingFinite
    <2>3. Cardinality(Counted \cup {s}) = Cardinality(Counted) + 1
        BY <2>1, <2>2, FS_AddElement
    <2>4. Cardinality(Counted \cup {s}) <= MaxIncoming
        BY <2>1, IncomingFinite
    <2> QED BY <1>0, <2>2, <2>3, <2>4, Constants DEF CallsCounted
<1>3. ua.pc = "report" /\ ua.sending.CallID # None => reported[ua.sending.CallID] = 0
    BY <1>0, Constants DEF Control, Reported
<1>4. ua.reporter /\ cr.CallID # None => reported[cr.CallID] = 0
    BY <1>0, Constants DEF Control, Reported, UacCalls, Reports, SessionOrNone
<1>5. chan.startCall # 0 => chan.startCall \in Sessions
    BY <1>0, Constants DEF ChanTypes
<1> QED BY <1>1, <1>2, <1>3, <1>4, <1>5 DEF Ready

\* The sets of sessions counted only grow.
LEMMA CountedGrows ==
    ASSUME CallsCounted, ua.uasCallIndex \in Nat, ua'.uasCallIndex = ua.uasCallIndex,
           Counted \subseteq Counted'
    PROVE  CallsCounted'
<1>1. IsFiniteSet(Counted') /\ Cardinality(Counted) \in Nat /\ Cardinality(Counted') \in Nat
    BY IncomingFinite DEF Counted
<1>2. Cardinality(Counted) <= Cardinality(Counted')
    BY <1>1, FS_Subset
<1> QED BY <1>1, <1>2 DEF CallsCounted

\* A step of the loop, by either role.
LEMMA LoopInvariant ==
    ASSUME IInv, UNCHANGED env, Loop
    PROVE  IInv'
<1>1. TypeOK'
    BY ReadyHolds, LoopTypes DEF IInv
<1>2. Control' /\ OneMedia' /\ Begins' /\ CallsCounted'
    BY <1>1, LoopControl, LoopOneMedia, LoopBegins, LoopCounts
<1>3. CASE Role = "uac"
    BY <1>1, <1>2, <1>3, LoopUacCalls, LoopUacOffer, LoopUacToken, LoopUacReported DEF IInv
<1>4. CASE Role = "uas"
    BY <1>1, <1>2, <1>4, LoopUasReported DEF IInv, UacCalls, UacOffer, UacToken
<1> QED BY <1>3, <1>4, Constants

\* A step of the reporting goroutine.
LEMMA ReporterInvariant ==
    ASSUME IInv, UNCHANGED env, Reporter
    PROVE  IInv'
<1>1. TypeOK'
    BY ReadyHolds, ReporterTypes DEF IInv
<1>2. /\ ua \in UATypes /\ cr \in Reports /\ chan \in ChanTypes /\ callEndChan \in Seq(Reports)
      /\ reported \in [Sessions -> 0 .. 1] /\ ua.uasCallIndex \in Nat
      /\ Control /\ OneMedia /\ Begins /\ CallsCounted
      /\ UacCalls /\ UacOffer /\ UacToken /\ Reported
    BY DEF IInv, TypeOK, UATypes
<1>3. /\ ua' = [ua EXCEPT !.reporter = FALSE, !.hangupByMe = FALSE] /\ ua.reporter
      /\ callEndChan' = Append(callEndChan, cr)
      /\ reported' = [s \in Sessions |-> IF s = cr.CallID THEN reported[s] + 1 ELSE reported[s]]
      /\ UNCHANGED <<cr, chan, mf, status, handlers, mainDone, started, inCall>>
    BY DEF Reporter, Put, sipVars, mainVars
<1>4. Role = "uac"
    BY <1>2, <1>3, Constants DEF Control
<1>5. /\ ua'.pc = ua.pc /\ ua'.mediaCancel = ua.mediaCancel /\ ~ua'.reporter
      /\ ua'.currentSession = ua.currentSession /\ ua'.uasCallIndex = ua.uasCallIndex
    BY <1>2, <1>3 DEF UATypes
<1>6. Control' /\ OneMedia'
    BY <1>2, <1>3, <1>5, <1>4 DEF Control, OneMedia
<1>7. Begins' /\ CallsCounted'
    <2>1. Begins' /\ Counted' = Counted
        BY <1>2, <1>3 DEF Begins, Counted
    <2> QED BY <1>2, <1>5, <2>1, CountedGrows
<1>8. UacCalls' /\ UacOffer'
    BY <1>2, <1>3, <1>4, <1>5 DEF UacCalls, UacOffer, InAgent
<1>9. UacToken'
    <2>1. callEndChan = <<>> /\ chan.startCall = 0 /\ ~InAgent /\ inCall
        BY <1>2, <1>3, <1>4 DEF UacToken
    <2>2. Len(callEndChan') = 1
        BY <1>2, <1>3, <2>1, AppendProperties
    <2> QED BY <1>3, <1>5, <2>1, <2>2 DEF UacToken, InAgent
<1>10. Reported'
    <2>1. ~InAgent
        BY <1>2, <1>3, <1>4 DEF UacToken
    <2> QED BY <1>2, <1>3, <1>4, <1>5, <2>1, Constants DEF Reported, UacCalls, InAgent, Reports
<1> QED BY <1>1, <1>6, <1>7, <1>8, <1>9, <1>10 DEF IInv

\* A step of MediaFunc.
LEMMA MediaInvariant ==
    ASSUME IInv, UNCHANGED env, Media
    PROVE  IInv'
<1>1. TypeOK' /\ OneMedia'
    BY MediaSteps, MediaOneMedia DEF IInv
<1>2. /\ chan \in ChanTypes /\ mf \in MediaTypes /\ ua.uasCallIndex \in Nat
      /\ Control /\ OneMedia /\ Begins /\ CallsCounted
      /\ UacCalls /\ UacOffer /\ UacToken /\ Reported
    BY DEF IInv, TypeOK, UATypes
<1>3. UNCHANGED <<ua, cr, callEndChan, status, handlers, mainDone, started, inCall, reported>>
    BY DEF Media, sipVars, mainVars, ghostVars
<1>4. chan'.callReceived = chan.callReceived /\ chan'.startCall = chan.startCall
    BY <1>2 DEF Media, MediaGetsSdp, MediaGathered, MediaSendsSdp, MediaCancelled, MediaFails,
       MediaFailsTo, MediaExits, ChanTypes
<1>5. Control' /\ Begins' /\ UacCalls' /\ UacToken'
    BY <1>2, <1>3, <1>4 DEF Control, Begins, UacCalls, UacToken, InAgent
<1>6. Counted' = Counted
    BY <1>3, <1>4 DEF Counted
<1>7. CallsCounted' /\ Reported'
    BY <1>2, <1>3, <1>6, CountedGrows DEF Reported, InAgent
<1>8. UacOffer'
    <2> USE <1>2, <1>3, Constants DEF UacOffer, OneMedia, Control, ChanTypes, MediaTypes
    <2>1. CASE MediaGetsSdp
        BY <2>1 DEF MediaGetsSdp
    <2>2. CASE MediaGathered
        BY <2>2 DEF MediaGathered
    <2>3. CASE MediaSendsSdp
        BY <2>3 DEF MediaSendsSdp
    <2>4. CASE MediaCancelled
        BY <2>4 DEF MediaCancelled
    <2>5. CASE MediaFails
        BY <2>5 DEF MediaFails, MediaFailsTo
    <2>6. CASE MediaExits
        BY <2>6 DEF MediaExits
    <2> QED BY <2>1, <2>2, <2>3, <2>4, <2>5, <2>6 DEF Media
<1> QED BY <1>1, <1>5, <1>7, <1>8 DEF IInv

\* A handler writes only into the result of cr, and a session that is new has
\* no handler.
LEMMA HandlerFrame ==
    ASSUME TypeOK, HandlerStep
    PROVE  /\ UNCHANGED <<ua, callEndChan, mf, mainDone, started, inCall, answered, reported>>
           /\ cr'.CallIndex = cr.CallIndex /\ cr'.CallID = cr.CallID
           /\ chan'.startCall = chan.startCall /\ chan'.sdpFromMedia = chan.sdpFromMedia
           /\ chan'.mediaFuncEnd = chan.mediaFuncEnd
           /\ \A s \in Sessions : status[s] = "new" => status'[s] = "new"
<1>0. cr \in Reports /\ chan \in ChanTypes
    BY DEF TypeOK
<1>1. UNCHANGED <<ua, callEndChan, mf, mainDone, started, inCall, answered, reported>>
    BY DEF HandlerStep, mainVars
<1>2. PICK h \in handlers :
          \/ HandleSdp(h) \/ HandleUnwanted(h) \/ NotifyReceived(h) \/ NotifyConfirmed(h)
          \/ ConfirmedAgain(h) \/ HandleEnded(h) \/ NotifyEnded(h)
    BY DEF HandlerStep
<1>3. cr'.CallIndex = cr.CallIndex /\ cr'.CallID = cr.CallID
    BY <1>0, <1>2 DEF Reports, HandleSdp, HandleUnwanted, NotifyReceived, NotifyConfirmed,
       ConfirmedAgain, HandleEnded, WriteResult, NotifyEnded
<1>4. /\ chan'.startCall = chan.startCall /\ chan'.sdpFromMedia = chan.sdpFromMedia
      /\ chan'.mediaFuncEnd = chan.mediaFuncEnd
    BY <1>0, <1>2 DEF ChanTypes, HandleSdp, HandleUnwanted, NotifyReceived, NotifyConfirmed,
       ConfirmedAgain, HandleEnded, WriteResult, NotifyEnded
<1>5. \/ status' = status
      \/ \E r \in Sessions : EndSession(r)
    BY <1>2 DEF HandleSdp, HandleUnwanted, NotifyReceived, NotifyConfirmed,
       ConfirmedAgain, HandleEnded, WriteResult, NotifyEnded, TypeOK, Handlers
<1>6. \A s \in Sessions : status[s] = "new" => status'[s] = "new"
    BY <1>5, EndSessionEffect
<1> QED BY <1>1, <1>3, <1>4, <1>6

\* A step of a handler.
LEMMA HandlerInvariant ==
    ASSUME IInv, UNCHANGED env, HandlerStep
    PROVE  IInv'
<1>1. TypeOK' /\ Begins' /\ Counted \subseteq Counted'
    BY HandlerTypes, HandlerBegins DEF IInv
<1>2. /\ cr \in Reports /\ ua.uasCallIndex \in Nat
      /\ Control /\ OneMedia /\ CallsCounted /\ UacCalls /\ UacOffer /\ UacToken /\ Reported
    BY DEF IInv, TypeOK, UATypes
<1>3. /\ UNCHANGED <<ua, callEndChan, mf, mainDone, started, inCall, answered, reported>>
      /\ cr'.CallIndex = cr.CallIndex /\ cr'.CallID = cr.CallID
      /\ chan'.startCall = chan.startCall /\ chan'.sdpFromMedia = chan.sdpFromMedia
      /\ chan'.mediaFuncEnd = chan.mediaFuncEnd
      /\ \A s \in Sessions : status[s] = "new" => status'[s] = "new"
    BY HandlerFrame DEF IInv
<1>4. Control' /\ OneMedia' /\ UacCalls' /\ UacToken'
    BY <1>2, <1>3 DEF Control, OneMedia, UacCalls, UacToken, InAgent
<1>5. CallsCounted' /\ Reported'
    BY <1>1, <1>2, <1>3, CountedGrows DEF Reported, InAgent
<1>6. UacOffer'
    <2>1. Role = "uac" /\ (chan.sdpFromMedia # None \/ mf.at \in {"gather", "sendSdp"}) =>
              cr.CallIndex \in Sessions
        BY <1>2, Constants DEF IInv, TypeOK, UacOffer, OneMedia, UacCalls, InAgent, Reports
    <2> QED BY <1>2, <1>3, <2>1, Constants DEF UacOffer
<1> QED BY <1>1, <1>4, <1>5, <1>6 DEF IInv

\* A step of the stack.
LEMMA StackInvariant ==
    ASSUME IInv, UNCHANGED env, NEW s \in Sessions, Stack(s)
    PROVE  IInv'
<1>1. Begins' /\ Counted \subseteq Counted' /\ TypeOK'
    BY StackBegins, StackTypes DEF IInv
<1>2. /\ ua.uasCallIndex \in Nat /\ status \in [Sessions -> Statuses] /\ TypeOK /\ Begins
      /\ Control /\ OneMedia /\ CallsCounted /\ UacCalls /\ UacOffer /\ UacToken /\ Reported
    BY DEF IInv, TypeOK, UATypes, Statuses
<1>3. UNCHANGED <<ua, cr, chan, callEndChan, mf, mainDone, started, inCall>>
    BY <1>2, StackEffect
<1>4. UNCHANGED reported
    BY <1>2, StackEffect DEF StackTurns, StackEnds, StackCancels, Ends
<1>5. Control' /\ OneMedia' /\ UacCalls' /\ UacToken'
    BY <1>2, <1>3 DEF Control, OneMedia, UacCalls, UacToken, InAgent
<1>6. CallsCounted' /\ Reported'
    BY <1>1, <1>2, <1>3, <1>4, CountedGrows DEF Reported, InAgent
<1>7. UacOffer'
    <2>1. \A r \in Outgoing : status[r] = "new" => status'[r] = "new"
        <3>1. \/ status' = status
              \/ /\ status[s] # "new" \/ s \in Incoming
                 /\ \A r \in Sessions : r # s => status'[r] = status[r]
            <4>1. CASE StackTurns(s)
                BY <1>2, <4>1 DEF StackTurns
            <4>2. CASE StackEnds(s)
                <5>1. status' = [status EXCEPT ![s] = "over"]
                    BY <4>2 DEF StackEnds, Ends
                <5>2. status[s] # "new"
                    BY <4>2, Zenon DEF StackEnds
                <5> QED BY <1>2, <5>1, <5>2
            <4>3. CASE StackCancels(s)
                BY <4>3 DEF StackCancels
            <4> QED BY <1>2, <4>1, <4>2, <4>3, StackEffect
        <3> QED BY <3>1, Constants
    <2>2. Role = "uac" /\ (chan.sdpFromMedia # None \/ mf.at \in {"gather", "sendSdp"}) =>
              cr.CallIndex \in Outgoing
        BY <1>2, Constants DEF IInv, TypeOK, UacOffer, OneMedia, UacCalls, InAgent, Reports
    <2> QED BY <1>2, <1>3, <2>1, <2>2, Constants DEF UacOffer
<1> QED BY <1>1, <1>5, <1>6, <1>7 DEF IInv

\* A step of main.
LEMMA MainInvariant ==
    ASSUME IInv, UNCHANGED env, MainProgram
    PROVE  IInv'
<1>1. TypeOK'
    BY MainTypes DEF IInv
<1>2. /\ chan \in ChanTypes /\ cr \in Reports /\ ua.uasCallIndex \in Nat
      /\ started \in 0 .. MaxCalls /\ callEndChan \in Seq(Reports)
      /\ Control /\ OneMedia /\ Begins /\ CallsCounted
      /\ UacCalls /\ UacOffer /\ UacToken /\ Reported
    BY DEF IInv, TypeOK, UATypes
<1>3. UNCHANGED <<ua, cr, mf, status, handlers, reported>>
    BY DEF MainProgram, sipVars, ghostVars
<1>4. /\ chan'.callReceived = chan.callReceived /\ chan'.sdpFromMedia = chan.sdpFromMedia
      /\ chan'.mediaFuncEnd = chan.mediaFuncEnd
    BY <1>2 DEF MainProgram, GiveCall, TakeReport, CancelMain, chanVars, ChanTypes
<1>5. Control' /\ OneMedia' /\ Begins' /\ UacOffer' /\ Counted' = Counted
    BY <1>2, <1>3, <1>4 DEF Control, OneMedia, Begins, UacOffer, Counted
<1>6. CallsCounted' /\ Reported'
    BY <1>2, <1>3, <1>5, CountedGrows DEF Reported, InAgent
<1>7. UacCalls'
    BY <1>2, <1>3, Constants DEF MainProgram, GiveCall, TakeReport, CancelMain, chanVars,
       ChanTypes, UacCalls, InAgent, Reports
<1>8. UacToken'
    <2>1. CASE GiveCall
        BY <1>2, <1>3, <2>1, Constants DEF GiveCall, UacToken, InAgent, ChanTypes
    <2>2. CASE TakeReport
        <3>1. Role = "uac" => callEndChan' = <<>> /\ Len(callEndChan') = 0
            <4>1. Role = "uac" => Len(callEndChan) <= 1
                BY <1>2 DEF UacToken
            <4>2. callEndChan # <<>> /\ callEndChan' = Tail(callEndChan)
                BY <2>2 DEF TakeReport
            <4>3. callEndChan' \in Seq(Reports) /\ Len(callEndChan') = Len(callEndChan) - 1
                  /\ Len(callEndChan) \in Nat
                BY <1>2, <4>2, HeadTailProperties, LenProperties
            <4> QED BY <1>2, <4>1, <4>2, <4>3, EmptySeq
        <3>2. callEndChan # <<>> /\ chan' = chan
            BY <2>2 DEF TakeReport
        <3>3. Role = "uac" => chan'.startCall = 0 /\ ~InAgent' /\ ~ua'.reporter
            BY <1>2, <1>3, <3>2 DEF UacToken, InAgent
        <3> QED BY <3>1, <3>3 DEF UacToken
    <2>3. CASE CancelMain
        BY <1>2, <1>3, <2>3 DEF CancelMain, UacToken, InAgent, chanVars
    <2> QED BY <2>1, <2>2, <2>3 DEF MainProgram
<1> QED BY <1>1, <1>5, <1>6, <1>7, <1>8 DEF IInv

\* Before the agent starts there is no call and no report.
LEMMA InitInvariant ==
    Init => IInv
<1> SUFFICES ASSUME Init PROVE IInv
    OBVIOUS
<1>a. /\ ua = [pc |-> "starting", currentSession |-> None, mediaCancel |-> FALSE,
               timer |-> None, hangupByMe |-> FALSE, sending |-> NoReport,
               reporter |-> FALSE, uasCallIndex |-> 0]
      /\ chan = [startCall |-> 0, sdpToMedia |-> None, sdpFromMedia |-> None,
                 callConfirmed |-> None, callReceived |-> None,
                 callTerminated |-> None, mediaFuncEnd |-> FALSE]
      /\ mf = [at |-> "none", call |-> None, cancelled |-> FALSE, remoteSdp |-> None]
      /\ cr = NoReport /\ callEndChan = <<>> /\ env \in Envs
      /\ status = [s \in Sessions |-> "new"] /\ handlers = {} /\ cancels = {}
      /\ mainDone = FALSE /\ started = 0 /\ inCall = FALSE
      /\ answered = [s \in Sessions |-> None] /\ reported = [s \in Sessions |-> 0]
    BY Zenon DEF Init
<1>0. /\ ua.pc = "starting" /\ ua.currentSession = None /\ ~ua.mediaCancel /\ ~ua.reporter
      /\ ua.uasCallIndex = 0
      /\ chan.startCall = 0 /\ chan.sdpFromMedia = None /\ chan.callReceived = None
      /\ ~chan.mediaFuncEnd /\ mf.at = "none"
    BY <1>a
<1>1. TypeOK
    <2>1. /\ callEndChan \in Seq(Reports) /\ Len(callEndChan) <= MaxConcurrentCalls
          /\ Len(callEndChan) = 0
        BY <1>a, Constants
    <2>2. /\ cancels \subseteq Incoming /\ handlers \subseteq Handlers
          /\ mainDone \in BOOLEAN /\ inCall \in BOOLEAN
        BY <1>a, Zenon
    <2>8. started \in 0 .. MaxCalls
        BY <1>a, Constants
    <2>9. answered \in [Sessions -> SessionOrNone] /\ reported \in [Sessions -> 0 .. 1]
        <3>1. None \in SessionOrNone /\ 0 \in 0 .. 1
            BY Constants
        <3> QED BY <1>a, <3>1
    <2>3. cr \in Reports
        BY <1>a, NoReportType
    <2>4. ua \in UATypes
        BY <1>a, NoReportType, Constants DEF UATypes
    <2>5. chan \in ChanTypes /\ mf \in MediaTypes
        BY <1>a, Constants DEF ChanTypes, MediaTypes
    <2>6. status \in [Sessions -> Statuses]
        BY <1>a DEF Statuses
    <2>7. outcome \in [Sessions -> Results]
        BY Zenon DEF Init, Results
    <2> QED BY <1>a, <2>1, <2>2, <2>3, <2>4, <2>5, <2>6, <2>7, <2>8, <2>9 DEF TypeOK, Statuses
<1>2. Control /\ OneMedia /\ Begins
    BY <1>0, <1>a, Constants DEF Control, OneMedia, Begins
<1>3. CallsCounted
    <2>1. Cardinality(Counted) \in Nat
        BY IncomingFinite DEF Counted
    <2> QED BY <1>0, <2>1 DEF CallsCounted
<1>4. UacCalls /\ UacOffer /\ UacToken
    <2>1. cr.CallIndex = 0 /\ cr.CallID = None
        BY <1>a, NoReportType
    <2> QED BY <1>0, <1>a, <2>1, Constants DEF UacCalls, UacOffer, UacToken, InAgent
<1>5. Reported
    BY <1>0, <1>a, Constants DEF Reported
<1> QED BY <1>1, <1>2, <1>3, <1>4, <1>5 DEF IInv

\* Every step of the agent and of what is around it.
LEMMA NextInvariant ==
    IInv /\ [Next]_vars => IInv'
<1> SUFFICES ASSUME IInv, [Next]_vars PROVE IInv'
    OBVIOUS
<1>1. CASE UNCHANGED vars
    <2>1. UNCHANGED <<env, ua, cr, chan, callEndChan, mf, status, cancels, handlers, mainDone,
                      started, inCall, outcome, answered, reported>>
        BY <1>1 DEF vars, chanVars, sipVars, mainVars, ghostVars
    <2>2. TypeOK' /\ Control' /\ OneMedia' /\ Begins' /\ Counted' = Counted
        BY <2>1 DEF IInv, TypeOK, Control, OneMedia, Begins, Counted
    <2>3. CallsCounted' /\ UacCalls' /\ UacOffer' /\ UacToken' /\ Reported'
        BY <2>1, <2>2 DEF IInv, CallsCounted, UacCalls, UacOffer, UacToken, Reported, InAgent
    <2> QED BY <2>2, <2>3 DEF IInv
<1>2. CASE Next /\ ~Done
    BY <1>2, LoopInvariant, ReporterInvariant, MediaInvariant, HandlerInvariant, StackInvariant,
       MainInvariant DEF Next
<1> QED BY <1>1, <1>2 DEF Done, Next

\* The inductive invariant holds throughout.
LEMMA Invariance == Spec => []IInv
BY InitInvariant, NextInvariant, PTL DEF Spec

\* Whatever its processes do and in whatever order, the agent stays in its
\* types: among others, no session is reported twice, no channel holds more
\* than it has room for, a callee's call index never exceeds the incoming
\* sessions, and MediaFunc is at a place its role has.
THEOREM TypeCorrect == Spec => []TypeOK
BY Invariance, PTL DEF IInv

-----------------------------------------------------------------------------
(***************************************************************************)
(* One user agent keeps its contracts: with MediaFunc in both roles        *)
(* (MediaContract), and at a caller with main (CallSlots).  Under the      *)
(* invariant above every step maps to a step of the contract or does not   *)
(* show in it.                                                             *)
(***************************************************************************)

-----------------------------------------------------------------------------
(***************************************************************************)
(* The contract with MediaFunc.                                            *)
(***************************************************************************)

\* What the handover contract sees of a step that only may cancel MediaFunc.
LEMMA CancelsOnly ==
    ASSUME mf'.at = mf.at,
           chan'.sdpToMedia = chan.sdpToMedia, chan'.sdpFromMedia = chan.sdpFromMedia,
           chan'.mediaFuncEnd = chan.mediaFuncEnd,
           mf.cancelled \/ mainDone => mf'.cancelled \/ mainDone',
           mf.cancelled \in BOOLEAN, mainDone \in BOOLEAN,
           mf'.cancelled \in BOOLEAN, mainDone' \in BOOLEAN
    PROVE  [Handover!ContractNext]_(Handover!contractVars)
<1>1. CASE (mf'.cancelled \/ mainDone') /\ ~(mf.cancelled \/ mainDone)
    <2>1. Handover!Cancelled
        BY <1>1 DEF Handover!Cancelled
    <2> QED BY <2>1 DEF Handover!ContractNext
<1>2. CASE (mf'.cancelled \/ mainDone') = (mf.cancelled \/ mainDone)
    BY <1>2 DEF Handover!contractVars
<1> QED BY <1>1, <1>2

\* The loop's steps are the contract's, or do not show in it.
LEMMA LoopHandover ==
    ASSUME IInv, Loop, TypeOK'
    PROVE  [Handover!ContractNext]_(Handover!contractVars)
<1>0. /\ ua \in UATypes /\ chan \in ChanTypes /\ mf \in MediaTypes /\ mainDone \in BOOLEAN
      /\ chan' \in ChanTypes /\ mf' \in MediaTypes /\ mainDone' \in BOOLEAN
      /\ mf.cancelled \in BOOLEAN /\ mf'.cancelled \in BOOLEAN
      /\ Control /\ OneMedia
    BY DEF IInv, TypeOK, MediaTypes
<1>1. UNCHANGED mainDone
    BY DEF Loop, mainVars
<1>2. CASE \/ Registered \/ StartFails \/ InviteReturns \/ Confirmed \/ IgnoreTerminated
           \/ WrapUp \/ LoopReports \/ TimerFires \/ Exit
    <2>1. /\ mf' = mf
          /\ chan'.sdpToMedia = chan.sdpToMedia /\ chan'.sdpFromMedia = chan.sdpFromMedia
          /\ chan'.mediaFuncEnd = chan.mediaFuncEnd
        BY <1>0, <1>2, TimerFiresEffect DEF Registered, StartFails, InviteReturns, Confirmed,
           ConfirmedWith, IgnoreTerminated, WrapUp, LoopReports, Exit, chanVars,
           ChanTypes
    <2> QED BY <1>0, <1>1, <2>1, CancelsOnly
<1>3. CASE TakeCall
    <2>1. Role = "uac"
        BY <1>0, <1>3, Constants DEF TakeCall, ChanTypes
    <2>2. /\ ~ua.mediaCancel /\ mf'.at = "gather"
          /\ chan' = [chan EXCEPT !.startCall = 0]
        BY <1>3, <2>1, UacTakesCall
    <2>3. Handover!Start
        BY <1>0, <1>1, <2>1, <2>2 DEF Handover!Start, OneMedia, ChanTypes
    <2> QED BY <2>3 DEF Handover!ContractNext
<1>4. CASE SendInvite \/ InviteError \/ SendAnswer
    <2>1. chan' = [chan EXCEPT !.sdpFromMedia = None] /\ chan.sdpFromMedia # None /\ mf' = mf
        BY <1>4 DEF SendInvite, InviteError, SendAnswer
    <2>2. Handover!TakeSdp
        BY <1>0, <1>1, <2>1 DEF Handover!TakeSdp, ChanTypes
    <2> QED BY <2>2 DEF Handover!ContractNext
<1>5. CASE RejectBusy
    <2>1. mf' = mf /\ chan' = [chan EXCEPT !.callReceived = None]
        BY <1>5, RejectBusyEffect
    <2> QED BY <1>0, <1>1, <2>1, CancelsOnly DEF ChanTypes
<1>6. CASE AcceptCall
    <2>1. /\ Role = "uas" /\ ua.pc = "select" /\ ua.currentSession = None
          /\ chan' = [chan EXCEPT !.callReceived = None] /\ StartMedia(chan.callReceived)
        BY <1>6, AcceptCallEffect DEF IInv, Begins
    <2>2. ~ua.mediaCancel /\ mf'.at = "waitOffer"
        BY <1>0, <2>1 DEF Control, StartMedia
    <2>3. Handover!Start
        BY <1>0, <1>1, <2>1, <2>2 DEF Handover!Start, OneMedia, ChanTypes
    <2> QED BY <2>3 DEF Handover!ContractNext
<1>7. CASE Terminated
    <2>1. /\ mf' = [mf EXCEPT !.cancelled = mf.cancelled \/ ua.mediaCancel]
          /\ chan' = [chan EXCEPT !.callTerminated = None]
        BY <1>7 DEF Terminated, TerminatedThen
    <2>2. mf'.at = mf.at /\ (mf.cancelled => mf'.cancelled)
        BY <1>0, <2>1 DEF MediaTypes
    <2> QED BY <1>0, <1>1, <2>1, <2>2, CancelsOnly DEF ChanTypes
<1>8. CASE MediaEnded
    <2>1. /\ chan' = [chan EXCEPT !.mediaFuncEnd = FALSE, !.sdpToMedia = None]
          /\ chan.mediaFuncEnd /\ mf' = mf
        BY <1>8 DEF MediaEnded, MediaEndedLeaving
    <2>2. Handover!TakeEnd
        BY <1>0, <1>1, <2>1 DEF Handover!TakeEnd, ChanTypes
    <2> QED BY <2>2 DEF Handover!ContractNext
<1>9. CASE Leave
    <2>1. /\ mf' = [mf EXCEPT !.cancelled = mf.cancelled \/ ua.mediaCancel]
          /\ chan' = chan
        BY <1>9, LeaveEffect
    <2>2. mf'.at = mf.at /\ (mf.cancelled => mf'.cancelled)
        BY <1>0, <2>1 DEF MediaTypes
    <2> QED BY <1>0, <1>1, <2>1, <2>2, CancelsOnly
<1>10. CASE MediaLeft
    <2>1. chan' = [chan EXCEPT !.mediaFuncEnd = FALSE] /\ chan.mediaFuncEnd /\ mf' = mf
        BY <1>10 DEF MediaLeft
    <2>2. Handover!TakeEnd
        BY <1>0, <1>1, <2>1 DEF Handover!TakeEnd, ChanTypes
    <2> QED BY <2>2 DEF Handover!ContractNext
<1> QED BY <1>2, <1>3, <1>4, <1>5, <1>6, <1>7, <1>8, <1>9, <1>10 DEF Loop

\* So are MediaFunc's.
LEMMA MediaHandover ==
    ASSUME IInv, Media
    PROVE  [Handover!ContractNext]_(Handover!contractVars)
<1>0. chan \in ChanTypes /\ mf \in MediaTypes /\ OneMedia /\ Role \in {"uac", "uas"}
    BY Constants DEF IInv, TypeOK
<1>1. UNCHANGED mainDone
    BY DEF Media, mainVars
<1>2. CASE MediaGetsSdp
    <2>1. Handover!GetsSdp
        BY <1>0, <1>1, <1>2 DEF MediaGetsSdp, Handover!GetsSdp, OneMedia, ChanTypes, MediaTypes
    <2> QED BY <2>1 DEF Handover!ContractNext
<1>3. CASE MediaGathered
    <2>1. Handover!Gathered
        BY <1>0, <1>1, <1>3 DEF MediaGathered, Handover!Gathered, MediaTypes
    <2> QED BY <2>1 DEF Handover!ContractNext
<1>4. CASE MediaSendsSdp
    <2>1. chan'.sdpFromMedia # None
        BY <1>0, <1>4 DEF MediaSendsSdp, OneMedia, ChanTypes
    <2>2. Handover!SendsSdp
        BY <1>0, <1>1, <1>4, <2>1 DEF MediaSendsSdp, Handover!SendsSdp, ChanTypes, MediaTypes
    <2> QED BY <2>2 DEF Handover!ContractNext
<1>5. CASE MediaCancelled
    <2>1. Handover!Returns
        BY <1>0, <1>1, <1>5 DEF MediaCancelled, Handover!Returns, MediaTypes
    <2> QED BY <2>1 DEF Handover!ContractNext
<1>6. CASE MediaFails
    <2>1. Handover!Returns
        BY <1>0, <1>1, <1>6 DEF MediaFails, MediaFailsTo, Handover!Returns, MediaTypes
    <2> QED BY <2>1 DEF Handover!ContractNext
<1>7. CASE MediaExits
    <2>1. Handover!Exits
        BY <1>0, <1>1, <1>7 DEF MediaExits, Handover!Exits, ChanTypes, MediaTypes
    <2> QED BY <2>1 DEF Handover!ContractNext
<1> QED BY <1>2, <1>3, <1>4, <1>5, <1>6, <1>7 DEF Media

\* A handler puts an SDP only into an empty sdpToMediaChan.
LEMMA HandlerHandover ==
    ASSUME IInv, HandlerStep
    PROVE  [Handover!ContractNext]_(Handover!contractVars)
<1>0. chan \in ChanTypes /\ handlers \subseteq Handlers
    BY DEF IInv, TypeOK
<1>1. UNCHANGED <<mf, mainDone>>
    BY DEF HandlerStep, mainVars
<1>2. PICK h \in handlers :
          \/ HandleSdp(h) \/ HandleUnwanted(h) \/ NotifyReceived(h) \/ NotifyConfirmed(h)
          \/ ConfirmedAgain(h) \/ HandleEnded(h) \/ NotifyEnded(h)
    BY DEF HandlerStep
<1>3. CASE HandleSdp(h)
    <2>1. h.sess # None
        BY <1>0, Constants DEF Handlers
    <2>2. Handover!PutSdp
        BY <1>0, <1>1, <1>3, <2>1 DEF HandleSdp, Handover!PutSdp, ChanTypes
    <2> QED BY <2>2 DEF Handover!ContractNext
<1>4. CASE ~HandleSdp(h)
    <2>1. /\ chan'.sdpToMedia = chan.sdpToMedia /\ chan'.sdpFromMedia = chan.sdpFromMedia
          /\ chan'.mediaFuncEnd = chan.mediaFuncEnd
        BY <1>0, <1>2, <1>4 DEF HandleUnwanted, NotifyReceived, NotifyConfirmed, ConfirmedAgain,
           HandleEnded, WriteResult, NotifyEnded, ChanTypes
    <2> QED BY <1>1, <2>1 DEF Handover!contractVars
<1> QED BY <1>3, <1>4

\* Every step of the agent is the contract's or does not show in it.
LEMMA HandoverStep ==
    IInv /\ IInv' /\ [Next]_vars => [Handover!ContractNext]_(Handover!contractVars)
<1> SUFFICES ASSUME IInv, IInv', [Next]_vars
             PROVE  [Handover!ContractNext]_(Handover!contractVars)
    OBVIOUS
<1>0. TypeOK /\ TypeOK'
    BY DEF IInv
<1>1. CASE Loop
    BY <1>0, <1>1, LoopHandover
<1>2. CASE Reporter \/ \E s \in Sessions : Stack(s)
    BY <1>0, <1>2, StackEffect DEF Reporter, mainVars, Handover!contractVars
<1>3. CASE Media
    BY <1>3, MediaHandover
<1>4. CASE HandlerStep
    BY <1>4, HandlerHandover
<1>5. CASE MainProgram
    <2>1. /\ mf' = mf
          /\ chan'.sdpToMedia = chan.sdpToMedia /\ chan'.sdpFromMedia = chan.sdpFromMedia
          /\ chan'.mediaFuncEnd = chan.mediaFuncEnd
          /\ mainDone => mainDone'
        BY <1>0, <1>5 DEF MainProgram, GiveCall, TakeReport, CancelMain, chanVars, TypeOK, ChanTypes
    <2> QED BY <1>0, <2>1, CancelsOnly DEF TypeOK, MediaTypes
<1>6. CASE UNCHANGED vars
    BY <1>6 DEF vars, chanVars, mainVars, Handover!contractVars
<1> QED BY <1>1, <1>2, <1>3, <1>4, <1>5, <1>6 DEF Next, Done

\* The event loop, the handlers and MediaFunc keep the handover contract in
\* either role: MediaFunc is started only after the end of the one before was
\* taken from mediaFuncEndChan, SDPs are never put over one another, and a
\* MediaFunc ends with exactly one end message.
THEOREM HandoverKept == Spec => HandoverContract
<1>1. Init => Handover!ContractInit
    <2> SUFFICES ASSUME Init PROVE Handover!ContractInit
        OBVIOUS
    <2>1. /\ mf.at = "none" /\ ~chan.mediaFuncEnd /\ mainDone = FALSE
        <3>1. /\ chan = [startCall |-> 0, sdpToMedia |-> None, sdpFromMedia |-> None,
                         callConfirmed |-> None, callReceived |-> None,
                         callTerminated |-> None, mediaFuncEnd |-> FALSE]
              /\ mf = [at |-> "none", call |-> None, cancelled |-> FALSE, remoteSdp |-> None]
              /\ mainDone = FALSE
            BY Zenon DEF Init
        <3> QED BY <3>1
    <2>2. mf.cancelled \in BOOLEAN /\ chan.mediaFuncEnd \in BOOLEAN
        BY InitInvariant DEF IInv, TypeOK, MediaTypes, ChanTypes
    <2> QED BY <2>1, <2>2, Constants DEF Handover!ContractInit
<1> QED
    BY <1>1, Invariance, HandoverStep, PTL DEF Spec, HandoverContract, Handover!ContractSpec

-----------------------------------------------------------------------------
(***************************************************************************)
(* A caller's contract with main.                                          *)
(***************************************************************************)

\* What main sees of the agent: its call, its pending report, its reports.
CallOf == IF InCall THEN cr.CallIndex ELSE 0
ReportOf == IF ua.reporter THEN cr.CallIndex ELSE 0
Seen(r) == [AccountIndex |-> 0, CallIndex |-> r.CallIndex, CallResult |-> r.CallResult]
Queue(s) == [k \in 1 .. Len(s) |-> [AccountIndex |-> 0, CallIndex |-> s[k].CallIndex,
                                    CallResult |-> s[k].CallResult]]

\* The agent is number 0 of the contract's agents.
LEMMA AgentIsZero ==
    /\ 0 \in Slot!UAs
    /\ \A x, y, idle : /\ Agent0(x, idle)[0] = x
                       /\ [Agent0(x, idle) EXCEPT ![0] = y] = Agent0(y, idle)
    /\ \A x, y : Agent0(x, y) = [n \in Slot!UAs |-> IF n = 0 THEN x ELSE y]
BY Constants DEF Agent0, Slot!UAs

\* The reports main sees grow and shrink with the channel.
LEMMA QueueAppend ==
    ASSUME NEW s \in Seq(Reports), NEW r \in Reports
    PROVE  Queue(Append(s, r)) = Append(Queue(s), Seen(r)) /\ Len(Queue(s)) = Len(s)
<1>1. /\ Len(s) \in Nat /\ Len(Append(s, r)) = Len(s) + 1
      /\ \A k \in 1 .. Len(s) : Append(s, r)[k] = s[k]
      /\ Append(s, r)[Len(s) + 1] = r
    BY AppendProperties, LenProperties
<1>2. Queue(s) \in Seq({Seen(x) : x \in Reports}) /\ Len(Queue(s)) = Len(s)
    <2>1. \A k \in 1 .. Len(s) : s[k] \in Reports
        BY ElementOfSeq
    <2> QED BY <1>1, <2>1 DEF Queue, Seen
<1>3. /\ Len(Append(Queue(s), Seen(r))) = Len(s) + 1
      /\ \A k \in 1 .. Len(s) : Append(Queue(s), Seen(r))[k] = Queue(s)[k]
      /\ Append(Queue(s), Seen(r))[Len(s) + 1] = Seen(r)
      /\ Append(Queue(s), Seen(r)) \in Seq({Seen(x) : x \in Reports})
    BY <1>1, <1>2, AppendProperties
<1>4. Queue(Append(s, r)) \in Seq({Seen(x) : x \in Reports})
      /\ Len(Queue(Append(s, r))) = Len(s) + 1
    <2>1. Append(s, r) \in Seq(Reports)
        BY AppendProperties
    <2>2. \A k \in 1 .. Len(s) + 1 : Append(s, r)[k] \in Reports
        BY <1>1, <2>1, ElementOfSeq
    <2> QED BY <1>1, <2>2 DEF Queue, Seen
<1>5. \A k \in 1 .. Len(s) + 1 : Queue(Append(s, r))[k] = Append(Queue(s), Seen(r))[k]
    BY <1>1, <1>3 DEF Queue, Seen
<1> QED BY <1>1, <1>2, <1>3, <1>4, <1>5, SeqEqual

\* main takes the first report.
LEMMA QueueTail ==
    ASSUME NEW s \in Seq(Reports), s # <<>>
    PROVE  Queue(Tail(s)) = Tail(Queue(s)) /\ Queue(s) # <<>>
<1>1. /\ Len(s) \in Nat /\ Len(s) # 0 /\ Len(Tail(s)) = Len(s) - 1
      /\ \A k \in 1 .. Len(s) - 1 : Tail(s)[k] = s[k + 1]
    BY HeadTailProperties, LenProperties, EmptySeq
<1>2. Queue(s) \in Seq({Seen(x) : x \in Reports}) /\ Len(Queue(s)) = Len(s)
    <2>1. \A k \in 1 .. Len(s) : s[k] \in Reports
        BY ElementOfSeq
    <2> QED BY <1>1, <2>1 DEF Queue, Seen
<1>3. Queue(s) # <<>>
    BY <1>1, <1>2
<1>4. /\ Tail(Queue(s)) \in Seq({Seen(x) : x \in Reports})
      /\ Len(Tail(Queue(s))) = Len(s) - 1
      /\ \A k \in 1 .. Len(s) - 1 : Tail(Queue(s))[k] = Queue(s)[k + 1]
    BY <1>1, <1>2, <1>3, HeadTailProperties
<1>5. /\ Queue(Tail(s)) \in Seq({Seen(x) : x \in Reports})
      /\ Len(Queue(Tail(s))) = Len(s) - 1
    <2>1. Tail(s) \in Seq(Reports)
        BY HeadTailProperties
    <2>2. \A k \in 1 .. Len(s) - 1 : Tail(s)[k] \in Reports
        BY <1>1, <2>1, ElementOfSeq
    <2> QED BY <1>1, <2>2 DEF Queue, Seen
<1>6. \A k \in 1 .. Len(s) - 1 : Queue(Tail(s))[k] = Tail(Queue(s))[k]
    BY <1>1, <1>4 DEF Queue
<1> QED BY <1>1, <1>3, <1>4, <1>5, <1>6, SeqEqual

\* The actions of the contract, by what main sees before and after.
SameView ==
    /\ SlotPhase' = SlotPhase /\ chan'.startCall = chan.startCall
    /\ CallOf' = CallOf /\ ReportOf' = ReportOf
    /\ callEndChan' = callEndChan /\ mainDone' = mainDone

\* A step that changes nothing of the view is a stutter of the contract.
LEMMA SlotStutters ==
    ASSUME SameView
    PROVE  UNCHANGED Slot!slotVars
BY DEF SameView, Slot!slotVars, Agent0, CallOf, ReportOf

\* Registered, the agent enters its loop.
LEMMA SlotUAStarts ==
    ASSUME SlotPhase = "starting", SlotPhase' = "loop", chan'.startCall = chan.startCall,
           CallOf' = CallOf, ReportOf' = ReportOf, callEndChan' = callEndChan, mainDone' = mainDone
    PROVE  Slot!SlotNext
<1>1. Slot!UAStarts(0)
    <2>1. Agent0(SlotPhase, "starting")' = [Agent0(SlotPhase, "starting") EXCEPT ![0] = "loop"]
        BY Constants DEF Agent0
    <2>2. UNCHANGED <<Agent0(chan.startCall, 0), Agent0(CallOf, 0), Agent0(ReportOf, 0),
                      Queue(callEndChan), mainDone>>
        BY DEF Agent0, Queue
    <2>3. Agent0(SlotPhase, "starting")[0] = SlotPhase
        BY AgentIsZero
    <2> QED BY <2>1, <2>2, <2>3 DEF Slot!UAStarts, CallOf, ReportOf, Queue
<1> QED BY <1>1, AgentIsZero DEF Slot!SlotNext, Slot!UAStep

\* The agent that cannot start is gone.
LEMMA SlotUAFails ==
    ASSUME env \in Envs, env.StartMayFail,
           SlotPhase = "starting", SlotPhase' = "exited", chan'.startCall = chan.startCall,
           CallOf' = CallOf, ReportOf' = ReportOf, callEndChan' = callEndChan, mainDone' = mainDone
    PROVE  Slot!SlotNext
<1>1. Slot!UAFails(0)
    <2>1. Agent0(SlotPhase, "starting")' = [Agent0(SlotPhase, "starting") EXCEPT ![0] = "exited"]
        BY Constants DEF Agent0
    <2>2. UNCHANGED <<Agent0(chan.startCall, 0), Agent0(CallOf, 0), Agent0(ReportOf, 0),
                      Queue(callEndChan), mainDone>>
        BY DEF Agent0, Queue
    <2>3. Agent0(SlotPhase, "starting")[0] = SlotPhase
        BY AgentIsZero
    <2> QED BY <2>1, <2>2, <2>3 DEF Slot!UAFails, CallOf, ReportOf, Queue
<1> QED BY <1>1, AgentIsZero DEF Slot!SlotNext, Slot!UAStep

\* The loop takes the call that was started.
LEMMA SlotTakeCall ==
    ASSUME SlotPhase = "loop", SlotPhase' = "loop", chan.startCall # 0, chan'.startCall = 0,
           CallOf' = chan.startCall, ReportOf' = ReportOf,
           callEndChan' = callEndChan, mainDone' = mainDone
    PROVE  Slot!SlotNext
<1>1. Slot!TakeCall(0)
    <2>1. /\ Agent0(CallOf, 0)' = [Agent0(CallOf, 0) EXCEPT ![0] = chan.startCall]
          /\ Agent0(chan.startCall, 0)' = [Agent0(chan.startCall, 0) EXCEPT ![0] = 0]
        BY Constants DEF Agent0
    <2>2. UNCHANGED <<Agent0(SlotPhase, "starting"), Agent0(ReportOf, 0),
                      Queue(callEndChan), mainDone>>
        BY DEF Agent0, Queue
    <2>3. Agent0(SlotPhase, "starting")[0] = SlotPhase /\ Agent0(chan.startCall, 0)[0] = chan.startCall
        BY AgentIsZero
    <2> QED BY <2>1, <2>2, <2>3 DEF Slot!TakeCall, CallOf, ReportOf, Queue
<1> QED BY <1>1, AgentIsZero DEF Slot!SlotNext, Slot!UAStep

\* The call is over: its report is pending.
LEMMA SlotEndCall ==
    ASSUME SlotPhase = "loop", SlotPhase' = "loop", chan'.startCall = chan.startCall,
           CallOf # 0, CallOf' = 0, ReportOf' = CallOf,
           callEndChan' = callEndChan, mainDone' = mainDone
    PROVE  Slot!SlotNext
<1>1. Slot!EndCall(0)
    <2>1. /\ Agent0(ReportOf, 0)' = [Agent0(ReportOf, 0) EXCEPT ![0] = CallOf]
          /\ Agent0(CallOf, 0)' = [Agent0(CallOf, 0) EXCEPT ![0] = 0]
        BY Constants DEF Agent0
    <2>2. UNCHANGED <<Agent0(SlotPhase, "starting"), Agent0(chan.startCall, 0),
                      Queue(callEndChan), mainDone>>
        BY DEF Agent0, Queue
    <2>3. Agent0(SlotPhase, "starting")[0] = SlotPhase /\ Agent0(CallOf, 0)[0] = CallOf
        BY AgentIsZero
    <2> QED BY <2>1, <2>2, <2>3 DEF Slot!EndCall, CallOf, ReportOf, Queue
<1> QED BY <1>1, AgentIsZero DEF Slot!SlotNext, Slot!UAStep

\* The loop sees mainCtx done and gives up its call.
LEMMA SlotLeave ==
    ASSUME SlotPhase = "loop", SlotPhase' = "exiting", chan'.startCall = chan.startCall,
           mainDone, mainDone', CallOf' = 0, ReportOf' = ReportOf, callEndChan' = callEndChan,
           mainDone' = mainDone
    PROVE  Slot!SlotNext
<1>1. Slot!Leave(0)
    <2>1. /\ Agent0(SlotPhase, "starting")' = [Agent0(SlotPhase, "starting") EXCEPT ![0] = "exiting"]
          /\ Agent0(CallOf, 0)' = [Agent0(CallOf, 0) EXCEPT ![0] = 0]
        BY Constants DEF Agent0
    <2>2. UNCHANGED <<Agent0(chan.startCall, 0), Agent0(ReportOf, 0),
                      Queue(callEndChan), mainDone>>
        BY DEF Agent0, Queue
    <2>3. Agent0(SlotPhase, "starting")[0] = SlotPhase
        BY AgentIsZero
    <2> QED BY <2>1, <2>2, <2>3 DEF Slot!Leave, CallOf, ReportOf, Queue
<1> QED BY <1>1, AgentIsZero DEF Slot!SlotNext, Slot!UAStep

\* The agent exits with no report pending.
LEMMA SlotExit ==
    ASSUME SlotPhase = "exiting", SlotPhase' = "exited", chan'.startCall = chan.startCall,
           ReportOf = 0, CallOf' = CallOf, ReportOf' = ReportOf,
           callEndChan' = callEndChan, mainDone' = mainDone
    PROVE  Slot!SlotNext
<1>1. Slot!Exit(0)
    <2>1. Agent0(SlotPhase, "starting")' = [Agent0(SlotPhase, "starting") EXCEPT ![0] = "exited"]
        BY Constants DEF Agent0
    <2>2. UNCHANGED <<Agent0(chan.startCall, 0), Agent0(CallOf, 0), Agent0(ReportOf, 0),
                      Queue(callEndChan), mainDone>>
        BY DEF Agent0, Queue
    <2>3. Agent0(SlotPhase, "starting")[0] = SlotPhase /\ Agent0(ReportOf, 0)[0] = ReportOf
        BY AgentIsZero
    <2> QED BY <2>1, <2>2, <2>3 DEF Slot!Exit, CallOf, ReportOf, Queue
<1> QED BY <1>1, AgentIsZero DEF Slot!SlotNext, Slot!UAStep

\* The pending report goes into the channel.
LEMMA SlotSendReport ==
    ASSUME SlotPhase' = SlotPhase, chan'.startCall = chan.startCall, CallOf' = CallOf,
           cr \in Reports, ReportOf = cr.CallIndex, ReportOf # 0, ReportOf' = 0,
           callEndChan \in Seq(Reports), Len(callEndChan) < MaxConcurrentCalls,
           callEndChan' = Append(callEndChan, cr), mainDone' = mainDone
    PROVE  Slot!SlotNext
<1>1. Queue(callEndChan)' = Append(Queue(callEndChan), Seen(cr))
      /\ Len(Queue(callEndChan)) = Len(callEndChan)
    <2>1. Queue(callEndChan)' = Queue(Append(callEndChan, cr))
        BY DEF Queue
    <2> QED BY <2>1, QueueAppend
<1>2. cr.CallResult \in Slot!CallResults
    BY Zenon DEF Reports, Results, Slot!CallResults
<1>3. \E result \in Slot!CallResults :
          Queue(callEndChan)' = Append(Queue(callEndChan),
                                       [AccountIndex |-> 0, CallIndex |-> ReportOf,
                                        CallResult |-> result])
    BY <1>1, <1>2 DEF Seen
<1>4. Agent0(ReportOf, 0)[0] = ReportOf
    BY AgentIsZero
<1>5. Slot!SendReport(0)
    <2>1. Agent0(ReportOf, 0)' = [Agent0(ReportOf, 0) EXCEPT ![0] = 0]
        BY Constants DEF Agent0
    <2>2. UNCHANGED <<Agent0(SlotPhase, "starting"), Agent0(chan.startCall, 0),
                      Agent0(CallOf, 0), mainDone>>
        BY DEF Agent0
    <2> QED BY <1>1, <1>3, <1>4, <2>1, <2>2 DEF Slot!SendReport, ReportOf, CallOf, Queue
<1> QED BY <1>5, AgentIsZero DEF Slot!SlotNext, Slot!UAStep

\* main starts a call with an agent that is free.
LEMMA SlotStartCall ==
    ASSUME NEW c \in Nat \ {0}, SlotPhase' = SlotPhase,
           chan.startCall = 0, CallOf = 0, ReportOf = 0, callEndChan = <<>>,
           chan'.startCall = c, CallOf' = CallOf, ReportOf' = ReportOf,
           callEndChan' = callEndChan, mainDone' = mainDone
    PROVE  Slot!SlotNext
<1>1. Slot!Free(0)
    <2>1. Len(callEndChan) = 0
        OBVIOUS
    <2>2. Queue(callEndChan) = <<>>
        BY <2>1 DEF Queue
    <2>3. Slot!NoneQueued(0)
        BY <2>2 DEF Slot!NoneQueued, Queue
    <2> QED BY <2>3, Constants DEF Slot!Free, Agent0, CallOf, ReportOf
<1>2. Slot!StartCall(0, c) /\ Agent0(chan.startCall, 0)'[0] = c
    <2>1. Agent0(chan.startCall, 0)' = [Agent0(chan.startCall, 0) EXCEPT ![0] = c]
        BY Constants DEF Agent0
    <2>2. UNCHANGED <<Agent0(SlotPhase, "starting"), Agent0(CallOf, 0), Agent0(ReportOf, 0),
                      Queue(callEndChan), mainDone>>
        BY DEF Agent0, Queue
    <2>3. Agent0(chan.startCall, 0)[0] = chan.startCall
        BY AgentIsZero
    <2>4. Agent0(chan.startCall, 0)'[0] = c
        BY Constants DEF Agent0
    <2> QED BY <1>1, <2>1, <2>2, <2>3, <2>4 DEF Slot!StartCall, CallOf, ReportOf, Queue
<1> QED BY <1>2, AgentIsZero DEF Slot!SlotNext

\* main takes a report.
LEMMA SlotReceiveReport ==
    ASSUME SlotPhase' = SlotPhase, chan'.startCall = chan.startCall, CallOf' = CallOf,
           ReportOf' = ReportOf, callEndChan \in Seq(Reports), callEndChan # <<>>,
           callEndChan' = Tail(callEndChan), mainDone' = mainDone
    PROVE  Slot!SlotNext
<1>1. Queue(callEndChan)' = Tail(Queue(callEndChan)) /\ Queue(callEndChan) # <<>>
    <2>1. Queue(callEndChan)' = Queue(Tail(callEndChan))
        BY DEF Queue
    <2> QED BY <2>1, QueueTail
<1>2. UNCHANGED <<Agent0(SlotPhase, "starting"), Agent0(chan.startCall, 0),
                  Agent0(CallOf, 0), Agent0(ReportOf, 0), mainDone>>
    BY DEF Agent0
<1>3. Slot!ReceiveReport
    BY <1>1, <1>2 DEF Slot!ReceiveReport, Queue, CallOf, ReportOf
<1> QED BY <1>3 DEF Slot!SlotNext

\* main cancels mainCtx.
LEMMA SlotMainCancel ==
    ASSUME SlotPhase' = SlotPhase, chan'.startCall = chan.startCall, CallOf' = CallOf,
           ReportOf' = ReportOf, callEndChan' = callEndChan, ~mainDone, mainDone' = TRUE
    PROVE  Slot!SlotNext
<1>1. Slot!MainCancel
    BY DEF Slot!MainCancel, Agent0, CallOf, ReportOf
<1> QED BY <1>1 DEF Slot!SlotNext

\* What a caller's loop does is an action of the contract or does not show.
LEMMA LoopSlot ==
    ASSUME IInv, IInv', Role = "uac", UNCHANGED env, Loop
    PROVE  Slot!SlotNext \/ UNCHANGED Slot!slotVars
<1>0. /\ ua \in UATypes /\ chan \in ChanTypes /\ cr \in Reports /\ env \in Envs
      /\ ua' \in UATypes /\ chan' \in ChanTypes /\ cr' \in Reports
      /\ Control /\ UacCalls /\ UacToken
    BY DEF IInv, TypeOK
<1>1. UNCHANGED <<callEndChan, mainDone>>
    BY UacLoop DEF Loop, mainVars
<1> USE <1>0, <1>1, Constants
    DEF SlotPhase, InCall, CallOf, ReportOf, UATypes, ChanTypes, Reports, Control
<1>2. CASE Registered
    BY <1>2, SlotUAStarts DEF Registered, Goto, chanVars
<1>3. CASE StartFails
    BY <1>3, SlotUAFails DEF StartFails, Goto, chanVars
<1>4. CASE TakeCall
    <2>1. ~ua.reporter
        BY <1>4 DEF TakeCall, UacToken
    <2> QED BY <1>4, <2>1, UacTakesCall, SlotTakeCall DEF TakeCall
<1>5. CASE SendInvite
    BY <1>5, SlotStutters DEF SendInvite, Goto, SameView
<1>6. CASE InviteError
    BY <1>6, SlotStutters DEF InviteError, SameView
<1>7. CASE InviteReturns
    BY <1>7, SlotStutters DEF InviteReturns, SameView, chanVars
<1>8. CASE Confirmed
    BY <1>8, SlotStutters DEF Confirmed, ConfirmedWith, SameView
<1>9. CASE IgnoreTerminated
    BY <1>9, SlotStutters DEF IgnoreTerminated, SameView
<1>10. CASE Terminated
    BY <1>10, SlotStutters DEF Terminated, TerminatedThen, SameView
<1>11. CASE MediaEnded
    BY <1>11, SlotStutters DEF MediaEnded, MediaEndedLeaving, SameView
<1>12. CASE WrapUp
    <2>1. cr.CallIndex # 0 /\ ~ua.mediaCancel
        BY <1>12 DEF WrapUp, UacCalls, InAgent
    <2> QED BY <1>12, <2>1, SlotEndCall DEF WrapUp, chanVars
<1>13. CASE TimerFires
    BY <1>13, TimerKeeps, SlotStutters DEF SameView
<1>14. CASE Leave
    <2>1. /\ UNCHANGED <<cr, chan>> /\ mainDone /\ ua.pc = "select"
          /\ ua'.pc \in {"leave", "join"} /\ ua'.reporter = ua.reporter
        <3>1. ua' = [ua EXCEPT !.timer = None,
                              !.pc = IF ua.mediaCancel THEN "leave" ELSE "join"]
            BY <1>14, LeaveEffect
        <3>2. ua'.pc \in {"leave", "join"} /\ ua'.reporter = ua.reporter
            BY <3>1 DEF UATypes
        <3> QED BY <1>14, <3>2, LeaveEffect
    <2> QED BY <2>1, SlotLeave
<1>15. CASE MediaLeft
    BY <1>15, SlotStutters DEF MediaLeft, Goto, SameView
<1>16. CASE Exit
    BY <1>16, SlotExit DEF Exit, Goto, chanVars
<1> QED
    BY <1>2, <1>3, <1>4, <1>5, <1>6, <1>7, <1>8, <1>9, <1>10, <1>11, <1>12, <1>13, <1>14, <1>15,
       <1>16, UacLoop

\* So is what the others do.
LEMMA SlotStep ==
    ASSUME Role = "uac", IInv, IInv', [Next]_vars
    PROVE  [Slot!SlotNext]_(Slot!slotVars)
<1>0. /\ ua \in UATypes /\ chan \in ChanTypes /\ cr \in Reports /\ callEndChan \in Seq(Reports)
      /\ started \in 0 .. MaxCalls /\ mainDone \in BOOLEAN
      /\ TypeOK /\ Control /\ UacCalls /\ UacToken
    BY DEF IInv, TypeOK
<1>1. CASE Loop /\ UNCHANGED env
    BY <1>1, LoopSlot
<1>2. CASE Reporter
    <2>1. /\ ua.reporter /\ ua' = [ua EXCEPT !.reporter = FALSE, !.hangupByMe = FALSE]
          /\ Len(callEndChan) < MaxConcurrentCalls /\ callEndChan' = Append(callEndChan, cr)
          /\ UNCHANGED <<cr, chan, mainDone>>
        BY <1>2 DEF Reporter, Put, mainVars
    <2>2. cr.CallIndex # 0
        BY <1>0, <2>1 DEF UacCalls
    <2>3. /\ ua'.pc = ua.pc /\ ua'.mediaCancel = ua.mediaCancel /\ ~ua'.reporter
        BY <1>0, <2>1 DEF UATypes
    <2>4. /\ SlotPhase' = SlotPhase /\ CallOf' = CallOf /\ ReportOf = cr.CallIndex
          /\ ReportOf # 0 /\ ReportOf' = 0
        BY <2>1, <2>2, <2>3 DEF SlotPhase, CallOf, InCall, ReportOf
    <2> QED BY <1>0, <2>1, <2>4, SlotSendReport
<1>3. CASE Media \/ HandlerStep \/ \E s \in Sessions : Stack(s)
    <2>1. /\ UNCHANGED <<ua, callEndChan, mainDone>>
          /\ cr'.CallIndex = cr.CallIndex /\ chan'.startCall = chan.startCall
        <3>1. CASE Media
            <4>1. chan'.startCall = chan.startCall
                BY <1>0, <3>1 DEF Media, MediaGetsSdp, MediaGathered, MediaSendsSdp, MediaCancelled,
                   MediaFails, MediaFailsTo, MediaExits, ChanTypes
            <4> QED BY <3>1, <4>1 DEF Media, mainVars
        <3>2. CASE HandlerStep
            BY <1>0, <3>2, HandlerFrame
        <3>3. CASE \E s \in Sessions : Stack(s)
            BY <1>0, <3>3, StackEffect
        <3> QED BY <1>3, <3>1, <3>2, <3>3
    <2> QED BY <2>1, SlotStutters DEF SameView, SlotPhase, CallOf, InCall, ReportOf
<1>4. CASE MainProgram
    <2>1. UNCHANGED <<ua, cr>>
        BY <1>4 DEF MainProgram
    <2>2. SlotPhase' = SlotPhase /\ CallOf' = CallOf /\ ReportOf' = ReportOf
        BY <2>1 DEF SlotPhase, CallOf, InCall, ReportOf
    <2>3. CASE GiveCall
        <3>1. chan.startCall = 0 /\ ~InAgent /\ ~ua.reporter /\ callEndChan = <<>>
            BY <1>0, <2>3 DEF GiveCall, UacToken
        <3>2. CallOf = 0 /\ ReportOf = 0
            BY <3>1 DEF CallOf, InCall, InAgent, ReportOf
        <3>3. /\ started + 1 \in Nat \ {0} /\ chan'.startCall = started + 1
              /\ callEndChan' = callEndChan /\ mainDone' = mainDone
            BY <1>0, <2>3, Constants DEF GiveCall, ChanTypes
        <3> QED BY <2>2, <3>1, <3>2, <3>3, SlotStartCall
    <2>4. CASE TakeReport
        BY <1>0, <2>2, <2>4, SlotReceiveReport DEF TakeReport
    <2>5. CASE CancelMain
        BY <2>2, <2>5, SlotMainCancel DEF CancelMain, chanVars
    <2> QED BY <1>4, <2>3, <2>4, <2>5 DEF MainProgram
<1>5. CASE UNCHANGED vars
    BY <1>5, SlotStutters DEF vars, chanVars, mainVars, SameView, SlotPhase, CallOf, InCall, ReportOf
<1> QED BY <1>1, <1>2, <1>3, <1>4, <1>5 DEF Next, Done

\* The agent's initial state is one of the contract's.
LEMMA SlotBegins ==
    ASSUME Role = "uac", Init
    PROVE  Slot!SlotInit
<1>1. /\ ua.pc = "starting" /\ ~ua.mediaCancel /\ ~ua.reporter /\ chan.startCall = 0
      /\ callEndChan = <<>> /\ mainDone = FALSE
    <2>1. /\ ua = [pc |-> "starting", currentSession |-> None, mediaCancel |-> FALSE,
                   timer |-> None, hangupByMe |-> FALSE, sending |-> NoReport,
                   reporter |-> FALSE, uasCallIndex |-> 0]
          /\ chan = [startCall |-> 0, sdpToMedia |-> None, sdpFromMedia |-> None,
                     callConfirmed |-> None, callReceived |-> None,
                     callTerminated |-> None, mediaFuncEnd |-> FALSE]
          /\ callEndChan = <<>> /\ mainDone = FALSE
        BY Zenon DEF Init
    <2> QED BY <2>1
<1>2. SlotPhase = "starting" /\ CallOf = 0 /\ ReportOf = 0
    BY <1>1 DEF SlotPhase, CallOf, InCall, ReportOf
<1>3. Queue(callEndChan) = <<>>
    <2>1. Len(callEndChan) = 0
        BY <1>1
    <2> QED BY <2>1 DEF Queue
<1>4. /\ Agent0(SlotPhase, "starting") = [n \in Slot!UAs |-> "starting"]
      /\ Agent0(chan.startCall, 0) = [n \in Slot!UAs |-> 0]
      /\ Agent0(CallOf, 0) = [n \in Slot!UAs |-> 0]
      /\ Agent0(ReportOf, 0) = [n \in Slot!UAs |-> 0]
    BY <1>1, <1>2, AgentIsZero
<1> QED BY <1>1, <1>3, <1>4 DEF Slot!SlotInit, CallOf, ReportOf, Queue

\* A caller's agent is a slot of the dispatcher, whatever the SIP stack does:
\* main finds it free when it gives a call, one report follows every call that
\* it conducted to the end, none comes after the next call has begun, and
\* nothing but the pending report is left when the loop has seen mainCtx done.
\* With HandoverKept: it keeps both of its contracts.
THEOREM ContractsKept ==
    ASSUME Role = "uac"
    PROVE  Spec => Contracts
<1>1. Spec => Slot!SlotSpec
    <2>1. Init => Slot!SlotInit
        BY SlotBegins
    <2>2. IInv /\ IInv' /\ [Next]_vars => [Slot!SlotNext]_(Slot!slotVars)
        BY SlotStep
    <2> QED BY <2>1, <2>2, Invariance, PTL DEF Spec, Slot!SlotSpec
<1> QED BY <1>1, HandoverKept DEF Contracts, HandoverContract
=============================================================================
