------------------------ MODULE UserAgentResultProofs ------------------------
(***************************************************************************)
(* Which call a result belongs to.  The handlers write the result of an    *)
(* ended session into the cr that the loop shares with them, and the loop  *)
(* hears of the end over callTerminatedChan; neither looks at whose cr it  *)
(* is.  That every report still carries the result of its own session, and *)
(* that the loop always hears of the end of the session it holds, rests on *)
(* one fact: as long as nobody sends CANCEL, only the session of the call  *)
(* in the agent can be ending (Owned).  The second part is about the SDP,  *)
(* the confirmation and the timer that a call uses, with invariants of its *)
(* own.                                                                    *)
(***************************************************************************)
EXTENDS UserAgentProofs

-----------------------------------------------------------------------------
(***************************************************************************)
(* The inductive invariant.                                                *)
(***************************************************************************)

\* No result was recorded.
NoResult == ""

\* A session that is finished, or to which a dialog belongs.
Final(s) == status[s] \in {"rejected", "over"}
Active(s) == status[s] \in {"sent", "answered", "confirmed", "bye"}

\* The end of a session is on its way to the loop.
EndOf(s) ==
    \/ chan.callTerminated = s
    \/ \E h \in handlers : h.kind = "ended" /\ h.sess = s

\* The session of the call in the agent.
Owner(s) ==
    /\ Role = "uas" => s = ua.currentSession
    /\ Role = "uac" => s = cr.CallIndex /\ ua.mediaCancel /\ ua.pc # "waitMedia"

\* A session ends once, and has a result only then.
Ended ==
    /\ \A s \in Sessions : outcome[s] # NoResult => Final(s)
    /\ \A h \in handlers : h.kind = "ended" =>
          /\ status[h.sess] = "over" /\ chan.callTerminated # h.sess
          /\ h.at \in {"write", "notify"}
    /\ chan.callTerminated # None => status[chan.callTerminated] = "over"
    /\ \A g, h \in handlers :
          g.kind = "ended" /\ h.kind = "ended" /\ g.sess = h.sess => g = h

\* Without CANCEL, only the session of the call in the agent is active or
\* ending, and an INVITE that was not taken yet is still to be answered.
Owned ==
    ~env.Cancels =>
        /\ cancels = {}
        /\ \A s \in Sessions : EndOf(s) \/ Active(s) => Owner(s)
        /\ \A h \in handlers : h.kind = "received" => status[h.sess] = "received"
        /\ chan.callReceived # None => status[chan.callReceived] = "received"

\* So the result in cr is that of the call: from the write to the message,
\* from the message to the report, and in the report.
Written ==
    ~env.Cancels =>
        /\ \A h \in handlers : h.kind = "ended" =>
              /\ h.result = outcome[h.sess]
              /\ h.at = "notify" => cr.CallResult = h.result
        /\ chan.callTerminated # None => cr.CallResult = outcome[chan.callTerminated]
        /\ ua.pc \in {"waitMedia", "wrapup"} \/ ua.reporter =>
              cr.CallID # None /\ Final(cr.CallID) /\ cr.CallResult = outcome[cr.CallID]
        /\ ua.pc = "report" =>
              /\ Final(ua.sending.CallID)
              /\ ua.sending.CallResult = outcome[ua.sending.CallID]

\* The reports in callEndChan.
Queued ==
    ~env.Cancels => \A k \in 1 .. Len(callEndChan) : callEndChan[k].CallID # None =>
        /\ Final(callEndChan[k].CallID)
        /\ callEndChan[k].CallResult = outcome[callEndChan[k].CallID]

\* The loop hears of the end of the session it holds.
OverHeard ==
    LET s == ua.currentSession IN
    s # None /\ status[s] = "over" =>
        ua.pc \in {"leave", "join", "exited"} \/ EndOf(s)

Held == Role = "uac" \/ ~env.Cancels => OverHeard

RInv == Ended /\ Owned /\ Written /\ Queued /\ Held

-----------------------------------------------------------------------------
(***************************************************************************)
(* The sessions.                                                           *)
(***************************************************************************)

\* What the loop does to the sessions.
LEMMA LoopSip ==
    ASSUME IInv, Loop
    PROVE  \/ UNCHANGED <<status, outcome>>
           \/ /\ SendInvite /\ Role = "uac" /\ cr.CallIndex \in Outgoing
              /\ status[cr.CallIndex] = "new"
              /\ status' = [status EXCEPT ![cr.CallIndex] = "sent"] /\ outcome' = outcome
           \/ /\ SendAnswer /\ Role = "uas" /\ ua.currentSession \in Sessions
              /\ status[ua.currentSession] = "received" /\ outcome' = outcome
              /\ status' = [status EXCEPT ![ua.currentSession] = "answered"]
           \/ /\ RejectBusy /\ chan.callReceived \in Sessions /\ Role = "uas"
              /\ EndSession(chan.callReceived)
           \/ TimerFires /\ ua.currentSession \in Sessions /\ EndSession(ua.currentSession)
           \/ Leave /\ ua.currentSession \in Sessions /\ EndSession(ua.currentSession)
<1>0. /\ ua \in UATypes /\ chan \in ChanTypes /\ cr \in Reports
      /\ ua.currentSession \in SessionOrNone /\ status \in [Sessions -> Statuses]
    BY DEF IInv, TypeOK, UATypes, Statuses
<1>1. CASE SendInvite
    <2>1. /\ Role = "uac" /\ chan.sdpFromMedia # None /\ outcome' = outcome
          /\ status' = [status EXCEPT ![cr.CallIndex] = "sent"]
        BY <1>1 DEF SendInvite, ghostVars
    <2>2. status[cr.CallIndex] = "new" /\ InAgent
        BY <2>1 DEF IInv, UacOffer, InAgent
    <2>3. cr.CallIndex \in Outgoing
        BY <1>0, <2>1, <2>2, Constants DEF IInv, TypeOK, UacCalls, Reports
    <2> QED BY <1>1, <2>1, <2>2, <2>3
<1>2. CASE SendAnswer
    <2>1. /\ Role = "uas" /\ outcome' = outcome
          /\ \/ status' = status
             \/ /\ ua.currentSession # None
                /\ status' = [status EXCEPT ![ua.currentSession] =
                                IF @ = "received" THEN "answered" ELSE @]
        BY <1>2, Zenon DEF SendAnswer
    <2>2. ua.currentSession # None => ua.currentSession \in Sessions
        BY <1>0 DEF SessionOrNone
    <2> QED BY <1>0, <1>2, <2>1, <2>2
<1>3. CASE RejectBusy
    BY <1>3, RejectBusyEffect, Constants
<1>4. CASE TimerFires
    BY <1>0, <1>4, TimerFiresEffect DEF SessionOrNone
<1>5. CASE Leave
    BY <1>0, <1>5, LeaveEffect DEF SessionOrNone
<1>6. CASE ~(SendInvite \/ SendAnswer \/ RejectBusy \/ TimerFires \/ Leave)
    BY <1>6, AcceptCallEffect DEF Loop, Registered, StartFails, TakeCall,
       InviteError, InviteReturns, Confirmed, ConfirmedWith, IgnoreTerminated,
       Terminated, TerminatedThen, MediaEnded, MediaEndedLeaving, WrapUp,
       LoopReports, MediaLeft, Exit, ghostVars
<1> QED BY <1>1, <1>2, <1>3, <1>4, <1>5, <1>6

\* A finished session stays as it is, and a result comes with the end.
Lasting ==
    /\ \A s \in Sessions : Final(s) => Final(s)' /\ outcome'[s] = outcome[s]
    /\ \A s \in Sessions : outcome'[s] # outcome[s] => Final(s)'
    /\ \A s \in Sessions : status[s] = "over" => status'[s] = "over"

\* The loop finishes only a session that it declines, and ends none.
LEMMA LoopLasting ==
    ASSUME IInv, Loop
    PROVE  /\ Lasting
           /\ \A s \in Sessions : status'[s] = "over" => status[s] = "over"
<1>0. /\ TypeOK /\ status \in [Sessions -> Statuses]
    BY DEF IInv, TypeOK, Statuses
<1>1. CASE \E r \in Sessions : EndSession(r)
    BY <1>0, <1>1, EndSessionEffect DEF Lasting, Final
<1>2. CASE UNCHANGED <<status, outcome>>
    BY <1>2 DEF Lasting, Final
<1>3. CASE SendInvite \/ SendAnswer
    BY <1>0, <1>1, <1>2, <1>3, LoopSip, Constants DEF Lasting, Final
<1> QED BY <1>1, <1>2, <1>3, LoopSip

\* A handler does no more, and makes no session active.
LEMMA HandlerLasting ==
    ASSUME IInv, HandlerStep
    PROVE  /\ Lasting
           /\ \A s \in Sessions : status'[s] = "over" => status[s] = "over"
           /\ \A s \in Sessions : Active(s)' => Active(s)
<1>0. /\ TypeOK /\ status \in [Sessions -> Statuses]
    BY DEF IInv, TypeOK, Statuses
<1>1. \/ UNCHANGED <<status, outcome>>
      \/ \E r \in Sessions : EndSession(r)
    BY DEF HandlerStep, HandleSdp, HandleUnwanted, NotifyReceived, NotifyConfirmed,
       ConfirmedAgain, HandleEnded, WriteResult, NotifyEnded, IInv, TypeOK, Handlers
<1>2. CASE \E r \in Sessions : EndSession(r)
    BY <1>0, <1>2, EndSessionEffect DEF Lasting, Final, Active
<1>3. CASE UNCHANGED <<status, outcome>>
    BY <1>3 DEF Lasting, Final, Active
<1> QED BY <1>1, <1>2, <1>3

\* The end of a session, with its result.
LEMMA EndsEffect ==
    ASSUME IInv, NEW s \in Sessions, StackEnds(s)
    PROVE  /\ status[s] \notin {"new", "over"}
           /\ cancels = {} => Active(s)
           /\ status' = [status EXCEPT ![s] = "over"]
           /\ \E h \in Handlers : /\ h.kind = "ended" /\ h.sess = s /\ h.at = "write"
                                  /\ handlers' = handlers \cup {h}
                                  /\ outcome[s] = NoResult => outcome'[s] = h.result
           /\ outcome[s] # NoResult => outcome' = outcome
           /\ \A r \in Sessions : r # s => outcome'[r] = outcome[r]
           /\ UNCHANGED cancels
<1>0. outcome \in [Sessions -> Results] /\ outcome' \in [Sessions -> Results]
    BY DEF IInv, TypeOK, StackEnds, Ends
<1>1. PICK h \in Handlers :
          /\ h.kind = "ended" /\ h.sess = s /\ h.at = "write"
          /\ handlers' = handlers \cup {h}
          /\ outcome[s] = NoResult => outcome' = [outcome EXCEPT ![s] = h.result]
          /\ outcome[s] # NoResult => outcome' = outcome
    BY Zenon DEF StackEnds, Ends, NoResult
<1>2. status' = [status EXCEPT ![s] = "over"] /\ UNCHANGED cancels
    BY DEF StackEnds, Ends
<1>3. status[s] \notin {"new", "over"} /\ (cancels = {} => Active(s))
    BY DEF StackEnds, Active
<1>4. outcome[s] = NoResult => outcome'[s] = h.result
    BY <1>0, <1>1
<1>5. \A r \in Sessions : r # s => outcome'[r] = outcome[r]
    BY <1>0, <1>1
<1> QED BY <1>1, <1>2, <1>3, <1>4, <1>5

\* The stack turns a session, and begins a handler that is not that of an end.
LEMMA TurnsOnly ==
    ASSUME NEW s \in Sessions, StackTurns(s)
    PROVE  /\ status[s] \in {"sent", "answered", "new"}
           /\ status[s] \in {"sent", "answered"} =>
                 /\ status' = [status EXCEPT ![s] = "confirmed"]
                 /\ \E h \in Handlers : h.kind = "confirmed" /\ handlers' = handlers \cup {h}
           /\ status[s] = "new" =>
                 /\ status' = [status EXCEPT ![s] = "received"] /\ s \in Incoming
                 /\ \E h \in Handlers : /\ h.kind = "received" /\ h.sess = s
                                        /\ handlers' = handlers \cup {h}
           /\ UNCHANGED <<outcome, cancels>>
BY DEF StackTurns, HandlerStarts

\* The stack finishes a session that was not, and without CANCEL cancels none.
LEMMA StackLasting ==
    ASSUME IInv, Owned, ~env.Cancels, NEW s \in Sessions, Stack(s)
    PROVE  Lasting /\ ~StackCancels(s)
<1>0. /\ TypeOK /\ status \in [Sessions -> Statuses] /\ cancels = {}
    BY DEF IInv, TypeOK, Statuses, Owned
<1>1. CASE StackTurns(s)
    BY <1>0, <1>1, TurnsOnly DEF Lasting, Final, StackCancels
<1>2. CASE StackEnds(s)
    BY <1>0, <1>2, EndsEffect DEF Lasting, Final, Active, StackCancels
<1> QED BY <1>0, <1>1, <1>2, StackEffect DEF StackCancels

-----------------------------------------------------------------------------
(***************************************************************************)
(* A session ends once.                                                    *)
(***************************************************************************)

\* The loop can only take the end out of its channel.
LEMMA LoopEnded ==
    ASSUME IInv, Ended, Loop
    PROVE  Ended'
<1>0. /\ chan \in ChanTypes /\ handlers \subseteq Handlers
      /\ \A h \in Handlers : h.sess \in Sessions
    BY DEF IInv, TypeOK, Handlers
<1>1. handlers' = handlers /\ chan'.callTerminated \in {None, chan.callTerminated}
    BY <1>0, AcceptCallEffect, TimerFiresEffect DEF Loop, Registered, StartFails, TakeCall,
       SendInvite, InviteError, InviteReturns, SendAnswer, Confirmed, ConfirmedWith, RejectBusy,
       RejectBusyAs, IgnoreTerminated, Terminated, TerminatedThen, MediaEnded, MediaEndedLeaving,
       WrapUp, LoopReports, Leave, MediaLeft, Exit, chanVars, ChanTypes
<1>2. Lasting
    BY LoopLasting
<1>3. \A s \in Sessions : outcome'[s] # NoResult => Final(s)'
    BY <1>2 DEF Lasting, Ended
<1>4. chan'.callTerminated # None => chan.callTerminated \in Sessions
    BY <1>0, <1>1 DEF ChanTypes, SessionOrNone
<1> QED BY <1>0, <1>1, <1>2, <1>3, <1>4, Constants DEF Ended, Lasting

\* The handler of an end puts it into the channel of a session that is over.
LEMMA HandlerEnded ==
    ASSUME IInv, Ended, HandlerStep
    PROVE  Ended'
<1>0. /\ chan \in ChanTypes /\ handlers \subseteq Handlers
      /\ \A h \in Handlers : h.sess \in Sessions
      /\ chan.callTerminated \in Sessions \cup {None}
    BY DEF IInv, TypeOK, Handlers, ChanTypes, SessionOrNone
<1>1. PICK h \in handlers :
          \/ HandleSdp(h) \/ HandleUnwanted(h) \/ NotifyReceived(h) \/ NotifyConfirmed(h)
          \/ ConfirmedAgain(h) \/ HandleEnded(h) \/ NotifyEnded(h)
    BY DEF HandlerStep
<1>2. h \in Handlers /\ Lasting
    BY <1>0, HandlerLasting
<1>3. \A s \in Sessions : outcome'[s] # NoResult => Final(s)'
    BY <1>2 DEF Lasting, Ended
<1>4. CASE HandleEnded(h)
    <2>1. PICK g \in Handlers : /\ g.kind = h.kind /\ g.sess = h.sess /\ g.at = "notify"
                                /\ handlers' = (handlers \ {h}) \cup {g}
        BY <1>2, <1>4, AdvanceEffect DEF HandleEnded, WriteResult
    <2>2. chan' = chan /\ status' = status
        BY <1>4 DEF HandleEnded, WriteResult
    <2> QED BY <1>0, <1>2, <1>3, <2>1, <2>2, Constants DEF Ended
<1>5. CASE NotifyEnded(h)
    <2>1. /\ handlers' = handlers \ {h} /\ status' = status /\ h.kind = "ended"
          /\ chan.callTerminated = None /\ chan'.callTerminated = h.sess
        BY <1>0, <1>5 DEF NotifyEnded, Return, ChanTypes
    <2> QED BY <1>0, <1>2, <1>3, <2>1, Constants DEF Ended
<1>6. CASE ~HandleEnded(h) /\ ~NotifyEnded(h)
    <2>1. h.kind # "ended"
        BY <1>1, <1>6 DEF Ended, HandleSdp, HandleUnwanted, NotifyReceived, NotifyConfirmed,
           ConfirmedAgain
    <2>2. \/ handlers' = handlers \ {h}
          \/ \E g \in Handlers : g.kind = h.kind /\ handlers' = (handlers \ {h}) \cup {g}
        BY <1>1, <1>2, <1>6, AdvanceEffect, AgainEffect DEF HandleSdp, HandleUnwanted,
           NotifyReceived, NotifyConfirmed, ConfirmedAgain, Return
    <2>3. chan'.callTerminated = chan.callTerminated
        BY <1>0, <1>1, <1>6 DEF HandleSdp, HandleUnwanted, NotifyReceived, NotifyConfirmed,
           ConfirmedAgain, ChanTypes
    <2> QED BY <1>0, <1>2, <1>3, <2>1, <2>2, <2>3, Constants DEF Ended, Lasting
<1> QED BY <1>1, <1>4, <1>5, <1>6

\* The stack starts the handler of an end for a session that was not over.
LEMMA StackEnded ==
    ASSUME IInv, Ended, NEW s \in Sessions, Stack(s)
    PROVE  Ended'
<1>0. /\ chan' = chan /\ handlers \subseteq Handlers /\ TypeOK
      /\ status \in [Sessions -> Statuses]
      /\ \A h \in Handlers : h.sess \in Sessions
      /\ chan.callTerminated \in Sessions \cup {None}
    BY StackEffect DEF IInv, TypeOK, Handlers, ChanTypes, SessionOrNone, Statuses
<1>1. CASE StackTurns(s)
    <2>1. PICK h \in Handlers : h.kind # "ended" /\ handlers' = handlers \cup {h}
        BY <1>1, TurnsOnly
    <2>2. /\ status[s] \in {"sent", "answered", "new"} /\ outcome' = outcome
          /\ \A r \in Sessions : r # s => status'[r] = status[r]
        BY <1>0, <1>1, TurnsOnly
    <2>3. \A r \in Sessions : outcome'[r] # NoResult => Final(r)'
        BY <2>2 DEF Ended, Final
    <2> QED BY <1>0, <2>1, <2>2, <2>3, Constants DEF Ended
<1>2. CASE StackEnds(s)
    <2>1. PICK h \in Handlers : /\ h.kind = "ended" /\ h.sess = s /\ h.at = "write"
                                /\ handlers' = handlers \cup {h}
        BY <1>2, EndsEffect
    <2>2. /\ status[s] # "over" /\ status' = [status EXCEPT ![s] = "over"]
          /\ \A r \in Sessions : r # s => outcome'[r] = outcome[r]
        BY <1>2, EndsEffect
    <2>3. \A r \in Sessions : outcome'[r] # NoResult => Final(r)'
        BY <1>0, <2>2 DEF Ended, Final
    <2> QED BY <1>0, <2>1, <2>2, <2>3, Constants DEF Ended
<1>3. CASE StackCancels(s)
    BY <1>0, <1>3 DEF StackCancels, Ended, Final
<1> QED BY <1>0, <1>1, <1>2, <1>3, StackEffect

-----------------------------------------------------------------------------
(***************************************************************************)
(* Only the session of the call in the agent is active or ending.          *)
(***************************************************************************)

\* The call stays in the agent until the loop hears of its end.
LEMMA OwnerKept ==
    ASSUME IInv, Loop, ~Terminated, NEW s \in Sessions, Owner(s)
    PROVE  Owner(s)'
<1>0. /\ ua \in UATypes /\ cr \in Reports /\ Control /\ s # None
    BY Constants DEF IInv, TypeOK
<1>1. CASE Role = "uac"
    <2>1. s = cr.CallIndex /\ ua.mediaCancel /\ ua.pc # "waitMedia"
        BY <1>1 DEF Owner
    <2>2. ~TakeCall /\ ~MediaEnded /\ ~WrapUp /\ ~Registered
        BY <1>0, <1>1, <2>1, UacTakesCall DEF MediaEnded, MediaEndedLeaving, WrapUp,
           Registered, Control
    <2>3. cr'.CallIndex = cr.CallIndex /\ ua'.mediaCancel /\ ua'.pc # "waitMedia"
        BY <1>0, <1>1, <2>1, <2>2, UacLoop, TimerKeeps DEF StartFails, Control,
           SendInvite, InviteError, InviteReturns, Confirmed, ConfirmedWith, IgnoreTerminated,
           Leave, MediaLeft, Exit, Goto, UATypes, Reports
    <2> QED BY <1>1, <2>1, <2>3 DEF Owner
<1>2. CASE Role = "uas"
    <2>1. s = ua.currentSession
        BY <1>2 DEF Owner
    <2>2. ~AcceptCall
        BY <1>0, <2>1, AcceptCallEffect
    <2>3. ua'.currentSession = ua.currentSession
        BY <1>0, <1>2, <2>2, UasLoop, TimerFiresEffect, RejectBusyEffect DEF Registered, StartFails,
           SendAnswer, Confirmed, ConfirmedWith, IgnoreTerminated, MediaEnded, MediaEndedLeaving,
           WrapUp, LoopReports, Leave, MediaLeft, Exit, Goto, UATypes
    <2> QED BY <1>2, <2>1, <2>3 DEF Owner
<1> QED BY <1>1, <1>2, Constants

\* The loop takes up a call only when the one before has left it.
LEMMA LoopOwned ==
    ASSUME IInv, Ended, Owned, UNCHANGED env, Loop
    PROVE  Owned'
<1> SUFFICES ASSUME ~env.Cancels PROVE Owned'
    BY DEF Owned
<1>0. /\ chan \in ChanTypes /\ handlers \subseteq Handlers /\ status \in [Sessions -> Statuses]
      /\ \A h \in Handlers : h.sess \in Sessions
      /\ TypeOK /\ Control /\ Begins /\ Reported /\ UacCalls
    BY DEF IInv, TypeOK, Handlers, Statuses
<1>1. handlers' = handlers /\ cancels' = cancels
      /\ chan'.callTerminated \in {None, chan.callTerminated}
      /\ chan'.callReceived \in {None, chan.callReceived}
    <2>1. chan'.callTerminated \in {None, chan.callTerminated}
        BY <1>0, AcceptCallEffect, TimerFiresEffect DEF Loop, Registered, StartFails, TakeCall,
           SendInvite, InviteError, InviteReturns, SendAnswer, Confirmed, ConfirmedWith, RejectBusy,
           RejectBusyAs, IgnoreTerminated, Terminated, TerminatedThen, MediaEnded,
           MediaEndedLeaving, WrapUp, LoopReports, Leave, MediaLeft, Exit, chanVars,
           ChanTypes
    <2> QED BY <2>1, LoopStatus DEF Loop
<1>2. cancels = {} /\ \A s \in Sessions : EndOf(s) \/ Active(s) => Owner(s)
    BY DEF Owned
<1>3. \A s \in Sessions : EndOf(s)' => EndOf(s)
    BY <1>1, Constants DEF EndOf
<1>4. \A s \in Sessions : Active(s)' =>
          \/ Active(s)
          \/ SendInvite /\ Role = "uac" /\ s = cr.CallIndex
          \/ SendAnswer /\ Role = "uas" /\ s = ua.currentSession
    <2>1. CASE \E r \in Sessions : EndSession(r)
        BY <1>0, <2>1, EndSessionEffect DEF Active
    <2>2. CASE UNCHANGED <<status, outcome>>
        BY <2>2 DEF Active
    <2> QED BY <1>0, <2>1, <2>2, LoopSip, Constants DEF Active
<1>5. CASE ~Terminated
    <2>1. \A s \in Sessions : EndOf(s)' \/ Active(s)' => Owner(s)'
        <3> SUFFICES ASSUME NEW s \in Sessions, EndOf(s)' \/ Active(s)'
                     PROVE  Owner(s)'
            OBVIOUS
        <3>1. CASE EndOf(s) \/ Active(s)
            BY <1>2, <1>5, <3>1, OwnerKept
        <3>2. CASE SendInvite /\ Role = "uac" /\ s = cr.CallIndex
            <4>1. ua.mediaCancel /\ ua' = [ua EXCEPT !.pc = "invite"] /\ cr' = cr
                BY <1>0, <3>2 DEF SendInvite, Goto, IInv, UacOffer
            <4> QED BY <1>0, <3>2, <4>1 DEF Owner, TypeOK, UATypes
        <3>3. CASE SendAnswer /\ Role = "uas" /\ s = ua.currentSession
            BY <3>3 DEF SendAnswer, Owner
        <3> QED BY <1>3, <1>4, <3>1, <3>2, <3>3
    <2>2. \A s \in Sessions :
              status[s] = "received" /\ status'[s] # "received" =>
                  s = ua.currentSession \/ (RejectBusy /\ s = chan.callReceived)
        <3>1. \A s, r \in Sessions : EndSession(r) /\ status'[s] # status[s] => s = r
            BY <1>0, EndSessionEffect
        <3> QED BY <1>0, <3>1, LoopSip, Constants
    <2>3. \A h \in handlers : h.kind = "received" =>
              h.sess # ua.currentSession /\ h.sess # chan.callReceived
        <3> SUFFICES ASSUME NEW h \in handlers, h.kind = "received"
                     PROVE  h.sess # ua.currentSession /\ h.sess # chan.callReceived
            OBVIOUS
        <3>1. h.sess \notin Counted /\ h.sess \in Incoming
            BY <1>0 DEF Begins, Counted
        <3>2. h.sess # chan.callReceived
            BY <1>0 DEF Begins
        <3>3. CASE Role = "uas"
            BY <1>0, <3>1, <3>2, <3>3, Constants DEF Reported
        <3>4. CASE Role = "uac"
            <4>1. ua.currentSession # None => ua.currentSession \in Outgoing
                BY <1>0, <3>4, Constants DEF UacCalls, TypeOK, Reports
            <4> QED BY <3>1, <3>2, <4>1, Constants
        <3> QED BY <3>3, <3>4, Constants
    <2>4. chan.callReceived # None => chan.callReceived # ua.currentSession
        BY <1>0 DEF Begins, Reported, Counted
    <2>5. \A h \in handlers' : h.kind = "received" => status'[h.sess] = "received"
        BY <1>0, <1>1, <2>2, <2>3 DEF Owned
    <2>6. chan'.callReceived # None => status'[chan'.callReceived] = "received"
        <3>1. RejectBusy => chan'.callReceived = None
            BY <1>0, RejectBusyEffect DEF ChanTypes
        <3>2. chan.callReceived # None => chan.callReceived \in Sessions
            BY <1>0, Constants DEF Begins
        <3> QED BY <1>1, <2>2, <2>4, <3>1, <3>2 DEF Owned
    <2> QED BY <1>1, <1>2, <2>1, <2>5, <2>6 DEF Owned
<1>6. CASE Terminated
    <2>1. /\ chan.callTerminated # None /\ ua.currentSession = chan.callTerminated
          /\ chan' = [chan EXCEPT !.callTerminated = None] /\ status' = status
        BY <1>6 DEF Terminated, TerminatedThen
    <2>2. \A s \in Sessions : Owner(s) => s = chan.callTerminated
        BY <1>0, <2>1, Constants DEF Owner, UacCalls
    <2>3. status[chan.callTerminated] = "over"
        BY <2>1 DEF Ended
    <2>4. \A s \in Sessions : ~Active(s)'
        BY <1>2, <2>1, <2>2, <2>3 DEF Active
    <2>5. \A s \in Sessions : ~EndOf(s)'
        <3> SUFFICES ASSUME NEW s \in Sessions, EndOf(s)' PROVE FALSE
            OBVIOUS
        <3>1. chan'.callTerminated = None
            BY <1>0, <2>1 DEF ChanTypes
        <3>2. PICK h \in handlers : h.kind = "ended" /\ h.sess = s
            BY <1>1, <3>1, Constants DEF EndOf
        <3>3. s = chan.callTerminated
            BY <1>2, <1>3, <2>2
        <3> QED BY <3>2, <3>3 DEF Ended
    <2>6. chan'.callReceived = chan.callReceived
        BY <1>0, <2>1 DEF ChanTypes
    <2> QED BY <1>1, <1>2, <2>1, <2>4, <2>5, <2>6 DEF Owned
<1> QED BY <1>5, <1>6

\* A handler passes its call on to the loop, or declines it.
LEMMA HandlerOwned ==
    ASSUME IInv, Ended, Owned, UNCHANGED env, HandlerStep
    PROVE  Owned'
<1> SUFFICES ASSUME ~env.Cancels PROVE Owned'
    BY DEF Owned
<1>0. /\ chan \in ChanTypes /\ handlers \subseteq Handlers /\ status \in [Sessions -> Statuses]
      /\ \A h \in Handlers : h.sess \in Sessions
      /\ TypeOK /\ Begins
      /\ cancels = {} /\ cancels' = cancels /\ ua' = ua /\ cr'.CallIndex = cr.CallIndex
      /\ chan.callReceived # None => chan.callReceived \in Sessions
    BY HandlerFrame, Constants DEF IInv, TypeOK, Handlers, Statuses, Owned, HandlerStep, Begins
<1>1. PICK h \in handlers :
          \/ HandleSdp(h) \/ HandleUnwanted(h) \/ NotifyReceived(h) \/ NotifyConfirmed(h)
          \/ ConfirmedAgain(h) \/ HandleEnded(h) \/ NotifyEnded(h)
    BY DEF HandlerStep
<1>2. \A s \in Sessions : Owner(s)' <=> Owner(s)
    BY <1>0 DEF Owner
<1>3. \A s \in Sessions : Active(s)' => Active(s)
    BY HandlerLasting
<1>4. CASE HandleUnwanted(h)
    <2>1. /\ handlers' = handlers \ {h} /\ chan' = chan /\ EndSession(h.sess)
          /\ h.kind = "received" /\ Role = "uac" /\ h.sess \in Sessions
        BY <1>0, <1>4 DEF HandleUnwanted, Return
    <2>2. \A s \in Sessions : s # h.sess => status'[s] = status[s]
        BY <1>0, <2>1, EndSessionEffect
    <2>3. chan.callReceived = None
        BY <2>1 DEF IInv, Begins
    <2>4. \A g \in handlers' : g.kind = "received" => status'[g.sess] = "received"
        BY <1>0, <2>1, <2>2 DEF Begins, Owned
    <2>5. \A s \in Sessions : EndOf(s)' => EndOf(s)
        BY <2>1 DEF EndOf
    <2> QED BY <1>0, <1>2, <1>3, <2>1, <2>3, <2>4, <2>5 DEF Owned
<1>5. CASE NotifyReceived(h)
    <2>1. /\ handlers' = handlers \ {h} /\ status' = status /\ h.kind = "received"
          /\ chan'.callReceived = h.sess /\ chan'.callTerminated = chan.callTerminated
        BY <1>0, <1>5 DEF NotifyReceived, Return, ChanTypes
    <2>2. \A s \in Sessions : EndOf(s)' => EndOf(s)
        BY <2>1 DEF EndOf
    <2> QED BY <1>0, <1>2, <1>3, <2>1, <2>2 DEF Owned
<1>6. CASE ~HandleUnwanted(h) /\ ~NotifyReceived(h)
    <2>1. status' = status /\ chan'.callReceived = chan.callReceived
        BY <1>0, <1>1, <1>6 DEF HandleSdp, NotifyConfirmed, ConfirmedAgain, HandleEnded,
           WriteResult, NotifyEnded, ChanTypes
    <2>2. \/ handlers' = handlers \ {h}
          \/ \E g \in Handlers : /\ g.kind = h.kind /\ g.sess = h.sess
                                 /\ handlers' = (handlers \ {h}) \cup {g}
        BY <1>0, <1>1, <1>6, AdvanceEffect, AgainEffect DEF HandleSdp, NotifyConfirmed,
           ConfirmedAgain, HandleEnded, WriteResult, NotifyEnded, Return
    <2>3. \/ chan'.callTerminated = chan.callTerminated
          \/ chan'.callTerminated = h.sess /\ h.kind = "ended"
        BY <1>0, <1>1, <1>6 DEF HandleSdp, NotifyConfirmed, ConfirmedAgain, HandleEnded,
           WriteResult, NotifyEnded, ChanTypes
    <2>4. \A s \in Sessions : EndOf(s)' => EndOf(s)
        BY <1>0, <2>2, <2>3 DEF EndOf
    <2>5. \A g \in handlers' : g.kind = "received" => status'[g.sess] = "received"
        BY <1>0, <2>1, <2>2 DEF Owned
    <2> QED BY <1>0, <1>2, <1>3, <2>1, <2>4, <2>5 DEF Owned
<1> QED BY <1>1, <1>4, <1>5, <1>6

\* A session that turns or ends was active, so the agent has it.
LEMMA StackOwned ==
    ASSUME IInv, Ended, Owned, UNCHANGED env, NEW s \in Sessions, Stack(s)
    PROVE  Owned'
<1> SUFFICES ASSUME ~env.Cancels PROVE Owned'
    BY DEF Owned
<1>0. /\ handlers \subseteq Handlers /\ status \in [Sessions -> Statuses]
      /\ \A h \in Handlers : h.sess \in Sessions
      /\ TypeOK /\ Begins /\ cancels = {} /\ UNCHANGED <<ua, cr, chan>>
      /\ chan.callReceived # None => chan.callReceived \in Sessions
    BY StackEffect, Constants DEF IInv, TypeOK, Handlers, Statuses, Owned, Begins
<1>1. \A r \in Sessions : Owner(r)' <=> Owner(r)
    BY <1>0 DEF Owner
<1>2. CASE StackTurns(s)
    <2>1. \A r \in Sessions : EndOf(r)' => EndOf(r)
        <3>1. \E h \in Handlers : h.kind # "ended" /\ handlers' = handlers \cup {h}
            BY <1>2, TurnsOnly
        <3> QED BY <1>0, <3>1 DEF EndOf
    <2>2. \A r \in Sessions : Active(r)' => Active(r)
        BY <1>0, <1>2, TurnsOnly DEF Active
    <2>3. \A r \in Sessions : status[r] = "received" => status'[r] = "received"
        BY <1>0, <1>2, TurnsOnly
    <2>4. \A h \in handlers' : h.kind = "received" => status'[h.sess] = "received"
        BY <1>0, <1>2, <2>3, TurnsOnly DEF Owned
    <2> QED BY <1>0, <1>1, <1>2, <2>1, <2>2, <2>3, <2>4, TurnsOnly DEF Owned
<1>3. CASE StackEnds(s)
    <2>1. Active(s) /\ Owner(s) /\ status[s] # "received" /\ cancels' = cancels
        BY <1>0, <1>3, EndsEffect DEF Owned, Active
    <2>2. PICK h \in Handlers : /\ h.kind = "ended" /\ h.sess = s
                                /\ handlers' = handlers \cup {h}
        BY <1>3, EndsEffect
    <2>3. status' = [status EXCEPT ![s] = "over"]
        BY <1>3, EndsEffect
    <2>4. \A r \in Sessions : EndOf(r)' \/ Active(r)' => EndOf(r) \/ Active(r)
        BY <1>0, <2>1, <2>2, <2>3 DEF EndOf, Active
    <2>5. \A r \in Sessions : status[r] = "received" => status'[r] = "received"
        BY <1>0, <2>1, <2>3
    <2>6. \A g \in handlers' : g.kind = "received" => status'[g.sess] = "received"
        BY <1>0, <2>2, <2>5 DEF Owned
    <2> QED BY <1>0, <1>1, <2>1, <2>4, <2>5, <2>6 DEF Owned
<1>4. ~StackCancels(s)
    BY StackLasting
<1> QED BY <1>0, <1>2, <1>3, <1>4, StackEffect

-----------------------------------------------------------------------------
(***************************************************************************)
(* The result written into cr is that of the call.                         *)
(***************************************************************************)

\* A finished session that is ending or ended keeps its result.
LEMMA LoopWritten ==
    ASSUME IInv, Ended, Owned, Written, UNCHANGED env, Loop
    PROVE  Written'
<1> SUFFICES ASSUME ~env.Cancels PROVE Written'
    BY DEF Written
<1>0. /\ ua \in UATypes /\ chan \in ChanTypes /\ handlers \subseteq Handlers /\ cr \in Reports
      /\ \A h \in Handlers : h.sess \in Sessions
      /\ TypeOK /\ Control /\ Begins /\ Reported /\ UacCalls /\ UacToken
      /\ handlers' = handlers /\ Lasting
    BY LoopLasting DEF IInv, TypeOK, Handlers, Loop
<1>1. \A s \in Sessions : EndOf(s) => Owner(s) /\ Final(s)
    BY <1>0, Constants DEF Owned, Ended, EndOf, Final
<1>2. CASE TakeCall \/ AcceptCall
    <2>1. \A s \in Sessions : ~Owner(s)
        <3>1. CASE TakeCall
            <4>1. Role = "uac"
                BY <1>0, <3>1, Constants DEF TakeCall, ChanTypes
            <4> QED BY <3>1, <4>1, UacTakesCall DEF Owner
        <3>2. CASE AcceptCall
            <4>1. Role = "uas" /\ ua.currentSession = None
                BY <1>0, <3>2, AcceptCallEffect DEF Begins
            <4> QED BY <4>1, Constants DEF Owner
        <3> QED BY <1>2, <3>1, <3>2
    <2>2. chan.callTerminated = None /\ \A h \in handlers : h.kind # "ended"
        BY <1>0, <1>1, <2>1 DEF EndOf, ChanTypes, SessionOrNone
    <2>3. /\ chan'.callTerminated = None /\ ua'.pc = "select" /\ ~ua'.reporter
        <3>1. CASE TakeCall
            <4>1. Role = "uac" /\ ~ua.reporter
                BY <1>0, <3>1, Constants DEF TakeCall, ChanTypes, UacToken
            <4> QED BY <1>0, <2>2, <3>1, <4>1, UacTakesCall DEF ChanTypes, UATypes
        <3>2. CASE AcceptCall
            <4>1. ~ua.reporter
                BY <1>0, <3>2, AcceptCallEffect DEF Begins, Control
            <4>2. /\ chan' = [chan EXCEPT !.callReceived = None] /\ ua.pc = "select"
                  /\ ua' = [ua EXCEPT !.uasCallIndex = ua.uasCallIndex + 1,
                                      !.currentSession = chan.callReceived, !.mediaCancel = TRUE]
                BY <3>2, AcceptCallEffect
            <4> QED BY <1>0, <2>2, <4>1, <4>2 DEF ChanTypes, UATypes
        <3> QED BY <1>2, <3>1, <3>2
    <2> QED BY <1>0, <2>2, <2>3 DEF Written
<1>3. CASE ~TakeCall /\ ~AcceptCall
    <2>1. cr'.CallResult = cr.CallResult
        BY <1>0, <1>3, RejectBusyEffect, TimerFiresEffect DEF Loop, Registered, StartFails,
           SendInvite, InviteError, InviteReturns, SendAnswer, Confirmed, ConfirmedWith,
           IgnoreTerminated, Terminated, TerminatedThen, MediaEnded, MediaEndedLeaving, WrapUp, LoopReports, Leave, MediaLeft, Exit, Reports
    <2>2. chan'.callTerminated \in {None, chan.callTerminated}
        BY <1>0, <1>3, RejectBusyEffect, TimerFiresEffect DEF Loop, Registered, StartFails,
           SendInvite, InviteError, InviteReturns, SendAnswer, Confirmed, ConfirmedWith,
           IgnoreTerminated, Terminated, TerminatedThen, MediaEnded, MediaEndedLeaving, WrapUp, LoopReports, Leave, MediaLeft, Exit, ChanTypes, chanVars
    <2>3. \A h \in handlers' : h.kind = "ended" =>
              /\ h.result = outcome'[h.sess]
              /\ h.at = "notify" => cr'.CallResult = h.result
        BY <1>0, <2>1 DEF Written, Ended, Lasting, Final
    <2>4. chan'.callTerminated # None => cr'.CallResult = outcome'[chan'.callTerminated]
        <3>1. chan.callTerminated # None => chan.callTerminated \in Sessions
            BY <1>0 DEF ChanTypes, SessionOrNone
        <3> QED BY <1>0, <2>1, <2>2, <3>1 DEF Written, Ended, Lasting, Final
    <2>5. ua'.pc \in {"waitMedia", "wrapup"} \/ ua'.reporter =>
              cr'.CallID # None /\ Final(cr.CallID)' /\ cr'.CallResult = outcome'[cr'.CallID]
        <3>1. CASE Terminated
            <4>1. /\ chan.callTerminated # None /\ ua.currentSession = chan.callTerminated
                  /\ UNCHANGED <<status, outcome, cr>>
                BY <3>1 DEF Terminated, TerminatedThen, ghostVars
            <4>2. cr.CallID = chan.callTerminated
                BY <1>0, <4>1, Constants DEF Reported, UacCalls
            <4> QED BY <4>1, <4>2 DEF Written, Ended, Final
        <3>2. CASE WrapUp \/ MediaEnded
            BY <1>0, <3>2 DEF WrapUp, MediaEnded, MediaEndedLeaving, Written, ghostVars,
               Final
        <3>3. CASE ~Terminated /\ ~WrapUp /\ ~MediaEnded
            <4>1. ua'.reporter = ua.reporter /\ ua'.pc \notin {"waitMedia", "wrapup"}
                <5>1. CASE RejectBusy \/ TimerFires
                    BY <5>1, RejectBusyKeeps, TimerKeeps, <1>0
                <5>2. CASE Leave \/ MediaLeft \/ Exit \/ LoopReports \/ Registered \/ StartFails
                    BY <1>0, <5>2 DEF Leave, MediaLeft, Exit, LoopReports, Registered, StartFails,
                       Goto, UATypes
                <5>3. CASE \/ SendInvite \/ InviteError \/ InviteReturns \/ SendAnswer
                           \/ Confirmed \/ IgnoreTerminated
                    BY <1>0, <5>3 DEF SendInvite, InviteError, InviteReturns, SendAnswer,
                       Confirmed, ConfirmedWith, IgnoreTerminated, Goto, UATypes
                <5> QED BY <1>3, <3>3, <5>1, <5>2, <5>3 DEF Loop
            <4>2. ua.reporter => cr'.CallID = cr.CallID
                <5>1. ua.reporter => ua.pc # "invite"
                    BY <1>0, Constants DEF Control, UacToken, InAgent
                <5> QED BY <1>0, <1>3, <5>1, RejectBusyEffect, TimerFiresEffect DEF Loop, Registered,
                       StartFails, SendInvite, InviteError, InviteReturns, SendAnswer, Confirmed,
                       ConfirmedWith, IgnoreTerminated, Terminated, TerminatedThen, MediaEnded,
                       MediaEndedLeaving, WrapUp, LoopReports, Leave, MediaLeft, Exit
            <4>3. ua.reporter => cr.CallID \in Sessions
                BY <1>0 DEF Written, Reports, SessionOrNone
            <4> QED BY <1>0, <2>1, <4>1, <4>2, <4>3 DEF Written, Lasting
        <3> QED BY <3>1, <3>2, <3>3
    <2>6. ua'.pc = "report" =>
              /\ Final(ua.sending.CallID)'
              /\ ua'.sending.CallResult = outcome'[ua'.sending.CallID]
        <3>1. CASE RejectBusy
            <4>1. /\ chan.callReceived \in Sessions /\ chan.callReceived # None
                  /\ EndSession(chan.callReceived)
                BY <3>1, RejectBusyEffect, Constants
            <4>2. /\ status'[chan.callReceived] = "rejected"
                  /\ outcome'[chan.callReceived] = "Failed"
                BY <1>0, <4>1, EndSessionEffect DEF Owned
            <4>3. /\ ua'.sending.CallID = chan.callReceived /\ ua'.sending.CallResult = "Failed"
                <5>1. ua' = [ua EXCEPT !.uasCallIndex = ua.uasCallIndex + 1,
                               !.sending = [CallIndex |-> ua.uasCallIndex + 1,
                                            CallID |-> chan.callReceived,
                                            CallResult |-> "Failed"],
                               !.currentSession = ua.currentSession, !.pc = "report"]
                    BY <3>1, RejectBusyEffect
                <5> QED BY <1>0, <5>1 DEF UATypes
            <4> QED BY <4>2, <4>3 DEF Final
        <3>2. CASE WrapUp
            BY <1>0, <3>2 DEF WrapUp, Written, ghostVars, UATypes, Final
        <3>3. CASE ~RejectBusy /\ ~WrapUp
            BY <1>0, <1>3, <3>3, TimerFiresEffect DEF Loop, Registered,
                   StartFails, SendInvite, InviteError, InviteReturns, SendAnswer, Confirmed,
                   ConfirmedWith, IgnoreTerminated, Terminated, TerminatedThen, MediaEnded,
                   MediaEndedLeaving, LoopReports, Leave, MediaLeft, Exit, Goto, UATypes
        <3> QED BY <3>1, <3>2, <3>3
    <2> QED BY <2>3, <2>4, <2>5, <2>6 DEF Written
<1> QED BY <1>2, <1>3

\* Only one handler can be about to write, that of the call, and the loop does
\* not report the call before it has heard of its end.
LEMMA HandlerWritten ==
    ASSUME IInv, Ended, Owned, Written, UNCHANGED env, HandlerStep
    PROVE  Written'
<1> SUFFICES ASSUME ~env.Cancels PROVE Written'
    BY DEF Written
<1>0. /\ ua \in UATypes /\ chan \in ChanTypes /\ handlers \subseteq Handlers /\ cr \in Reports
      /\ \A h \in Handlers : h.sess \in Sessions
      /\ TypeOK /\ Control /\ Reported /\ UacToken
      /\ ua' = ua /\ cr'.CallID = cr.CallID /\ cr'.CallIndex = cr.CallIndex /\ Lasting
      /\ chan.callTerminated \in Sessions \cup {None}
    BY HandlerLasting, HandlerFrame DEF IInv, TypeOK, Handlers, ChanTypes, SessionOrNone
<1>1. PICK h \in handlers :
          \/ HandleSdp(h) \/ HandleUnwanted(h) \/ NotifyReceived(h) \/ NotifyConfirmed(h)
          \/ ConfirmedAgain(h) \/ HandleEnded(h) \/ NotifyEnded(h)
    BY DEF HandlerStep
<1>2. \A s, r \in Sessions : EndOf(s) /\ EndOf(r) => s = r
    BY Constants DEF Owned, Owner
<1>3. ua.pc = "report" => ua.sending.CallID \in Sessions
    BY <1>0, Constants DEF Control, Reported, Counted
<1>4. CASE HandleEnded(h)
    <2>1. PICK g \in Handlers : /\ g.kind = h.kind /\ g.sess = h.sess /\ g.at = "notify"
                                /\ g.result = h.result
                                /\ handlers' = (handlers \ {h}) \cup {g}
        BY <1>0, <1>4, AdvanceEffect DEF HandleEnded, WriteResult
    <2>2. /\ h.kind = "ended" /\ h.at = "write" /\ cr'.CallResult = h.result
          /\ UNCHANGED <<chan, status, outcome>>
        BY <1>0, <1>4 DEF HandleEnded, WriteResult, Reports
    <2>3. EndOf(h.sess) /\ h.sess \in Sessions
        BY <1>0, <2>2 DEF EndOf
    <2>4. \A f \in handlers : f.kind = "ended" => f = h
        BY <1>0, <1>2, <2>2, <2>3 DEF EndOf, Ended
    <2>5. chan.callTerminated = None
        <3>1. chan.callTerminated # h.sess
            BY <2>2 DEF Ended
        <3> QED BY <1>0, <1>2, <2>3, <3>1 DEF EndOf
    <2>6. ~(ua.pc \in {"waitMedia", "wrapup"} \/ ua.reporter)
        <3>1. Owner(h.sess) /\ h.sess # None
            BY <2>3, Constants DEF Owned
        <3> QED BY <1>0, <3>1, Constants DEF Owner, Control, UacToken, InAgent
    <2>7. \A f \in handlers' : f.kind = "ended" =>
              /\ f.result = outcome'[f.sess]
              /\ f.at = "notify" => cr'.CallResult = f.result
        <3>1. h.result = outcome[h.sess]
            BY <2>2 DEF Written
        <3> QED BY <2>1, <2>2, <2>4, <3>1
    <2> QED BY <1>0, <2>2, <2>5, <2>6, <2>7 DEF Written, Final
<1>5. CASE ~HandleEnded(h)
    <2>1. cr' = cr
        BY <1>1, <1>5 DEF HandleSdp, HandleUnwanted, NotifyReceived, NotifyConfirmed,
           ConfirmedAgain, NotifyEnded
    <2>2. \/ handlers' = handlers \ {h}
          \/ h.kind # "ended" /\ \E g \in Handlers : /\ g.kind = h.kind
                                                     /\ handlers' = (handlers \ {h}) \cup {g}
        <3>1. h.kind = "ended" => h.at \in {"write", "notify"}
            BY DEF Ended
        <3> QED BY <1>0, <1>1, <1>5, <3>1, AdvanceEffect, AgainEffect DEF HandleSdp, HandleUnwanted,
               NotifyReceived, NotifyConfirmed, ConfirmedAgain, NotifyEnded, Return
    <2>3. \/ chan'.callTerminated = chan.callTerminated
          \/ chan'.callTerminated = h.sess /\ h.kind = "ended" /\ h.at = "notify"
        BY <1>0, <1>1, <1>5 DEF HandleSdp, HandleUnwanted, NotifyReceived, NotifyConfirmed,
           ConfirmedAgain, NotifyEnded, ChanTypes
    <2>4. \A f \in handlers' : f.kind = "ended" => f \in handlers
        BY <2>2
    <2>5. \A f \in handlers : f.kind = "ended" =>
              Final(f.sess) /\ outcome'[f.sess] = outcome[f.sess]
        BY <1>0 DEF Ended, Final, Lasting
    <2>6. \A f \in handlers' : f.kind = "ended" =>
              /\ f.result = outcome'[f.sess]
              /\ f.at = "notify" => cr'.CallResult = f.result
        BY <2>1, <2>4, <2>5 DEF Written
    <2>7. chan'.callTerminated # None => cr'.CallResult = outcome'[chan'.callTerminated]
        <3>1. CASE chan'.callTerminated = chan.callTerminated
            BY <1>0, <2>1, <3>1 DEF Written, Ended, Lasting, Final
        <3>2. CASE chan'.callTerminated = h.sess /\ h.kind = "ended" /\ h.at = "notify"
            BY <2>1, <2>5, <3>2 DEF Written
        <3> QED BY <2>3, <3>1, <3>2
    <2>8. ua'.pc \in {"waitMedia", "wrapup"} \/ ua'.reporter =>
              cr'.CallID # None /\ Final(cr.CallID)' /\ cr'.CallResult = outcome'[cr'.CallID]
        <3>1. ua.pc \in {"waitMedia", "wrapup"} \/ ua.reporter => cr.CallID \in Sessions
            BY <1>0 DEF Written, Reports, SessionOrNone
        <3> QED BY <1>0, <2>1, <3>1 DEF Written, Lasting
    <2>9. ua'.pc = "report" =>
              /\ Final(ua.sending.CallID)'
              /\ ua'.sending.CallResult = outcome'[ua'.sending.CallID]
        BY <1>0, <1>3 DEF Written, Lasting
    <2> QED BY <2>6, <2>7, <2>8, <2>9 DEF Written
<1> QED BY <1>4, <1>5

\* The stack finishes a session and starts the handler that writes its result.
LEMMA StackWritten ==
    ASSUME IInv, Ended, Owned, Written, UNCHANGED env, NEW s \in Sessions, Stack(s)
    PROVE  Written'
<1> SUFFICES ASSUME ~env.Cancels PROVE Written'
    BY DEF Written
<1>0. /\ ua \in UATypes /\ chan \in ChanTypes /\ handlers \subseteq Handlers /\ cr \in Reports
      /\ \A h \in Handlers : h.sess \in Sessions
      /\ TypeOK /\ Control /\ Reported
      /\ UNCHANGED <<ua, cr, chan>> /\ Lasting /\ ~StackCancels(s)
      /\ chan.callTerminated \in Sessions \cup {None}
    BY StackLasting, StackEffect DEF IInv, TypeOK, Handlers, ChanTypes, SessionOrNone
<1>1. \A f \in handlers : f.kind = "ended" =>
          Final(f.sess) /\ outcome'[f.sess] = outcome[f.sess]
    BY <1>0 DEF Ended, Final, Lasting
<1>2. \A f \in handlers' : f.kind = "ended" =>
          /\ f.result = outcome'[f.sess]
          /\ f.at = "notify" => cr'.CallResult = f.result
    <2>1. CASE StackTurns(s)
        <3>1. \E h \in Handlers : h.kind # "ended" /\ handlers' = handlers \cup {h}
            BY <2>1, TurnsOnly
        <3> QED BY <1>0, <1>1, <3>1 DEF Written
    <2>2. CASE StackEnds(s)
        <3>1. PICK h \in Handlers : /\ h.kind = "ended" /\ h.sess = s /\ h.at = "write"
                                    /\ handlers' = handlers \cup {h}
                                    /\ outcome[s] = NoResult => outcome'[s] = h.result
            BY <2>2, EndsEffect
        <3>2. outcome[s] = NoResult
            BY <2>2, EndsEffect DEF Owned, Active, Ended, Final
        <3> QED BY <1>0, <1>1, <3>1, <3>2 DEF Written
    <2> QED BY <1>0, <2>1, <2>2, StackEffect
<1>3. chan'.callTerminated # None => cr'.CallResult = outcome'[chan'.callTerminated]
    BY <1>0 DEF Written, Ended, Lasting, Final
<1>4. ua'.pc \in {"waitMedia", "wrapup"} \/ ua'.reporter =>
          cr'.CallID # None /\ Final(cr.CallID)' /\ cr'.CallResult = outcome'[cr'.CallID]
    <2>1. ua.pc \in {"waitMedia", "wrapup"} \/ ua.reporter => cr.CallID \in Sessions
        BY <1>0 DEF Written, Reports, SessionOrNone
    <2> QED BY <1>0, <2>1 DEF Written, Lasting
<1>5. ua'.pc = "report" =>
          /\ Final(ua.sending.CallID)'
          /\ ua'.sending.CallResult = outcome'[ua'.sending.CallID]
    <2>1. ua.pc = "report" => ua.sending.CallID \in Sessions
        BY <1>0, Constants DEF Control, Reported, Counted
    <2> QED BY <1>0, <2>1 DEF Written, Lasting
<1> QED BY <1>2, <1>3, <1>4, <1>5 DEF Written

-----------------------------------------------------------------------------
(***************************************************************************)
(* And so are the results in callEndChan.                                  *)
(***************************************************************************)

\* A report of a finished session with its result.
Truthful(r) == r.CallID # None => Final(r.CallID) /\ r.CallResult = outcome[r.CallID]

\* A finished session keeps its result.
LEMMA TrueLasts ==
    ASSUME NEW r \in Reports, Truthful(r), Lasting
    PROVE  Truthful(r)'
BY DEF Truthful, Lasting, Reports, SessionOrNone

\* The reports in the channel stay true.
LEMMA QueueKept ==
    ASSUME IInv, Queued, UNCHANGED env, ~env.Cancels => Lasting, callEndChan' = callEndChan
    PROVE  Queued'
<1> SUFFICES ASSUME ~env.Cancels, NEW k \in 1 .. Len(callEndChan)
             PROVE  Truthful(callEndChan[k])'
    BY DEF Queued, Truthful
<1>1. callEndChan[k] \in Reports
    BY ElementOfSeq DEF IInv, TypeOK
<1>2. Truthful(callEndChan[k])
    BY DEF Queued, Truthful
<1>3. \A r \in Reports : Truthful(r) => Truthful(r)'
    BY TrueLasts
<1>4. status'[callEndChan[k].CallID] = status'[callEndChan'[k].CallID]
    OBVIOUS
<1> QED BY <1>1, <1>2, <1>3 DEF Truthful, Final

\* A true report joins them.
LEMMA QueuePut ==
    ASSUME IInv, Queued, UNCHANGED env, NEW r \in Reports, ~env.Cancels => Truthful(r),
           callEndChan' = Append(callEndChan, r), UNCHANGED <<status, outcome>>
    PROVE  Queued'
<1> SUFFICES ASSUME ~env.Cancels, NEW k \in 1 .. Len(callEndChan')
             PROVE  Truthful(callEndChan'[k])
    BY DEF Queued, Truthful, Final
<1>1. callEndChan \in Seq(Reports)
    BY DEF IInv, TypeOK
<1>2. /\ Len(callEndChan') = Len(callEndChan) + 1 /\ Len(callEndChan) \in Nat
      /\ \A i \in 1 .. Len(callEndChan) : callEndChan'[i] = callEndChan[i]
      /\ callEndChan'[Len(callEndChan) + 1] = r
    BY <1>1, AppendProperties, LenProperties
<1>3. CASE k = Len(callEndChan) + 1
    BY <1>2, <1>3
<1>4. CASE k \in 1 .. Len(callEndChan)
    BY <1>2, <1>4 DEF Queued, Truthful
<1> QED BY <1>2, <1>3, <1>4

\* main takes one.
LEMMA QueueTaken ==
    ASSUME IInv, Queued, UNCHANGED env, callEndChan # <<>>,
           callEndChan' = Tail(callEndChan), UNCHANGED <<status, outcome>>
    PROVE  Queued'
<1> SUFFICES ASSUME ~env.Cancels, NEW k \in 1 .. Len(callEndChan')
             PROVE  Truthful(callEndChan'[k])
    BY DEF Queued, Truthful, Final
<1>1. callEndChan \in Seq(Reports)
    BY DEF IInv, TypeOK
<1>2. /\ Len(callEndChan') = Len(callEndChan) - 1 /\ Len(callEndChan) \in Nat
      /\ \A i \in 1 .. Len(callEndChan') : callEndChan'[i] = callEndChan[i + 1]
    BY <1>1, HeadTailProperties, LenProperties
<1>3. k + 1 \in 1 .. Len(callEndChan) /\ callEndChan'[k] = callEndChan[k + 1]
    BY <1>2
<1> QED BY <1>3 DEF Queued, Truthful

\* What the loop reports was declined, or written for it.
LEMMA LoopQueued ==
    ASSUME IInv, Written, Queued, UNCHANGED env, Loop
    PROVE  Queued'
<1>0. ua.sending \in Reports
    BY DEF IInv, TypeOK, UATypes
<1>1. CASE LoopReports
    <2>1. ua.pc = "report" /\ callEndChan' = Append(callEndChan, ua.sending)
          /\ UNCHANGED <<status, outcome>>
        BY <1>1 DEF LoopReports, Put
    <2>2. ~env.Cancels => Truthful(ua.sending)
        BY <2>1 DEF Written, Truthful
    <2> QED BY <1>0, <2>1, <2>2, QueuePut
<1>2. CASE ~LoopReports
    <2>1. callEndChan' = callEndChan
        BY <1>2, AcceptCallEffect, TimerFiresEffect, RejectBusyEffect DEF Loop, Registered,
           StartFails, TakeCall, SendInvite, InviteError, InviteReturns, SendAnswer, Confirmed,
           ConfirmedWith, IgnoreTerminated, Terminated, TerminatedThen, MediaEnded,
           MediaEndedLeaving, WrapUp, Leave, MediaLeft, Exit, chanVars
    <2> QED BY <2>1, LoopLasting, QueueKept
<1> QED BY <1>1, <1>2

\* What the goroutine reports was written before.
LEMMA ReporterQueued ==
    ASSUME IInv, Written, Queued, UNCHANGED env, Reporter
    PROVE  Queued'
<1>1. cr \in Reports
    BY DEF IInv, TypeOK
<1>2. ua.reporter /\ callEndChan' = Append(callEndChan, cr) /\ UNCHANGED <<status, outcome>>
    BY DEF Reporter, Put, sipVars
<1>3. ~env.Cancels => Truthful(cr)
    BY <1>2 DEF Written, Truthful
<1> QED BY <1>1, <1>2, <1>3, QueuePut

-----------------------------------------------------------------------------
(***************************************************************************)
(* The loop hears of the end of the session it holds.                      *)
(***************************************************************************)

\* The loop lets go of a session when it hears of its end.
LEMMA LoopHeld ==
    ASSUME IInv, Ended, Owned, Held, UNCHANGED env, Loop
    PROVE  Held'
<1> SUFFICES ASSUME Role = "uac" \/ ~env.Cancels, ua'.currentSession # None,
                    status'[ua'.currentSession] = "over",
                    ua'.pc \notin {"leave", "join", "exited"}
             PROVE  EndOf(ua.currentSession)'
    BY DEF Held, OverHeard, EndOf
<1>0. /\ ua \in UATypes /\ chan \in ChanTypes /\ cr \in Reports /\ Control /\ Begins
      /\ ua.currentSession \in Sessions \cup {None} /\ handlers' = handlers
      /\ TypeOK
    BY DEF IInv, TypeOK, UATypes, SessionOrNone, Loop
<1>1. \A s \in Sessions : status'[s] = "over" => status[s] = "over"
    BY LoopLasting
<1>2. ua'.currentSession = ua.currentSession
    <2>1. CASE AcceptCall
        <3>1. Role = "uas" /\ chan.callReceived # None /\ chan.callReceived \in Sessions
              /\ ua'.currentSession = chan.callReceived
            <4>1. /\ chan.callReceived # None
                  /\ ua' = [ua EXCEPT !.uasCallIndex = ua.uasCallIndex + 1,
                                      !.currentSession = chan.callReceived, !.mediaCancel = TRUE]
                BY <2>1, AcceptCallEffect
            <4> QED BY <1>0, <4>1, Constants DEF Begins, UATypes
        <3>2. status[chan.callReceived] = "received"
            BY <3>1 DEF Owned
        <3> QED BY <1>1, <3>1, <3>2
    <2>2. CASE InviteReturns
        <3>1. /\ status' = status
              /\ ua'.currentSession # None => /\ ua'.currentSession = cr.CallIndex
                                              /\ status[cr.CallIndex] # "over"
            BY <1>0, <2>2 DEF InviteReturns, Alive, UATypes
        <3> QED BY <3>1
    <2>3. CASE ~AcceptCall /\ ~InviteReturns
        BY <1>0, <2>3, RejectBusyEffect, TimerFiresEffect DEF Loop, Registered, StartFails, TakeCall,
           SendInvite, InviteError, SendAnswer, Confirmed, ConfirmedWith, IgnoreTerminated,
           Terminated, TerminatedThen, MediaEnded, MediaEndedLeaving, WrapUp,
           LoopReports, Leave, MediaLeft, Exit, Goto, UATypes
    <2> QED BY <2>1, <2>2, <2>3
<1>3. EndOf(ua.currentSession)
    <2>1. ua.pc \notin {"leave", "join", "exited"}
        BY <1>0, TimerFiresEffect, RejectBusyEffect, AcceptCallEffect DEF Loop, Registered,
           StartFails, TakeCall, SendInvite, InviteError, InviteReturns, SendAnswer, Confirmed,
           ConfirmedWith, IgnoreTerminated, Terminated, TerminatedThen, MediaEnded,
           MediaEndedLeaving, WrapUp, LoopReports, Leave, MediaLeft, Exit, Goto, UATypes
    <2>2. status[ua.currentSession] = "over"
        BY <1>0, <1>1, <1>2
    <2> QED BY <1>2, <2>1, <2>2 DEF Held, OverHeard, EndOf
<1>4. CASE chan'.callTerminated = chan.callTerminated
    BY <1>0, <1>2, <1>3, <1>4 DEF EndOf
<1>5. CASE chan'.callTerminated # chan.callTerminated
    <2>1. IgnoreTerminated \/ Terminated
        BY <1>0, <1>5, TimerFiresEffect, RejectBusyEffect, AcceptCallEffect DEF Loop, Registered,
           StartFails, TakeCall, SendInvite, InviteError, InviteReturns, SendAnswer, Confirmed,
           ConfirmedWith, MediaEnded, MediaEndedLeaving, WrapUp, LoopReports, Leave,
           MediaLeft, Exit, chanVars, ChanTypes
    <2>2. chan.callTerminated # ua.currentSession
        BY <1>0, <1>2, <2>1 DEF IgnoreTerminated, Terminated, TerminatedThen, UATypes
    <2> QED BY <1>0, <1>2, <1>3, <2>2 DEF EndOf
<1> QED BY <1>4, <1>5

\* The handler of an end sends it on to the loop.
LEMMA HandlerHeld ==
    ASSUME IInv, Ended, Held, UNCHANGED env, HandlerStep
    PROVE  Held'
<1> SUFFICES ASSUME Role = "uac" \/ ~env.Cancels, ua'.currentSession # None,
                    status'[ua'.currentSession] = "over",
                    ua'.pc \notin {"leave", "join", "exited"}
             PROVE  EndOf(ua.currentSession)'
    BY DEF Held, OverHeard, EndOf
<1>0. /\ ua \in UATypes /\ chan \in ChanTypes /\ handlers \subseteq Handlers
      /\ ua.currentSession \in Sessions \cup {None} /\ ua' = ua
    BY HandlerFrame DEF IInv, TypeOK, UATypes, SessionOrNone
<1>1. PICK h \in handlers :
          \/ HandleSdp(h) \/ HandleUnwanted(h) \/ NotifyReceived(h) \/ NotifyConfirmed(h)
          \/ ConfirmedAgain(h) \/ HandleEnded(h) \/ NotifyEnded(h)
    BY DEF HandlerStep
<1>2. EndOf(ua.currentSession)
    BY <1>0, HandlerLasting DEF Held, OverHeard, EndOf
<1>3. CASE NotifyEnded(h)
    <2>1. /\ handlers' = handlers \ {h} /\ chan.callTerminated = None
          /\ chan'.callTerminated = h.sess
        BY <1>0, <1>3 DEF NotifyEnded, Return, ChanTypes
    <2> QED BY <1>0, <1>2, <2>1 DEF EndOf
<1>4. CASE ~NotifyEnded(h)
    <2>1. chan'.callTerminated = chan.callTerminated
        BY <1>0, <1>1, <1>4 DEF HandleSdp, HandleUnwanted, NotifyReceived, NotifyConfirmed,
           ConfirmedAgain, HandleEnded, WriteResult, ChanTypes
    <2>2. \/ h.kind # "ended" /\ handlers' = handlers \ {h}
          \/ \E g \in Handlers : /\ g.kind = h.kind /\ g.sess = h.sess
                                 /\ handlers' = (handlers \ {h}) \cup {g}
        <3>1. CASE HandleSdp(h) \/ HandleEnded(h)
            BY <1>0, <3>1, AdvanceEffect DEF HandleSdp, HandleEnded, WriteResult
        <3>2. CASE NotifyConfirmed(h)
            BY <1>0, <3>2, AdvanceEffect DEF NotifyConfirmed, Return
        <3>3. CASE ConfirmedAgain(h)
            BY <1>0, <3>3, AgainEffect DEF ConfirmedAgain
        <3>4. CASE HandleUnwanted(h) \/ NotifyReceived(h)
            BY <3>4 DEF HandleUnwanted, NotifyReceived, Return
        <3> QED BY <1>1, <1>4, <3>1, <3>2, <3>3, <3>4
    <2> QED BY <1>0, <1>2, <2>1, <2>2 DEF EndOf
<1> QED BY <1>3, <1>4

\* A session ends with the handler that tells the loop.
LEMMA StackHeld ==
    ASSUME IInv, Held, UNCHANGED env, NEW s \in Sessions, Stack(s)
    PROVE  Held'
<1> SUFFICES ASSUME Role = "uac" \/ ~env.Cancels, ua'.currentSession # None,
                    status'[ua'.currentSession] = "over",
                    ua'.pc \notin {"leave", "join", "exited"}
             PROVE  EndOf(ua.currentSession)'
    BY DEF Held, OverHeard, EndOf
<1>0. /\ UNCHANGED <<ua, chan>> /\ status \in [Sessions -> Statuses] /\ TypeOK
      /\ ua.currentSession \in Sessions \cup {None}
    BY StackEffect DEF IInv, TypeOK, Statuses, UATypes, SessionOrNone
<1>1. status[ua.currentSession] = "over" => EndOf(ua.currentSession)
    BY <1>0 DEF Held, OverHeard, EndOf
<1>2. CASE StackTurns(s)
    <2>1. \E h \in Handlers : handlers' = handlers \cup {h}
        BY <1>2, TurnsOnly
    <2>2. status[ua.currentSession] = "over"
        BY <1>0, <1>2, TurnsOnly
    <2> QED BY <1>0, <1>1, <2>1, <2>2 DEF EndOf
<1>3. CASE StackEnds(s)
    <2>1. PICK h \in Handlers : h.kind = "ended" /\ h.sess = s /\ handlers' = handlers \cup {h}
        BY <1>3, EndsEffect
    <2>2. status' = [status EXCEPT ![s] = "over"]
        BY <1>3, EndsEffect
    <2> QED BY <1>0, <1>1, <2>1, <2>2 DEF EndOf
<1>4. CASE StackCancels(s)
    BY <1>0, <1>1, <1>4 DEF StackCancels, EndOf
<1> QED BY <1>0, <1>2, <1>3, <1>4, StackEffect

-----------------------------------------------------------------------------
(***************************************************************************)
(* Every step keeps the invariant.                                         *)
(***************************************************************************)

\* The reporting goroutine, MediaFunc and main touch neither the sessions nor
\* the handlers.
LEMMA OthersKeep ==
    ASSUME IInv, RInv, UNCHANGED <<env, status, outcome, cancels, handlers, cr>>,
           chan'.callTerminated = chan.callTerminated, chan'.callReceived = chan.callReceived,
           ua'.pc = ua.pc, ua'.currentSession = ua.currentSession,
           ua'.mediaCancel = ua.mediaCancel, ua'.sending = ua.sending,
           ua'.reporter => ua.reporter
    PROVE  Ended' /\ Owned' /\ Written' /\ Held'
<1>1. Ended'
    BY DEF RInv, Ended, Final
<1>2. Owned'
    BY DEF RInv, Owned, EndOf, Active, Owner
<1>3. Written'
    BY DEF RInv, Written, Final
<1>4. Held'
    BY DEF RInv, Held, OverHeard, EndOf
<1> QED BY <1>1, <1>2, <1>3, <1>4

\* Nothing has ended, and nothing is reported.
LEMMA InitResults ==
    ASSUME Init
    PROVE  RInv
<1>0. /\ ua.pc = "starting" /\ ua.currentSession = None /\ ~ua.reporter
      /\ chan.callTerminated = None /\ chan.callReceived = None
    <2>1. /\ ua = [pc |-> "starting", currentSession |-> None, mediaCancel |-> FALSE,
                   timer |-> None, hangupByMe |-> FALSE, sending |-> NoReport,
                   reporter |-> FALSE, uasCallIndex |-> 0]
          /\ chan = [startCall |-> 0, sdpToMedia |-> None, sdpFromMedia |-> None,
                     callConfirmed |-> None, callReceived |-> None,
                     callTerminated |-> None, mediaFuncEnd |-> FALSE]
        BY Zenon DEF Init
    <2> QED BY <2>1
<1>1. /\ callEndChan = <<>> /\ handlers = {} /\ cancels = {}
      /\ status = [s \in Sessions |-> "new"] /\ outcome = [s \in Sessions |-> NoResult]
    BY Zenon DEF Init, NoResult
<1>2. Ended /\ Held
    BY <1>0, <1>1, Constants DEF Ended, Held, OverHeard
<1>3. Owned
    BY <1>0, <1>1, Constants DEF Owned, EndOf, Active
<1>4. Written /\ Queued
    <2>1. Len(callEndChan) = 0
        BY <1>1
    <2> QED BY <1>0, <1>1, <2>1, Constants DEF Written, Queued
<1> QED BY <1>2, <1>3, <1>4 DEF RInv

\* Every step keeps the five together.
LEMMA NextResults ==
    IInv /\ RInv /\ [Next]_vars => RInv'
<1> SUFFICES ASSUME IInv, RInv, [Next]_vars PROVE RInv'
    OBVIOUS
<1>0. ua \in UATypes /\ chan \in ChanTypes
    BY DEF IInv, TypeOK
<1>1. CASE Loop /\ UNCHANGED env
    BY <1>1, LoopEnded, LoopOwned, LoopWritten, LoopQueued, LoopHeld DEF RInv
<1>2. CASE Reporter /\ UNCHANGED env
    <2>1. /\ UNCHANGED <<env, status, outcome, cancels, handlers, cr, chan>>
          /\ ua' = [ua EXCEPT !.reporter = FALSE, !.hangupByMe = FALSE]
        BY <1>2 DEF Reporter, sipVars
    <2>2. /\ ua'.pc = ua.pc /\ ua'.currentSession = ua.currentSession
          /\ ua'.mediaCancel = ua.mediaCancel /\ ua'.sending = ua.sending /\ ~ua'.reporter
        BY <1>0, <2>1 DEF UATypes
    <2> QED BY <1>2, <2>1, <2>2, OthersKeep, ReporterQueued DEF RInv
<1>3. CASE Media /\ UNCHANGED env
    <2>1. /\ UNCHANGED <<env, status, outcome, cancels, handlers, cr, ua, callEndChan>>
        BY <1>3 DEF Media, sipVars, ghostVars
    <2>2. chan'.callTerminated = chan.callTerminated /\ chan'.callReceived = chan.callReceived
        BY <1>0, <1>3 DEF Media, MediaGetsSdp, MediaGathered, MediaSendsSdp, MediaCancelled,
           MediaFails, MediaFailsTo, MediaExits, ChanTypes
    <2>3. Lasting
        BY <2>1 DEF Lasting, Final
    <2> QED BY <2>1, <2>2, <2>3, OthersKeep, QueueKept DEF RInv
<1>4. CASE HandlerStep /\ UNCHANGED env
    <2>1. callEndChan' = callEndChan
        BY <1>4 DEF HandlerStep
    <2> QED BY <1>4, <2>1, HandlerEnded, HandlerOwned, HandlerWritten, HandlerHeld, HandlerLasting,
               QueueKept DEF RInv
<1>5. CASE (\E s \in Sessions : Stack(s)) /\ UNCHANGED env
    <2>1. PICK s \in Sessions : Stack(s)
        BY <1>5
    <2>2. callEndChan' = callEndChan
        BY <2>1, StackEffect DEF IInv
    <2> QED BY <1>5, <2>1, <2>2, StackEnded, StackOwned, StackWritten, StackHeld, StackLasting,
               QueueKept DEF RInv
<1>6. CASE MainProgram /\ UNCHANGED env
    <2>1. UNCHANGED <<env, status, outcome, cancels, handlers, cr, ua>>
        BY <1>6 DEF MainProgram, sipVars, ghostVars
    <2>2. chan'.callTerminated = chan.callTerminated /\ chan'.callReceived = chan.callReceived
        BY <1>0, <1>6 DEF MainProgram, GiveCall, TakeReport, CancelMain, chanVars, ChanTypes
    <2>3. Queued'
        <3>1. Lasting
            BY <2>1 DEF Lasting, Final
        <3>2. CASE TakeReport
            BY <2>1, <3>2, QueueTaken DEF TakeReport, RInv
        <3>3. CASE GiveCall \/ CancelMain
            BY <2>1, <3>1, <3>3, QueueKept DEF GiveCall, CancelMain, chanVars, RInv
        <3> QED BY <1>6, <3>2, <3>3 DEF MainProgram
    <2> QED BY <2>1, <2>2, <2>3, OthersKeep DEF RInv
<1>7. CASE UNCHANGED vars
    <2>1. UNCHANGED <<env, status, outcome, cancels, handlers, cr, ua, chan, callEndChan>>
        BY <1>7 DEF vars, chanVars, sipVars, ghostVars
    <2>2. Lasting
        BY <2>1 DEF Lasting, Final
    <2> QED BY <2>1, <2>2, OthersKeep, QueueKept DEF RInv
<1> QED BY <1>1, <1>2, <1>3, <1>4, <1>5, <1>6, <1>7 DEF Next, Done

\* Both invariants hold throughout.
LEMMA ResultsInvariance == Spec => [](IInv /\ RInv)
<1>1. Init => IInv /\ RInv
    BY InitInvariant, InitResults
<1>2. IInv /\ RInv /\ [Next]_vars => (IInv /\ RInv)'
    BY NextInvariant, NextResults
<1> QED BY <1>1, <1>2, PTL DEF Spec

\* A report carries the result of its own session, in either role and however
\* handlers, loop and MediaFunc are scheduled, unless a remote party may
\* CANCEL: although the handlers write into the cr of whatever call is in the
\* agent, only the session of that call can be ending then.
THEOREM ResultIsItsOwn == Spec => []OwnResult
<1>1. Queued => OwnResult
    BY DEF Queued, OwnResult
<1> QED BY <1>1, ResultsInvariance, PTL DEF RInv

-----------------------------------------------------------------------------
(***************************************************************************)
(* Whose SDP, confirmation and timer a call uses.  The handlers put the    *)
(* remote SDP and the confirmation into channels that name no session, and *)
(* MediaFunc and the loop take what they find there.  When the end of a    *)
(* call does not race with its other events, what the SIP stack says of a  *)
(* call comes before its end, so it is used or thrown away with the call:  *)
(* CallerOrder and CalleeOrder say how far each of them may be at every    *)
(* position of the loop.                                                   *)
(*                                                                         *)
(* Where MediaFunc may fail at a caller, or CANCEL may come to a callee,   *)
(* this is not so: a handler that was blocked puts its SDP into the        *)
(* channel after the call, or a confirmation is heard of after it.         *)
(***************************************************************************)

-----------------------------------------------------------------------------
(***************************************************************************)
(* The inductive invariants.                                               *)
(***************************************************************************)

\* A caller's call in the agent, whose session may still change.
InCallOf(s) == s = cr.CallIndex /\ ua.mediaCancel /\ ua.pc # "waitMedia"

\* The MediaFunc of a caller runs until its call has ended.
CallerMedia ==
    /\ ua.pc \notin {"leave", "join"}
    /\ mf.at # "none" => mf.call = cr.CallIndex /\ mf.remoteSdp \in {None, cr.CallIndex}
    /\ mf.at = "none" => mf.remoteSdp = None
    /\ ua.mediaCancel /\ mf.cancelled => ua.pc = "waitMedia"
    /\ mf.at = "exit" \/ chan.mediaFuncEnd => ua.pc = "waitMedia"
    /\ chan.sdpFromMedia # None => mf.at = "waitAnswer"

\* Answers and confirmations come from the session of the call in the agent,
\* before it ends.
CallerSip ==
    /\ \A s \in Sessions :
          /\ Active(s) => InCallOf(s)
          /\ status[s] # "answered"
          /\ status[s] = "sent" => mf.at = "waitAnswer" /\ chan.sdpToMedia = None
    /\ \A h \in handlers : h.kind = "confirmed" =>
          /\ status[h.sess] \in {"confirmed", "bye"}
          /\ (h.at \in {"sdp", "load"} \/ h.again) /\ chan.sdpToMedia # None => mf.at = "waitAnswer"
          /\ h.at = "sdp" /\ h.again => chan.sdpToMedia = None /\ mf.at = "waitAnswer"
    /\ \A g, h \in handlers : g.kind = "confirmed" /\ h.kind = "confirmed" => g = h
    /\ chan.callConfirmed # None => status[chan.callConfirmed] \in {"confirmed", "bye"}

\* What is left of them belongs to that call.
CallerOwn ==
    /\ chan.sdpToMedia # None =>
          /\ chan.sdpToMedia = cr.CallIndex /\ ua.mediaCancel
          /\ status[chan.sdpToMedia] \in {"confirmed", "bye", "over"}
    /\ ua.timer # None => ua.timer = cr.CallIndex /\ InAgent

CallerInv == CallerMedia /\ CallerSip /\ CallerOwn

Caller == Role = "uac" /\ ~env.RacingEnds /\ ~env.MediaMayFail /\ ~mainDone
CallerOrder == Caller => CallerInv

\* The offer of an incoming session has been put into sdpToMediaChan, and the
\* loop has not heard of the session yet.
PastSdp(s) ==
    \/ chan.callReceived = s
    \/ \E h \in handlers : h.kind = "received" /\ h.at = "notify" /\ h.sess = s

\* A callee's call has ended, and MediaFunc has not.
Ending ==
    \/ ua.pc = "waitMedia"
    \/ ua.pc \in {"select", "report"} /\ ua.currentSession # None /\ status[ua.currentSession] = "over"

\* The offer that a MediaFunc gets is the one of the call it was started for.
CalleeOffer ==
    /\ mf.remoteSdp # None => mf.remoteSdp = mf.call
    /\ mf.at = "waitOffer" => chan.sdpToMedia = mf.call
    /\ Ending => chan.callReceived = None /\ \A h \in handlers : h.kind = "received" => Blocked(h)
    /\ ~ua.mediaCancel => \A s \in Sessions : PastSdp(s) => chan.sdpToMedia = s

\* Its answer is sent before the call can end.
CalleeAnswer ==
    /\ \A s \in Sessions : answered[s] \in {None, s}
    /\ chan.sdpFromMedia # None => mf.at \notin {"waitOffer", "gather", "sendSdp"}
    /\ ua.pc \in {"select", "report"} /\ ua.currentSession # None =>
          /\ mf.at # "none" => mf.call = ua.currentSession
          /\ chan.sdpFromMedia \in {None, ua.currentSession}
          /\ chan.sdpFromMedia # None \/ mf.at \in {"waitOffer", "gather", "sendSdp"} =>
                status[ua.currentSession] = "received"
    /\ ua.pc = "waitMedia" =>
          chan.sdpFromMedia = None /\ mf.at \notin {"waitOffer", "gather", "sendSdp"}
    /\ ~ua.mediaCancel => chan.sdpFromMedia = None

\* It is confirmed before it can end.
CalleeTimer ==
    /\ \A s \in Sessions : status[s] # "sent"
    /\ \A h \in handlers : h.kind = "confirmed" =>
          h.at = "notify" /\ ~h.again /\ status[h.sess] \in {"confirmed", "bye"}
    /\ chan.callConfirmed # None => status[chan.callConfirmed] \in {"confirmed", "bye"}
    /\ ua.timer # None /\ ua.pc \notin {"waitMedia", "wrapup"} =>
          ua.timer = ua.currentSession /\ status[ua.timer] \in {"confirmed", "bye", "over"}

CalleeInv == CalleeOffer /\ CalleeAnswer /\ CalleeTimer

Callee == Role = "uas" /\ ~env.RacingEnds /\ ~env.Cancels
CalleeOrder == Callee => CalleeInv

-----------------------------------------------------------------------------
\* Which steps of the loop change what.
LEMMA LoopFrame ==
    ASSUME IInv, Loop
    PROVE  /\ ~TakeCall /\ ~AcceptCall =>
                 mf'.at = mf.at /\ mf'.call = mf.call /\ mf'.remoteSdp = mf.remoteSdp
           /\ ~MediaEnded => chan'.sdpToMedia = chan.sdpToMedia
           /\ ~SendAnswer => answered' = answered
           /\ chan'.sdpFromMedia \in {chan.sdpFromMedia, None}
           /\ ~AcceptCall /\ ~RejectBusy => chan'.callReceived = chan.callReceived
           /\ chan'.callReceived \in {chan.callReceived, None}
           /\ chan'.callConfirmed \in {chan.callConfirmed, None}
           /\ ~TakeCall /\ ~AcceptCall /\ ~MediaEnded => ua'.mediaCancel = ua.mediaCancel
           /\ handlers' = handlers /\ mainDone' = mainDone
<1>0. ua \in UATypes /\ chan \in ChanTypes /\ mf \in MediaTypes
    BY DEF IInv, TypeOK
<1>1. ~TakeCall /\ ~AcceptCall =>
          mf'.at = mf.at /\ mf'.call = mf.call /\ mf'.remoteSdp = mf.remoteSdp
    BY <1>0, RejectBusyEffect, TimerFiresEffect, LeaveEffect DEF Loop, Registered, StartFails,
       SendInvite, InviteError, InviteReturns, SendAnswer, Confirmed, ConfirmedWith,
       IgnoreTerminated, Terminated, TerminatedThen, MediaEnded, MediaEndedLeaving, WrapUp, LoopReports, MediaLeft, Exit, MediaTypes
<1>2. ~MediaEnded => chan'.sdpToMedia = chan.sdpToMedia
    BY <1>0, RejectBusyEffect, AcceptCallEffect, TimerFiresEffect, LeaveEffect DEF Loop, Registered,
       StartFails, TakeCall, SendInvite, InviteError, InviteReturns, SendAnswer, Confirmed,
       ConfirmedWith, IgnoreTerminated, Terminated, TerminatedThen, WrapUp,
       LoopReports, MediaLeft, Exit, ChanTypes, chanVars
<1>3. ~SendAnswer => answered' = answered
    BY RejectBusyEffect, AcceptCallEffect, TimerFiresEffect, LeaveEffect DEF Loop, Registered,
       StartFails, TakeCall, SendInvite, InviteError, InviteReturns, Confirmed,
       ConfirmedWith, IgnoreTerminated, Terminated, TerminatedThen, MediaEnded,
       MediaEndedLeaving, WrapUp, LoopReports, MediaLeft, Exit, ghostVars
<1>4. chan'.sdpFromMedia \in {chan.sdpFromMedia, None}
    BY <1>0, RejectBusyEffect, AcceptCallEffect, TimerFiresEffect, LeaveEffect DEF Loop, Registered,
       StartFails, TakeCall, SendInvite, InviteError, InviteReturns, SendAnswer, Confirmed,
       ConfirmedWith, IgnoreTerminated, Terminated, TerminatedThen, MediaEnded,
       MediaEndedLeaving, WrapUp, LoopReports, MediaLeft, Exit, ChanTypes, chanVars
<1>5. /\ ~AcceptCall /\ ~RejectBusy => chan'.callReceived = chan.callReceived
      /\ chan'.callReceived \in {chan.callReceived, None}
    BY <1>0, RejectBusyEffect, AcceptCallEffect, TimerFiresEffect, LeaveEffect DEF Loop, Registered,
       StartFails, TakeCall, SendInvite, InviteError, InviteReturns, SendAnswer, Confirmed,
       ConfirmedWith, IgnoreTerminated, Terminated, TerminatedThen, MediaEnded,
       MediaEndedLeaving, WrapUp, LoopReports, MediaLeft, Exit, ChanTypes, chanVars
<1>6. chan'.callConfirmed \in {chan.callConfirmed, None}
    BY <1>0, RejectBusyEffect, AcceptCallEffect, TimerFiresEffect, LeaveEffect DEF Loop, Registered,
       StartFails, TakeCall, SendInvite, InviteError, InviteReturns, SendAnswer, Confirmed,
       ConfirmedWith, IgnoreTerminated, Terminated, TerminatedThen, MediaEnded,
       MediaEndedLeaving, WrapUp, LoopReports, MediaLeft, Exit, ChanTypes, chanVars
<1>7. ~TakeCall /\ ~AcceptCall /\ ~MediaEnded => ua'.mediaCancel = ua.mediaCancel
    BY <1>0, RejectBusyEffect, TimerFiresEffect, LeaveEffect DEF Loop, Registered, StartFails,
       SendInvite, InviteError, InviteReturns, SendAnswer, Confirmed, ConfirmedWith,
       IgnoreTerminated, Terminated, TerminatedThen, WrapUp, LoopReports,
       MediaLeft, Exit, Goto, UATypes
<1>8. handlers' = handlers /\ mainDone' = mainDone
    BY DEF Loop, mainVars
<1> QED BY <1>1, <1>2, <1>3, <1>4, <1>5, <1>6, <1>7, <1>8

\* Where the loop can come from.
LEMMA LoopPlaces ==
    ASSUME IInv, Loop
    PROVE  /\ ua'.pc = "waitMedia" => Terminated
           /\ ua'.pc \in {"select", "report"} /\ ua'.currentSession # None
                 /\ ~AcceptCall /\ ~InviteReturns =>
                 ua.pc \in {"select", "report"} /\ ua'.currentSession = ua.currentSession
           /\ ~AcceptCall /\ ~InviteReturns =>
                 ua'.currentSession \in {ua.currentSession, None}
           /\ ~Confirmed => ua'.timer \in {ua.timer, None}
           /\ ua'.pc \notin {"waitMedia", "wrapup"} =>
                 ua.pc \notin {"waitMedia", "wrapup"} \/ ua'.timer = None
<1>0. ua \in UATypes /\ Control
    BY DEF IInv, TypeOK
<1>1. ua'.pc = "waitMedia" => Terminated
    BY <1>0, RejectBusyEffect, AcceptCallEffect, TimerFiresEffect, LeaveEffect DEF Loop, Registered,
       StartFails, TakeCall, SendInvite, InviteError, InviteReturns, SendAnswer, Confirmed,
       ConfirmedWith, IgnoreTerminated, MediaEnded, MediaEndedLeaving, WrapUp, LoopReports, MediaLeft, Exit, Goto, UATypes
<1>2. ~AcceptCall /\ ~InviteReturns => ua'.currentSession \in {ua.currentSession, None}
    BY <1>0, RejectBusyEffect, TimerFiresEffect, LeaveEffect DEF Loop, Registered,
       StartFails, TakeCall, SendInvite, InviteError, SendAnswer, Confirmed,
       ConfirmedWith, IgnoreTerminated, Terminated, TerminatedThen, MediaEnded, MediaEndedLeaving,
       WrapUp, LoopReports, MediaLeft, Exit, Goto, UATypes
<1>3. ua'.pc \in {"select", "report"} /\ ~AcceptCall /\ ~InviteReturns =>
          ua.pc \in {"select", "report"} \/ ua.currentSession = None
    BY <1>0, RejectBusyEffect, TimerFiresEffect, LeaveEffect DEF Loop, Registered,
       StartFails, TakeCall, SendInvite, InviteError, SendAnswer, Confirmed,
       ConfirmedWith, IgnoreTerminated, Terminated, TerminatedThen, MediaEnded, MediaEndedLeaving,
       WrapUp, LoopReports, MediaLeft, Exit, Goto, UATypes, Control
<1>4. ~Confirmed => ua'.timer \in {ua.timer, None}
    BY <1>0, RejectBusyEffect, AcceptCallEffect, TimerFiresEffect, LeaveEffect DEF Loop, Registered,
       StartFails, TakeCall, SendInvite, InviteError, InviteReturns, SendAnswer,
       IgnoreTerminated, Terminated, TerminatedThen, MediaEnded, MediaEndedLeaving, WrapUp, LoopReports, MediaLeft, Exit, Goto, UATypes
<1>5. ua'.pc \notin {"waitMedia", "wrapup"} =>
          ua.pc \notin {"waitMedia", "wrapup"} \/ ua'.timer = None
    BY <1>0, RejectBusyEffect, AcceptCallEffect, TimerFiresEffect, LeaveEffect DEF Loop, Registered,
       StartFails, TakeCall, SendInvite, InviteError, InviteReturns, SendAnswer, Confirmed,
       ConfirmedWith, IgnoreTerminated, MediaEnded, MediaEndedLeaving, Terminated,
       TerminatedThen, WrapUp, LoopReports, MediaLeft, Exit, Goto, UATypes
<1> QED BY <1>1, <1>2, <1>3, <1>4, <1>5

-----------------------------------------------------------------------------
(***************************************************************************)
(* The callee.                                                             *)
(***************************************************************************)

\* The call that the callee takes still has its offer in sdpToMediaChan.
LEMMA CalleeAccepts ==
    ASSUME IInv, RInv, Callee, CalleeInv, AcceptCall
    PROVE  /\ chan.callReceived \in Sessions /\ status[chan.callReceived] = "received"
           /\ chan.sdpToMedia = chan.callReceived /\ chan.sdpFromMedia = None
           /\ ~ua.mediaCancel /\ ua.currentSession = None /\ ua.timer = None
           /\ mf'.at = "waitOffer" /\ mf'.call = chan.callReceived /\ mf'.remoteSdp = None
           /\ ua'.currentSession = chan.callReceived /\ ua'.mediaCancel /\ ua'.pc = "select"
           /\ chan'.callReceived = None /\ ua'.timer = None
           /\ UNCHANGED <<status, outcome, answered>>
<1>0. ua \in UATypes /\ chan \in ChanTypes /\ Control /\ Begins
    BY DEF IInv, TypeOK
<1>1. /\ ua.pc = "select" /\ chan.callReceived # None /\ ua.currentSession = None
      /\ chan' = [chan EXCEPT !.callReceived = None]
      /\ ua' = [ua EXCEPT !.uasCallIndex = ua.uasCallIndex + 1,
                          !.currentSession = chan.callReceived, !.mediaCancel = TRUE]
      /\ StartMedia(chan.callReceived)
      /\ UNCHANGED <<status, outcome, answered>>
    BY AcceptCallEffect
<1>2. chan.callReceived \in Sessions /\ status[chan.callReceived] = "received"
    BY <1>0, <1>1, Constants DEF Begins, RInv, Owned, Callee
<1>3. ~ua.mediaCancel
    BY <1>0, <1>1 DEF Control, Callee
<1>4. chan.sdpToMedia = chan.callReceived /\ chan.sdpFromMedia = None
    BY <1>2, <1>3 DEF CalleeInv, CalleeOffer, CalleeAnswer, PastSdp
<1>5. ua.timer = None
    BY <1>0, <1>1, Constants DEF CalleeInv, CalleeTimer, UATypes, SessionOrNone
<1>6. mf'.at = "waitOffer" /\ mf'.call = chan.callReceived /\ mf'.remoteSdp = None
    BY <1>1 DEF StartMedia, Callee
<1>7. /\ ua'.currentSession = chan.callReceived /\ ua'.mediaCancel /\ ua'.pc = "select"
      /\ chan'.callReceived = None /\ ua'.timer = None
    BY <1>0, <1>1, <1>5 DEF UATypes, ChanTypes
<1> QED BY <1>1, <1>2, <1>3, <1>4, <1>5, <1>6, <1>7

\* The callee's MediaFunc ends after its call.
LEMMA CalleeMediaEnded ==
    ASSUME IInv, RInv, Callee, CalleeInv, MediaEnded
    PROVE  /\ mf.at = "none" /\ Ending /\ \A s \in Sessions : ~PastSdp(s)
           /\ chan'.sdpToMedia = None
<1>0. chan \in ChanTypes /\ Control /\ OneMedia
    BY DEF IInv, TypeOK
<1>1. /\ ua.pc = "waitMedia" /\ chan.mediaFuncEnd /\ chan'.sdpToMedia = None
    BY <1>0 DEF MediaEnded, MediaEndedLeaving, ChanTypes
<1>2. mf.at = "none"
    BY <1>0, <1>1 DEF OneMedia, Control
<1>3. Ending
    BY <1>1 DEF Ending
<1>4. \A s \in Sessions : ~PastSdp(s)
    BY <1>3, Constants DEF PastSdp, CalleeInv, CalleeOffer, Blocked
<1> QED BY <1>1, <1>2, <1>3, <1>4

\* The loop never makes a call's end out of nothing.
LEMMA CalleeEnding ==
    ASSUME IInv, RInv, Callee, CalleeInv, Loop, Ending'
    PROVE  Ending
<1>0. ua \in UATypes /\ chan \in ChanTypes /\ status \in [Sessions -> Statuses]
    BY DEF IInv, TypeOK, Statuses
<1>1. \A s \in Sessions : status'[s] = "over" => status[s] = "over"
    BY LoopLasting
<1>2. CASE ua'.pc = "waitMedia"
    <2>1. Terminated
        BY <1>2, LoopPlaces
    <2>2. /\ ua.pc = "select" /\ chan.callTerminated # None
          /\ ua.currentSession = chan.callTerminated
        BY <2>1 DEF Terminated, TerminatedThen
    <2> QED BY <2>2 DEF RInv, Ended, Ending
<1>3. CASE AcceptCall
    BY <1>3, CalleeAccepts DEF Ending
<1>4. CASE ua'.pc # "waitMedia" /\ ~AcceptCall
    <2>1. /\ ua'.pc \in {"select", "report"} /\ ua'.currentSession # None
          /\ status'[ua'.currentSession] = "over"
        BY <1>4 DEF Ending
    <2>2. ~InviteReturns
        BY DEF InviteReturns, Callee, IInv, Control
    <2>3. ua.pc \in {"select", "report"} /\ ua'.currentSession = ua.currentSession
        BY <1>4, <2>1, <2>2, LoopPlaces
    <2> QED BY <1>0, <1>1, <2>1, <2>3, Constants DEF Ending, UATypes, SessionOrNone
<1> QED BY <1>2, <1>3, <1>4

\* The loop starts MediaFunc for the call whose offer is in sdpToMediaChan.
LEMMA CalleeLoopOffer ==
    ASSUME IInv, RInv, Callee, CalleeInv, Loop
    PROVE  CalleeOffer'
<1>0. /\ ua \in UATypes /\ chan \in ChanTypes /\ handlers' = handlers /\ ~TakeCall
      /\ OneMedia
    <2>1. ~TakeCall
        <3>1. chan.startCall \in 0 .. 0
            BY Constants DEF Callee, IInv, TypeOK, ChanTypes
        <3> QED BY <3>1 DEF TakeCall
    <2> QED BY <2>1, LoopFrame DEF IInv, TypeOK
<1>1. CASE AcceptCall
    <2>1. chan'.sdpToMedia = chan.sdpToMedia
        BY <1>1, LoopFrame DEF AcceptCall, MediaEnded, MediaEndedLeaving
    <2>2. ~Ending'
        BY <1>1, CalleeAccepts DEF Ending
    <2> QED BY <1>1, <2>1, <2>2, CalleeAccepts DEF CalleeOffer
<1>2. CASE MediaEnded
    <2>1. mf' = mf /\ chan'.callReceived = chan.callReceived
        BY <1>0, <1>2 DEF MediaEnded, MediaEndedLeaving, ChanTypes
    <2>2. ~Ending'
        <3>1. ua'.pc = "wrapup"
            BY <1>0, <1>2 DEF MediaEnded, MediaEndedLeaving, UATypes
        <3> QED BY <3>1 DEF Ending
    <2>3. \A s \in Sessions : ~PastSdp(s)'
        BY <1>0, <1>2, <2>1, CalleeMediaEnded DEF PastSdp
    <2> QED BY <1>2, <2>1, <2>2, <2>3, CalleeMediaEnded DEF CalleeOffer, CalleeInv
<1>3. CASE ~AcceptCall /\ ~MediaEnded
    <2>1. /\ mf'.at = mf.at /\ mf'.call = mf.call /\ mf'.remoteSdp = mf.remoteSdp
          /\ chan'.sdpToMedia = chan.sdpToMedia /\ ua'.mediaCancel = ua.mediaCancel
          /\ chan'.callReceived \in {chan.callReceived, None}
        BY <1>0, <1>3, LoopFrame
    <2>2. Ending' => chan'.callReceived = None /\ \A h \in handlers' : h.kind = "received" => Blocked(h)'
        BY <1>0, <2>1, CalleeEnding DEF CalleeInv, CalleeOffer, Blocked
    <2>3. \A s \in Sessions : PastSdp(s)' => PastSdp(s)
        BY <1>0, <2>1, Constants DEF PastSdp
    <2> QED BY <2>1, <2>2, <2>3 DEF CalleeInv, CalleeOffer
<1> QED BY <1>1, <1>2, <1>3

\* The loop gives the answer to the session that it answers.
LEMMA CalleeLoopAnswer ==
    ASSUME IInv, RInv, Callee, CalleeInv, Loop
    PROVE  CalleeAnswer'
<1>0. /\ ua \in UATypes /\ chan \in ChanTypes /\ ~TakeCall /\ ~InviteReturns
      /\ OneMedia /\ Control /\ TypeOK /\ status \in [Sessions -> Statuses]
      /\ answered \in [Sessions -> SessionOrNone]
    <2>1. ~TakeCall
        <3>1. chan.startCall \in 0 .. 0
            BY Constants DEF Callee, IInv, TypeOK, ChanTypes
        <3> QED BY <3>1 DEF TakeCall
    <2>2. ~InviteReturns
        BY DEF InviteReturns, Callee, IInv, Control
    <2> QED BY <2>1, <2>2 DEF IInv, TypeOK, Statuses
<1>1. \A s \in Sessions : answered'[s] \in {None, s}
    <2>1. CASE SendAnswer
        <3>1. \/ /\ ua.pc = "select" /\ ua.currentSession # None /\ ua.currentSession \in Sessions
                 /\ answered' = [answered EXCEPT ![ua.currentSession] = chan.sdpFromMedia]
              \/ answered' = answered
            BY <1>0, <2>1 DEF SendAnswer, UATypes, SessionOrNone
        <3> QED BY <1>0, <3>1 DEF CalleeInv, CalleeAnswer
    <2>2. CASE ~SendAnswer
        BY <2>2, LoopFrame DEF CalleeInv, CalleeAnswer
    <2> QED BY <2>1, <2>2
<1>2. CASE AcceptCall
    <2>1. chan'.sdpFromMedia = None
        BY <1>2, CalleeAccepts, LoopFrame
    <2> QED BY <1>1, <1>2, <2>1, CalleeAccepts DEF CalleeAnswer
<1>3. CASE MediaEnded
    <2>1. /\ mf' = mf /\ chan'.sdpFromMedia = chan.sdpFromMedia /\ ua'.pc = "wrapup"
          /\ ua.pc = "waitMedia"
        BY <1>0, <1>3 DEF MediaEnded, MediaEndedLeaving, ChanTypes, UATypes
    <2> QED BY <1>1, <2>1 DEF CalleeInv, CalleeAnswer
<1>4. CASE ~AcceptCall /\ ~MediaEnded
    <2>0. /\ mf'.at = mf.at /\ mf'.call = mf.call /\ mf'.remoteSdp = mf.remoteSdp
          /\ ua'.mediaCancel = ua.mediaCancel
          /\ chan'.sdpFromMedia \in {chan.sdpFromMedia, None}
        BY <1>0, <1>4, LoopFrame
    <2>1. ASSUME ua'.pc \in {"select", "report"}, ua'.currentSession # None
          PROVE  /\ mf'.at # "none" => mf'.call = ua'.currentSession
                 /\ chan'.sdpFromMedia \in {None, ua'.currentSession}
                 /\ chan'.sdpFromMedia # None \/ mf'.at \in {"waitOffer", "gather", "sendSdp"} =>
                       status'[ua'.currentSession] = "received"
        <3>1. /\ ua.pc \in {"select", "report"} /\ ua'.currentSession = ua.currentSession
              /\ ua.currentSession \in Sessions
            BY <1>0, <1>4, <2>1, LoopPlaces DEF UATypes, SessionOrNone
        <3>2. ASSUME chan'.sdpFromMedia # None \/ mf'.at \in {"waitOffer", "gather", "sendSdp"}
              PROVE  status'[ua.currentSession] = "received"
            <4>1. /\ chan.sdpFromMedia # None \/ mf.at \in {"waitOffer", "gather", "sendSdp"}
                  /\ status[ua.currentSession] = "received"
                BY <2>0, <2>1, <3>1, <3>2 DEF CalleeInv, CalleeAnswer
            <4>2. ~SendAnswer
                <5>1. ASSUME SendAnswer PROVE FALSE
                    <6>1. chan'.sdpFromMedia = None /\ chan.sdpFromMedia # None
                        BY <1>0, <5>1 DEF SendAnswer, ChanTypes
                    <6>2. mf.at \in {"waitOffer", "gather", "sendSdp"}
                        BY <2>0, <3>2, <6>1
                    <6> QED BY <6>1, <6>2 DEF CalleeInv, CalleeAnswer
                <5> QED BY <5>1
            <4>3. ua.timer = None
                BY <3>1, <4>1, <1>0 DEF CalleeInv, CalleeTimer
            <4>4. ~TimerFires
                BY <4>3 DEF TimerFires
            <4>5. ~Leave
                BY <2>1, <1>0 DEF Leave, UATypes
            <4>6. ~SendInvite
                BY DEF SendInvite, Callee
            <4>7. CASE RejectBusy
                BY <1>0, <3>1, <4>1, <4>7, RejectBusyEffect, EndSessionEffect, Constants
            <4>8. CASE ~RejectBusy
                BY <4>1, <4>2, <4>4, <4>5, <4>6, <4>8, LoopSip
            <4> QED BY <4>7, <4>8
        <3> QED BY <2>0, <2>1, <3>1, <3>2 DEF CalleeInv, CalleeAnswer
    <2>2. ua'.pc = "waitMedia" =>
              chan'.sdpFromMedia = None /\ mf'.at \notin {"waitOffer", "gather", "sendSdp"}
        <3> SUFFICES ASSUME ua'.pc = "waitMedia"
                     PROVE  chan'.sdpFromMedia = None
                            /\ mf'.at \notin {"waitOffer", "gather", "sendSdp"}
            OBVIOUS
        <3>1. Terminated
            BY LoopPlaces
        <3>2. /\ ua.pc = "select" /\ ua.currentSession # None
              /\ status[ua.currentSession] = "over"
            BY <3>1 DEF Terminated, TerminatedThen, RInv, Ended
        <3> QED BY <2>0, <3>2 DEF CalleeInv, CalleeAnswer
    <2> QED BY <1>1, <2>0, <2>1, <2>2 DEF CalleeInv, CalleeAnswer
<1> QED BY <1>2, <1>3, <1>4

\* An established call is ended by the loop only with BYE.
LEMMA LoopKeepsUp ==
    ASSUME IInv, Loop, NEW s \in Sessions, status[s] \in {"confirmed", "bye"}
    PROVE  status'[s] \in {"confirmed", "bye"}
<1>0. TypeOK /\ status \in [Sessions -> Statuses]
    BY DEF IInv, TypeOK, Statuses
<1>1. ASSUME NEW r \in Sessions, EndSession(r)
      PROVE  status'[s] \in {"confirmed", "bye"}
    BY <1>0, <1>1, EndSessionEffect
<1> QED BY <1>0, <1>1, LoopSip

\* The loop starts the timer for the current call, and drops it with the call.
LEMMA CalleeLoopTimer ==
    ASSUME IInv, RInv, Callee, CalleeInv, Loop
    PROVE  CalleeTimer'
<1>0. /\ ua \in UATypes /\ chan \in ChanTypes /\ handlers' = handlers /\ ~InviteReturns
      /\ handlers \subseteq Handlers /\ \A h \in Handlers : h.sess \in Sessions
      /\ status \in [Sessions -> Statuses]
      /\ \A s \in Sessions : Active(s) => s = ua.currentSession
    <2>1. ~InviteReturns
        BY DEF InviteReturns, Callee, IInv, Control
    <2>2. \A s \in Sessions : Active(s) => s = ua.currentSession
        BY DEF RInv, Owned, Owner, Callee
    <2> QED BY <2>1, <2>2 DEF IInv, TypeOK, Handlers, Loop, Statuses
<1>1. \A s \in Sessions : status'[s] # "sent"
    <2>1. ~SendInvite
        BY DEF SendInvite, Callee
    <2>2. ASSUME NEW r \in Sessions, EndSession(r), NEW s \in Sessions
          PROVE  status'[s] # "sent"
        BY <1>0, <2>2 DEF EndSession, CalleeInv, CalleeTimer
    <2> QED BY <1>0, <2>1, <2>2, LoopSip DEF CalleeInv, CalleeTimer
<1>2. \A h \in handlers' : h.kind = "confirmed" =>
          h.at = "notify" /\ ~h.again /\ status'[h.sess] \in {"confirmed", "bye"}
    BY <1>0, LoopKeepsUp DEF CalleeInv, CalleeTimer
<1>3. chan'.callConfirmed # None => status'[chan'.callConfirmed] \in {"confirmed", "bye"}
    <2>1. chan.callConfirmed # None => chan.callConfirmed \in Sessions
        BY <1>0 DEF ChanTypes, SessionOrNone
    <2> QED BY <2>1, LoopFrame, LoopKeepsUp DEF CalleeInv, CalleeTimer
<1>4. ASSUME ua'.timer # None, ua'.pc \notin {"waitMedia", "wrapup"}
      PROVE  ua'.timer = ua'.currentSession /\ status'[ua'.timer] \in {"confirmed", "bye", "over"}
    <2>1. /\ ~AcceptCall /\ ua.pc \notin {"waitMedia", "wrapup"}
        BY <1>4, CalleeAccepts, LoopPlaces
    <2>2. ua'.currentSession = ua.currentSession
        <3>1. ~Terminated
            <4>1. ASSUME Terminated PROVE FALSE
                <5>1. ua.pc = "select" /\ ua.currentSession # None
                      /\ ua'.pc = IF ua.mediaCancel THEN "waitMedia" ELSE "wrapup"
                    BY <1>0, <4>1 DEF Terminated, TerminatedThen, UATypes
                <5> QED BY <1>4, <5>1
            <4> QED BY <4>1
        <3>2. ua.currentSession # None => ua'.currentSession = ua.currentSession
            BY <1>0, <2>1, <3>1, RejectBusyEffect, TimerFiresEffect, LeaveEffect DEF Loop,
               Registered, StartFails, TakeCall, SendInvite, InviteError, SendAnswer, Confirmed,
               ConfirmedWith, IgnoreTerminated, MediaEnded, MediaEndedLeaving, WrapUp, LoopReports, MediaLeft, Exit, Goto, UATypes, Callee
        <3>3. ua.currentSession = None => ua'.currentSession = None
            BY <1>0, <2>1, LoopPlaces
        <3> QED BY <3>2, <3>3
    <2>3. CASE ua'.timer = ua.timer
        <3>1. /\ ua.timer \in Sessions /\ ua.timer = ua.currentSession
              /\ status[ua.timer] \in {"confirmed", "bye", "over"}
            BY <1>0, <1>4, <2>1, <2>3 DEF UATypes, SessionOrNone, CalleeInv, CalleeTimer
        <3>2. status'[ua.timer] \in {"confirmed", "bye", "over"}
            BY <3>1, LoopKeepsUp, LoopLasting DEF Lasting, Final
        <3> QED BY <2>2, <2>3, <3>1, <3>2
    <2>4. CASE ua'.timer # ua.timer
        <3>1. Confirmed
            BY <1>4, <2>4, LoopPlaces
        <3>2. /\ ua'.timer = chan.callConfirmed /\ chan.callConfirmed \in Sessions
            BY <1>0, <2>4, <3>1 DEF Confirmed, ConfirmedWith, UATypes, ChanTypes, SessionOrNone
        <3>3. status[chan.callConfirmed] \in {"confirmed", "bye"}
            BY <3>2, Constants DEF CalleeInv, CalleeTimer
        <3>4. chan.callConfirmed = ua.currentSession
            BY <1>0, <3>2, <3>3 DEF Active
        <3> QED BY <2>2, <3>2, <3>3, <3>4, LoopKeepsUp
    <2> QED BY <2>3, <2>4
<1> QED BY <1>1, <1>2, <1>3, <1>4 DEF CalleeTimer

\* A handler puts the offer of a call into sdpToMediaChan only when there is
\* none, and not while a call is ending.
LEMMA CalleeHandlerStep ==
    ASSUME IInv, RInv, Callee, CalleeInv, HandlerStep
    PROVE  CalleeInv'
<1>0. /\ chan \in ChanTypes /\ handlers \subseteq Handlers /\ OneMedia
      /\ \A h \in Handlers : h.sess \in Sessions
      /\ UNCHANGED <<ua, mf, answered>> /\ chan'.sdpFromMedia = chan.sdpFromMedia
    BY HandlerFrame DEF IInv, TypeOK, Handlers
<1>1. PICK h \in handlers :
          \/ HandleSdp(h) \/ HandleUnwanted(h) \/ NotifyReceived(h) \/ NotifyConfirmed(h)
          \/ ConfirmedAgain(h) \/ HandleEnded(h) \/ NotifyEnded(h)
    BY DEF HandlerStep
<1>2. /\ h \in Handlers /\ h.sess \in Sessions /\ ~HandleUnwanted(h) /\ ~ConfirmedAgain(h)
    BY <1>0 DEF HandleUnwanted, ConfirmedAgain, Callee, CalleeInv, CalleeTimer
<1>3. status' = status
    BY <1>1, <1>2 DEF HandleSdp, NotifyReceived, NotifyConfirmed, HandleEnded, WriteResult,
       NotifyEnded
<1>4. Ending' <=> Ending
    BY <1>0, <1>3 DEF Ending
<1>5. CalleeAnswer'
    BY <1>0, <1>3 DEF CalleeInv, CalleeAnswer
<1>6. CASE HandleSdp(h)
    <2>1. /\ h.kind = "received" /\ h.at = "sdp" /\ chan.sdpToMedia = None
        BY <1>2, <1>6 DEF HandleSdp, CalleeInv, CalleeTimer, RInv, Ended, Handlers
    <2>2. /\ chan' = [chan EXCEPT !.sdpToMedia = h.sess] /\ Advance(h, "notify")
        BY <1>6 DEF HandleSdp
    <2>3. /\ chan'.sdpToMedia = h.sess /\ chan'.callReceived = chan.callReceived
          /\ chan'.callConfirmed = chan.callConfirmed
        BY <1>0, <2>2 DEF ChanTypes
    <2>4. PICK g \in Handlers : /\ g.kind = h.kind /\ g.sess = h.sess
                                /\ handlers' = (handlers \ {h}) \cup {g}
        BY <1>2, <2>2, AdvanceEffect
    <2>5. ~Ending
        BY <2>1 DEF CalleeInv, CalleeOffer, Blocked
    <2>6. mf.at # "waitOffer"
        BY <1>0, <2>1 DEF CalleeInv, CalleeOffer, OneMedia
    <2>7. \A s \in Sessions : ~ua.mediaCancel /\ PastSdp(s)' => s = h.sess
        <3>1. \A s \in Sessions : ~ua.mediaCancel => ~PastSdp(s)
            BY <2>1, Constants DEF CalleeInv, CalleeOffer
        <3> QED BY <2>3, <2>4, <3>1 DEF PastSdp
    <2>8. CalleeOffer'
        BY <1>0, <1>4, <2>3, <2>5, <2>6, <2>7 DEF CalleeOffer, CalleeInv
    <2>9. CalleeTimer'
        BY <1>0, <1>3, <2>1, <2>3, <2>4 DEF CalleeInv, CalleeTimer
    <2> QED BY <1>5, <2>8, <2>9 DEF CalleeInv
<1>7. CASE NotifyReceived(h)
    <2>1. /\ h.kind = "received" /\ h.at = "notify" /\ handlers' = handlers \ {h}
          /\ chan'.callReceived = h.sess /\ chan'.sdpToMedia = chan.sdpToMedia
          /\ chan'.callConfirmed = chan.callConfirmed
        BY <1>0, <1>7 DEF NotifyReceived, Return, ChanTypes
    <2>2. ~Ending
        BY <2>1 DEF CalleeInv, CalleeOffer, Blocked
    <2>3. \A s \in Sessions : PastSdp(s)' => PastSdp(s)
        BY <2>1 DEF PastSdp
    <2>4. CalleeOffer'
        BY <1>0, <1>4, <2>1, <2>2, <2>3 DEF CalleeInv, CalleeOffer
    <2>5. CalleeTimer'
        BY <1>0, <1>3, <2>1 DEF CalleeInv, CalleeTimer
    <2> QED BY <1>5, <2>4, <2>5 DEF CalleeInv
<1>8. CASE NotifyConfirmed(h) \/ HandleEnded(h) \/ NotifyEnded(h)
    <2>1. /\ chan'.callReceived = chan.callReceived /\ chan'.sdpToMedia = chan.sdpToMedia
        BY <1>0, <1>8 DEF NotifyConfirmed, HandleEnded, WriteResult, NotifyEnded, ChanTypes
    <2>2. /\ h.kind \in {"confirmed", "ended"}
          /\ \/ handlers' = handlers \ {h}
             \/ /\ h.kind = "ended"
                /\ \E g \in Handlers : /\ g.kind = "ended"
                                       /\ handlers' = (handlers \ {h}) \cup {g}
        <3>1. CASE NotifyConfirmed(h)
            BY <3>1 DEF NotifyConfirmed, Return, CalleeInv, CalleeTimer
        <3>2. CASE HandleEnded(h)
            BY <1>2, <3>2, AdvanceEffect DEF HandleEnded, WriteResult
        <3>3. CASE NotifyEnded(h)
            BY <3>3 DEF NotifyEnded, Return
        <3> QED BY <1>8, <3>1, <3>2, <3>3
    <2>3. \A s \in Sessions : PastSdp(s)' => PastSdp(s)
        BY <2>1, <2>2 DEF PastSdp
    <2>4. \A g \in handlers' : g.kind \in {"received", "confirmed"} => g \in handlers
        BY <2>2
    <2>5. CalleeOffer'
        <3>1. Ending' => \A g \in handlers' : g.kind = "received" => Blocked(g)'
            BY <1>4, <2>1, <2>4 DEF CalleeInv, CalleeOffer, Blocked
        <3> QED BY <1>0, <1>4, <2>1, <2>3, <3>1 DEF CalleeInv, CalleeOffer
    <2>6. \/ chan'.callConfirmed = chan.callConfirmed
          \/ chan'.callConfirmed = h.sess /\ h.kind = "confirmed"
        BY <1>0, <1>8 DEF NotifyConfirmed, HandleEnded, WriteResult, NotifyEnded, ChanTypes
    <2>7. CalleeTimer'
        BY <1>0, <1>3, <2>4, <2>6 DEF CalleeInv, CalleeTimer
    <2> QED BY <1>5, <2>5, <2>7 DEF CalleeInv
<1> QED BY <1>1, <1>2, <1>6, <1>7, <1>8

\* An INVITE comes when nothing is ending, and a call ends when its beginning
\* has been heard of.
LEMMA CalleeStackStep ==
    ASSUME IInv, RInv, Callee, CalleeInv, NEW s \in Sessions, Stack(s)
    PROVE  CalleeInv'
<1>0. /\ ua \in UATypes /\ handlers \subseteq Handlers /\ status \in [Sessions -> Statuses]
      /\ \A h \in Handlers : h.sess \in Sessions
      /\ UNCHANGED <<ua, cr, chan, mf, answered>>
      /\ cancels = {} /\ ~env.RacingEnds
      /\ \A r \in Sessions : Active(r) => r = ua.currentSession
      /\ chan.callReceived # None => chan.callReceived \in Sessions
      /\ chan.callConfirmed # None => chan.callConfirmed \in Sessions
      /\ ua.timer # None => ua.timer \in Sessions
      /\ ua.currentSession # None => ua.currentSession \in Sessions
    <2>1. UNCHANGED <<ua, cr, chan, mf, answered>>
        BY StackEffect DEF IInv, StackTurns, StackEnds, StackCancels, Ends
    <2>2. \A r \in Sessions : Active(r) => r = ua.currentSession
        BY DEF RInv, Owned, Owner, Callee
    <2>3. cancels = {} /\ ~env.RacingEnds
        BY DEF RInv, Owned, Callee
    <2> QED BY <2>1, <2>2, <2>3 DEF IInv, TypeOK, Handlers, Statuses, ChanTypes, UATypes,
               SessionOrNone
<1>1. CASE StackTurns(s)
    <2>1. PICK h \in Handlers :
              /\ h.sess = s /\ handlers' = handlers \cup {h} /\ ~h.again
              /\ \/ /\ status[s] = "answered" /\ status' = [status EXCEPT ![s] = "confirmed"]
                    /\ h.kind = "confirmed" /\ h.at = "notify"
                 \/ /\ status[s] = "new" /\ status' = [status EXCEPT ![s] = "received"]
                    /\ h.kind = "received" /\ h.at = "sdp" /\ Settled
        BY <1>0, <1>1 DEF StackTurns, HandlerStarts, CalleeInv, CalleeTimer
    <2>2. \A r \in Sessions : status'[r] = "over" <=> status[r] = "over"
        BY <1>0, <2>1
    <2>3. Ending' <=> Ending
        BY <1>0, <2>2 DEF Ending
    <2>4. h.kind = "received" => ~Ending
        <3> SUFFICES ASSUME Settled, Ending PROVE FALSE
            BY <2>1
        <3>1. /\ ua.pc = "select" /\ ua.currentSession # None
              /\ status[ua.currentSession] = "over"
            BY DEF Settled, Ending
        <3>2. OverHeard
            BY DEF RInv, Held, Callee
        <3> QED BY <3>1, <3>2 DEF OverHeard, EndOf, Settled
    <2>5. \A r \in Sessions : PastSdp(r)' => PastSdp(r)
        BY <1>0, <2>1 DEF PastSdp
    <2>6. CalleeOffer'
        BY <1>0, <2>1, <2>3, <2>4, <2>5 DEF CalleeInv, CalleeOffer, Blocked
    <2>7. CalleeAnswer'
        <3>1. \A r \in Sessions : status[r] = "received" => status'[r] = "received"
            BY <1>0, <2>1
        <3> QED BY <1>0, <3>1 DEF CalleeInv, CalleeAnswer
    <2>8. CalleeTimer'
        <3>1. \A r \in Sessions : /\ status[r] \in {"confirmed", "bye", "over"} =>
                                          status'[r] = status[r]
                                  /\ status'[r] # "sent"
            BY <1>0, <2>1 DEF CalleeInv, CalleeTimer
        <3>2. \A g \in handlers' : g.kind = "confirmed" =>
                  g.at = "notify" /\ ~g.again /\ status'[g.sess] \in {"confirmed", "bye"}
            BY <1>0, <2>1, <3>1 DEF CalleeInv, CalleeTimer
        <3> QED BY <1>0, <3>1, <3>2 DEF CalleeInv, CalleeTimer
    <2> QED BY <2>6, <2>7, <2>8 DEF CalleeInv
<1>2. CASE StackEnds(s)
    <2>1. /\ status[s] \in {"confirmed", "bye"} /\ Quiet /\ Ends(s)
        BY <1>0, <1>2 DEF StackEnds, CalleeInv, CalleeTimer
    <2>2. /\ status' = [status EXCEPT ![s] = "over"] /\ s = ua.currentSession
        BY <1>0, <2>1 DEF Ends, Active
    <2>3. PICK h \in Handlers : h.kind = "ended" /\ handlers' = handlers \cup {h}
        BY <2>1 DEF Ends
    <2>4. /\ \A g \in handlers : g.kind # "confirmed"
          /\ \A g \in handlers : g.kind = "received" => Blocked(g)
          /\ chan.callConfirmed = None /\ chan.callReceived = None
        BY <1>0, <2>1 DEF Quiet, Blocked, CalleeInv, CalleeTimer
    <2>5. CalleeOffer'
        <3>1. \A r \in Sessions : PastSdp(r)' => PastSdp(r)
            BY <1>0, <2>3 DEF PastSdp
        <3>2. \A g \in handlers' : g.kind = "received" => Blocked(g)'
            BY <1>0, <2>3, <2>4 DEF Blocked
        <3> QED BY <1>0, <2>4, <3>1, <3>2 DEF CalleeInv, CalleeOffer
    <2>6. CalleeAnswer'
        <3>1. \A r \in Sessions : status[r] = "received" => status'[r] = "received"
            BY <1>0, <2>1, <2>2
        <3> QED BY <1>0, <3>1 DEF CalleeInv, CalleeAnswer
    <2>7. CalleeTimer'
        <3>1. \A r \in Sessions : /\ status[r] \in {"confirmed", "bye", "over"} =>
                                          status'[r] \in {"confirmed", "bye", "over"}
                                  /\ status'[r] # "sent"
            BY <1>0, <2>2 DEF CalleeInv, CalleeTimer
        <3> QED BY <1>0, <2>3, <2>4, <3>1 DEF CalleeInv, CalleeTimer
    <2> QED BY <2>5, <2>6, <2>7 DEF CalleeInv
<1>3. ~StackCancels(s)
    BY DEF StackCancels, Callee
<1> QED BY <1>1, <1>2, <1>3, StackEffect DEF IInv

\* MediaFunc takes the offer of its call, and answers it.
LEMMA CalleeMediaStep ==
    ASSUME IInv, RInv, Callee, CalleeInv, Media
    PROVE  CalleeInv'
<1>0. /\ chan \in ChanTypes /\ mf \in MediaTypes /\ OneMedia
      /\ UNCHANGED <<ua, cr, status, handlers, answered>>
    BY DEF IInv, TypeOK, Media, sipVars, ghostVars
<1>1. /\ chan'.callReceived = chan.callReceived /\ chan'.callConfirmed = chan.callConfirmed
    BY <1>0 DEF Media, MediaGetsSdp, MediaGathered, MediaSendsSdp, MediaCancelled,
       MediaFails, MediaFailsTo, MediaExits, ChanTypes
<1>2. CalleeTimer'
    BY <1>0, <1>1 DEF CalleeInv, CalleeTimer
<1>3. (Ending' <=> Ending) /\ \A s \in Sessions : PastSdp(s)' <=> PastSdp(s)
    BY <1>0, <1>1 DEF Ending, PastSdp
<1>4. mf.at # "none" /\ ua.mediaCancel
    BY <1>0 DEF Media, MediaGetsSdp, MediaGathered, MediaSendsSdp, MediaCancelled,
       MediaFails, MediaFailsTo, MediaExits, OneMedia
<1>5. CASE MediaGetsSdp
    <2>1. /\ mf.at = "waitOffer" /\ mf'.at = "gather" /\ mf'.call = mf.call
          /\ mf'.remoteSdp = chan.sdpToMedia /\ chan'.sdpFromMedia = chan.sdpFromMedia
        BY <1>0, <1>5 DEF MediaGetsSdp, OneMedia, ChanTypes, MediaTypes, Callee
    <2>2. ~Ending
        BY <2>1 DEF Ending, CalleeInv, CalleeAnswer
    <2>3. CalleeOffer'
        BY <1>0, <1>3, <1>4, <2>1, <2>2 DEF CalleeInv, CalleeOffer
    <2>4. CalleeAnswer'
        BY <1>0, <1>4, <2>1 DEF CalleeInv, CalleeAnswer
    <2> QED BY <1>2, <2>3, <2>4 DEF CalleeInv
<1>6. CASE MediaSendsSdp
    <2>1. /\ mf.at = "sendSdp" /\ mf'.at = "run" /\ mf'.call = mf.call
          /\ mf'.remoteSdp = mf.remoteSdp /\ chan'.sdpFromMedia = mf.remoteSdp
          /\ chan'.sdpToMedia = chan.sdpToMedia
        BY <1>0, <1>6 DEF MediaSendsSdp, ChanTypes, MediaTypes, Callee
    <2>2. mf.remoteSdp = mf.call
        BY <1>0, <2>1 DEF OneMedia, Callee, CalleeInv, CalleeOffer
    <2>3. CalleeOffer'
        BY <1>0, <1>1, <1>3, <1>4, <2>1 DEF CalleeInv, CalleeOffer, Blocked
    <2>4. CalleeAnswer'
        BY <1>0, <1>4, <2>1, <2>2 DEF CalleeInv, CalleeAnswer
    <2> QED BY <1>2, <2>3, <2>4 DEF CalleeInv
<1>7. CASE MediaGathered \/ MediaCancelled \/ MediaFails \/ MediaExits
    <2>1. /\ \/ mf'.at \in {"exit", "none"}
             \/ mf.at = "gather" /\ mf'.at = "sendSdp"
          /\ \/ mf'.call = mf.call /\ mf'.remoteSdp = mf.remoteSdp
             \/ mf'.at = "none" /\ mf'.remoteSdp = None
          /\ chan'.sdpFromMedia = chan.sdpFromMedia /\ chan'.sdpToMedia = chan.sdpToMedia
        BY <1>0, <1>7 DEF MediaGathered, MediaCancelled, MediaFails, MediaFailsTo, MediaExits,
           ChanTypes, MediaTypes
    <2>2. CalleeOffer'
        BY <1>0, <1>1, <1>3, <1>4, <2>1 DEF CalleeInv, CalleeOffer, Blocked
    <2>3. CalleeAnswer'
        BY <1>0, <1>4, <2>1 DEF CalleeInv, CalleeAnswer
    <2> QED BY <1>2, <2>2, <2>3 DEF CalleeInv
<1> QED BY <1>5, <1>6, <1>7 DEF Media

-----------------------------------------------------------------------------
(***************************************************************************)
(* The caller.                                                             *)
(***************************************************************************)

\* The call that a caller's loop holds is one of its own.
LEMMA CurrentIsOutgoing ==
    ASSUME IInv, Role = "uac", ua.currentSession # None
    PROVE  ua.currentSession \in Outgoing
<1>1. ua.currentSession = cr.CallIndex /\ cr.CallIndex <= started
    BY DEF IInv, UacCalls
<1>2. ua.currentSession \in Nat \ {0} /\ started \in 0 .. MaxCalls
    BY Constants DEF IInv, TypeOK, UATypes, SessionOrNone
<1> QED BY <1>1, <1>2, Constants

\* Before the caller's loop takes a command, nothing of a call is left.
LEMMA CallerTakes ==
    ASSUME IInv, Caller, CallerInv, TakeCall
    PROVE  /\ ~ua.mediaCancel /\ ua.timer = None
           /\ \A s \in Sessions : ~Active(s)
           /\ \A h \in handlers : h.kind # "confirmed"
           /\ chan.callConfirmed = None /\ chan.sdpToMedia = None /\ chan.sdpFromMedia = None
           /\ ~chan.mediaFuncEnd
<1>0. /\ ua.pc = "select" /\ ~ua.mediaCancel
    BY UacTakesCall DEF Caller
<1>1. \A s \in Sessions : ~Active(s)
    BY <1>0 DEF CallerInv, CallerSip, InCallOf
<1>2. handlers \subseteq Handlers /\ \A h \in Handlers : h.sess \in Sessions
    BY DEF IInv, TypeOK, Handlers
<1>3. \A h \in handlers : h.kind # "confirmed"
    BY <1>1, <1>2 DEF CallerInv, CallerSip, Active
<1>4. chan.callConfirmed = None
    <2>1. chan.callConfirmed # None => chan.callConfirmed \in Sessions
        BY DEF IInv, TypeOK, ChanTypes, SessionOrNone
    <2> QED BY <1>1, <2>1 DEF CallerInv, CallerSip, Active
<1>5. ua.timer = None /\ chan.sdpToMedia = None
    BY <1>0 DEF CallerInv, CallerOwn, InAgent
<1>6. chan.sdpFromMedia = None /\ ~chan.mediaFuncEnd
    BY <1>0 DEF IInv, UacOffer, OneMedia, Caller
<1> QED BY <1>0, <1>1, <1>3, <1>4, <1>5, <1>6

\* A command starts with nothing left of the call before.
LEMMA CallerTakeCall ==
    ASSUME IInv, Caller, CallerInv, TakeCall, handlers' = handlers
    PROVE  CallerInv'
<1>0. ua \in UATypes /\ chan \in ChanTypes
    BY DEF IInv, TypeOK
<1>1. /\ ua' = [ua EXCEPT !.mediaCancel = TRUE] /\ ua.pc = "select"
      /\ chan' = [chan EXCEPT !.startCall = 0]
      /\ cr'.CallIndex = chan.startCall /\ mf'.at = "gather" /\ mf'.call = chan.startCall
      /\ ~mf'.cancelled /\ mf'.remoteSdp = None /\ status' = status
    BY UacTakesCall DEF Caller
<1>2. /\ ua'.pc = "select" /\ ua'.timer = None
      /\ chan'.callConfirmed = None /\ chan'.sdpToMedia = None /\ chan'.sdpFromMedia = None
      /\ ~chan'.mediaFuncEnd
    BY <1>0, <1>1, CallerTakes DEF UATypes, ChanTypes
<1>3. CallerMedia'
    BY <1>1, <1>2 DEF CallerMedia
<1>4. CallerSip'
    BY <1>1, <1>2, CallerTakes DEF CallerSip, Active, InCallOf, CallerInv
<1>5. CallerOwn'
    BY <1>2 DEF CallerOwn
<1> QED BY <1>3, <1>4, <1>5 DEF CallerInv

\* The caller's MediaFunc ends after its call.
LEMMA CallerMediaEnded ==
    ASSUME IInv, Caller, CallerInv, MediaEnded, handlers' = handlers
    PROVE  CallerInv'
<1>0. ua \in UATypes /\ chan \in ChanTypes /\ handlers \subseteq Handlers
      /\ \A h \in Handlers : h.sess \in Sessions
    BY DEF IInv, TypeOK, Handlers
<1>1. /\ ua.pc = "waitMedia" /\ ua'.pc = "wrapup" /\ ~ua'.mediaCancel /\ ua'.timer = ua.timer
      /\ chan'.sdpToMedia = None /\ ~chan'.mediaFuncEnd
      /\ chan'.sdpFromMedia = chan.sdpFromMedia /\ chan'.callConfirmed = chan.callConfirmed
      /\ UNCHANGED <<mf, status, cr>>
    BY <1>0 DEF MediaEnded, MediaEndedLeaving, UATypes, ChanTypes
<1>2. \A s \in Sessions : ~Active(s)
    BY <1>1 DEF CallerInv, CallerSip, InCallOf
<1>3. \A h \in handlers : h.kind # "confirmed"
    BY <1>0, <1>2 DEF CallerInv, CallerSip, Active
<1>4. mf.at # "exit"
    <2>1. mf.at = "none"
        BY <1>1 DEF MediaEnded, MediaEndedLeaving, IInv, OneMedia, Control
    <2> QED BY <2>1
<1>5. CallerMedia'
    BY <1>1, <1>4 DEF CallerInv, CallerMedia
<1>6. CallerSip'
    BY <1>1, <1>2, <1>3 DEF CallerInv, CallerSip, Active
<1>7. CallerOwn'
    BY <1>1 DEF CallerInv, CallerOwn, InAgent
<1> QED BY <1>5, <1>6, <1>7 DEF CallerInv

\* The loop hears of the end of the caller's call: the call is over.
LEMMA CallerTerminated ==
    ASSUME IInv, RInv, Caller, CallerInv, Terminated, handlers' = handlers
    PROVE  CallerInv'
<1>0. ua \in UATypes /\ chan \in ChanTypes /\ handlers \subseteq Handlers /\ mf \in MediaTypes
      /\ \A h \in Handlers : h.sess \in Sessions
    BY DEF IInv, TypeOK, Handlers
<1>1. ua.pc = "select" /\ ua.mediaCancel /\ status[cr.CallIndex] = "over"
    BY DEF Terminated, TerminatedThen, RInv, Ended, IInv, Control, UacCalls, Caller
<1>2. /\ ua'.pc = "waitMedia" /\ ua'.mediaCancel /\ ua'.timer = ua.timer
      /\ mf' = [mf EXCEPT !.cancelled = mf.cancelled \/ ua.mediaCancel]
      /\ chan'.sdpToMedia = chan.sdpToMedia /\ chan'.sdpFromMedia = chan.sdpFromMedia
      /\ chan'.callConfirmed = chan.callConfirmed
      /\ UNCHANGED <<status, cr>>
    BY <1>0, <1>1 DEF Terminated, TerminatedThen, UATypes, ChanTypes
<1>3. mf'.at = mf.at /\ mf'.call = mf.call /\ mf'.remoteSdp = mf.remoteSdp
    BY <1>0, <1>2 DEF MediaTypes
<1>4. \A s \in Sessions : ~Active(s)
    BY <1>1 DEF CallerInv, CallerSip, InCallOf, Active
<1>5. \A h \in handlers : h.kind # "confirmed"
    BY <1>0, <1>4 DEF CallerInv, CallerSip, Active
<1>6. CallerMedia'
    BY <1>2, <1>3 DEF CallerInv, CallerMedia
<1>7. CallerSip'
    BY <1>2, <1>4, <1>5 DEF CallerInv, CallerSip, Active
<1>8. CallerOwn'
    BY <1>1, <1>2 DEF CallerInv, CallerOwn, InAgent
<1> QED BY <1>6, <1>7, <1>8 DEF CallerInv

\* The INVITE is sent: its MediaFunc waits for the answer.
LEMMA CallerSendInvite ==
    ASSUME IInv, Caller, CallerInv, SendInvite, Loop
    PROVE  CallerInv'
<1>0. /\ ua \in UATypes /\ chan \in ChanTypes /\ handlers \subseteq Handlers
      /\ \A h \in Handlers : h.sess \in Sessions
      /\ status \in [Sessions -> Statuses] /\ handlers' = handlers
    BY LoopFrame DEF IInv, TypeOK, Handlers, Statuses
<1>1. /\ ua.pc = "select" /\ chan.sdpFromMedia # None /\ ua'.pc = "invite"
      /\ ua'.mediaCancel = ua.mediaCancel /\ ua'.timer = ua.timer
      /\ chan'.sdpToMedia = chan.sdpToMedia /\ chan'.sdpFromMedia = None
      /\ chan'.callConfirmed = chan.callConfirmed /\ chan'.mediaFuncEnd = chan.mediaFuncEnd
      /\ status' = [status EXCEPT ![cr.CallIndex] = "sent"]
      /\ UNCHANGED <<mf, cr>>
    BY <1>0 DEF SendInvite, Goto, UATypes, ChanTypes
<1>2. /\ mf.at = "waitAnswer" /\ ua.mediaCancel /\ status[cr.CallIndex] = "new"
    BY <1>1 DEF IInv, UacOffer, Caller, CallerInv, CallerMedia
<1>3. cr.CallIndex \in Sessions
    <2>1. cr.CallIndex \in 0 .. MaxCalls
        BY Constants DEF IInv, TypeOK, UacCalls, Caller, Reports
    <2>2. cr.CallIndex # 0
        BY <1>2 DEF IInv, UacCalls, Caller, InAgent
    <2> QED BY <2>1, <2>2, Constants
<1>4. \A s \in Sessions : ~Active(s)
    BY <1>2 DEF CallerInv, CallerSip, InCallOf, Active
<1>5. /\ \A h \in handlers : h.kind # "confirmed"
      /\ chan.callConfirmed = None /\ chan.sdpToMedia = None
    <2>1. chan.callConfirmed # None => chan.callConfirmed \in Sessions
        BY <1>0 DEF ChanTypes, SessionOrNone
    <2> QED BY <1>0, <1>2, <1>4, <2>1 DEF CallerInv, CallerSip, CallerOwn, Active
<1>6. CallerMedia'
    BY <1>1 DEF CallerInv, CallerMedia
<1>7. CallerSip'
    <2>1. \A s \in Sessions : Active(s)' => InCallOf(s)'
        BY <1>0, <1>1, <1>2, <1>4 DEF Active, InCallOf
    <2>2. \A s \in Sessions : status'[s] # "answered"
        BY <1>0, <1>1 DEF CallerInv, CallerSip
    <2> QED BY <1>0, <1>1, <1>2, <1>5, <2>1, <2>2 DEF CallerSip
<1>8. CallerOwn'
    BY <1>1, <1>5 DEF CallerInv, CallerOwn, InAgent
<1> QED BY <1>6, <1>7, <1>8 DEF CallerInv

\* The other steps of the loop leave MediaFunc alone.
LEMMA CallerGoesOn ==
    ASSUME IInv, Caller, CallerInv, Loop,
           \/ Registered \/ StartFails \/ InviteError \/ InviteReturns \/ Confirmed
           \/ IgnoreTerminated \/ WrapUp \/ TimerFires
    PROVE  CallerInv'
<1>0. /\ ua \in UATypes /\ chan \in ChanTypes /\ cr \in Reports /\ handlers \subseteq Handlers
      /\ \A h \in Handlers : h.sess \in Sessions
      /\ TypeOK /\ Control
      /\ status \in [Sessions -> Statuses] /\ handlers' = handlers
    BY LoopFrame DEF IInv, TypeOK, Handlers, Statuses
<1>1. /\ UNCHANGED mf /\ cr'.CallIndex = cr.CallIndex
    BY <1>0, TimerFiresEffect DEF Registered, StartFails, InviteError, InviteReturns, Confirmed,
       ConfirmedWith, IgnoreTerminated, WrapUp, Reports
<1>2. /\ chan'.sdpToMedia = chan.sdpToMedia /\ chan'.mediaFuncEnd = chan.mediaFuncEnd
      /\ chan'.callConfirmed \in {chan.callConfirmed, None}
      /\ chan'.sdpFromMedia \in {chan.sdpFromMedia, None}
    BY <1>0, TimerFiresEffect DEF Registered, StartFails, InviteError, InviteReturns, Confirmed,
       ConfirmedWith, IgnoreTerminated, WrapUp, ChanTypes, chanVars
<1>3. /\ ua'.mediaCancel = ua.mediaCancel
      /\ ua.pc # "waitMedia" /\ ua'.pc \notin {"waitMedia", "leave", "join"}
      /\ ua'.pc # "wrapup"
      /\ ~WrapUp => ua.pc # "wrapup"
      /\ WrapUp => ua'.timer = None
      /\ ~Confirmed => ua'.timer \in {ua.timer, None}
    BY <1>0, TimerFiresEffect DEF Registered, StartFails, InviteError, InviteReturns, Confirmed,
       ConfirmedWith, IgnoreTerminated, WrapUp, UATypes, Goto, Caller
<1>4. \/ status' = status
      \/ ua.currentSession \in Outgoing /\ EndSession(ua.currentSession)
    <2>1. CASE TimerFires
        <3>1. ua.currentSession # None => ua.currentSession \in Outgoing
            BY CurrentIsOutgoing DEF Caller
        <3> QED BY <2>1, <3>1, TimerFiresEffect
    <2>2. CASE ~TimerFires
        BY <2>2 DEF Registered, StartFails, InviteError, InviteReturns, Confirmed,
           ConfirmedWith, IgnoreTerminated, WrapUp
    <2> QED BY <2>1, <2>2
<1>5. \A s \in Sessions :
          /\ Active(s)' <=> Active(s)
          /\ status'[s] # "answered"
          /\ status'[s] = "sent" => status[s] = "sent"
    <2>1. ASSUME ua.currentSession \in Outgoing, EndSession(ua.currentSession), NEW s \in Sessions
          PROVE  /\ Active(s)' <=> Active(s)
                 /\ status'[s] # "answered"
                 /\ status'[s] = "sent" => status[s] = "sent"
        <3>1. ua.currentSession \in Sessions /\ status[ua.currentSession] # "received"
            BY <2>1, Constants DEF IInv, Begins
        <3>2. status[s] # "answered" /\ status[ua.currentSession] # "answered"
            BY <3>1 DEF CallerInv, CallerSip
        <3>3. CASE s = ua.currentSession
            <4>1. \/ status'[s] = status[s]
                  \/ status[s] = "confirmed" /\ status'[s] = "bye"
                BY <1>0, <2>1, <3>1, <3>2, <3>3, EndSessionEffect
            <4> QED BY <3>2, <4>1 DEF Active
        <3>4. CASE s # ua.currentSession
            <4>1. status'[s] = status[s]
                BY <1>0, <2>1, <3>1, <3>4, EndSessionEffect
            <4> QED BY <3>2, <4>1 DEF Active
        <3> QED BY <3>3, <3>4
    <2>2. \A s \in Sessions : status[s] # "answered"
        BY DEF CallerInv, CallerSip
    <2>3. CASE status' = status
        BY <2>2, <2>3 DEF Active
    <2>4. CASE ua.currentSession \in Outgoing /\ EndSession(ua.currentSession)
        BY <2>1, <2>4
    <2> QED BY <1>4, <2>3, <2>4
<1>6. CallerMedia'
    BY <1>1, <1>2, <1>3 DEF CallerInv, CallerMedia
<1>7. CallerSip'
    <2>1. ASSUME NEW s \in Sessions, Active(s)' PROVE InCallOf(s)'
        <3>1. Active(s)
            BY <1>5, <2>1
        <3>2. InCallOf(s)
            BY <3>1 DEF CallerInv, CallerSip
        <3> QED BY <1>1, <1>3, <3>2 DEF InCallOf
    <2>2. \A h \in handlers : h.kind = "confirmed" => status'[h.sess] \in {"confirmed", "bye"}
        BY <1>0, LoopKeepsUp DEF CallerInv, CallerSip
    <2>3. chan'.callConfirmed # None => status'[chan'.callConfirmed] \in {"confirmed", "bye"}
        <3>1. chan.callConfirmed # None => chan.callConfirmed \in Sessions
            BY <1>0 DEF ChanTypes, SessionOrNone
        <3>2. chan.callConfirmed # None => status[chan.callConfirmed] \in {"confirmed", "bye"}
            BY DEF CallerInv, CallerSip
        <3>3. CASE chan'.callConfirmed = None
            BY <3>3
        <3>4. CASE chan'.callConfirmed = chan.callConfirmed
            BY <3>1, <3>2, <3>4, LoopKeepsUp
        <3> QED BY <1>2, <3>3, <3>4
    <2>4. ASSUME NEW s \in Sessions
          PROVE  /\ status'[s] # "answered"
                 /\ status'[s] = "sent" => mf'.at = "waitAnswer" /\ chan'.sdpToMedia = None
        BY <1>1, <1>2, <1>5 DEF CallerInv, CallerSip
    <2>5. \A h \in handlers : h.kind = "confirmed" =>
              /\ (h.at \in {"sdp", "load"} \/ h.again) /\ chan'.sdpToMedia # None =>
                    mf'.at = "waitAnswer"
              /\ h.at = "sdp" /\ h.again => chan'.sdpToMedia = None /\ mf'.at = "waitAnswer"
        BY <1>1, <1>2 DEF CallerInv, CallerSip
    <2>6. \A g, h \in handlers : g.kind = "confirmed" /\ h.kind = "confirmed" => g = h
        BY DEF CallerInv, CallerSip
    <2> QED BY <1>0, <2>1, <2>2, <2>3, <2>4, <2>5, <2>6 DEF CallerSip
<1>8. CallerOwn'
    <2>1. ASSUME chan.sdpToMedia # None
          PROVE  status'[chan.sdpToMedia] \in {"confirmed", "bye", "over"}
        <3>1. chan.sdpToMedia \in Sessions
            BY <1>0, <2>1 DEF ChanTypes, SessionOrNone
        <3> QED BY <2>1, <3>1, LoopKeepsUp, LoopLasting DEF Lasting, Final, CallerInv, CallerOwn
    <2>2. ASSUME ua'.timer # None
          PROVE  ua'.timer = cr.CallIndex /\ ua.mediaCancel
        <3>1. CASE ua'.timer = ua.timer
            BY <1>3, <2>2, <3>1 DEF CallerInv, CallerOwn, InAgent
        <3>2. CASE ua'.timer # ua.timer
            <4>1. ua'.timer = chan.callConfirmed
                BY <1>0, <1>3, <2>2, <3>2 DEF Confirmed, ConfirmedWith, UATypes
            <4>2. chan.callConfirmed \in Sessions /\ Active(chan.callConfirmed)
                BY <1>0, <2>2, <4>1 DEF ChanTypes, SessionOrNone, CallerInv, CallerSip, Active
            <4> QED BY <4>1, <4>2 DEF CallerInv, CallerSip, InCallOf
        <3> QED BY <3>1, <3>2
    <2> QED BY <1>1, <1>2, <1>3, <2>1, <2>2 DEF CallerInv, CallerOwn, InAgent
<1> QED BY <1>6, <1>7, <1>8 DEF CallerInv

\* Every step of the loop.
LEMMA CallerLoopStep ==
    ASSUME IInv, RInv, Caller, CallerInv, Loop
    PROVE  CallerInv'
<1>1. handlers' = handlers
    BY LoopFrame
<1>2. ~Leave /\ ~MediaLeft /\ ~Exit
    <2>1. ua.pc \notin {"leave", "join"} /\ ~mainDone
        BY DEF CallerInv, CallerMedia, Caller
    <2> QED BY <2>1 DEF Leave, MediaLeft, Exit
<1>3. \/ Registered \/ StartFails \/ TakeCall \/ SendInvite \/ InviteError
      \/ InviteReturns \/ Confirmed \/ IgnoreTerminated \/ Terminated \/ MediaEnded
      \/ WrapUp \/ TimerFires
    BY <1>2, UacLoop DEF Caller
<1> QED BY <1>1, <1>3, CallerTakeCall, CallerMediaEnded, CallerTerminated, CallerSendInvite,
           CallerGoesOn

\* The session that is active is outgoing, and there is one at most.
LEMMA CallerActive ==
    ASSUME IInv, Caller, CallerInv, NEW s \in Sessions, Active(s)
    PROVE  s = cr.CallIndex /\ s \in Outgoing /\ InCallOf(s) /\ InAgent
<1>1. InCallOf(s)
    BY DEF CallerInv, CallerSip
<1>2. cr.CallIndex <= started /\ started \in 0 .. MaxCalls
    BY DEF IInv, TypeOK, UacCalls, Caller
<1>3. s \in Nat \ {0}
    BY Constants
<1> QED BY <1>1, <1>2, <1>3, Constants DEF InCallOf, InAgent

\* A step that changes nothing the order is about.
LEMMA CallerKept ==
    ASSUME CallerInv, UNCHANGED <<cr, mf, status, handlers>>,
           ua'.pc = ua.pc, ua'.mediaCancel = ua.mediaCancel, ua'.timer = ua.timer,
           chan'.sdpToMedia = chan.sdpToMedia, chan'.sdpFromMedia = chan.sdpFromMedia,
           chan'.callConfirmed = chan.callConfirmed, chan'.mediaFuncEnd = chan.mediaFuncEnd
    PROVE  CallerInv'
<1>1. CallerMedia'
    BY DEF CallerInv, CallerMedia
<1>2. CallerSip'
    BY DEF CallerInv, CallerSip, Active, InCallOf
<1>3. CallerOwn'
    BY DEF CallerInv, CallerOwn, InAgent
<1> QED BY <1>1, <1>2, <1>3 DEF CallerInv

\* The answer goes to MediaFunc, then the confirmation to the loop, and again
\* for the outer request call.
LEMMA CallerHandlerStep ==
    ASSUME IInv, RInv, Caller, CallerInv, HandlerStep
    PROVE  CallerInv'
<1>0. /\ chan \in ChanTypes /\ handlers \subseteq Handlers /\ TypeOK
      /\ \A h \in Handlers : h.sess \in Sessions
      /\ status \in [Sessions -> Statuses]
      /\ UNCHANGED <<ua, mf>> /\ chan'.sdpFromMedia = chan.sdpFromMedia
      /\ chan'.mediaFuncEnd = chan.mediaFuncEnd /\ cr'.CallIndex = cr.CallIndex
    BY HandlerFrame DEF IInv, TypeOK, Handlers, Statuses
<1>1. PICK h \in handlers :
          \/ HandleSdp(h) \/ HandleUnwanted(h) \/ NotifyReceived(h) \/ NotifyConfirmed(h)
          \/ ConfirmedAgain(h) \/ HandleEnded(h) \/ NotifyEnded(h)
    BY DEF HandlerStep
<1>2. /\ h \in Handlers /\ h.sess \in Sessions
    BY <1>0
<1>3. CallerMedia'
    BY <1>0 DEF CallerInv, CallerMedia
<1>4. CASE h.kind = "confirmed"
    <2>1. Active(h.sess)
        BY <1>4 DEF CallerInv, CallerSip, Active
    <2>2. h.sess = cr.CallIndex /\ ua.mediaCancel /\ status[h.sess] \in {"confirmed", "bye"}
        BY <1>2, <1>4, <2>1, CallerActive DEF InCallOf, CallerInv, CallerSip
    <2>3. \A s \in Sessions : status[s] # "sent"
        BY <2>2, CallerActive DEF Active
    <2>4. \A g \in handlers : g.kind = "confirmed" => g = h
        BY <1>4 DEF CallerInv, CallerSip
    <2>5. /\ (h.at \in {"sdp", "load"} \/ h.again) /\ chan.sdpToMedia # None => mf.at = "waitAnswer"
          /\ h.at = "sdp" /\ h.again => chan.sdpToMedia = None /\ mf.at = "waitAnswer"
        BY <1>4 DEF CallerInv, CallerSip
    <2>6. status' = status /\ (HandleSdp(h) \/ NotifyConfirmed(h) \/ ConfirmedAgain(h))
        BY <1>1, <1>4 DEF HandleSdp, HandleUnwanted, NotifyReceived, NotifyConfirmed,
           ConfirmedAgain, HandleEnded, WriteResult, NotifyEnded
    <2>7. ASSUME \/ handlers' = handlers \ {h}
                 \/ \E g \in Handlers :
                       /\ g.kind = "confirmed" /\ g.sess = h.sess
                       /\ (g.at \in {"sdp", "load"} \/ g.again) /\ chan'.sdpToMedia # None =>
                             mf.at = "waitAnswer"
                       /\ ~(g.at = "sdp" /\ g.again)
                       /\ handlers' = (handlers \ {h}) \cup {g},
                 chan'.callConfirmed \in {chan.callConfirmed, h.sess}
          PROVE  CallerSip'
        <3>1. \A s \in Sessions : Active(s)' => InCallOf(s)'
            BY <1>0, <2>6 DEF CallerInv, CallerSip, Active, InCallOf
        <3>2. \A s \in Sessions : status'[s] \notin {"answered", "sent"}
            BY <2>3, <2>6 DEF CallerInv, CallerSip
        <3>3. \A g \in handlers' : g.kind = "confirmed" =>
                  /\ status'[g.sess] \in {"confirmed", "bye"}
                  /\ (g.at \in {"sdp", "load"} \/ g.again) /\ chan'.sdpToMedia # None =>
                        mf'.at = "waitAnswer"
                  /\ g.at = "sdp" /\ g.again => chan'.sdpToMedia = None /\ mf'.at = "waitAnswer"
            BY <1>0, <2>2, <2>4, <2>6, <2>7
        <3>4. \A f, g \in handlers' : f.kind = "confirmed" /\ g.kind = "confirmed" => f = g
            BY <2>4, <2>7
        <3>5. chan'.callConfirmed # None => status'[chan'.callConfirmed] \in {"confirmed", "bye"}
            <4>1. CASE chan'.callConfirmed = chan.callConfirmed
                BY <2>6, <4>1 DEF CallerInv, CallerSip
            <4>2. CASE chan'.callConfirmed = h.sess
                BY <2>2, <2>6, <4>2
            <4> QED BY <2>7, <4>1, <4>2
        <3> QED BY <3>1, <3>2, <3>3, <3>4, <3>5 DEF CallerSip
    <2>8. CASE HandleSdp(h)
        <3>1. /\ h.at = "sdp" /\ chan'.sdpToMedia = h.sess
              /\ chan'.callConfirmed = chan.callConfirmed
            BY <1>0, <2>8 DEF HandleSdp, ChanTypes
        <3>2. PICK g \in Handlers : /\ g.kind = "confirmed" /\ g.sess = h.sess
                                    /\ g.at = "notify" /\ g.again = h.again
                                    /\ handlers' = (handlers \ {h}) \cup {g}
            BY <1>2, <1>4, <2>8, AdvanceEffect DEF HandleSdp
        <3>3. CallerSip'
            BY <2>5, <2>7, <3>1, <3>2
        <3>4. CallerOwn'
            BY <1>0, <2>2, <2>6, <3>1 DEF CallerInv, CallerOwn, InAgent
        <3> QED BY <1>3, <3>3, <3>4 DEF CallerInv
    <2>9. CASE NotifyConfirmed(h) \/ ConfirmedAgain(h)
        <3>1. /\ chan'.sdpToMedia = chan.sdpToMedia
              /\ chan'.callConfirmed \in {chan.callConfirmed, h.sess}
            BY <1>0, <2>9 DEF NotifyConfirmed, ConfirmedAgain, ChanTypes
        <3>2. CallerSip'
            <4>1. CASE handlers' = handlers \ {h}
                BY <2>7, <3>1, <4>1
            <4>2. CASE NotifyConfirmed(h) /\ h.again
                <5>0. Advance(h, "load")
                    BY <4>2 DEF NotifyConfirmed
                <5>1. PICK g \in Handlers : /\ g.kind = "confirmed" /\ g.sess = h.sess
                                            /\ g.at = "load" /\ g.again = h.again
                                            /\ handlers' = (handlers \ {h}) \cup {g}
                    BY <1>2, <1>4, <5>0, AdvanceEffect
                <5> QED BY <2>5, <2>7, <3>1, <4>2, <5>1
            <4>3. CASE ConfirmedAgain(h) /\ Alive(h.sess)
                <5>1. PICK g \in Handlers : /\ g.kind = "confirmed" /\ g.sess = h.sess
                                            /\ g.at = "sdp" /\ ~g.again
                                            /\ handlers' = (handlers \ {h}) \cup {g}
                    BY <1>2, <1>4, <4>3, AgainEffect DEF ConfirmedAgain
                <5>2. h.at = "load"
                    BY <4>3 DEF ConfirmedAgain
                <5> QED BY <2>5, <2>7, <3>1, <5>1, <5>2
            <4> QED BY <2>9, <4>1, <4>2, <4>3 DEF NotifyConfirmed, ConfirmedAgain, Return
        <3>3. CallerOwn'
            BY <1>0, <2>6, <3>1 DEF CallerInv, CallerOwn, InAgent
        <3> QED BY <1>3, <3>2, <3>3 DEF CallerInv
    <2> QED BY <2>6, <2>8, <2>9
<1>5. CASE h.kind # "confirmed"
    <2>1. HandleUnwanted(h) \/ HandleEnded(h) \/ NotifyEnded(h)
        <3>1. ~HandleSdp(h) /\ ~NotifyReceived(h)
            BY <1>1, <1>2, <1>5 DEF HandleSdp, NotifyReceived, Caller, IInv, Begins, RInv, Ended,
               Handlers
        <3> QED BY <1>1, <1>5, <3>1 DEF NotifyConfirmed, ConfirmedAgain
    <2>2. /\ chan'.sdpToMedia = chan.sdpToMedia /\ chan'.callConfirmed = chan.callConfirmed
        BY <1>0, <2>1 DEF HandleUnwanted, HandleEnded, WriteResult, NotifyEnded, ChanTypes
    <2>3. \A g \in handlers' : g.kind = "confirmed" => g \in handlers
        <3>1. CASE HandleUnwanted(h) \/ NotifyEnded(h)
            BY <3>1 DEF HandleUnwanted, NotifyEnded, Return
        <3>2. CASE HandleEnded(h)
            <4>1. PICK g \in Handlers : g.kind = h.kind /\ handlers' = (handlers \ {h}) \cup {g}
                BY <1>2, <3>2, AdvanceEffect DEF HandleEnded, WriteResult
            <4> QED BY <1>5, <4>1
        <3> QED BY <2>1, <3>1, <3>2
    <2>4. \A s \in Sessions : \/ status'[s] = status[s]
                              \/ status[s] = "received" /\ status'[s] = "rejected"
        <3>1. CASE HandleUnwanted(h)
            <4>1. h.sess \in Incoming /\ EndSession(h.sess)
                BY <3>1 DEF HandleUnwanted, IInv, Begins
            <4>2. ~Active(h.sess)
                BY <1>2, <4>1, CallerActive, Constants
            <4> QED BY <1>0, <1>2, <4>1, <4>2, EndSessionEffect DEF Active, Statuses
        <3>2. CASE ~HandleUnwanted(h)
            BY <2>1, <3>2 DEF HandleEnded, WriteResult, NotifyEnded
        <3> QED BY <3>1, <3>2
    <2>5. CallerSip'
        <3>1. ASSUME NEW s \in Sessions, Active(s)' PROVE InCallOf(s)'
            <4>1. Active(s)
                BY <2>4, <3>1 DEF Active
            <4> QED BY <1>0, <4>1 DEF CallerInv, CallerSip, InCallOf
        <3>2. ASSUME NEW s \in Sessions
              PROVE  /\ status'[s] # "answered"
                     /\ status'[s] = "sent" => mf'.at = "waitAnswer" /\ chan'.sdpToMedia = None
            BY <1>0, <2>2, <2>4 DEF CallerInv, CallerSip
        <3>3. \A s \in Sessions : status[s] \in {"confirmed", "bye"} => status'[s] = status[s]
            BY <2>4
        <3>4. \A g \in handlers' : g.kind = "confirmed" =>
                  /\ status'[g.sess] \in {"confirmed", "bye"}
                  /\ (g.at \in {"sdp", "load"} \/ g.again) /\ chan'.sdpToMedia # None =>
                        mf'.at = "waitAnswer"
                  /\ g.at = "sdp" /\ g.again => chan'.sdpToMedia = None /\ mf'.at = "waitAnswer"
            BY <1>0, <2>2, <2>3, <3>3 DEF CallerInv, CallerSip
        <3>5. \A f, g \in handlers' : f.kind = "confirmed" /\ g.kind = "confirmed" => f = g
            BY <2>3 DEF CallerInv, CallerSip
        <3>6. chan.callConfirmed # None => chan.callConfirmed \in Sessions
            BY <1>0 DEF ChanTypes, SessionOrNone
        <3>7. chan'.callConfirmed # None => status'[chan'.callConfirmed] \in {"confirmed", "bye"}
            BY <2>2, <3>3, <3>6 DEF CallerInv, CallerSip
        <3> QED BY <3>1, <3>2, <3>4, <3>5, <3>7 DEF CallerSip
    <2>6. CallerOwn'
        <3>1. chan.sdpToMedia # None => chan.sdpToMedia \in Sessions
            BY <1>0 DEF ChanTypes, SessionOrNone
        <3>2. chan.sdpToMedia # None => status'[chan.sdpToMedia] = status[chan.sdpToMedia]
            BY <2>4, <3>1 DEF CallerInv, CallerOwn
        <3> QED BY <1>0, <2>2, <3>2 DEF CallerInv, CallerOwn, InAgent
    <2> QED BY <1>3, <2>5, <2>6 DEF CallerInv
<1> QED BY <1>4, <1>5

\* The answer reaches the party that sent the INVITE once, and the call ends
\* when everything about its beginning is through.
LEMMA CallerStackStep ==
    ASSUME IInv, Caller, CallerInv, NEW s \in Sessions, Stack(s)
    PROVE  CallerInv'
<1>0. /\ chan \in ChanTypes /\ handlers \subseteq Handlers
      /\ \A h \in Handlers : h.sess \in Sessions
      /\ status \in [Sessions -> Statuses] /\ cancels \subseteq Incoming
      /\ UNCHANGED <<ua, cr, chan, mf>>
      /\ chan.callConfirmed # None => chan.callConfirmed \in Sessions
      /\ chan.sdpToMedia # None => chan.sdpToMedia \in Sessions
    BY StackEffect DEF IInv, TypeOK, Handlers, Statuses, ChanTypes, SessionOrNone
<1>1. CallerMedia'
    BY <1>0 DEF CallerInv, CallerMedia
<1>2. CASE StackTurns(s) /\ status[s] = "sent"
    <2>1. /\ Active(s) /\ mf.at = "waitAnswer" /\ chan.sdpToMedia = None
        BY <1>2 DEF Active, CallerInv, CallerSip
    <2>2. \A r \in Sessions : Active(r) => r = s
        BY <2>1, CallerActive
    <2>3. (\A h \in handlers : h.kind # "confirmed") /\ chan.callConfirmed = None
        BY <1>0, <1>2, <2>2 DEF CallerInv, CallerSip, Active
    <2>4. /\ status' = [status EXCEPT ![s] = "confirmed"]
          /\ HandlerStarts("confirmed", s, "sdp", env.AuthChallenge)
        BY <1>2 DEF StackTurns
    <2>5. PICK h \in Handlers : /\ h.kind = "confirmed" /\ h.sess = s /\ h.at = "sdp"
                                /\ handlers' = handlers \cup {h}
        BY <2>4 DEF HandlerStarts
    <2>6. status'[s] = "confirmed" /\ \A r \in Sessions : r # s => status'[r] = status[r]
        BY <1>0, <2>4
    <2>7. CallerSip'
        <3>1. ASSUME NEW r \in Sessions, Active(r)' PROVE InCallOf(r)'
            <4>1. Active(r)
                BY <2>1, <2>6, <3>1 DEF Active
            <4> QED BY <1>0, <4>1 DEF CallerInv, CallerSip, InCallOf
        <3>2. \A r \in Sessions : status'[r] \notin {"answered", "sent"}
            BY <2>2, <2>6 DEF CallerInv, CallerSip, Active
        <3>3. \A g \in handlers' : g.kind = "confirmed" => g = h
            BY <2>3, <2>5
        <3> QED BY <1>0, <2>1, <2>3, <2>5, <2>6, <3>1, <3>2, <3>3 DEF CallerSip
    <2>8. CallerOwn'
        BY <1>0, <2>1 DEF CallerInv, CallerOwn, InAgent
    <2> QED BY <1>1, <2>7, <2>8 DEF CallerInv
<1>3. CASE StackTurns(s) /\ status[s] # "sent"
    <2>1. /\ status[s] = "new" /\ status' = [status EXCEPT ![s] = "received"]
          /\ HandlerStarts("received", s, "sdp", FALSE)
        BY <1>3 DEF StackTurns, CallerInv, CallerSip
    <2>2. PICK h \in Handlers : h.kind = "received" /\ handlers' = handlers \cup {h}
        BY <2>1 DEF HandlerStarts
    <2>3. status'[s] = "received" /\ \A r \in Sessions : r # s => status'[r] = status[r]
        BY <1>0, <2>1
    <2>4. CallerSip'
        <3>1. ASSUME NEW r \in Sessions, Active(r)' PROVE InCallOf(r)'
            <4>1. Active(r)
                BY <2>3, <3>1 DEF Active
            <4> QED BY <1>0, <4>1 DEF CallerInv, CallerSip, InCallOf
        <3>2. ASSUME NEW r \in Sessions
              PROVE  /\ status'[r] # "answered"
                     /\ status'[r] = "sent" => mf'.at = "waitAnswer" /\ chan'.sdpToMedia = None
            BY <1>0, <2>3 DEF CallerInv, CallerSip
        <3>3. \A r \in Sessions : status[r] \in {"confirmed", "bye"} => status'[r] = status[r]
            BY <2>1, <2>3
        <3>4. \A g \in handlers' : g.kind = "confirmed" => g \in handlers
            BY <2>2
        <3>5. \A g \in handlers' : g.kind = "confirmed" =>
                  /\ status'[g.sess] \in {"confirmed", "bye"}
                  /\ (g.at \in {"sdp", "load"} \/ g.again) /\ chan'.sdpToMedia # None =>
                        mf'.at = "waitAnswer"
                  /\ g.at = "sdp" /\ g.again => chan'.sdpToMedia = None /\ mf'.at = "waitAnswer"
            BY <1>0, <3>3, <3>4 DEF CallerInv, CallerSip
        <3>6. \A f, g \in handlers' : f.kind = "confirmed" /\ g.kind = "confirmed" => f = g
            BY <3>4 DEF CallerInv, CallerSip
        <3>7. chan'.callConfirmed # None => status'[chan'.callConfirmed] \in {"confirmed", "bye"}
            BY <1>0, <3>3 DEF CallerInv, CallerSip
        <3> QED BY <3>1, <3>2, <3>5, <3>6, <3>7 DEF CallerSip
    <2>5. CallerOwn'
        <3>1. chan.sdpToMedia # None => status'[chan.sdpToMedia] = status[chan.sdpToMedia]
            BY <1>0, <2>1, <2>3 DEF CallerInv, CallerOwn
        <3> QED BY <1>0, <3>1 DEF CallerInv, CallerOwn, InAgent
    <2> QED BY <1>1, <2>4, <2>5 DEF CallerInv
<1>4. CASE StackEnds(s)
    <2>1. status' = [status EXCEPT ![s] = "over"] /\ status[s] \notin {"new", "over"}
        BY <1>4 DEF StackEnds, Ends
    <2>2. PICK h \in Handlers : h.kind = "ended" /\ handlers' = handlers \cup {h}
        BY <1>4 DEF StackEnds, Ends
    <2>3. status'[s] = "over" /\ \A r \in Sessions : r # s => status'[r] = status[r]
        BY <1>0, <2>1
    <2>4. /\ \A g \in handlers : g.kind = "confirmed" => g.sess # s
          /\ chan.callConfirmed # s
        <3>1. CASE status[s] = "sent"
            <4>1. status[s] \notin {"confirmed", "bye"} /\ s # None
                BY <3>1, Constants
            <4> QED BY <1>0, <4>1 DEF CallerInv, CallerSip
        <3>2. CASE status[s] \in {"confirmed", "bye"} /\ Quiet
            <4>1. chan.callConfirmed = None /\ ~(mf.at = "waitAnswer" /\ chan.sdpToMedia # None)
                BY <3>2 DEF Quiet, Caller
            <4>2. \A g \in handlers : g.kind = "confirmed" => g.at = "sdp" /\ chan.sdpToMedia # None
                BY <3>2 DEF Quiet, Caller, Blocked
            <4>3. \A g \in handlers : g.kind # "confirmed"
                BY <4>1, <4>2 DEF CallerInv, CallerSip
            <4> QED BY <4>1, <4>3, Constants
        <3>3. CASE s \in cancels
            <4>1. ~Active(s)
                BY <1>0, <3>3, CallerActive, Constants
            <4>2. status[s] \notin {"confirmed", "bye"} /\ s # None
                BY <4>1, Constants DEF Active
            <4> QED BY <1>0, <4>2 DEF CallerInv, CallerSip
        <3>4. status[s] # "answered"
            BY DEF CallerInv, CallerSip
        <3> QED BY <1>4, <3>1, <3>2, <3>3, <3>4 DEF StackEnds
    <2>5. CallerSip'
        <3>1. ASSUME NEW r \in Sessions, Active(r)' PROVE InCallOf(r)'
            <4>1. Active(r)
                BY <2>3, <3>1 DEF Active
            <4> QED BY <1>0, <4>1 DEF CallerInv, CallerSip, InCallOf
        <3>2. ASSUME NEW r \in Sessions
              PROVE  /\ status'[r] # "answered"
                     /\ status'[r] = "sent" => mf'.at = "waitAnswer" /\ chan'.sdpToMedia = None
            BY <1>0, <2>3 DEF CallerInv, CallerSip
        <3>4. \A g \in handlers' : g.kind = "confirmed" => g \in handlers
            BY <2>2
        <3>5. \A g \in handlers' : g.kind = "confirmed" =>
                  /\ status'[g.sess] \in {"confirmed", "bye"}
                  /\ (g.at \in {"sdp", "load"} \/ g.again) /\ chan'.sdpToMedia # None =>
                        mf'.at = "waitAnswer"
                  /\ g.at = "sdp" /\ g.again => chan'.sdpToMedia = None /\ mf'.at = "waitAnswer"
            BY <1>0, <2>3, <2>4, <3>4 DEF CallerInv, CallerSip
        <3>6. \A f, g \in handlers' : f.kind = "confirmed" /\ g.kind = "confirmed" => f = g
            BY <3>4 DEF CallerInv, CallerSip
        <3>7. chan'.callConfirmed # None => status'[chan'.callConfirmed] \in {"confirmed", "bye"}
            BY <1>0, <2>3, <2>4 DEF CallerInv, CallerSip
        <3> QED BY <3>1, <3>2, <3>5, <3>6, <3>7 DEF CallerSip
    <2>6. CallerOwn'
        <3>1. chan.sdpToMedia # None => status'[chan.sdpToMedia] \in {"confirmed", "bye", "over"}
            BY <1>0, <2>3 DEF CallerInv, CallerOwn
        <3> QED BY <1>0, <3>1 DEF CallerInv, CallerOwn, InAgent
    <2> QED BY <1>1, <2>5, <2>6 DEF CallerInv
<1>5. CASE StackCancels(s)
    BY <1>0, <1>5, CallerKept DEF StackCancels
<1> QED BY <1>2, <1>3, <1>4, <1>5, StackEffect DEF IInv

\* MediaFunc makes its offer, and takes the answer to it.
LEMMA CallerMediaStep ==
    ASSUME IInv, Caller, CallerInv, Media
    PROVE  CallerInv'
<1>0. /\ chan \in ChanTypes /\ mf \in MediaTypes /\ OneMedia
      /\ UNCHANGED <<ua, cr, status, handlers>>
      /\ \A h \in handlers : h.sess \in Sessions
    BY DEF IInv, TypeOK, Media, sipVars, Handlers
<1>1. chan'.callConfirmed = chan.callConfirmed
    BY <1>0 DEF Media, MediaGetsSdp, MediaGathered, MediaSendsSdp, MediaCancelled,
       MediaFails, MediaFailsTo, MediaExits, ChanTypes
<1>2. mf.at # "none" /\ ua.mediaCancel /\ ~MediaFails
    BY <1>0 DEF Media, MediaGetsSdp, MediaGathered, MediaSendsSdp, MediaCancelled,
       MediaFails, MediaFailsTo, MediaExits, OneMedia, Caller
<1>3. mf.call = cr.CallIndex /\ mf.remoteSdp \in {None, cr.CallIndex}
    BY <1>2 DEF CallerInv, CallerMedia
<1>4. ASSUME chan'.sdpToMedia \in {chan.sdpToMedia, None},
             \A s \in Sessions : status[s] = "sent" =>
                 mf'.at = "waitAnswer" /\ chan'.sdpToMedia = None,
             \A h \in handlers : h.kind = "confirmed" =>
                 /\ (h.at \in {"sdp", "load"} \/ h.again) /\ chan'.sdpToMedia # None =>
                       mf'.at = "waitAnswer"
                 /\ h.at = "sdp" /\ h.again => chan'.sdpToMedia = None /\ mf'.at = "waitAnswer"
      PROVE  CallerSip' /\ CallerOwn'
    <2>1. CallerSip'
        BY <1>0, <1>1, <1>4 DEF CallerInv, CallerSip, Active, InCallOf
    <2>2. CallerOwn'
        BY <1>0, <1>4 DEF CallerInv, CallerOwn, InAgent
    <2> QED BY <2>1, <2>2
<1>5. CASE MediaGetsSdp
    <2>1. /\ mf.at = "waitAnswer" /\ mf'.at = "run" /\ mf'.call = mf.call
          /\ mf'.remoteSdp = chan.sdpToMedia /\ mf'.cancelled = mf.cancelled
          /\ chan.sdpToMedia # None /\ chan'.sdpToMedia = None
          /\ chan'.sdpFromMedia = chan.sdpFromMedia /\ chan'.mediaFuncEnd = chan.mediaFuncEnd
        BY <1>0, <1>5 DEF MediaGetsSdp, OneMedia, ChanTypes, MediaTypes, Caller
    <2>2. chan.sdpToMedia = cr.CallIndex /\ status[cr.CallIndex] # "new"
        BY <2>1 DEF CallerInv, CallerOwn
    <2>3. chan.sdpFromMedia = None
        BY <2>2 DEF IInv, UacOffer, Caller
    <2>4. CallerMedia'
        BY <1>0, <1>3, <2>1, <2>2, <2>3 DEF CallerInv, CallerMedia
    <2>5. \A s \in Sessions : status[s] # "sent"
        BY <2>1 DEF CallerInv, CallerSip
    <2>6. \A h \in handlers : h.kind = "confirmed" => ~(h.at = "sdp" /\ h.again)
        BY <2>1 DEF CallerInv, CallerSip
    <2>7. CallerSip' /\ CallerOwn'
        BY <1>4, <2>1, <2>5, <2>6
    <2> QED BY <2>4, <2>7 DEF CallerInv
<1>6. CASE MediaGathered \/ MediaSendsSdp
    <2>1. /\ mf.at \in {"gather", "sendSdp"} /\ mf'.at # "none"
          /\ mf'.at # "exit" /\ mf'.call = mf.call /\ mf'.remoteSdp = mf.remoteSdp
          /\ mf'.cancelled = mf.cancelled /\ chan'.sdpToMedia = chan.sdpToMedia
          /\ chan'.mediaFuncEnd = chan.mediaFuncEnd
          /\ \/ mf'.at = "waitAnswer"
             \/ chan'.sdpFromMedia = chan.sdpFromMedia
        BY <1>0, <1>6 DEF MediaGathered, MediaSendsSdp, ChanTypes, MediaTypes, Caller
    <2>2. CallerMedia'
        BY <1>0, <1>3, <2>1 DEF CallerInv, CallerMedia
    <2>3. \A s \in Sessions : status[s] # "sent"
        BY <2>1 DEF CallerInv, CallerSip
    <2>4. \A h \in handlers : h.kind = "confirmed" =>
              /\ ~((h.at \in {"sdp", "load"} \/ h.again) /\ chan.sdpToMedia # None)
              /\ ~(h.at = "sdp" /\ h.again)
        BY <2>1 DEF CallerInv, CallerSip
    <2>5. CallerSip' /\ CallerOwn'
        BY <1>4, <2>1, <2>3, <2>4
    <2> QED BY <2>2, <2>5 DEF CallerInv
<1>7. CASE MediaCancelled \/ MediaExits
    <2>1. ua.pc = "waitMedia"
        BY <1>2, <1>7 DEF MediaCancelled, MediaExits, CallerInv, CallerMedia, Caller
    <2>2. chan.sdpFromMedia = None
        BY <2>1 DEF IInv, UacOffer, Caller
    <2>3. /\ mf'.at \in {"exit", "none"} /\ mf'.cancelled = mf.cancelled
          /\ chan'.sdpFromMedia = chan.sdpFromMedia /\ chan'.sdpToMedia = chan.sdpToMedia
          /\ \/ mf'.at = "exit" /\ mf'.call = mf.call /\ mf'.remoteSdp = mf.remoteSdp
             \/ mf'.at = "none" /\ mf'.remoteSdp = None
        BY <1>0, <1>7 DEF MediaCancelled, MediaExits, ChanTypes, MediaTypes
    <2>4. CallerMedia'
        BY <1>0, <1>3, <2>1, <2>2, <2>3 DEF CallerInv, CallerMedia
    <2>5. \A s \in Sessions : ~Active(s)
        BY <2>1 DEF CallerInv, CallerSip, InCallOf
    <2>6. \A s \in Sessions : status[s] # "sent"
        BY <2>5 DEF Active
    <2>7. \A h \in handlers : h.kind # "confirmed"
        BY <1>0, <2>5 DEF CallerInv, CallerSip, Active
    <2>8. CallerSip' /\ CallerOwn'
        BY <1>4, <2>3, <2>6, <2>7
    <2> QED BY <2>4, <2>8 DEF CallerInv
<1> QED BY <1>2, <1>5, <1>6, <1>7 DEF Media

-----------------------------------------------------------------------------
(***************************************************************************)
(* Both.                                                                   *)
(***************************************************************************)

\* A step that changes nothing the callee's order is about.
LEMMA CalleeKept ==
    ASSUME CalleeInv, UNCHANGED <<mf, status, handlers, answered>>,
           ua'.pc = ua.pc, ua'.mediaCancel = ua.mediaCancel, ua'.timer = ua.timer,
           ua'.currentSession = ua.currentSession,
           chan'.sdpToMedia = chan.sdpToMedia, chan'.sdpFromMedia = chan.sdpFromMedia,
           chan'.callConfirmed = chan.callConfirmed, chan'.callReceived = chan.callReceived
    PROVE  CalleeInv'
<1>1. (Ending' <=> Ending) /\ \A s \in Sessions : PastSdp(s)' <=> PastSdp(s)
    BY DEF Ending, PastSdp
<1>2. CalleeOffer'
    BY <1>1 DEF CalleeInv, CalleeOffer, Blocked
<1>3. CalleeAnswer'
    BY DEF CalleeInv, CalleeAnswer
<1>4. CalleeTimer'
    BY DEF CalleeInv, CalleeTimer
<1> QED BY <1>2, <1>3, <1>4 DEF CalleeInv

\* Reports and commands are no part of the order.
LEMMA OthersKeepOrder ==
    ASSUME IInv, Reporter \/ MainProgram \/ UNCHANGED vars
    PROVE  /\ UNCHANGED <<cr, mf, status, handlers, answered>>
           /\ ua'.pc = ua.pc /\ ua'.mediaCancel = ua.mediaCancel /\ ua'.timer = ua.timer
           /\ ua'.currentSession = ua.currentSession
           /\ chan'.sdpToMedia = chan.sdpToMedia /\ chan'.sdpFromMedia = chan.sdpFromMedia
           /\ chan'.callConfirmed = chan.callConfirmed /\ chan'.callReceived = chan.callReceived
           /\ chan'.mediaFuncEnd = chan.mediaFuncEnd
<1>0. ua \in UATypes /\ chan \in ChanTypes
    BY DEF IInv, TypeOK
<1>1. CASE Reporter
    <2>1. /\ UNCHANGED <<cr, chan, mf, status, handlers, answered>>
          /\ ua' = [ua EXCEPT !.reporter = FALSE, !.hangupByMe = FALSE]
        BY <1>1 DEF Reporter, sipVars
    <2> QED BY <1>0, <2>1 DEF UATypes
<1>2. CASE MainProgram
    <2>1. UNCHANGED <<ua, cr, mf, status, handlers, answered>>
        BY <1>2 DEF MainProgram, sipVars, ghostVars
    <2>2. chan' = chan \/ chan' = [chan EXCEPT !.startCall = started + 1]
        BY <1>2 DEF MainProgram, GiveCall, TakeReport, CancelMain, chanVars
    <2> QED BY <1>0, <2>1, <2>2 DEF ChanTypes
<1>3. CASE UNCHANGED vars
    BY <1>3 DEF vars, chanVars, sipVars, ghostVars
<1>4. Reporter \/ MainProgram \/ UNCHANGED vars
    OBVIOUS
<1> QED BY <1>1, <1>2, <1>3, <1>4

\* main is stopped for good.
LEMMA StaysStopped ==
    ASSUME Next \/ UNCHANGED vars
    PROVE  env' = env /\ (mainDone => mainDone')
BY DEF Next, Loop, Reporter, Media, HandlerStep, Stack, MainProgram, GiveCall, TakeReport,
   CancelMain, Done, vars, mainVars

\* Nothing has happened yet.
LEMMA InitOrder ==
    ASSUME Init
    PROVE  CallerInv /\ CalleeInv
<1>1. /\ ua.pc = "starting" /\ ~ua.mediaCancel /\ ua.timer = None /\ ua.currentSession = None
      /\ chan.sdpToMedia = None /\ chan.sdpFromMedia = None /\ chan.callConfirmed = None
      /\ chan.callReceived = None /\ ~chan.mediaFuncEnd
      /\ mf.at = "none" /\ mf.remoteSdp = None /\ handlers = {}
      /\ \A s \in Sessions : status[s] = "new" /\ answered[s] = None
    BY Zenon DEF Init
<1>2. CallerInv
    BY <1>1 DEF CallerInv, CallerMedia, CallerSip, CallerOwn, Active
<1>3. CalleeInv
    <2>1. \A s \in Sessions : ~PastSdp(s)
        BY <1>1, Constants DEF PastSdp
    <2> QED BY <1>1, <2>1 DEF CalleeInv, CalleeOffer, CalleeAnswer, CalleeTimer, Ending
<1> QED BY <1>2, <1>3

\* Every step keeps the order.
LEMMA NextOrder ==
    ASSUME IInv, RInv, CallerOrder, CalleeOrder, [Next]_vars
    PROVE  CallerOrder' /\ CalleeOrder'
<1>1. \/ Loop \/ Media \/ HandlerStep \/ \E s \in Sessions : Stack(s)
      \/ Reporter \/ MainProgram \/ UNCHANGED vars
    BY DEF Next, Done
<1>2. env' = env /\ (mainDone => mainDone')
    BY StaysStopped
<1>3. ASSUME Caller' PROVE CallerInv'
    <2>1. Caller /\ CallerInv
        BY <1>2, <1>3 DEF Caller, CallerOrder
    <2>2. CASE Loop
        BY <2>1, <2>2, CallerLoopStep
    <2>3. CASE Media
        BY <2>1, <2>3, CallerMediaStep
    <2>4. CASE HandlerStep
        BY <2>1, <2>4, CallerHandlerStep
    <2>5. CASE \E s \in Sessions : Stack(s)
        BY <2>1, <2>5, CallerStackStep
    <2>6. CASE Reporter \/ MainProgram \/ UNCHANGED vars
        <3>1. /\ UNCHANGED <<cr, mf, status, handlers, answered>>
              /\ ua'.pc = ua.pc /\ ua'.mediaCancel = ua.mediaCancel /\ ua'.timer = ua.timer
              /\ chan'.sdpToMedia = chan.sdpToMedia /\ chan'.sdpFromMedia = chan.sdpFromMedia
              /\ chan'.callConfirmed = chan.callConfirmed
              /\ chan'.mediaFuncEnd = chan.mediaFuncEnd
            BY <2>6, OthersKeepOrder
        <3> QED BY <2>1, <3>1, CallerKept
    <2> QED BY <1>1, <2>2, <2>3, <2>4, <2>5, <2>6
<1>4. ASSUME Callee' PROVE CalleeInv'
    <2>1. Callee /\ CalleeInv
        BY <1>2, <1>4 DEF Callee, CalleeOrder
    <2>2. CASE Loop
        <3>1. CalleeOffer' /\ CalleeAnswer' /\ CalleeTimer'
            BY <2>1, <2>2, CalleeLoopOffer, CalleeLoopAnswer, CalleeLoopTimer
        <3> QED BY <3>1 DEF CalleeInv
    <2>3. CASE Media
        BY <2>1, <2>3, CalleeMediaStep
    <2>4. CASE HandlerStep
        BY <2>1, <2>4, CalleeHandlerStep
    <2>5. CASE \E s \in Sessions : Stack(s)
        BY <2>1, <2>5, CalleeStackStep
    <2>6. CASE Reporter \/ MainProgram \/ UNCHANGED vars
        <3>1. /\ UNCHANGED <<cr, mf, status, handlers, answered>>
              /\ ua'.pc = ua.pc /\ ua'.mediaCancel = ua.mediaCancel /\ ua'.timer = ua.timer
              /\ ua'.currentSession = ua.currentSession
              /\ chan'.sdpToMedia = chan.sdpToMedia /\ chan'.sdpFromMedia = chan.sdpFromMedia
              /\ chan'.callConfirmed = chan.callConfirmed
              /\ chan'.callReceived = chan.callReceived
            BY <2>6, OthersKeepOrder
        <3> QED BY <2>1, <3>1, CalleeKept
    <2> QED BY <1>1, <2>2, <2>3, <2>4, <2>5, <2>6
<1> QED BY <1>3, <1>4 DEF CallerOrder, CalleeOrder

\* The order lasts.
LEMMA OrderInvariance == Spec => [](IInv /\ RInv /\ CallerOrder /\ CalleeOrder)
<1>1. Init => CallerOrder /\ CalleeOrder
    BY InitOrder DEF CallerOrder, CalleeOrder
<1>2. /\ IInv /\ RInv /\ CallerOrder /\ CalleeOrder
      /\ [Next]_vars
      => (CallerOrder /\ CalleeOrder)'
    BY NextOrder
<1> QED BY <1>1, <1>2, InitInvariant, InitResults, NextInvariant, NextResults, PTL DEF Spec

-----------------------------------------------------------------------------
(***************************************************************************)
(* A callee declines the session it holds only when it leaves.             *)
(***************************************************************************)

\* Only incoming sessions are declined, and when ends do not race no timer is
\* left that could decline the next call.
Declined ==
    /\ \A s \in Sessions : status[s] = "rejected" => s \in Incoming
    /\ Callee /\ ua.currentSession # None /\ status[ua.currentSession] = "rejected" =>
          ua.pc \in {"leave", "join", "exited"}

\* A session is declined when its INVITE has come and is not answered.
LEMMA DeclinedWas ==
    ASSUME IInv, [Next]_vars, NEW s \in Sessions, status'[s] = "rejected"
    PROVE  status[s] \in {"received", "rejected"}
<1>0. TypeOK /\ status \in [Sessions -> Statuses]
    BY DEF IInv, TypeOK, Statuses
<1>1. ASSUME NEW r \in Sessions, EndSession(r)
      PROVE  status[s] \in {"received", "rejected"}
    BY <1>0, <1>1, EndSessionEffect
<1>2. CASE Loop
    BY <1>0, <1>1, <1>2, LoopSip, Constants
<1>3. CASE HandlerStep
    <2>1. \/ UNCHANGED status
          \/ \E r \in Sessions : EndSession(r)
        BY <1>3 DEF HandlerStep, HandleSdp, HandleUnwanted, NotifyReceived, NotifyConfirmed,
           ConfirmedAgain, HandleEnded, WriteResult, NotifyEnded, IInv, TypeOK, Handlers
    <2> QED BY <1>1, <2>1
<1>4. ASSUME NEW r \in Sessions, Stack(r)
      PROVE  status[s] \in {"received", "rejected"}
    <2>1. CASE StackTurns(r)
        BY <1>0, <2>1, TurnsOnly
    <2>2. CASE StackEnds(r)
        BY <1>0, <2>2, EndsEffect
    <2>3. CASE StackCancels(r)
        BY <2>3 DEF StackCancels
    <2> QED BY <1>0, <1>4, <2>1, <2>2, <2>3, StackEffect
<1>5. CASE Media
    BY <1>5 DEF Media, sipVars
<1>6. CASE Reporter \/ MainProgram \/ UNCHANGED vars
    BY <1>6, OthersKeepOrder
<1> QED BY <1>2, <1>3, <1>4, <1>5, <1>6 DEF Next, Done

\* Of a callee, only the loop declines a session.
LEMMA LoopDeclines ==
    ASSUME IInv, [Next]_vars, ~Loop, Role = "uas", NEW s \in Sessions, status'[s] = "rejected"
    PROVE  status[s] = "rejected"
<1>0. TypeOK /\ status \in [Sessions -> Statuses]
    BY DEF IInv, TypeOK, Statuses
<1>1. CASE HandlerStep
    <2>1. ASSUME NEW h \in handlers, HandleUnwanted(h)
          PROVE  FALSE
        BY <2>1 DEF HandleUnwanted
    <2>2. UNCHANGED status
        BY <1>1, <2>1 DEF HandlerStep, HandleSdp, NotifyReceived, NotifyConfirmed,
           ConfirmedAgain, HandleEnded, WriteResult, NotifyEnded
    <2> QED BY <2>2
<1>2. ASSUME NEW r \in Sessions, Stack(r)
      PROVE  status[s] = "rejected"
    <2>1. CASE StackTurns(r)
        BY <1>0, <2>1, TurnsOnly
    <2>2. CASE StackEnds(r)
        BY <1>0, <2>2, EndsEffect
    <2>3. CASE StackCancels(r)
        BY <2>3 DEF StackCancels
    <2> QED BY <1>0, <1>2, <2>1, <2>2, <2>3, StackEffect
<1>3. CASE Media
    BY <1>3 DEF Media, sipVars
<1>4. CASE Reporter \/ MainProgram \/ UNCHANGED vars
    BY <1>4, OthersKeepOrder
<1> QED BY <1>1, <1>2, <1>3, <1>4 DEF Next, Done

\* The loop of a callee leaves when it declines the session it holds.
LEMMA LoopDeclined ==
    ASSUME IInv, RInv, Callee, CalleeInv, Declined, [Next]_vars, Loop,
           ua'.currentSession # None, status'[ua'.currentSession] = "rejected"
    PROVE  ua'.pc \in {"leave", "join", "exited"}
<1>0. /\ TypeOK /\ ua \in UATypes /\ status \in [Sessions -> Statuses]
      /\ ua.currentSession # None => ua.currentSession \in Sessions
      /\ Control
    BY DEF IInv, TypeOK, UATypes, SessionOrNone, Statuses
<1>1. ~InviteReturns
    BY <1>0 DEF InviteReturns, Callee, Control
<1>2. ~AcceptCall
    BY CalleeAccepts
<1>3. ua'.currentSession = ua.currentSession /\ ua.currentSession \in Sessions
    BY <1>0, <1>1, <1>2, LoopPlaces
<1>4. CASE ua.pc \in {"leave", "join", "exited"}
    BY <1>0, <1>4, RejectBusyEffect, AcceptCallEffect, TimerFiresEffect, LeaveEffect DEF Loop,
       Registered, StartFails, TakeCall, SendInvite, InviteError, InviteReturns, SendAnswer,
       Confirmed, ConfirmedWith, IgnoreTerminated, Terminated, TerminatedThen, MediaEnded,
       MediaEndedLeaving, WrapUp, LoopReports, MediaLeft, Exit, Goto, UATypes
<1>5. CASE ua.pc \notin {"leave", "join", "exited"}
    <2>1. status[ua.currentSession] = "received"
        BY <1>3, <1>5, DeclinedWas, <1>0 DEF Declined
    <2>2. ~TimerFires
        BY <1>0, <1>3, <2>1 DEF TimerFires, CalleeInv, CalleeTimer
    <2>3. Leave
        <3>1. ASSUME RejectBusy, EndSession(chan.callReceived), chan.callReceived \in Sessions
              PROVE  FALSE
            BY <1>0, <1>3, <2>1, <3>1, RejectBusyEffect, EndSessionEffect
        <3> QED BY <1>0, <1>3, <2>1, <2>2, <3>1, LoopSip DEF Callee
    <2> QED BY <1>0, <2>3, LeaveEffect DEF UATypes
<1> QED BY <1>4, <1>5

LEMMA NextDeclined ==
    ASSUME IInv, RInv, CalleeOrder, Declined, [Next]_vars
    PROVE  Declined'
<1>1. \A s \in Sessions : status'[s] = "rejected" => s \in Incoming
    BY DeclinedWas DEF Declined, IInv, Begins
<1>2. ASSUME Callee', ua'.currentSession # None, status'[ua'.currentSession] = "rejected"
      PROVE  ua'.pc \in {"leave", "join", "exited"}
    <2>0. Callee /\ CalleeInv /\ ua \in UATypes
        BY <1>2, StaysStopped DEF Callee, CalleeOrder, IInv, TypeOK
    <2>1. CASE Loop
        BY <1>2, <2>0, <2>1, LoopDeclined
    <2>2. CASE ~Loop
        <3>1. ua'.pc = ua.pc /\ ua'.currentSession = ua.currentSession
            BY <2>2, OthersKeepOrder DEF Next, Done, Media, HandlerStep, Stack
        <3>2. ua.currentSession \in Sessions
            BY <1>2, <2>0, <3>1 DEF UATypes, SessionOrNone
        <3>3. status[ua.currentSession] = "rejected"
            BY <1>2, <2>0, <2>2, <3>1, <3>2, LoopDeclines DEF Callee
        <3> QED BY <2>0, <3>1, <3>2, <3>3, <1>2 DEF Declined
    <2> QED BY <2>1, <2>2
<1> QED BY <1>1, <1>2 DEF Declined

-----------------------------------------------------------------------------
(***************************************************************************)
(* The results.                                                            *)
(***************************************************************************)

\* No session whose end is not on its way is held: at a caller, and at a
\* callee whose callers do not CANCEL, the loop hears of the end of the session
\* it holds; and when ends do not race, it holds none that it declined.
THEOREM EndIsHeard == Spec => [](Role = "uac" \/ ~env.Cancels => NoZombie)
<1>1. Init => Declined
    <2>1. ASSUME Init PROVE ua.currentSession = None /\ \A s \in Sessions : status[s] = "new"
        BY <2>1, Zenon DEF Init
    <2> QED BY <2>1 DEF Declined
<1>2. IInv /\ RInv /\ CalleeOrder /\ Declined /\ [Next]_vars => Declined'
    BY NextDeclined
<1>3. ASSUME IInv, RInv, Declined, Role = "uac" \/ ~env.Cancels
      PROVE  NoZombie
    <2> SUFFICES ASSUME ua.currentSession # None, Gone(ua.currentSession),
                        ua.pc \notin {"leave", "join", "exited"}
                 PROVE  EndOf(ua.currentSession)
        BY DEF NoZombie, EndOf
    <2>1. CASE status[ua.currentSession] = "over"
        BY <1>3, <2>1 DEF RInv, Held, OverHeard
    <2>2. CASE status[ua.currentSession] = "rejected" /\ ~env.RacingEnds
        <3>1. ua.currentSession \in Sessions
            BY <1>3 DEF IInv, TypeOK, UATypes, SessionOrNone
        <3>2. Role # "uac"
            BY <1>3, <2>2, <3>1, CurrentIsOutgoing, Constants DEF Declined
        <3>3. Callee
            BY <1>3, <2>2, <3>2, Constants DEF Callee
        <3> QED BY <1>3, <2>2, <3>3 DEF Declined
    <2> QED BY <2>1, <2>2 DEF Gone
<1>4. IInv /\ RInv /\ Declined => (Role = "uac" \/ ~env.Cancels => NoZombie)
    BY <1>3
<1> QED BY <1>1, <1>2, <1>4, OrderInvariance, PTL DEF Spec

\* MediaFunc applies the SDP of its own call, and the duration timer is the
\* one of the current call, when the end of a call does not race with its
\* other events: at a caller whose MediaFunc does not fail (its SDP would be
\* left for the next call), and at a callee whose callers do not CANCEL (the
\* call would end before its confirmation is heard of).
THEOREM SdpAndTimerAreOfThisCall ==
    Spec => []((Role = "uac" /\ ~env.MediaMayFail) \/ (Role = "uas" /\ ~env.Cancels)
                   => NothingStale)
<1>1. ASSUME IInv, CallerOrder, Role = "uac", ~env.MediaMayFail
      PROVE  NothingStale
    <2>1. CASE env.RacingEnds \/ mainDone
        BY <2>1 DEF NothingStale, OwnSdp, SdpOfThisCall, OwnTimer
    <2>2. CASE ~env.RacingEnds /\ ~mainDone
        <3>1. CallerInv
            BY <1>1, <2>2 DEF CallerOrder, Caller
        <3>2. mf.remoteSdp # None => mf.remoteSdp = mf.call
            BY <3>1 DEF CallerInv, CallerMedia
        <3>3. ua.timer # None /\ ua.currentSession # None => ua.timer = ua.currentSession
            BY <1>1, <3>1 DEF CallerInv, CallerOwn, IInv, UacCalls
        <3> QED BY <3>2, <3>3 DEF NothingStale, OwnSdp, SdpOfThisCall, OwnTimer
    <2> QED BY <2>1, <2>2
<1>2. ASSUME IInv, CalleeOrder, Role = "uas", ~env.Cancels
      PROVE  NothingStale
    <2>1. CASE env.RacingEnds
        BY <2>1 DEF NothingStale, OwnSdp, OwnTimer
    <2>2. CASE ~env.RacingEnds
        <3>1. CalleeInv
            BY <1>2, <2>2 DEF CalleeOrder, Callee
        <3>2. mf.remoteSdp # None => mf.remoteSdp = mf.call
            BY <3>1 DEF CalleeInv, CalleeOffer
        <3>3. ua.timer # None /\ ua.currentSession # None => ua.timer = ua.currentSession
            BY <1>2, <3>1 DEF CalleeInv, CalleeTimer, IInv, Control
        <3> QED BY <3>2, <3>3 DEF NothingStale, OwnSdp, SdpOfThisCall, OwnTimer
    <2> QED BY <2>1, <2>2
<1>3. IInv /\ CallerOrder /\ CalleeOrder =>
          ((Role = "uac" /\ ~env.MediaMayFail) \/ (Role = "uas" /\ ~env.Cancels) => NothingStale)
    BY <1>1, <1>2
<1> QED BY <1>3, OrderInvariance, PTL

\* A callee whose callers do not CANCEL answers every session with an answer
\* to that session's own offer, and a caller that finds it busy with none,
\* when ends do not race.
THEOREM AnswerIsItsOwn == Spec => [](Role = "uas" /\ ~env.Cancels => OwnAnswer)
<1>1. CalleeOrder => (Role = "uas" /\ ~env.Cancels => OwnAnswer)
    BY DEF CalleeOrder, Callee, CalleeInv, CalleeAnswer, OwnAnswer
<1> QED BY <1>1, OrderInvariance, PTL
=============================================================================
