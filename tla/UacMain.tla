------------------------------- MODULE UacMain -------------------------------
(***************************************************************************)
(* The caller program: the dispatch loop of main.go's function uac, run    *)
(* against MaxConcurrentCalls user agents (the actions of CallSlots) and   *)
(* the goroutine that turns SIGTERM and SIGINT into mainCancel().          *)
(*                                                                         *)
(* One action is one channel operation or the local work between two of    *)
(* them.  The two "printed" flags only gate log lines, and the sleeps are  *)
(* arbitrary delays, which interleaving covers already.                    *)
(***************************************************************************)
EXTENDS CallSlots, FiniteSets

CONSTANTS
    TotalCalls,      \* calls to make; <= 0 is "no limit"
    CallsPerBatch    \* calls started per round of the outer loop

ASSUME TotalAssumption == TotalCalls \in Int
\* The profile parser does not check it; a value <= 0 makes the outer loop spin.
ASSUME BatchAssumption == CallsPerBatch \in Int

VARIABLES
    pc,              \* where uac's goroutine is
    i,               \* calls started in this batch
    j,               \* round-robin position of the search for an idle agent
    inCall,          \* inCall[n]: has agent n an unreported call?
    idleUac,         \* how many agents have none
    startedCalls, completedCalls, okCalls, badCalls, unknownCalls,
    cr,              \* the report being accounted
    eccLen           \* reports left of the snapshot len(callEndChan)

counters == <<completedCalls, okCalls, badCalls, unknownCalls>>
mainVars == <<pc, i, j, inCall, idleUac, startedCalls, counters, cr, eccLen>>
vars == <<slotVars, mainVars>>

NoReport == [AccountIndex |-> 0, CallIndex |-> 0, CallResult |-> ""]

Init ==
    /\ SlotInit
    /\ pc = "select"
    /\ i = 0
    /\ j = 0
    /\ inCall = [n \in UAs |-> FALSE]
    /\ idleUac = MaxConcurrentCalls
    /\ startedCalls = 0
    /\ completedCalls = 0
    /\ okCalls = 0
    /\ badCalls = 0
    /\ unknownCalls = 0
    /\ cr = NoReport
    /\ eccLen = 0

-----------------------------------------------------------------------------
(***************************************************************************)
(* The select at the top of the inner loop.                                *)
(***************************************************************************)

\* The inner for is over: the outer loop starts the next batch.
NextBatch ==
    /\ pc = "select"
    /\ i >= CallsPerBatch
    /\ i' = 0
    /\ UNCHANGED <<slotVars, pc, j, inCall, idleUac, startedCalls, counters, cr, eccLen>>

SelectDone ==
    /\ pc = "select"
    /\ i < CallsPerBatch
    /\ mainDone
    /\ pc' = "wait"
    /\ UNCHANGED <<slotVars, i, j, inCall, idleUac, startedCalls, counters, cr, eccLen>>

SelectReport ==
    /\ pc = "select"
    /\ i < CallsPerBatch
    /\ ReceiveReport
    /\ cr' = Head(callEndChan)
    /\ pc' = "len"
    /\ UNCHANGED <<i, j, inCall, idleUac, startedCalls, counters, eccLen>>

\* default: taken only when neither of the other two cases is ready.
SelectDefault ==
    /\ pc = "select"
    /\ i < CallsPerBatch
    /\ ~mainDone
    /\ callEndChan = <<>>
    /\ pc' = "decide"
    /\ UNCHANGED <<slotVars, i, j, inCall, idleUac, startedCalls, counters, cr, eccLen>>

\* eccLen := a length taken after the receive and not together with it.
TakeLen(n) ==
    /\ pc = "len"
    /\ eccLen' = n
    /\ pc' = "account"
    /\ UNCHANGED <<slotVars, i, j, inCall, idleUac, startedCalls, counters, cr>>

\* Mutant: the report already received is counted once more.
SnapshotLenOffByOne == TakeLen(Len(callEndChan) + 1)

SnapshotLen == TakeLen(Len(callEndChan))

\* The report cr is accounted: its agent is idle again and its result is
\* counted.  The report of an agent that is not in a call is only logged
\* ("What's wrong, not in call?").
TallyReport(idle) ==
    IF inCall[cr.AccountIndex]
    THEN /\ inCall' = [inCall EXCEPT ![cr.AccountIndex] = FALSE]
         /\ idleUac' = idle
         /\ completedCalls' = completedCalls + 1
         /\ okCalls' = IF cr.CallResult = "Successful" THEN okCalls + 1 ELSE okCalls
         /\ badCalls' = IF cr.CallResult = "Failed" THEN badCalls + 1 ELSE badCalls
         /\ unknownCalls' = IF cr.CallResult = "" THEN unknownCalls + 1 ELSE unknownCalls
    ELSE UNCHANGED <<inCall, idleUac, counters>>

\* Mutants: idleUac is not given back; the report is not accounted.
TallyKeepsIdle == TallyReport(idleUac)
TallyNothing   == UNCHANGED <<inCall, idleUac, counters>>

Tally == TallyReport(idleUac + 1)

\* One turn of the accounting loop with reports of the snapshot left: the
\* next one is received (the receive would block on an empty channel).
AccountMore ==
    /\ pc = "account"
    /\ eccLen > 0
    /\ Tally
    /\ ReceiveReport
    /\ cr' = Head(callEndChan)
    /\ eccLen' = eccLen - 1
    /\ UNCHANGED <<pc, i, j, startedCalls>>

\* The last turn of the accounting loop.
AccountLast ==
    /\ pc = "account"
    /\ eccLen = 0
    /\ Tally
    /\ cr' = NoReport
    /\ pc' = "decide"
    /\ UNCHANGED <<slotVars, i, j, startedCalls, eccLen>>

-----------------------------------------------------------------------------
(***************************************************************************)
(* What to do next: stop, wait, or start a call.                           *)
(***************************************************************************)

\* Mutant: a strict comparison.
CompletedMore == TotalCalls > 0 /\ completedCalls > TotalCalls

CompletedAll == TotalCalls > 0 /\ completedCalls >= TotalCalls
StartedAll   == TotalCalls > 0 /\ startedCalls >= TotalCalls

\* mainCancel() on a context a signal cancelled already changes nothing.
DecideStop ==
    /\ pc = "decide"
    /\ CompletedAll
    /\ mainDone' = TRUE
    /\ pc' = "wait"
    /\ UNCHANGED <<phase, startCallChan, call, report, callEndChan,
                   i, j, inCall, idleUac, startedCalls, counters, cr, eccLen>>

\* Sleep 100 ms; i-- and the loop's i++ leave i as it was.
DecideIdle ==
    /\ pc = "decide"
    /\ ~CompletedAll
    /\ StartedAll \/ idleUac = 0
    /\ pc' = "select"
    /\ UNCHANGED <<slotVars, i, j, inCall, idleUac, startedCalls, counters, cr, eccLen>>

DecideStartIf(idle) ==
    /\ pc = "decide"
    /\ ~CompletedAll
    /\ ~StartedAll
    /\ idle
    /\ pc' = "pick"
    /\ UNCHANGED <<slotVars, i, j, inCall, idleUac, startedCalls, counters, cr, eccLen>>

\* Mutant: idleUac is not looked at.
DecideStartAnyway == DecideStartIf(TRUE)

DecideStart == DecideStartIf(idleUac # 0)

\* The search for an idle agent steps over a busy one.
PickNext ==
    /\ pc = "pick"
    /\ inCall[j % MaxConcurrentCalls]
    /\ j' = j + 1
    /\ UNCHANGED <<slotVars, pc, i, inCall, idleUac, startedCalls, counters, cr, eccLen>>

\* Mutant: the agent's mark is not looked at.
PickAny ==
    /\ pc = "pick"
    /\ inCall' = [inCall EXCEPT ![j % MaxConcurrentCalls] = TRUE]
    /\ idleUac' = idleUac - 1
    /\ pc' = "send"
    /\ UNCHANGED <<slotVars, i, j, startedCalls, counters, cr, eccLen>>

PickIdle ==
    /\ pc = "pick"
    /\ ~inCall[j % MaxConcurrentCalls]
    /\ inCall' = [inCall EXCEPT ![j % MaxConcurrentCalls] = TRUE]
    /\ idleUac' = idleUac - 1
    /\ pc' = "send"
    /\ UNCHANGED <<slotVars, i, j, startedCalls, counters, cr, eccLen>>

\* startCallChan[n] <- callIndex; it would block on a full channel.
SendCommand(callIndex, nextJ) ==
    /\ pc = "send"
    /\ startCallChan[j % MaxConcurrentCalls] = 0
    /\ startCallChan' = [startCallChan EXCEPT ![j % MaxConcurrentCalls] = callIndex]
    /\ startedCalls' = startedCalls + 1
    /\ j' = nextJ
    /\ i' = i + 1
    /\ pc' = "select"
    /\ UNCHANGED <<phase, call, report, callEndChan, mainDone,
                   inCall, idleUac, counters, cr, eccLen>>

\* Mutant: j is not reduced.
SendStartNoWrap == SendCommand(startedCalls + 1, j + 1)

SendStart == SendCommand(startedCalls + 1, (j + 1) % MaxConcurrentCalls)

-----------------------------------------------------------------------------
(***************************************************************************)
(* The end of the program, the signals and the agents.                     *)
(***************************************************************************)

\* wg.Wait() returns when every UA has returned; the summary is printed.
AllExited ==
    /\ pc = "wait"
    /\ \A n \in UAs : phase[n] = "exited"
    /\ pc' = "done"
    /\ UNCHANGED <<slotVars, i, j, inCall, idleUac, startedCalls, counters, cr, eccLen>>

\* The program has ended.
Done ==
    /\ pc = "done"
    /\ UNCHANGED vars

Signal ==
    /\ MainCancel
    /\ UNCHANGED mainVars

Agent(n) ==
    /\ UAStep(n)
    /\ UNCHANGED mainVars

Main ==
    \/ NextBatch \/ SelectDone \/ SelectReport \/ SelectDefault
    \/ SnapshotLen \/ AccountMore \/ AccountLast
    \/ DecideStop \/ DecideIdle \/ DecideStart
    \/ PickNext \/ PickIdle \/ SendStart
    \/ AllExited

Next ==
    \/ Main
    \/ Signal
    \/ \E n \in UAs : Agent(n)
    \/ Done

Spec == Init /\ [][Next]_vars

\* Every goroutine that can run does run.  A call need not end (no fairness of
\* EndCall) and a signal need not come: nothing in the code makes them.
Fairness ==
    /\ WF_vars(Main)
    /\ \A n \in UAs :
          /\ WF_vars((UAStarts(n) \/ UAFails(n)) /\ UNCHANGED mainVars)
          /\ WF_vars(TakeCall(n) /\ UNCHANGED mainVars)
          /\ WF_vars(SendReport(n) /\ UNCHANGED mainVars)
          /\ WF_vars((Leave(n) \/ Exit(n)) /\ UNCHANGED mainVars)

FairSpec == Spec /\ Fairness

-----------------------------------------------------------------------------
(***************************************************************************)
(* Safety.                                                                 *)
(***************************************************************************)

\* Type invariant, with the bounds the loops keep: the round-robin position
\* is reduced modulo MaxConcurrentCalls after every start, so the search for
\* an idle agent goes round at most once.
TypeOK ==
    /\ SlotTypeOK
    /\ pc \in {"select", "len", "account", "decide", "pick", "send", "wait", "done"}
    /\ i \in Nat
    /\ j \in 0 .. (2 * MaxConcurrentCalls - 2)
    /\ inCall \in [UAs -> BOOLEAN]
    /\ idleUac \in 0 .. MaxConcurrentCalls
    /\ startedCalls \in Nat
    /\ completedCalls \in Nat
    /\ okCalls \in Nat
    /\ badCalls \in Nat
    /\ unknownCalls \in Nat
    /\ cr \in CallReport \cup {NoReport}
    /\ eccLen \in 0 .. MaxConcurrentCalls

\* The report of agent n is in the dispatcher's hand, not yet accounted.
InHand(n) == pc \in {"len", "account"} /\ cr.AccountIndex = n

\* The dispatcher marked agent n busy and has not sent the command yet.
Sending(n) == pc = "send" /\ j % MaxConcurrentCalls = n

\* What may hold a call of agent n excludes what comes after it.
OneCall(n) ==
    /\ Sending(n) \/ InHand(n) => Free(n)
    /\ startCallChan[n] # 0 => call[n] = 0 /\ report[n] = 0 /\ NoneQueued(n)
    /\ call[n] # 0 => report[n] = 0 /\ NoneQueued(n)
    /\ report[n] # 0 => NoneQueued(n)

ReportsDistinct ==
    \A k, l \in 1 .. Len(callEndChan) :
        callEndChan[k].AccountIndex = callEndChan[l].AccountIndex => k = l

\* A call is in one place at a time: about to be sent, in startCallChan[n],
\* in the agent, in the reporting goroutine, in callEndChan (once), or in the
\* dispatcher's hand.  So an agent never has two calls, and two reports of
\* one call never exist, whatever the interleaving of dispatcher, event loops
\* and reporting goroutines.
OneCallPerAgent ==
    /\ \A n \in UAs : OneCall(n)
    /\ ReportsDistinct

\* inCall[n] = FALSE is reliable: nothing of an earlier call of n is left
\* anywhere.  This is what the comment "this will never happen" at
\* sip/ua.go:233 and the branch "What's wrong, not in call?" at main.go:166
\* rest on.
IdleMeansFree ==
    \A n \in UAs : ~inCall[n] => Free(n) /\ ~InHand(n) /\ ~Sending(n)

\* The unbounded search for an idle agent (main.go:200-205) ends within one
\* round: it is entered only while some agent is idle, and idleUac, a count
\* kept by hand, is trusted for that.
SearchEnds ==
    /\ pc \notin {"pick", "send"} => j < MaxConcurrentCalls
    /\ pc = "pick" => \E m \in j .. (2 * MaxConcurrentCalls - 2) :
                          ~inCall[m % MaxConcurrentCalls]

Busy == {n \in UAs : inCall[n]}

\* The books balance at every step: idleUac counts the idle agents, every
\* started call is completed or in progress, and every completed call has
\* exactly one result.  The summary printed at exit relies on it.
Books ==
    /\ idleUac = MaxConcurrentCalls - Cardinality(Busy)
    /\ startedCalls + (IF pc = "send" THEN 1 ELSE 0) = completedCalls + Cardinality(Busy)
    /\ completedCalls = okCalls + badCalls + unknownCalls

\* Never more calls than the profile asks for (profile.go:79-82), although
\* completions are accounted in batches and starts race with them.
NeverTooMany ==
    TotalCalls > 0 => /\ startedCalls <= TotalCalls
                      /\ pc \in {"pick", "send"} => startedCalls < TotalCalls

\* The receives of the accounting loop find a report each.
SnapshotHeld == pc = "account" => eccLen <= Len(callEndChan)

\* Neither the dispatcher nor a reporting goroutine ever finds its channel
\* full: capacity 1 of startCallChan and MaxConcurrentCalls of callEndChan
\* are enough, so wg.Wait() is never held up by a report nobody reads.
NoBlockedSender ==
    /\ pc = "send" => startCallChan[j % MaxConcurrentCalls] = 0
    /\ \A n \in UAs : report[n] # 0 => Len(callEndChan) < MaxConcurrentCalls
    /\ SnapshotHeld

-----------------------------------------------------------------------------
(***************************************************************************)
(* Liveness.                                                               *)
(***************************************************************************)

\* "after total calls, program exits" (profile.go:81).
ProgramExits == (TotalCalls > 0) => <>(pc = "done")

\* An agent is gone while the program runs.
AgentFailed == \E n \in UAs : phase[n] = "exited" /\ ~mainDone

\* The calls agent n takes end.  The code does not see to it: a call goes on
\* for ever when ua.Invite returns no session (the TODO at ua.go:266), when
\* the MediaFunc fails before its offer is in sdpFromMediaChan, with or
\* without a session later, and when the profile has no duration and nobody
\* hangs up.  So this is a condition of the properties that need it.
CallEnds(n) == (call[n] # 0) ~> (call[n] = 0)

\* What is true of it: the program exits after TotalCalls when every agent
\* starts and the calls end (CallEnds), however commands, reports and batches
\* interleave.
ExitsIfAllStart ==
    (TotalCalls > 0) /\ []~AgentFailed /\ (\A n \in UAs : CallEnds(n)) => <>(pc = "done")

\* Once mainCtx is cancelled, by a signal or by the last call, every agent
\* exits and so does the program, also when calls are under way that would
\* never end by themselves.
Shutdown == mainDone ~> (pc = "done")

\* A call that was given to an agent is completed if the agent's calls end
\* (CallEnds), whatever became of the other agents (they may have failed or
\* hang in a call that never ends), unless its own agent failed or the
\* program is stopped.
CallsComplete ==
    \A n \in UAs :
        CallEnds(n) => (inCall[n] ~> (~inCall[n] \/ mainDone \/ phase[n] = "exited"))
=============================================================================
