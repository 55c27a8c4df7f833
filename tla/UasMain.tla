------------------------------- MODULE UasMain -------------------------------
(***************************************************************************)
(* The callee program: the collecting loop of main.go's function uas, run  *)
(* against MaxConcurrentCalls user agents.                                 *)
(*                                                                         *)
(* A callee's agent takes calls from the network and nobody gives it any,  *)
(* so for this loop an agent is something that reports now and then.  It   *)
(* sends a report from its event loop, and while callEndChan is full it    *)
(* can do nothing else, not even see that mainCtx is cancelled.            *)
(***************************************************************************)
EXTENDS Integers, Sequences, FiniteSets

CONSTANTS
    MaxConcurrentCalls,   \* user agents, and capacity of callEndChan
    TotalCalls,           \* calls to collect; <= 0 is "no limit"
    MaxArrivals,          \* bound: calls that arrive over the whole run
    StartMayFail,         \* may listening or registering fail?
    Signals               \* may SIGTERM or SIGINT come?

ASSUME UasAssumption ==
    /\ MaxConcurrentCalls \in Nat \ {0}
    /\ TotalCalls \in Int
    /\ MaxArrivals \in Nat
    /\ StartMayFail \in BOOLEAN
    /\ Signals \in BOOLEAN

UAs == 0 .. (MaxConcurrentCalls - 1)
CallResults == {"Successful", "Failed", ""}

VARIABLES
    pc,             \* where uas's goroutine is
    agent,          \* agent[n]: "starting", "loop", "blocked" in callEndChan <- report,
                    \* "exited"
    arrivals,       \* calls that have ended or been declined so far
    callEndChan,    \* the buffered results
    cr,             \* the result in the collector's hand
    eccLen,         \* reports left of the snapshot len(callEndChan)
    completedCalls, okCalls, badCalls, unknownCalls,
    mainDone

counters == <<completedCalls, okCalls, badCalls, unknownCalls>>
vars == <<pc, agent, arrivals, callEndChan, cr, eccLen, counters, mainDone>>

TypeOK ==
    /\ pc \in {"select", "len", "account", "wait", "done"}
    /\ agent \in [UAs -> {"starting", "loop", "blocked", "exited"}]
    /\ arrivals \in 0 .. MaxArrivals
    /\ callEndChan \in Seq(CallResults) /\ Len(callEndChan) <= MaxConcurrentCalls
    /\ cr \in CallResults
    /\ eccLen \in 0 .. MaxConcurrentCalls
    /\ completedCalls \in Nat /\ okCalls \in Nat /\ badCalls \in Nat /\ unknownCalls \in Nat
    /\ mainDone \in BOOLEAN

Init ==
    /\ pc = "select"
    /\ agent = [n \in UAs |-> "starting"]
    /\ arrivals = 0
    /\ callEndChan = <<>>
    /\ cr = ""
    /\ eccLen = 0
    /\ completedCalls = 0 /\ okCalls = 0 /\ badCalls = 0 /\ unknownCalls = 0
    /\ mainDone = FALSE

-----------------------------------------------------------------------------
(***************************************************************************)
(* The user agents.                                                        *)
(***************************************************************************)

\* The agent listens, registers and finds status 200 after three seconds.
UAStarts(n) ==
    /\ agent[n] = "starting"
    /\ agent' = [agent EXCEPT ![n] = "loop"]
    /\ UNCHANGED <<pc, arrivals, callEndChan, cr, eccLen, counters, mainDone>>

\* It does not, and UA returns without a word to the collector.
UAFails(n) ==
    /\ StartMayFail
    /\ agent[n] = "starting"
    /\ agent' = [agent EXCEPT ![n] = "exited"]
    /\ UNCHANGED <<pc, arrivals, callEndChan, cr, eccLen, counters, mainDone>>

\* A call of agent n ends, or is declined because n is busy.
CallOver(n) ==
    /\ agent[n] = "loop"
    /\ arrivals < MaxArrivals
    /\ arrivals' = arrivals + 1
    /\ agent' = [agent EXCEPT ![n] = "blocked"]
    /\ UNCHANGED <<pc, callEndChan, cr, eccLen, counters, mainDone>>

\* callEndChan <- cr in the event loop.
ReportInto(capacity, n) ==
    /\ agent[n] = "blocked"
    /\ Len(callEndChan) < capacity
    /\ \E result \in CallResults : callEndChan' = Append(callEndChan, result)
    /\ agent' = [agent EXCEPT ![n] = "loop"]
    /\ UNCHANGED <<pc, arrivals, cr, eccLen, counters, mainDone>>

\* Mutant: room for one report, however many agents there are.
ReportSingle(n) == ReportInto(1, n)

Report(n) == ReportInto(MaxConcurrentCalls, n)

\* The event loop sees mainCtx.Done() and UA returns.  The loop may be waiting
\* for a MediaFunc that does not end, so this step need not come.
Leave(n) ==
    /\ agent[n] = "loop"
    /\ mainDone
    /\ agent' = [agent EXCEPT ![n] = "exited"]
    /\ UNCHANGED <<pc, arrivals, callEndChan, cr, eccLen, counters, mainDone>>

AgentStep(n) == UAStarts(n) \/ UAFails(n) \/ CallOver(n) \/ Report(n) \/ Leave(n)

-----------------------------------------------------------------------------
(***************************************************************************)
(* The collector.                                                          *)
(***************************************************************************)

SelectDone ==
    /\ pc = "select"
    /\ mainDone
    /\ pc' = "wait"
    /\ UNCHANGED <<agent, arrivals, callEndChan, cr, eccLen, counters, mainDone>>

SelectReport ==
    /\ pc = "select"
    /\ callEndChan # <<>>
    /\ cr' = Head(callEndChan)
    /\ callEndChan' = Tail(callEndChan)
    /\ pc' = "len"
    /\ UNCHANGED <<agent, arrivals, eccLen, counters, mainDone>>

\* eccLen := a length taken after the receive and not together with it.
TakeLen(n) ==
    /\ pc = "len"
    /\ eccLen' = n
    /\ pc' = "account"
    /\ UNCHANGED <<agent, arrivals, callEndChan, cr, counters, mainDone>>

\* Mutant: the report already received is counted once more.
SnapshotLenOffByOne == TakeLen(Len(callEndChan) + 1)

SnapshotLen == TakeLen(Len(callEndChan))

TallyAs(bad) ==
    /\ completedCalls' = completedCalls + 1
    /\ okCalls' = IF cr = "Successful" THEN okCalls + 1 ELSE okCalls
    /\ badCalls' = IF cr \in bad THEN badCalls + 1 ELSE badCalls
    /\ unknownCalls' = IF cr = "" THEN unknownCalls + 1 ELSE unknownCalls

\* Mutant: a call without a result is a failed one too.
TallyTwice == TallyAs({"Failed", ""})

Tally == TallyAs({"Failed"})

AccountMore ==
    /\ pc = "account"
    /\ eccLen > 0
    /\ Tally
    /\ callEndChan # <<>>
    /\ cr' = Head(callEndChan)
    /\ callEndChan' = Tail(callEndChan)
    /\ eccLen' = eccLen - 1
    /\ UNCHANGED <<pc, agent, arrivals, mainDone>>

\* Mutant: the comparison is for equality.
CompletedExactly(n) == TotalCalls > 0 /\ n = TotalCalls

\* Enough is enough only when at least TotalCalls are collected.
CompletedAt(n) == TotalCalls > 0 /\ n >= TotalCalls

\* The last turn of the accounting loop, and the check that follows it.
AccountLast ==
    /\ pc = "account"
    /\ eccLen = 0
    /\ Tally
    /\ cr' = ""
    /\ IF CompletedAt(completedCalls + 1)
       THEN mainDone' = TRUE /\ pc' = "wait"
       ELSE pc' = "select" /\ UNCHANGED mainDone
    /\ UNCHANGED <<agent, arrivals, callEndChan, eccLen>>

\* wg.Wait() returns, the summary is printed.
AllExited ==
    /\ pc = "wait"
    /\ \A n \in UAs : agent[n] = "exited"
    /\ pc' = "done"
    /\ UNCHANGED <<agent, arrivals, callEndChan, cr, eccLen, counters, mainDone>>

Collector ==
    SelectDone \/ SelectReport \/ SnapshotLen \/ AccountMore \/ AccountLast \/ AllExited

Signal ==
    /\ Signals
    /\ ~mainDone
    /\ mainDone' = TRUE
    /\ UNCHANGED <<pc, agent, arrivals, callEndChan, cr, eccLen, counters>>

Done ==
    /\ pc = "done"
    /\ UNCHANGED vars

Next ==
    \/ Collector
    \/ Signal
    \/ \E n \in UAs : AgentStep(n)
    \/ Done

Spec == Init /\ [][Next]_vars

\* Goroutines that can run do run.  That calls arrive, that an agent's loop is
\* not stuck in a call and that a signal comes is not assumed.
FairSpec ==
    /\ Spec
    /\ WF_vars(Collector)
    /\ \A n \in UAs : WF_vars(UAStarts(n) \/ UAFails(n)) /\ WF_vars(Report(n))

-----------------------------------------------------------------------------
(***************************************************************************)
(* Safety and liveness.                                                    *)
(***************************************************************************)

\* No report is lost or counted twice: every call that is over is completed,
\* in the collector's hand, in the channel or held by a blocked agent, and
\* every completed call has one result.
Books ==
    /\ arrivals = completedCalls + (IF pc \in {"len", "account"} THEN 1 ELSE 0)
                    + Len(callEndChan) + Cardinality({n \in UAs : agent[n] = "blocked"})
    /\ completedCalls = okCalls + badCalls + unknownCalls

\* The agents' loops come round to mainCtx.Done(), unless they have a report to
\* send.  UserAgent's AgentExits is about that: it is so when nobody CANCELs,
\* and not when somebody does (a MediaFunc may be stuck for ever then).
AgentsLeave == \A n \in UAs : (mainDone /\ agent[n] = "loop") ~> (agent[n] # "loop")

\* An agent waits for room in callEndChan.
HeldUp == Len(callEndChan) = MaxConcurrentCalls /\ \E n \in UAs : agent[n] = "blocked"

\* When the collector has left its loop, by signal or by count, the program
\* ends if the agents' loops leave (AgentsLeave), whichever of them never
\* started or still report; or else it waits for ever for an agent whose
\* report does not fit into callEndChan, which nobody reads any more.
Shutdown == AgentsLeave => ((pc = "wait") ~> ((pc = "done") \/ []HeldUp))

\* "after total calls, program exits" (profile.go:81): what is true of it is
\* that the collector stops reading when as many calls are over, in whatever
\* batches their reports come.  (Too few may come, for instance when agents
\* failed to start: it waits for ever then.)
CollectorStops ==
    TotalCalls > 0 => ((arrivals >= TotalCalls) ~> (pc \in {"wait", "done"}))
=============================================================================
