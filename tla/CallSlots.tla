------------------------------ MODULE CallSlots ------------------------------
(***************************************************************************)
(* What a caller's user agent (sip/ua.go, role "uac") promises to the      *)
(* dispatcher (main.go, function uac), and the channels they share.        *)
(*                                                                         *)
(* Every user agent is a slot for one call.  The dispatcher puts the index *)
(* of a call into startCallChan[n]; the agent takes it, conducts the call, *)
(* and hands exactly one report over callEndChan.  The report is sent by a *)
(* goroutine of its own, so the agent's event loop may already be doing    *)
(* something else, or be leaving, while the report is still pending.       *)
(*                                                                         *)
(* The module is used in two ways: UacMain builds the whole caller program *)
(* on these actions, and UserAgent, the detailed model of one agent, is    *)
(* shown to implement SlotSpec.                                            *)
(***************************************************************************)
EXTENDS Integers, Sequences

CONSTANTS
    MaxConcurrentCalls,   \* user agents started, and capacity of callEndChan
    StartMayFail          \* may listening or registering fail?

\* ParseCallProfile replaces a maxconcurrentcalls <= 0 by the number of
\* accounts and refuses an empty list of accounts.
ASSUME ConcurrencyAssumption == MaxConcurrentCalls \in Nat \ {0}
ASSUME StartAssumption == StartMayFail \in BOOLEAN

UAs == 0 .. (MaxConcurrentCalls - 1)

\* cr.CallResult when the report is sent; "" is "no result was recorded".
CallResults == {"Successful", "Failed", ""}

CallReport == [AccountIndex : UAs, CallIndex : Nat \ {0}, CallResult : CallResults]

VARIABLES
    phase,           \* phase[n]: where the function UA of agent n is
    startCallChan,   \* startCallChan[n]: the buffered call index, 0 if empty
    call,            \* call[n]: index of the call agent n conducts, 0 if none
    report,          \* report[n]: index of the call whose report is pending, 0 if none
    callEndChan,     \* the buffered channel of call reports
    mainDone         \* has mainCtx been cancelled?

slotVars == <<phase, startCallChan, call, report, callEndChan, mainDone>>

SlotTypeOK ==
    /\ phase \in [UAs -> {"starting", "loop", "exiting", "exited"}]
    /\ startCallChan \in [UAs -> Nat]
    /\ call \in [UAs -> Nat]
    /\ report \in [UAs -> Nat]
    /\ callEndChan \in Seq(CallReport)
    /\ Len(callEndChan) <= MaxConcurrentCalls
    /\ mainDone \in BOOLEAN

SlotInit ==
    /\ phase = [n \in UAs |-> "starting"]
    /\ startCallChan = [n \in UAs |-> 0]
    /\ call = [n \in UAs |-> 0]
    /\ report = [n \in UAs |-> 0]
    /\ callEndChan = <<>>
    /\ mainDone = FALSE

-----------------------------------------------------------------------------
(***************************************************************************)
(* The user agents.                                                        *)
(***************************************************************************)

\* The agent listens, registers, waits three seconds and finds status 200.
UAStarts(n) ==
    /\ phase[n] = "starting"
    /\ phase' = [phase EXCEPT ![n] = "loop"]
    /\ UNCHANGED <<startCallChan, call, report, callEndChan, mainDone>>

\* ListenTLS fails, or no 200 to REGISTER within three seconds: UA returns
\* and nobody is told.
UAFails(n) ==
    /\ StartMayFail
    /\ phase[n] = "starting"
    /\ phase' = [phase EXCEPT ![n] = "exited"]
    /\ UNCHANGED <<startCallChan, call, report, callEndChan, mainDone>>

\* The event loop takes a start command.
TakeCall(n) ==
    /\ phase[n] = "loop"
    /\ startCallChan[n] # 0
    /\ call' = [call EXCEPT ![n] = startCallChan[n]]
    /\ startCallChan' = [startCallChan EXCEPT ![n] = 0]
    /\ UNCHANGED <<phase, report, callEndChan, mainDone>>

\* The event loop processes the end of its call and starts the goroutine
\* that reports it.
EndCall(n) ==
    /\ phase[n] = "loop"
    /\ call[n] # 0
    /\ report' = [report EXCEPT ![n] = call[n]]
    /\ call' = [call EXCEPT ![n] = 0]
    /\ UNCHANGED <<phase, startCallChan, callEndChan, mainDone>>

\* Mutant: the goroutine may report again.
SendReportAgain(n) ==
    /\ report[n] # 0
    /\ Len(callEndChan) < MaxConcurrentCalls
    /\ \E result \in CallResults :
          callEndChan' = Append(callEndChan,
                                [AccountIndex |-> n, CallIndex |-> report[n],
                                 CallResult |-> result])
    /\ UNCHANGED <<phase, startCallChan, call, report, mainDone>>

\* The reporting goroutine sends; it blocks while callEndChan is full.
SendReport(n) ==
    /\ report[n] # 0
    /\ Len(callEndChan) < MaxConcurrentCalls
    /\ \E result \in CallResults :
          callEndChan' = Append(callEndChan,
                                [AccountIndex |-> n, CallIndex |-> report[n],
                                 CallResult |-> result])
    /\ report' = [report EXCEPT ![n] = 0]
    /\ UNCHANGED <<phase, startCallChan, call, mainDone>>

\* The event loop sees mainCtx.Done(): a call in progress is ended without a
\* report and the loop is left.
Leave(n) ==
    /\ phase[n] = "loop"
    /\ mainDone
    /\ phase' = [phase EXCEPT ![n] = "exiting"]
    /\ call' = [call EXCEPT ![n] = 0]
    /\ UNCHANGED <<startCallChan, report, callEndChan, mainDone>>

\* UA's own wg.Wait returns: the reporting goroutine is over.
Exit(n) ==
    /\ phase[n] = "exiting"
    /\ report[n] = 0
    /\ phase' = [phase EXCEPT ![n] = "exited"]
    /\ UNCHANGED <<startCallChan, call, report, callEndChan, mainDone>>

UAStep(n) ==
    UAStarts(n) \/ UAFails(n) \/ TakeCall(n) \/ EndCall(n) \/ SendReport(n)
        \/ Leave(n) \/ Exit(n)

-----------------------------------------------------------------------------
(***************************************************************************)
(* The dispatcher's side of the contract: it gives a call only to an agent *)
(* that is free of any earlier one, as far as the channels tell.           *)
(***************************************************************************)

\* No report of agent n is in callEndChan.
NoneQueued(n) == \A k \in 1 .. Len(callEndChan) : callEndChan[k].AccountIndex # n

Free(n) ==
    /\ startCallChan[n] = 0
    /\ call[n] = 0
    /\ report[n] = 0
    /\ NoneQueued(n)

StartCall(n, callIndex) ==
    /\ Free(n)
    /\ startCallChan' = [startCallChan EXCEPT ![n] = callIndex]
    /\ UNCHANGED <<phase, call, report, callEndChan, mainDone>>

ReceiveReport ==
    /\ callEndChan # <<>>
    /\ callEndChan' = Tail(callEndChan)
    /\ UNCHANGED <<phase, startCallChan, call, report, mainDone>>

MainCancel ==
    /\ ~mainDone
    /\ mainDone' = TRUE
    /\ UNCHANGED <<phase, startCallChan, call, report, callEndChan>>

SlotNext ==
    \/ \E n \in UAs : UAStep(n)
    \/ \E n \in UAs : /\ startCallChan'[n] \in Nat \ {0}
                      /\ StartCall(n, startCallChan'[n])
    \/ ReceiveReport
    \/ MainCancel

SlotSpec == SlotInit /\ [][SlotNext]_slotVars
=============================================================================
