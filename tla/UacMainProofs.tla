---------------------------- MODULE UacMainProofs ----------------------------
(***************************************************************************)
(* Proofs about the caller program (UacMain), for every number of agents,  *)
(* every TotalCalls and every CallsPerBatch.                               *)
(*                                                                         *)
(* The inductive invariant IInv joins the safety properties of UacMain:    *)
(* none of them is inductive alone.  TypeOK bounds the counters by Books   *)
(* and the search position by SearchEnds; Books needs IdleMeansFree (a     *)
(* report is never one of an agent that is not in a call); IdleMeansFree   *)
(* needs OneCallPerAgent, and SearchEnds needs Books (idleUac # 0 means    *)
(* that some agent is idle).                                               *)
(***************************************************************************)
EXTENDS UacMain, FiniteSetTheorems, SequenceTheorems, TLAPS

\* The round-robin position modulo MaxConcurrentCalls is an agent.
LEMMA ModRange == \A a \in Nat : a % MaxConcurrentCalls \in UAs
  BY ConcurrencyAssumption DEF UAs

\* An index modulo the number of agents is the agent itself, also one
\* round later.
LEMMA ModWrap ==
  \A n \in UAs : /\ n % MaxConcurrentCalls = n
                 /\ (n + MaxConcurrentCalls) % MaxConcurrentCalls = n
  BY ConcurrencyAssumption DEF UAs

\* The inductive invariant.
IInv ==
    /\ TypeOK
    /\ OneCallPerAgent
    /\ IdleMeansFree
    /\ SearchEnds
    /\ Books
    /\ NeverTooMany
    /\ SnapshotHeld

-----------------------------------------------------------------------------
(***************************************************************************)
(* Types.                                                                  *)
(***************************************************************************)

\* The variables start in their types.
LEMMA TypeInit == Init => TypeOK
  <1> SUFFICES ASSUME Init PROVE TypeOK
    OBVIOUS
  <1>1. SlotTypeOK
    <2>1. callEndChan \in Seq(CallReport) /\ Len(callEndChan) = 0
      BY EmptySeq DEF Init, SlotInit
    <2>2. /\ phase \in [UAs -> {"starting", "loop", "exiting", "exited"}]
          /\ startCallChan \in [UAs -> Nat]
          /\ call \in [UAs -> Nat]
          /\ report \in [UAs -> Nat]
          /\ mainDone \in BOOLEAN
      BY DEF Init, SlotInit
    <2>3. Len(callEndChan) <= MaxConcurrentCalls
      BY <2>1, ConcurrencyAssumption
    <2> QED
      BY <2>1, <2>2, <2>3 DEF SlotTypeOK
  <1> QED
    BY <1>1, ConcurrencyAssumption DEF Init, TypeOK

\* What the books say about idleUac: with idleUac # 0 the dispatcher finds
\* an idle agent, and while an agent is in a call idleUac can be raised.
LEMMA BusyCount ==
  ASSUME TypeOK, Books
  PROVE  /\ IsFiniteSet(Busy)
         /\ Cardinality(Busy) \in 0 .. MaxConcurrentCalls
         /\ idleUac # 0 => \E n \in UAs : ~inCall[n]
         /\ \A n \in UAs : inCall[n] => idleUac < MaxConcurrentCalls
  <1>1. IsFiniteSet(UAs) /\ Cardinality(UAs) = MaxConcurrentCalls
    BY ConcurrencyAssumption, FS_Interval DEF UAs
  <1>2. Busy \in SUBSET UAs
    BY DEF Busy
  <1>3. /\ IsFiniteSet(Busy)
        /\ Cardinality(Busy) <= Cardinality(UAs)
        /\ Cardinality(Busy) \in Nat
    BY <1>1, <1>2, FS_Subset, FS_CardinalityType
  <1>4. ASSUME idleUac # 0 PROVE \E n \in UAs : ~inCall[n]
    <2>1. Cardinality(Busy) # MaxConcurrentCalls
      BY <1>4, ConcurrencyAssumption DEF Books, TypeOK
    <2>2. Busy # UAs
      BY <2>1, <1>1
    <2> QED
      BY <2>2 DEF Busy
  <1>5. ASSUME NEW n \in UAs, inCall[n] PROVE idleUac < MaxConcurrentCalls
    <2>1. Busy # {}
      BY <1>5 DEF Busy
    <2>2. Cardinality(Busy) # 0
      BY <2>1, <1>3, FS_EmptySet
    <2> QED
      BY <2>2, <1>3, ConcurrencyAssumption DEF Books
  <1> QED
    BY <1>1, <1>3, <1>4, <1>5, ConcurrencyAssumption

\* With idleUac = 0 every agent is in a call.
LEMMA BusyAll ==
  ASSUME TypeOK, Books, idleUac = 0
  PROVE  Busy = UAs
  <1>1. IsFiniteSet(UAs) /\ Cardinality(UAs) = MaxConcurrentCalls
    BY ConcurrencyAssumption, FS_Interval DEF UAs
  <1>2. Busy \in SUBSET UAs
    BY DEF Busy
  <1>3. Cardinality(Busy) = Cardinality(UAs)
    <2>1. Cardinality(Busy) \in Nat
      BY <1>1, <1>2, FS_Subset, FS_CardinalityType
    <2> QED
      BY <1>1, <2>1, ConcurrencyAssumption DEF Books
  <1> QED
    BY <1>1, <1>2, <1>3, FS_Subset

\* The report in the dispatcher's hand names an agent and a known result.
LEMMA CrAgent == TypeOK => cr.AccountIndex \in UAs /\ cr.CallResult \in CallResults
  <1>1. NoReport.AccountIndex \in UAs /\ NoReport.CallResult \in CallResults
    BY ConcurrencyAssumption DEF NoReport, UAs, CallResults
  <1>2. \A r \in CallReport : r.AccountIndex \in UAs /\ r.CallResult \in CallResults
    BY DEF CallReport
  <1> QED
    BY <1>1, <1>2 DEF TypeOK

\* The accounting of a report keeps its variables in their types.
LEMMA TallyType ==
  ASSUME TypeOK, Books, Tally
  PROVE  /\ inCall' \in [UAs -> BOOLEAN]
         /\ idleUac' \in 0 .. MaxConcurrentCalls
         /\ completedCalls' \in Nat
         /\ okCalls' \in Nat /\ badCalls' \in Nat /\ unknownCalls' \in Nat
  <1>1. CASE inCall[cr.AccountIndex]
    <2>1. idleUac < MaxConcurrentCalls
      BY <1>1, CrAgent, BusyCount
    <2>2. inCall' = [inCall EXCEPT ![cr.AccountIndex] = FALSE]
      BY <1>1 DEF Tally, TallyReport
    <2>3. inCall' \in [UAs -> BOOLEAN]
      BY <2>2 DEF TypeOK
    <2>4. idleUac' = idleUac + 1 /\ completedCalls' = completedCalls + 1
      BY <1>1 DEF Tally, TallyReport
    <2>5. /\ okCalls' \in {okCalls, okCalls + 1}
          /\ badCalls' \in {badCalls, badCalls + 1}
          /\ unknownCalls' \in {unknownCalls, unknownCalls + 1}
      <3>1. /\ okCalls' = IF cr.CallResult = "Successful" THEN okCalls + 1 ELSE okCalls
            /\ badCalls' = IF cr.CallResult = "Failed" THEN badCalls + 1 ELSE badCalls
            /\ unknownCalls' = IF cr.CallResult = "" THEN unknownCalls + 1 ELSE unknownCalls
        BY <1>1 DEF Tally, TallyReport
      <3> QED
        BY <3>1
    <2> QED
      BY <2>1, <2>3, <2>4, <2>5, ConcurrencyAssumption DEF TypeOK
  <1>2. CASE ~inCall[cr.AccountIndex]
    BY <1>2 DEF Tally, TallyReport, TypeOK, counters
  <1> QED
    BY <1>1, <1>2

\* Every step keeps the variables in their types.
LEMMA TypeStep == IInv /\ [Next]_vars => TypeOK'
  <1> SUFFICES ASSUME IInv, [Next]_vars PROVE TypeOK'
    OBVIOUS
  <1> USE ConcurrencyAssumption DEF IInv
  <1>1. CASE NextBatch
    BY <1>1 DEF NextBatch, TypeOK, SlotTypeOK, slotVars, counters
  <1>2. CASE SelectDone
    BY <1>2 DEF SelectDone, TypeOK, SlotTypeOK, slotVars, counters
  <1>3. CASE SelectReport
    BY <1>3, HeadTailProperties DEF SelectReport, ReceiveReport, TypeOK, SlotTypeOK, slotVars, counters
  <1>4. CASE SelectDefault
    BY <1>4 DEF SelectDefault, TypeOK, SlotTypeOK, slotVars, counters
  <1>5. CASE SnapshotLen
    BY <1>5, LenProperties DEF SnapshotLen, TakeLen, TypeOK, SlotTypeOK, slotVars, counters
  <1>6. CASE AccountMore
    <2>1. SlotTypeOK' /\ cr' \in CallReport
      BY <1>6, HeadTailProperties DEF AccountMore, ReceiveReport, TypeOK, SlotTypeOK
    <2>2. eccLen' \in 0 .. MaxConcurrentCalls
      BY <1>6 DEF AccountMore, TypeOK
    <2> QED
      BY <1>6, <2>1, <2>2, TallyType DEF AccountMore, TypeOK
  <1>7. CASE AccountLast
    <2>1. SlotTypeOK'
      BY <1>7 DEF AccountLast, TypeOK, SlotTypeOK, slotVars
    <2> QED
      BY <1>7, <2>1, TallyType DEF AccountLast, TypeOK
  <1>8. CASE DecideStop
    BY <1>8 DEF DecideStop, TypeOK, SlotTypeOK, counters
  <1>9. CASE DecideIdle
    BY <1>9 DEF DecideIdle, TypeOK, SlotTypeOK, slotVars, counters
  <1>10. CASE DecideStart
    BY <1>10 DEF DecideStart, DecideStartIf, TypeOK, SlotTypeOK, slotVars, counters
  <1>11. CASE PickNext
    <2>1. PICK m \in j .. (2 * MaxConcurrentCalls - 2) : ~inCall[m % MaxConcurrentCalls]
      BY <1>11 DEF PickNext, SearchEnds
    <2>2. m # j /\ j \in Nat
      BY <1>11, <2>1 DEF PickNext, TypeOK
    <2>3. j' \in 0 .. (2 * MaxConcurrentCalls - 2)
      BY <1>11, <2>1, <2>2 DEF PickNext
    <2> QED
      BY <1>11, <2>3 DEF PickNext, TypeOK, SlotTypeOK, slotVars, counters
  <1>12. CASE PickIdle
    <2>1. j % MaxConcurrentCalls \in UAs
      BY ModRange DEF TypeOK
    <2>2. idleUac # 0
      <3>1. Busy # UAs
        BY <1>12, <2>1 DEF PickIdle, Busy
      <3> QED
        BY <3>1, BusyAll
    <2>3. idleUac' \in 0 .. MaxConcurrentCalls
      BY <1>12, <2>2 DEF PickIdle, TypeOK
    <2>4. inCall' \in [UAs -> BOOLEAN]
      BY <1>12 DEF PickIdle, TypeOK
    <2> QED
      BY <1>12, <2>3, <2>4 DEF PickIdle, TypeOK, SlotTypeOK, slotVars, counters
  <1>13. CASE SendStart
    <2>1. (j + 1) % MaxConcurrentCalls \in UAs
      BY ModRange DEF TypeOK
    <2>2. j' \in 0 .. (2 * MaxConcurrentCalls - 2)
      BY <1>13, <2>1 DEF SendStart, SendCommand, UAs
    <2>3. startedCalls + 1 \in Nat /\ startedCalls' \in Nat /\ i' \in Nat
      BY <1>13 DEF SendStart, SendCommand, TypeOK
    <2>4. startCallChan' \in [UAs -> Nat]
      <3>1. startCallChan' = [startCallChan EXCEPT ![j % MaxConcurrentCalls] = startedCalls + 1]
        BY <1>13 DEF SendStart, SendCommand
      <3> QED
        BY <2>3, <3>1 DEF TypeOK, SlotTypeOK
    <2> QED
      BY <1>13, <2>2, <2>3, <2>4 DEF SendStart, SendCommand, TypeOK, SlotTypeOK, counters
  <1>14. CASE AllExited
    BY <1>14 DEF AllExited, TypeOK, SlotTypeOK, slotVars, counters
  <1>15. CASE Signal
    BY <1>15 DEF Signal, MainCancel, TypeOK, SlotTypeOK, mainVars, counters
  <1>16. CASE \E n \in UAs : Agent(n)
    <2> SUFFICES ASSUME NEW n \in UAs, Agent(n) PROVE TypeOK'
      BY <1>16
    <2>1. CASE SendReport(n)
      <3>1. PICK result \in CallResults :
              callEndChan' = Append(callEndChan, [AccountIndex |-> n, CallIndex |-> report[n],
                                                  CallResult |-> result])
        BY <2>1 DEF SendReport
      <3>2. [AccountIndex |-> n, CallIndex |-> report[n], CallResult |-> result] \in CallReport
        BY <2>1 DEF SendReport, CallReport, TypeOK, SlotTypeOK
      <3> QED
        BY <2>1, <3>1, <3>2, AppendProperties, LenProperties DEF SendReport, Agent, TypeOK, SlotTypeOK, mainVars, counters
    <2>2. CASE ~SendReport(n)
      <3>0. SlotTypeOK' => TypeOK'
        BY DEF Agent, TypeOK, mainVars, counters
      <3> SUFFICES SlotTypeOK'
        BY <3>0
      <3> USE DEF TypeOK, SlotTypeOK
      <3>1. CASE UAStarts(n)
        BY <3>1 DEF UAStarts
      <3>2. CASE UAFails(n)
        BY <3>2 DEF UAFails
      <3>3. CASE TakeCall(n)
        BY <3>3 DEF TakeCall
      <3>4. CASE EndCall(n)
        BY <3>4 DEF EndCall
      <3>5. CASE Leave(n)
        BY <3>5 DEF Leave
      <3>6. CASE Exit(n)
        BY <3>6 DEF Exit
      <3> QED
        BY <2>2, <3>1, <3>2, <3>3, <3>4, <3>5, <3>6 DEF Agent, UAStep
    <2> QED
      BY <2>1, <2>2
  <1>17. CASE UNCHANGED vars
    BY <1>17 DEF vars, mainVars, slotVars, counters, TypeOK, SlotTypeOK
  <1> QED
    BY <1>1, <1>2, <1>3, <1>4, <1>5, <1>6, <1>7, <1>8, <1>9, <1>10, <1>11, <1>12, <1>13,
       <1>14, <1>15, <1>16, <1>17 DEF Next, Main, Done
-----------------------------------------------------------------------------
(***************************************************************************)
(* One call per agent.                                                     *)
(***************************************************************************)

\* Initially no agent has a call.
LEMMA CallInit == Init => OneCallPerAgent /\ IdleMeansFree
  <1> SUFFICES ASSUME Init PROVE OneCallPerAgent /\ IdleMeansFree
    OBVIOUS
  <1>1. Len(callEndChan) = 0
    BY EmptySeq DEF Init, SlotInit
  <1>2. ReportsDistinct /\ \A n \in UAs : NoneQueued(n)
    BY <1>1 DEF ReportsDistinct, NoneQueued
  <1>3. \A n \in UAs : Free(n) /\ ~InHand(n) /\ ~Sending(n)
    BY <1>2 DEF Init, SlotInit, Free, InHand, Sending
  <1> QED
    BY <1>2, <1>3 DEF OneCallPerAgent, OneCall, IdleMeansFree, Free

\* Receiving the oldest report of callEndChan leaves none of its agent.
LEMMA QueueTail ==
  ASSUME TypeOK, ReportsDistinct, ReceiveReport
  PROVE  /\ Head(callEndChan).AccountIndex \in UAs
         /\ \A n \in UAs : n = Head(callEndChan).AccountIndex
                             => ~NoneQueued(n) /\ NoneQueued(n)'
         /\ \A n \in UAs : NoneQueued(n) => NoneQueued(n)'
         /\ ReportsDistinct'
  <1>1. /\ callEndChan \in Seq(CallReport)
        /\ callEndChan # <<>>
        /\ callEndChan' = Tail(callEndChan)
    BY DEF TypeOK, SlotTypeOK, ReceiveReport
  <1>2. /\ Len(callEndChan) \in Nat \ {0}
        /\ Len(callEndChan') = Len(callEndChan) - 1
        /\ \A k \in 1 .. Len(callEndChan') : callEndChan'[k] = callEndChan[k + 1]
    BY <1>1, HeadTailProperties, EmptySeq
  <1>3. Head(callEndChan) = callEndChan[1] /\ Head(callEndChan) \in CallReport
    BY <1>1, HeadTailProperties
  <1>4. Head(callEndChan).AccountIndex \in UAs
    BY <1>3 DEF CallReport
  <1>5. ASSUME NEW n \in UAs, n = Head(callEndChan).AccountIndex
        PROVE  ~NoneQueued(n)
    BY <1>2, <1>3, <1>5 DEF NoneQueued
  <1>6. ASSUME NEW n \in UAs, n = Head(callEndChan).AccountIndex
        PROVE  NoneQueued(n)'
    <2> SUFFICES ASSUME NEW k \in 1 .. Len(callEndChan')
                 PROVE  callEndChan'[k].AccountIndex # n
      BY DEF NoneQueued
    <2> QED
      BY <1>2, <1>3, <1>6 DEF ReportsDistinct
  <1>7. \A n \in UAs : NoneQueued(n) => NoneQueued(n)'
    BY <1>2 DEF NoneQueued
  <1>8. ReportsDistinct'
    <2>1. \A k \in 1 .. Len(callEndChan') : k + 1 \in 1 .. Len(callEndChan)
      BY <1>2
    <2> QED
      BY <1>2, <2>1 DEF ReportsDistinct
  <1> QED
    BY <1>4, <1>5, <1>6, <1>7, <1>8

\* The report of an agent is its only one.
LEMMA QueueAppend ==
  ASSUME TypeOK, OneCallPerAgent, NEW n \in UAs, SendReport(n)
  PROVE  /\ \A m \in UAs : m # n /\ NoneQueued(m) => NoneQueued(m)'
         /\ ReportsDistinct'
  <1>1. PICK result \in CallResults :
          callEndChan' = Append(callEndChan, [AccountIndex |-> n, CallIndex |-> report[n],
                                              CallResult |-> result])
    BY DEF SendReport
  <1> DEFINE r == [AccountIndex |-> n, CallIndex |-> report[n], CallResult |-> result]
  <1>2. r \in CallReport /\ r.AccountIndex = n
    BY DEF SendReport, CallReport, TypeOK, SlotTypeOK
  <1>3. callEndChan' = Append(callEndChan, r)
    BY <1>1
  <1>4. callEndChan \in Seq(CallReport) /\ Len(callEndChan) \in Nat
    BY LenProperties DEF TypeOK, SlotTypeOK
  <1> HIDE DEF r
  <1>5. /\ Len(callEndChan') = Len(callEndChan) + 1
        /\ \A k \in 1 .. Len(callEndChan) : callEndChan'[k] = callEndChan[k]
        /\ callEndChan'[Len(callEndChan) + 1].AccountIndex = n
    BY <1>2, <1>3, <1>4, AppendProperties
  <1>6. NoneQueued(n)
    BY DEF OneCallPerAgent, OneCall, SendReport
  <1>7. \A k \in 1 .. Len(callEndChan') :
           \/ k \in 1 .. Len(callEndChan) /\ callEndChan'[k] = callEndChan[k]
           \/ k = Len(callEndChan) + 1 /\ callEndChan'[k].AccountIndex = n
    BY <1>4, <1>5
  <1>8. \A m \in UAs : m # n /\ NoneQueued(m) => NoneQueued(m)'
    BY <1>7 DEF NoneQueued
  <1>9. ReportsDistinct'
    BY <1>6, <1>7 DEF ReportsDistinct, NoneQueued, OneCallPerAgent
  <1> QED
    BY <1>8, <1>9

\* A step that moves no call and takes none into the dispatcher's hand.
LEMMA CallFrame ==
  ASSUME OneCallPerAgent, IdleMeansFree,
         UNCHANGED <<startCallChan, call, report, callEndChan, inCall>>,
         \A n \in UAs : (InHand(n)' => InHand(n)) /\ (Sending(n)' => Sending(n))
  PROVE  OneCallPerAgent' /\ IdleMeansFree'
  <1>1. \A n \in UAs : NoneQueued(n)' = NoneQueued(n)
    BY DEF NoneQueued
  <1>2. \A n \in UAs : Free(n)' = Free(n)
    BY <1>1 DEF Free
  <1>3. ReportsDistinct'
    BY DEF OneCallPerAgent, ReportsDistinct
  <1>4. \A n \in UAs : OneCall(n)'
    BY <1>1, <1>2 DEF OneCallPerAgent, OneCall
  <1>5. IdleMeansFree'
    BY <1>2 DEF IdleMeansFree
  <1> QED
    BY <1>3, <1>4, <1>5 DEF OneCallPerAgent

\* The receive of a report: from the channel into the dispatcher's hand.
LEMMA CallReceive ==
  ASSUME TypeOK, OneCallPerAgent, IdleMeansFree, ReceiveReport,
         cr' = Head(callEndChan), pc' \in {"len", "account"},
         \A n \in UAs : inCall'[n] # inCall[n] => Free(n) /\ n # Head(callEndChan).AccountIndex
  PROVE  OneCallPerAgent' /\ IdleMeansFree'
  <1>1. ReportsDistinct
    BY DEF OneCallPerAgent
  <1>2. /\ ReportsDistinct'
        /\ \A n \in UAs : NoneQueued(n) => NoneQueued(n)'
        /\ \A n \in UAs : n = cr'.AccountIndex => ~NoneQueued(n) /\ NoneQueued(n)'
    BY <1>1, QueueTail
  <1>3. UNCHANGED <<startCallChan, call, report>>
    BY DEF ReceiveReport
  <1>4. \A n \in UAs : ~Sending(n)' /\ (InHand(n)' => n = cr'.AccountIndex)
    BY DEF Sending, InHand
  <1>5. \A n \in UAs : Free(n) => Free(n)'
    BY <1>2, <1>3 DEF Free
  <1>6. ASSUME NEW n \in UAs PROVE OneCall(n)'
    <2>1. OneCall(n)
      BY DEF OneCallPerAgent
    <2>2. InHand(n)' => Free(n)'
      BY <2>1, <1>2, <1>3, <1>4 DEF OneCall, Free
    <2> QED
      BY <2>1, <2>2, <1>2, <1>3, <1>4 DEF OneCall
  <1>7. ASSUME NEW n \in UAs, ~inCall'[n] PROVE Free(n)' /\ ~InHand(n)' /\ ~Sending(n)'
    <2>1. Free(n) /\ n # cr'.AccountIndex
      <3>1. CASE inCall'[n] # inCall[n]
        BY <3>1
      <3>2. CASE inCall'[n] = inCall[n]
        <4>1. Free(n)
          BY <1>7, <3>2 DEF IdleMeansFree
        <4> QED
          BY <4>1, <1>2 DEF Free
      <3> QED
        BY <3>1, <3>2
    <2> QED
      BY <2>1, <1>4, <1>5
  <1> QED
    BY <1>2, <1>6, <1>7 DEF OneCallPerAgent, IdleMeansFree

\* What one agent does with its call does not concern the others.
LEMMA CallAgent ==
  ASSUME TypeOK, OneCallPerAgent, IdleMeansFree, NEW n \in UAs, UAStep(n), UNCHANGED mainVars
  PROVE  OneCallPerAgent' /\ IdleMeansFree'
  <1>1. \A m \in UAs : InHand(m)' = InHand(m) /\ Sending(m)' = Sending(m)
    BY DEF InHand, Sending, mainVars
  <1>2. inCall' = inCall
    BY DEF mainVars
  <1>3. CASE UAStarts(n) \/ UAFails(n) \/ Exit(n)
    <2>1. UNCHANGED <<startCallChan, call, report, callEndChan>>
      BY <1>3 DEF UAStarts, UAFails, Exit
    <2> QED
      BY <1>1, <1>2, <2>1, CallFrame
  <1>4. CASE TakeCall(n) \/ EndCall(n) \/ Leave(n)
    <2>1. callEndChan' = callEndChan
      BY <1>4 DEF TakeCall, EndCall, Leave
    <2>2. ReportsDistinct' /\ \A m \in UAs : NoneQueued(m)' = NoneQueued(m)
      BY <2>1 DEF OneCallPerAgent, ReportsDistinct, NoneQueued
    <2>3. \A m \in UAs : m # n => /\ startCallChan'[m] = startCallChan[m]
                                  /\ call'[m] = call[m]
                                  /\ report'[m] = report[m]
      BY <1>4 DEF TakeCall, EndCall, Leave, TypeOK, SlotTypeOK
    <2>4. OneCall(n) /\ (~inCall[n] => Free(n) /\ ~InHand(n) /\ ~Sending(n))
      BY DEF OneCallPerAgent, IdleMeansFree
    <2>5. OneCall(n)' /\ (~inCall[n] => Free(n)')
      <3>1. CASE TakeCall(n)
        <4>1. startCallChan[n] # 0 /\ startCallChan'[n] = 0 /\ report'[n] = report[n]
          BY <3>1 DEF TakeCall, TypeOK, SlotTypeOK
        <4> QED
          BY <2>2, <2>4, <4>1, <1>1 DEF OneCall, Free
      <3>2. CASE EndCall(n)
        <4>1. call[n] # 0 /\ call'[n] = 0 /\ startCallChan'[n] = startCallChan[n]
          BY <3>2 DEF EndCall, TypeOK, SlotTypeOK
        <4> QED
          BY <2>2, <2>4, <4>1, <1>1 DEF OneCall, Free
      <3>3. CASE Leave(n)
        <4>1. /\ call'[n] = 0
              /\ startCallChan'[n] = startCallChan[n]
              /\ report'[n] = report[n]
          BY <3>3 DEF Leave, TypeOK, SlotTypeOK
        <4> QED
          BY <2>2, <2>4, <4>1, <1>1 DEF OneCall, Free
      <3> QED
        BY <1>4, <3>1, <3>2, <3>3
    <2>6. \A m \in UAs : m # n => OneCall(m)' /\ (~inCall[m] => Free(m)')
      BY <1>1, <2>2, <2>3 DEF OneCall, Free, OneCallPerAgent, IdleMeansFree
    <2>7. \A m \in UAs : OneCall(m)' /\ (~inCall[m] => Free(m)')
      BY <2>5, <2>6
    <2> QED
      BY <1>1, <1>2, <2>2, <2>7 DEF OneCallPerAgent, IdleMeansFree
  <1>5. CASE SendReport(n)
    <2>1. /\ ReportsDistinct'
          /\ \A m \in UAs : m # n /\ NoneQueued(m) => NoneQueued(m)'
      BY <1>5, QueueAppend
    <2>2. /\ startCallChan' = startCallChan /\ call' = call
          /\ \A m \in UAs : m # n => report'[m] = report[m]
          /\ report[n] # 0 /\ report'[n] = 0
      BY <1>5 DEF SendReport, TypeOK, SlotTypeOK
    <2>3. OneCall(n) /\ (~inCall[n] => Free(n))
      BY DEF OneCallPerAgent, IdleMeansFree
    <2>4. OneCall(n)' /\ inCall[n]
      BY <1>1, <2>2, <2>3 DEF OneCall, Free
    <2>5. \A m \in UAs : m # n => OneCall(m)' /\ (~inCall[m] => Free(m)')
      BY <1>1, <2>1, <2>2 DEF OneCall, Free, OneCallPerAgent, IdleMeansFree
    <2>6. \A m \in UAs : OneCall(m)' /\ (~inCall[m] => Free(m)')
      BY <2>4, <2>5
    <2> QED
      BY <1>1, <1>2, <2>1, <2>6 DEF OneCallPerAgent, IdleMeansFree
  <1> QED
    BY <1>3, <1>4, <1>5 DEF UAStep

\* Every step keeps a call in one place and the idle agents free.
LEMMA CallStep == IInv /\ [Next]_vars => OneCallPerAgent' /\ IdleMeansFree'
  <1> SUFFICES ASSUME IInv, [Next]_vars PROVE OneCallPerAgent' /\ IdleMeansFree'
    OBVIOUS
  <1>0. TypeOK /\ OneCallPerAgent /\ IdleMeansFree
    BY DEF IInv
  <1> DEFINE t == j % MaxConcurrentCalls
  <1>1. t \in UAs
    BY <1>0, ModRange DEF TypeOK
  <1>2. CASE NextBatch \/ SelectDone \/ SelectDefault \/ SnapshotLen \/ DecideStop
               \/ DecideIdle \/ DecideStart \/ PickNext \/ AllExited \/ Signal
               \/ UNCHANGED vars
    <2> USE <1>2 DEF NextBatch, SelectDone, SelectDefault, SnapshotLen, TakeLen, DecideStop,
                     DecideIdle, DecideStart, DecideStartIf, PickNext, AllExited, Signal,
                     MainCancel, slotVars, mainVars, vars
    <2>1. UNCHANGED <<startCallChan, call, report, callEndChan, inCall>>
      OBVIOUS
    <2>2. \A n \in UAs : InHand(n)' => InHand(n)
      BY DEF InHand
    <2>3. \A n \in UAs : Sending(n)' => Sending(n)
      BY DEF Sending
    <2> QED
      BY <1>0, <2>1, <2>2, <2>3, CallFrame
  <1>3. CASE SelectReport
    <2>1. /\ ReceiveReport
          /\ cr' = Head(callEndChan) /\ pc' = "len" /\ inCall' = inCall
      BY <1>3 DEF SelectReport
    <2> QED
      BY <1>0, <2>1, CallReceive
  <1>4. CASE AccountMore
    <2>1. /\ ReceiveReport
          /\ cr' = Head(callEndChan) /\ pc' = "account"
      BY <1>4 DEF AccountMore
    <2>2. cr.AccountIndex \in UAs /\ InHand(cr.AccountIndex)
      BY <1>0, <1>4, CrAgent DEF AccountMore, InHand
    <2>3. \A n \in UAs : inCall'[n] # inCall[n] => n = cr.AccountIndex
      BY <1>0, <1>4, <2>2 DEF AccountMore, Tally, TallyReport, TypeOK
    <2>4. Free(cr.AccountIndex)
      BY <1>0, <2>2 DEF OneCallPerAgent, OneCall
    <2>5. cr.AccountIndex # Head(callEndChan).AccountIndex
      BY <1>0, <2>1, <2>2, <2>4, QueueTail DEF Free, OneCallPerAgent
    <2> QED
      BY <1>0, <2>1, <2>3, <2>4, <2>5, CallReceive
  <1>5. CASE AccountLast
    <2>1. UNCHANGED <<startCallChan, call, report, callEndChan>> /\ pc' = "decide"
      BY <1>5 DEF AccountLast, slotVars
    <2>2. /\ ReportsDistinct'
          /\ \A n \in UAs : NoneQueued(n)' = NoneQueued(n)
      BY <1>0, <2>1 DEF OneCallPerAgent, ReportsDistinct, NoneQueued
    <2>3. \A n \in UAs : ~InHand(n)' /\ ~Sending(n)' /\ Free(n)' = Free(n)
      BY <2>1, <2>2 DEF InHand, Sending, Free
    <2>4. cr.AccountIndex \in UAs /\ InHand(cr.AccountIndex)
      BY <1>0, <1>5, CrAgent DEF AccountLast, InHand
    <2>5. \A n \in UAs : inCall'[n] # inCall[n] => n = cr.AccountIndex
      BY <1>0, <1>5, <2>4 DEF AccountLast, Tally, TallyReport, TypeOK
    <2>6. Free(cr.AccountIndex)
      BY <1>0, <2>4 DEF OneCallPerAgent, OneCall
    <2>7. \A n \in UAs : ~inCall'[n] => Free(n)
      BY <1>0, <2>5, <2>6 DEF IdleMeansFree
    <2>8. \A n \in UAs : OneCall(n)'
      BY <1>0, <2>1, <2>2, <2>3 DEF OneCallPerAgent, OneCall
    <2> QED
      BY <2>2, <2>3, <2>7, <2>8 DEF OneCallPerAgent, IdleMeansFree
  <1>6. CASE PickIdle
    <2>1. /\ UNCHANGED <<startCallChan, call, report, callEndChan, j>>
          /\ pc' = "send" /\ ~inCall[t]
          /\ inCall' = [inCall EXCEPT ![t] = TRUE]
      BY <1>6 DEF PickIdle, slotVars
    <2>2. /\ ReportsDistinct'
          /\ \A n \in UAs : NoneQueued(n)' = NoneQueued(n)
      BY <1>0, <2>1 DEF OneCallPerAgent, ReportsDistinct, NoneQueued
    <2>3. \A n \in UAs : ~InHand(n)' /\ (Sending(n)' => n = t) /\ Free(n)' = Free(n)
      BY <2>1, <2>2 DEF InHand, Sending, Free
    <2> HIDE DEF t
    <2>4. Free(t)
      BY <1>0, <1>1, <2>1 DEF IdleMeansFree
    <2>5. \A n \in UAs : ~inCall'[n] => ~inCall[n] /\ n # t
      BY <1>0, <1>1, <2>1 DEF TypeOK
    <2>6. \A n \in UAs : OneCall(n)'
      BY <1>0, <2>1, <2>2, <2>3, <2>4 DEF OneCallPerAgent, OneCall
    <2>7. IdleMeansFree'
      BY <1>0, <2>3, <2>5 DEF IdleMeansFree
    <2> QED
      BY <2>2, <2>6, <2>7 DEF OneCallPerAgent
  <1>7. CASE SendStart
    <2>1. /\ UNCHANGED <<call, report, callEndChan, inCall>>
          /\ pc = "send" /\ pc' = "select"
          /\ startCallChan' = [startCallChan EXCEPT ![t] = startedCalls + 1]
      BY <1>7 DEF SendStart, SendCommand
    <2>2. /\ ReportsDistinct'
          /\ \A n \in UAs : NoneQueued(n)' = NoneQueued(n)
      BY <1>0, <2>1 DEF OneCallPerAgent, ReportsDistinct, NoneQueued
    <2>3. \A n \in UAs : ~InHand(n)' /\ ~Sending(n)'
      BY <2>1 DEF InHand, Sending
    <2>4. Sending(t)
      BY <2>1 DEF Sending
    <2> HIDE DEF t
    <2>5. Free(t) /\ inCall[t]
      BY <1>0, <1>1, <2>4 DEF OneCallPerAgent, OneCall, IdleMeansFree
    <2>6. \A n \in UAs : n # t => startCallChan'[n] = startCallChan[n]
      BY <1>0, <1>1, <2>1 DEF TypeOK, SlotTypeOK
    <2>7. \A n \in UAs : OneCall(n)'
      BY <1>0, <2>1, <2>2, <2>3, <2>5, <2>6 DEF OneCallPerAgent, OneCall, Free
    <2>8. IdleMeansFree'
      BY <1>0, <2>1, <2>2, <2>3, <2>5, <2>6 DEF IdleMeansFree, Free
    <2> QED
      BY <2>2, <2>7, <2>8 DEF OneCallPerAgent
  <1>8. CASE \E n \in UAs : Agent(n)
    BY <1>0, <1>8, CallAgent DEF Agent
  <1> QED
    BY <1>2, <1>3, <1>4, <1>5, <1>6, <1>7, <1>8 DEF Next, Main, Done

-----------------------------------------------------------------------------
(***************************************************************************)
(* The dispatcher's search, books and limits.                              *)
(***************************************************************************)

\* The search is entered with an idle agent ahead and never passes it.
LEMMA SearchStep == IInv /\ [Next]_vars => SearchEnds'
  <1> SUFFICES ASSUME IInv, [Next]_vars PROVE SearchEnds'
    OBVIOUS
  <1>0. TypeOK /\ Books /\ SearchEnds
    BY DEF IInv
  <1> DEFINE N == MaxConcurrentCalls
  <1>1. CASE DecideStart
    <2>1. PICK n \in UAs : ~inCall[n]
      BY <1>0, <1>1, BusyCount DEF DecideStart, DecideStartIf
    <2>2. pc' = "pick" /\ j' = j /\ inCall' = inCall /\ j < N
      BY <1>0, <1>1 DEF DecideStart, DecideStartIf, SearchEnds
    <2>3. n % N = n /\ (n + N) % N = n
      BY ModWrap
    <2>4. n \in Nat /\ n < N /\ j \in Nat /\ N \in Nat
      BY <1>0, ConcurrencyAssumption DEF UAs, TypeOK
    <2>5. PICK m \in {n, n + N} : m \in j .. (2 * N - 2)
      <3>1. CASE j <= n
        BY <2>4, <3>1
      <3>2. CASE n < j
        BY <2>2, <2>4, <3>2
      <3> QED
        BY <2>4, <3>1, <3>2
    <2>6. ~inCall[m % N]
      BY <2>1, <2>3, <2>5
    <2> QED
      BY <2>2, <2>5, <2>6 DEF SearchEnds
  <1>2. CASE PickNext
    <2>1. /\ pc = "pick" /\ inCall[j % N] /\ j' = j + 1
          /\ pc' = pc /\ inCall' = inCall
      BY <1>2 DEF PickNext
    <2>2. PICK m \in j .. (2 * N - 2) : ~inCall[m % N]
      BY <1>0, <2>1 DEF SearchEnds
    <2>3. m # j
      BY <2>1, <2>2
    <2>4. m \in j' .. (2 * N - 2)
      BY <1>0, <2>1, <2>2, <2>3 DEF TypeOK
    <2> QED
      BY <2>1, <2>2, <2>4 DEF SearchEnds
  <1>3. CASE SendStart
    <2>1. pc' = "select" /\ j' = (j + 1) % N
      BY <1>3 DEF SendStart, SendCommand
    <2>2. j' < N
      BY <1>0, <2>1, ModRange, ConcurrencyAssumption DEF TypeOK, UAs
    <2> QED
      BY <2>1, <2>2 DEF SearchEnds
  <1>4. CASE PickIdle
    BY <1>4 DEF PickIdle, SearchEnds
  <1>5. CASE NextBatch \/ SelectDone \/ SelectReport \/ SelectDefault \/ SnapshotLen
               \/ AccountMore \/ AccountLast \/ DecideStop \/ DecideIdle \/ AllExited
    <2>1. j' = j /\ pc \notin {"pick", "send"} /\ pc' \notin {"pick", "send"}
      BY <1>5 DEF NextBatch, SelectDone, SelectReport, SelectDefault, SnapshotLen, TakeLen,
                  AccountMore, AccountLast, DecideStop, DecideIdle, AllExited
    <2> QED
      BY <1>0, <2>1 DEF SearchEnds
  <1>6. CASE Signal \/ (\E n \in UAs : Agent(n)) \/ UNCHANGED vars
    BY <1>0, <1>6 DEF Signal, Agent, vars, mainVars, SearchEnds
  <1> QED
    BY <1>1, <1>2, <1>3, <1>4, <1>5, <1>6 DEF Next, Main, Done

\* Every start and every accounted report keeps the books.
LEMMA BooksStep == IInv /\ [Next]_vars => Books'
  <1> SUFFICES ASSUME IInv, [Next]_vars PROVE Books'
    OBVIOUS
  <1>0. TypeOK /\ Books /\ IdleMeansFree
    BY DEF IInv
  <1>1. IsFiniteSet(Busy) /\ Cardinality(Busy) \in Nat
    BY <1>0, BusyCount, ConcurrencyAssumption
  <1>2. ASSUME Tally, startedCalls' = startedCalls, pc = "account", pc' # "send"
        PROVE  Books'
    <2> DEFINE a == cr.AccountIndex
    <2>1. a \in UAs /\ cr.CallResult \in CallResults
      BY <1>0, CrAgent
    <2>2. inCall[a]
      BY <1>0, <1>2, <2>1 DEF IdleMeansFree, InHand
    <2>3. /\ inCall' = [inCall EXCEPT ![a] = FALSE]
          /\ idleUac' = idleUac + 1
          /\ completedCalls' = completedCalls + 1
          /\ okCalls' = IF cr.CallResult = "Successful" THEN okCalls + 1 ELSE okCalls
          /\ badCalls' = IF cr.CallResult = "Failed" THEN badCalls + 1 ELSE badCalls
          /\ unknownCalls' = IF cr.CallResult = "" THEN unknownCalls + 1 ELSE unknownCalls
      BY <1>2, <2>2 DEF Tally, TallyReport
    <2>4. completedCalls' = okCalls' + badCalls' + unknownCalls'
      <3>1. okCalls \in Nat /\ badCalls \in Nat /\ unknownCalls \in Nat
            /\ completedCalls = okCalls + badCalls + unknownCalls
        BY <1>0 DEF TypeOK, Books
      <3>2. completedCalls' = completedCalls + 1
        BY <2>3
      <3>3. \/ okCalls' = okCalls + 1 /\ badCalls' = badCalls /\ unknownCalls' = unknownCalls
            \/ okCalls' = okCalls /\ badCalls' = badCalls + 1 /\ unknownCalls' = unknownCalls
            \/ okCalls' = okCalls /\ badCalls' = badCalls /\ unknownCalls' = unknownCalls + 1
        BY <2>1, <2>3 DEF CallResults
      <3> QED
        BY <3>1, <3>2, <3>3
    <2> HIDE DEF a
    <2>5. a \in Busy /\ Busy' = Busy \ {a}
      BY <1>0, <2>1, <2>2, <2>3 DEF Busy, TypeOK
    <2>6. Cardinality(Busy') = Cardinality(Busy) - 1
      BY <1>1, <2>5, FS_RemoveElement
    <2>7. idleUac' = idleUac + 1 /\ completedCalls' = completedCalls + 1
      BY <2>3
    <2>8. /\ idleUac = MaxConcurrentCalls - Cardinality(Busy)
          /\ startedCalls = completedCalls + Cardinality(Busy)
          /\ startedCalls \in Nat /\ completedCalls \in Nat
      BY <1>0, <1>2 DEF Books, TypeOK
    <2>9. /\ idleUac' = MaxConcurrentCalls - Cardinality(Busy')
          /\ startedCalls' = completedCalls' + Cardinality(Busy')
      BY <1>1, <1>2, <2>6, <2>7, <2>8, ConcurrencyAssumption
    <2> QED
      BY <1>2, <2>4, <2>8, <2>9 DEF Books
  <1>3. CASE AccountMore
    BY <1>2, <1>3 DEF AccountMore
  <1>4. CASE AccountLast
    BY <1>2, <1>4 DEF AccountLast
  <1>5. CASE PickIdle
    <2> DEFINE t == j % MaxConcurrentCalls
    <2>1. t \in UAs
      BY <1>0, ModRange DEF TypeOK
    <2>2. /\ pc = "pick" /\ pc' = "send" /\ ~inCall[t]
          /\ inCall' = [inCall EXCEPT ![t] = TRUE]
          /\ idleUac' = idleUac - 1
          /\ UNCHANGED <<startedCalls, completedCalls, okCalls, badCalls, unknownCalls>>
      BY <1>5 DEF PickIdle, counters
    <2> HIDE DEF t
    <2>3. t \notin Busy /\ Busy' = Busy \cup {t}
      BY <1>0, <2>1, <2>2 DEF Busy, TypeOK
    <2>4. Cardinality(Busy') = Cardinality(Busy) + 1
      BY <1>1, <2>3, FS_AddElement
    <2> QED
      BY <1>0, <1>1, <2>2, <2>4, ConcurrencyAssumption DEF Books, TypeOK
  <1>6. CASE SendStart
    <2>1. /\ pc = "send" /\ pc' = "select" /\ startedCalls' = startedCalls + 1
          /\ UNCHANGED <<inCall, idleUac, completedCalls, okCalls, badCalls, unknownCalls>>
      BY <1>6 DEF SendStart, SendCommand, counters
    <2>2. Busy' = Busy
      BY <2>1 DEF Busy
    <2> QED
      BY <1>0, <1>1, <2>1, <2>2 DEF Books, TypeOK
  <1>7. CASE NextBatch \/ SelectDone \/ SelectReport \/ SelectDefault \/ SnapshotLen
               \/ DecideStop \/ DecideIdle \/ DecideStart \/ PickNext \/ AllExited
               \/ Signal \/ (\E n \in UAs : Agent(n)) \/ UNCHANGED vars
    <2>1. /\ UNCHANGED <<startedCalls, inCall, idleUac, completedCalls,
                         okCalls, badCalls, unknownCalls>>
          /\ (pc' = "send") = (pc = "send")
      BY <1>7 DEF NextBatch, SelectDone, SelectReport, SelectDefault, SnapshotLen, TakeLen,
                  DecideStop, DecideIdle, DecideStart, DecideStartIf, PickNext, AllExited,
                  Signal, Agent, vars, mainVars, counters
    <2>2. Busy' = Busy
      BY <2>1 DEF Busy
    <2> QED
      BY <1>0, <2>1, <2>2 DEF Books
  <1> QED
    BY <1>3, <1>4, <1>5, <1>6, <1>7 DEF Next, Main, Done

\* A start is decided only below the limit.
LEMMA NeverStep == IInv /\ [Next]_vars => NeverTooMany'
  <1> SUFFICES ASSUME IInv, [Next]_vars, TotalCalls > 0 PROVE NeverTooMany'
    BY DEF NeverTooMany
  <1>0. /\ TypeOK /\ startedCalls \in Nat /\ TotalCalls \in Int
        /\ startedCalls <= TotalCalls
        /\ pc \in {"pick", "send"} => startedCalls < TotalCalls
    BY TotalAssumption DEF IInv, NeverTooMany, TypeOK
  <1>1. CASE DecideStart
    BY <1>0, <1>1 DEF DecideStart, DecideStartIf, StartedAll, NeverTooMany
  <1>2. CASE SendStart
    BY <1>0, <1>2 DEF SendStart, SendCommand, NeverTooMany
  <1>3. CASE NextBatch \/ SelectDone \/ SelectReport \/ SelectDefault \/ SnapshotLen
               \/ AccountMore \/ AccountLast \/ DecideStop \/ DecideIdle \/ PickNext
               \/ PickIdle \/ AllExited \/ Signal \/ (\E n \in UAs : Agent(n))
               \/ UNCHANGED vars
    <2>1. /\ startedCalls' = startedCalls
          /\ pc' \in {"pick", "send"} => pc \in {"pick", "send"}
      BY <1>3 DEF NextBatch, SelectDone, SelectReport, SelectDefault, SnapshotLen, TakeLen,
                  AccountMore, AccountLast, DecideStop, DecideIdle, PickNext, PickIdle,
                  AllExited, Signal, Agent, vars, mainVars
    <2> QED
      BY <1>0, <2>1 DEF NeverTooMany
  <1> QED
    BY <1>1, <1>2, <1>3 DEF Next, Main, Done

\* Agents only add to callEndChan, so the snapshot of its length stays valid.
LEMMA SnapshotStep == IInv /\ [Next]_vars => SnapshotHeld'
  <1> SUFFICES ASSUME IInv, [Next]_vars PROVE SnapshotHeld'
    OBVIOUS
  <1>0. /\ TypeOK /\ SnapshotHeld /\ OneCallPerAgent
        /\ callEndChan \in Seq(CallReport) /\ Len(callEndChan) \in Nat /\ eccLen \in Nat
    BY LenProperties, ConcurrencyAssumption DEF IInv, TypeOK, SlotTypeOK
  <1>1. CASE SnapshotLen
    BY <1>0, <1>1 DEF SnapshotLen, TakeLen, slotVars, SnapshotHeld
  <1>2. CASE AccountMore
    <2>1. /\ pc = "account" /\ eccLen' = eccLen - 1
          /\ callEndChan # <<>> /\ callEndChan' = Tail(callEndChan)
      BY <1>2 DEF AccountMore, ReceiveReport
    <2>2. Len(callEndChan') = Len(callEndChan) - 1
      BY <1>0, <2>1, HeadTailProperties
    <2> QED
      BY <1>0, <2>1, <2>2 DEF SnapshotHeld
  <1>3. CASE \E n \in UAs : Agent(n)
    <2>1. PICK n \in UAs : Agent(n)
      BY <1>3
    <2>2. pc' = pc /\ eccLen' = eccLen
      BY <2>1 DEF Agent, mainVars
    <2>3. CASE SendReport(n)
      <3>1. PICK result \in CallResults :
              callEndChan' = Append(callEndChan, [AccountIndex |-> n, CallIndex |-> report[n],
                                                  CallResult |-> result])
        BY <2>3 DEF SendReport
      <3>2. [AccountIndex |-> n, CallIndex |-> report[n], CallResult |-> result] \in CallReport
        BY <1>0, <2>3 DEF SendReport, CallReport, TypeOK, SlotTypeOK
      <3>3. Len(callEndChan') = Len(callEndChan) + 1
        BY <1>0, <3>1, <3>2, AppendProperties
      <3> QED
        BY <1>0, <2>2, <3>3 DEF SnapshotHeld
    <2>4. CASE ~SendReport(n)
      <3>1. callEndChan' = callEndChan
        BY <2>1, <2>4 DEF Agent, UAStep, UAStarts, UAFails, TakeCall, EndCall, Leave, Exit
      <3> QED
        BY <1>0, <2>2, <3>1 DEF SnapshotHeld
    <2> QED
      BY <2>3, <2>4
  <1>4. CASE NextBatch \/ SelectDone \/ SelectReport \/ SelectDefault \/ AccountLast
               \/ DecideStop \/ DecideIdle \/ DecideStart \/ PickNext \/ PickIdle
               \/ SendStart \/ AllExited
    <2>1. pc' # "account"
      BY <1>4 DEF NextBatch, SelectDone, SelectReport, SelectDefault, AccountLast, DecideStop,
                  DecideIdle, DecideStart, DecideStartIf, PickNext, PickIdle, SendStart,
                  SendCommand, AllExited
    <2> QED
      BY <2>1 DEF SnapshotHeld
  <1>5. CASE Signal \/ UNCHANGED vars
    BY <1>0, <1>5 DEF Signal, MainCancel, vars, slotVars, mainVars, SnapshotHeld
  <1> QED
    BY <1>1, <1>2, <1>3, <1>4, <1>5 DEF Next, Main, Done

-----------------------------------------------------------------------------
(***************************************************************************)
(* The theorems.                                                           *)
(***************************************************************************)

\* The program starts in the invariant.
LEMMA InvInit == Init => IInv
  <1> SUFFICES ASSUME Init PROVE IInv
    OBVIOUS
  <1>1. TypeOK /\ OneCallPerAgent /\ IdleMeansFree
    BY TypeInit, CallInit
  <1>2. SearchEnds /\ SnapshotHeld
    BY ConcurrencyAssumption DEF Init, SearchEnds, SnapshotHeld
  <1>3. Books
    <2>1. Cardinality(Busy) = 0
      BY FS_EmptySet DEF Init, Busy
    <2> QED
      BY <2>1, ConcurrencyAssumption DEF Init, Books
  <1>4. NeverTooMany
    BY TotalAssumption DEF Init, NeverTooMany
  <1> QED
    BY <1>1, <1>2, <1>3, <1>4 DEF IInv

\* The invariant holds throughout: the base of everything below.
THEOREM Invariance == Spec => []IInv
  <1>1. IInv /\ [Next]_vars => IInv'
    BY TypeStep, CallStep, SearchStep, BooksStep, NeverStep, SnapshotStep DEF IInv
  <1> QED
    BY InvInit, <1>1, PTL DEF Spec

\* Type correctness, with idleUac within 0..MaxConcurrentCalls and the
\* round-robin position of main.go:200-211 below two rounds.
THEOREM TypeCorrect == Spec => []TypeOK
  BY Invariance, PTL DEF IInv

\* However dispatcher, event loops and reporting goroutines interleave, the
\* call of an agent is in one place (main.go:135-213, sip/ua.go:231-390).
THEOREM OneCallAtATime == Spec => []OneCallPerAgent
  BY Invariance, PTL DEF IInv

\* An agent that inCall says is idle has nothing of a call: the dispatcher's
\* "What's wrong, not in call?" (main.go:166) is a dead branch, and so is the
\* agent's "this will never happen" (sip/ua.go:233) as far as main is concerned.
THEOREM IdleAgentsFree == Spec => []IdleMeansFree
  BY Invariance, PTL DEF IInv

\* The search loop of main.go:200-205 never runs without an idle agent ahead.
THEOREM SearchTerminates == Spec => []SearchEnds
  BY Invariance, PTL DEF IInv

\* The counters of the summary (main.go:218-223) agree with each other and with
\* inCall at every step.
THEOREM BooksBalance == Spec => []Books
  BY Invariance, PTL DEF IInv

\* No more than TotalCalls calls are ever started (main.go:178-189).
THEOREM CallLimit == Spec => []NeverTooMany
  BY Invariance, PTL DEF IInv

\* With a report pending some other agent's report is missing in callEndChan,
\* so it has room (pigeonhole).
LEMMA NobodyBlocked == IInv => NoBlockedSender
  <1> SUFFICES ASSUME IInv PROVE NoBlockedSender
    OBVIOUS
  <1>0. TypeOK /\ OneCallPerAgent /\ SnapshotHeld
    BY DEF IInv
  <1>1. pc = "send" => startCallChan[j % MaxConcurrentCalls] = 0
    <2>1. j % MaxConcurrentCalls \in UAs
      BY <1>0, ModRange DEF TypeOK
    <2> QED
      BY <1>0, <2>1 DEF OneCallPerAgent, OneCall, Sending, Free
  <1>2. ASSUME NEW n \in UAs, report[n] # 0
        PROVE  Len(callEndChan) < MaxConcurrentCalls
    <2>1. /\ callEndChan \in Seq(CallReport) /\ Len(callEndChan) \in Nat
          /\ Len(callEndChan) <= MaxConcurrentCalls
      BY <1>0, LenProperties DEF TypeOK, SlotTypeOK
    <2>2. NoneQueued(n) /\ ReportsDistinct
      BY <1>0, <1>2 DEF OneCallPerAgent, OneCall
    <2> SUFFICES ASSUME Len(callEndChan) = MaxConcurrentCalls PROVE FALSE
      BY <2>1, ConcurrencyAssumption
    <2> DEFINE S == 1 .. MaxConcurrentCalls
               T == UAs \ {n}
               f == [k \in S |-> callEndChan[k].AccountIndex]
    <2>3. IsFiniteSet(S) /\ Cardinality(S) = MaxConcurrentCalls
      BY ConcurrencyAssumption, FS_Interval
    <2>4. IsFiniteSet(UAs) /\ Cardinality(UAs) = MaxConcurrentCalls
      BY ConcurrencyAssumption, FS_Interval DEF UAs
    <2>5. IsFiniteSet(T) /\ Cardinality(T) = MaxConcurrentCalls - 1
      BY <2>4, FS_RemoveElement
    <2>6. f \in [S -> T]
      <3>1. \A k \in S : callEndChan[k] \in CallReport
        BY <2>1, ElementOfSeq
      <3>2. \A k \in S : callEndChan[k].AccountIndex \in T
        BY <2>2, <3>1 DEF NoneQueued, CallReport
      <3> QED
        BY <3>2
    <2>7. Cardinality(T) < Cardinality(S)
      BY <2>3, <2>5, ConcurrencyAssumption
    <2> HIDE DEF T, f
    <2>8. \E x, y \in S : x # y /\ f[x] = f[y]
      BY <2>3, <2>5, <2>6, <2>7, FS_PigeonHole
    <2> QED
      BY <2>2, <2>8 DEF f, ReportsDistinct
  <1> QED
    BY <1>0, <1>1, <1>2 DEF NoBlockedSender

\* The capacities of startCallChan and callEndChan (main.go:112 and 126) are
\* enough: no send of the dispatcher or of a reporting goroutine ever blocks, and
\* no receive of the accounting loop.
THEOREM NeverBlocked == Spec => []NoBlockedSender
  BY Invariance, NobodyBlocked, PTL

\* Every step is one the contract of CallSlots allows, or changes nothing of it.
LEMMA SlotStep == IInv /\ [Next]_vars => [SlotNext]_slotVars
  <1> SUFFICES ASSUME IInv, [Next]_vars PROVE [SlotNext]_slotVars
    OBVIOUS
  <1>1. CASE NextBatch \/ SelectDone \/ SelectDefault \/ SnapshotLen \/ AccountLast
               \/ DecideIdle \/ DecideStart \/ PickNext \/ PickIdle \/ AllExited
               \/ UNCHANGED vars
    BY <1>1 DEF NextBatch, SelectDone, SelectDefault, SnapshotLen, TakeLen, AccountLast,
                DecideIdle, DecideStart, DecideStartIf, PickNext, PickIdle, AllExited, vars
  <1>2. CASE SelectReport \/ AccountMore
    BY <1>2 DEF SelectReport, AccountMore, SlotNext
  <1>3. CASE Signal
    BY <1>3 DEF Signal, SlotNext
  <1>4. CASE DecideStop
    <2>1. CASE mainDone
      BY <1>4, <2>1 DEF DecideStop, slotVars
    <2>2. CASE ~mainDone
      BY <1>4, <2>2 DEF DecideStop, MainCancel, SlotNext
    <2> QED
      BY <2>1, <2>2
  <1>5. CASE \E n \in UAs : Agent(n)
    BY <1>5 DEF Agent, SlotNext
  <1>6. CASE SendStart
    <2> DEFINE t == j % MaxConcurrentCalls
    <2>1. t \in UAs /\ startedCalls \in Nat
      BY ModRange DEF IInv, TypeOK
    <2>2. /\ pc = "send"
          /\ startCallChan' = [startCallChan EXCEPT ![t] = startedCalls + 1]
          /\ UNCHANGED <<phase, call, report, callEndChan, mainDone>>
      BY <1>6 DEF SendStart, SendCommand
    <2>3. Free(t)
      BY <2>1, <2>2 DEF IInv, OneCallPerAgent, OneCall, Sending
    <2> HIDE DEF t
    <2>4. startCallChan'[t] = startedCalls + 1
      BY <2>1, <2>2 DEF IInv, TypeOK, SlotTypeOK
    <2>5. startCallChan'[t] \in Nat \ {0}
      BY <2>1, <2>4
    <2>6. StartCall(t, startCallChan'[t])
      BY <2>2, <2>3, <2>4 DEF StartCall
    <2> QED
      BY <2>1, <2>5, <2>6 DEF SlotNext
  <1> QED
    BY <1>1, <1>2, <1>3, <1>4, <1>5, <1>6 DEF Next, Main, Done

\* The caller program keeps its side of the contract with the agents: a call is
\* given only to an agent that is free of every earlier one.
THEOREM Implementation == Spec => SlotSpec
  <1>1. Init => SlotInit
    BY DEF Init
  <1> QED
    BY <1>1, Invariance, SlotStep, PTL DEF Spec, SlotSpec
=============================================================================
