---------------------------- MODULE UasMainProofs ----------------------------
(***************************************************************************)
(* What holds of the callee program's collecting loop for every number of  *)
(* user agents, every -totalcalls and every number of arriving calls: the  *)
(* types, with the snapshot len(callEndChan) that never asks for more      *)
(* reports than the channel holds, and the balance of the reports.         *)
(***************************************************************************)
EXTENDS UasMain, FiniteSetTheorems, SequenceTheorems, TLAPS

\* The agents that hold a report and wait for room in callEndChan.
Blocked == {n \in UAs : agent[n] = "blocked"}

\* Only the collector receives, so what it counted is still there: reports
\* can arrive behind the snapshot and none of it goes away.
SnapshotHeld ==
    /\ pc = "account" => eccLen <= Len(callEndChan)
    /\ pc # "account" => eccLen = 0

\* The inductive invariant: types and the snapshot they rest on.
IInv == TypeOK /\ SnapshotHeld

-----------------------------------------------------------------------------
(***************************************************************************)
(* Types and the snapshot.                                                 *)
(***************************************************************************)

\* A step of an agent: only a report reaches the channel, at its end.
LEMMA AgentTypes ==
    ASSUME IInv, NEW n \in UAs, AgentStep(n)
    PROVE  IInv'
<1> USE UasAssumption DEF IInv, SnapshotHeld
<1>1. CASE CallOver(n)
    BY <1>1 DEF CallOver, TypeOK, counters
<1>2. CASE Report(n)
    <2>1. PICK result \in CallResults : callEndChan' = Append(callEndChan, result)
        BY <1>2 DEF Report, ReportInto
    <2>2. Len(callEndChan') = Len(callEndChan) + 1 /\ callEndChan' \in Seq(CallResults)
        BY <2>1, AppendProperties DEF TypeOK
    <2> QED BY <1>2, <2>2 DEF Report, ReportInto, TypeOK, counters
<1>3. CASE Leave(n)
    BY <1>3 DEF Leave, TypeOK, counters
<1>4. CASE UAStarts(n)
    BY <1>4 DEF UAStarts, TypeOK, counters
<1>5. CASE UAFails(n)
    BY <1>5 DEF UAFails, TypeOK, counters
<1> QED BY <1>1, <1>2, <1>3, <1>4, <1>5 DEF AgentStep

\* The tally adds to counters that are natural numbers.
LEMMA TallyTypes ==
    ASSUME TypeOK, Tally
    PROVE  /\ completedCalls' \in Nat /\ okCalls' \in Nat
           /\ badCalls' \in Nat /\ unknownCalls' \in Nat
<1>1. /\ completedCalls' = completedCalls + 1
      /\ okCalls' \in {okCalls, okCalls + 1}
      /\ badCalls' \in {badCalls, badCalls + 1}
      /\ unknownCalls' \in {unknownCalls, unknownCalls + 1}
    BY Zenon DEF Tally, TallyAs
<1> QED BY <1>1 DEF TypeOK

\* Receiving from a channel that is not empty.
LEMMA Receive ==
    ASSUME TypeOK, callEndChan # <<>>
    PROVE  /\ Head(callEndChan) \in CallResults
           /\ Tail(callEndChan) \in Seq(CallResults)
           /\ Len(Tail(callEndChan)) = Len(callEndChan) - 1
           /\ Len(callEndChan) \in Nat \ {0}
BY HeadTailProperties, EmptySeq DEF TypeOK

\* A step of the collector.
LEMMA CollectorStep ==
    ASSUME IInv, Collector
    PROVE  IInv'
<1> USE UasAssumption DEF IInv, SnapshotHeld
<1>1. CASE SelectDone
    BY <1>1 DEF SelectDone, TypeOK, counters
<1>2. CASE SelectReport
    BY <1>2, Receive DEF SelectReport, TypeOK, counters
<1>3. CASE SnapshotLen
    BY <1>3 DEF SnapshotLen, TakeLen, TypeOK, counters
<1>4. CASE AccountMore
    BY <1>4, Receive, TallyTypes DEF AccountMore, TypeOK
<1>5. CASE AccountLast
    <2>1. cr' \in CallResults
        BY <1>5, Zenon DEF AccountLast, CallResults
    <2>2. /\ Tally /\ eccLen = 0 /\ pc' \in {"wait", "select"} /\ mainDone' \in {TRUE, mainDone}
          /\ UNCHANGED <<agent, arrivals, callEndChan, eccLen>>
        BY <1>5, Zenon DEF AccountLast
    <2> QED BY <2>1, <2>2, TallyTypes DEF TypeOK
<1>6. CASE AllExited
    BY <1>6 DEF AllExited, TypeOK, counters
<1> QED BY <1>1, <1>2, <1>3, <1>4, <1>5, <1>6 DEF Collector

\* IInv holds in every run: each step of the agents, of the collector and of
\* a signal keeps it.
LEMMA Invariance == Spec => []IInv
<1>1. Init => IInv
    <2> SUFFICES ASSUME Init PROVE IInv
        OBVIOUS
    <2>1. callEndChan \in Seq(CallResults) /\ Len(callEndChan) = 0
        BY EmptySeq DEF Init
    <2>2. cr \in CallResults
        BY Zenon DEF Init, CallResults
    <2>3. /\ pc = "select" /\ agent = [n \in UAs |-> "starting"] /\ arrivals = 0 /\ eccLen = 0
          /\ completedCalls = 0 /\ okCalls = 0 /\ badCalls = 0 /\ unknownCalls = 0
          /\ mainDone = FALSE
        BY Zenon DEF Init
    <2>4. SnapshotHeld
        BY <2>1, <2>3 DEF SnapshotHeld
    <2>5. agent \in [UAs -> {"starting", "loop", "blocked", "exited"}]
        BY <2>3
    <2>6. Len(callEndChan) <= MaxConcurrentCalls /\ eccLen \in 0 .. MaxConcurrentCalls
          /\ arrivals \in 0 .. MaxArrivals
        BY <2>1, <2>3, UasAssumption
    <2> QED BY <2>1, <2>2, <2>3, <2>4, <2>5, <2>6 DEF IInv, TypeOK
<1>2. IInv /\ [Next]_vars => IInv'
    <2> SUFFICES ASSUME IInv, [Next]_vars PROVE IInv'
        OBVIOUS
    <2>1. CASE Collector
        BY <2>1, CollectorStep
    <2>2. CASE Signal
        BY <2>2 DEF Signal, IInv, TypeOK, SnapshotHeld, counters
    <2>3. CASE \E n \in UAs : AgentStep(n)
        BY <2>3, AgentTypes
    <2>4. CASE UNCHANGED vars
        BY <2>4 DEF IInv, TypeOK, SnapshotHeld, vars, counters
    <2> QED BY <2>1, <2>2, <2>3, <2>4 DEF Next, Done
<1> QED BY <1>1, <1>2, PTL DEF Spec

\* The types hold in every run, for every MaxConcurrentCalls, TotalCalls
\* and MaxArrivals: the length uas takes is one the channel can have.
THEOREM TypeCorrect == Spec => []TypeOK
<1>1. IInv => TypeOK
    BY DEF IInv
<1> QED BY <1>1, Invariance, PTL

\* The receives of the accounting loop: while the snapshot says that more
\* reports are there, callEndChan is not empty.
NeverStarves == pc = "account" /\ eccLen > 0 => callEndChan # <<>>

\* Once a report is taken, uas counts the whole snapshot without ever
\* blocking in <-callEndChan, whatever arrives meanwhile.
THEOREM AccountingNeverBlocks == Spec => []NeverStarves
<1>1. IInv => NeverStarves
    BY EmptySeq DEF IInv, TypeOK, SnapshotHeld, NeverStarves
<1> QED BY <1>1, Invariance, PTL

-----------------------------------------------------------------------------
(***************************************************************************)
(* The balance of the reports.                                             *)
(***************************************************************************)

\* The agents are finitely many, and so are the blocked ones.
LEMMA BlockedFinite ==
    ASSUME NEW S, S \subseteq UAs
    PROVE  IsFiniteSet(S) /\ Cardinality(S) \in Nat
<1>1. IsFiniteSet(UAs)
    BY UasAssumption, FS_Interval DEF UAs
<1> QED BY <1>1, FS_Subset, FS_CardinalityType

\* An agent that blocks is one more, one that gets its report out one less,
\* and one that starts, fails or leaves was not blocked.
LEMMA BlockedCount ==
    ASSUME TypeOK, NEW n \in UAs
    PROVE  /\ CallOver(n) => Cardinality(Blocked') = Cardinality(Blocked) + 1
           /\ Report(n) => Cardinality(Blocked') = Cardinality(Blocked) - 1
           /\ UAStarts(n) \/ UAFails(n) \/ Leave(n) => Blocked' = Blocked
<1>1. IsFiniteSet(Blocked)
    BY BlockedFinite DEF Blocked
<1>2. ASSUME CallOver(n)
      PROVE  Cardinality(Blocked') = Cardinality(Blocked) + 1
    <2>1. n \notin Blocked /\ Blocked' = Blocked \cup {n}
        BY <1>2 DEF CallOver, Blocked, TypeOK
    <2> QED BY <1>1, <2>1, FS_AddElement
<1>3. ASSUME Report(n)
      PROVE  Cardinality(Blocked') = Cardinality(Blocked) - 1
    <2>1. n \in Blocked /\ Blocked' = Blocked \ {n}
        BY <1>3 DEF Report, ReportInto, Blocked, TypeOK
    <2> QED BY <1>1, <2>1, FS_RemoveElement
<1>4. ASSUME UAStarts(n) \/ UAFails(n) \/ Leave(n)
      PROVE  Blocked' = Blocked
    BY <1>4 DEF UAStarts, UAFails, Leave, Blocked, TypeOK
<1> QED BY <1>2, <1>3, <1>4

\* A counted report adds one to completedCalls and to one of the results.
LEMMA TallyCounts ==
    ASSUME TypeOK, Tally
    PROVE  /\ completedCalls' = completedCalls + 1
           /\ okCalls' + badCalls' + unknownCalls' = okCalls + badCalls + unknownCalls + 1
<1>1. \/ /\ okCalls' = okCalls + 1
         /\ badCalls' = badCalls /\ unknownCalls' = unknownCalls
      \/ /\ badCalls' = badCalls + 1
         /\ okCalls' = okCalls /\ unknownCalls' = unknownCalls
      \/ /\ unknownCalls' = unknownCalls + 1
         /\ okCalls' = okCalls /\ badCalls' = badCalls
    <2>1. cr \in CallResults
        BY DEF TypeOK
    <2>2. CASE cr = "Successful"
        BY <2>2, Zenon DEF Tally, TallyAs
    <2>3. CASE cr = "Failed"
        BY <2>3, Zenon DEF Tally, TallyAs
    <2>4. CASE cr = ""
        BY <2>4, Zenon DEF Tally, TallyAs
    <2> QED BY <2>1, <2>2, <2>3, <2>4, Zenon DEF CallResults
<1>2. completedCalls' = completedCalls + 1
    BY Zenon DEF Tally, TallyAs
<1> QED BY <1>1, <1>2 DEF TypeOK

\* The report in the collector's hand.
InHand == IF pc \in {"len", "account"} THEN 1 ELSE 0

\* Books, with the blocked agents and the report in the hand by name.
Balance ==
    /\ arrivals = completedCalls + InHand + Len(callEndChan) + Cardinality(Blocked)
    /\ completedCalls = okCalls + badCalls + unknownCalls

\* The books, with their sums expanded.
LEMMA BooksAs == (Books <=> Balance) /\ (Books' <=> Balance')
BY DEF Books, Balance, InHand, Blocked

\* A step of an agent moves a report from the network to the agent, or from
\* the agent to the channel.
LEMMA AgentKeepsBooks ==
    ASSUME IInv, Books, NEW n \in UAs, AgentStep(n)
    PROVE  Books'
<1> USE UasAssumption
<1>0. Cardinality(Blocked) \in Nat /\ InHand \in {0, 1} /\ TypeOK
    BY BlockedFinite DEF Blocked, InHand, IInv
<1>1. CASE CallOver(n)
    <2>1. Cardinality(Blocked') = Cardinality(Blocked) + 1
        BY <1>0, <1>1, BlockedCount
    <2>2. arrivals' = arrivals + 1 /\ InHand' = InHand /\ UNCHANGED <<callEndChan, counters>>
        BY <1>1 DEF CallOver, InHand
    <2>3. arrivals \in Nat /\ completedCalls \in Nat /\ Len(callEndChan) \in Nat
        BY <1>0 DEF TypeOK
    <2> QED BY <1>0, <2>1, <2>2, <2>3, BooksAs DEF Balance, counters
<1>2. CASE Report(n)
    <2>1. PICK result \in CallResults : callEndChan' = Append(callEndChan, result)
        BY <1>2 DEF Report, ReportInto
    <2>2. Len(callEndChan') = Len(callEndChan) + 1
        BY <2>1, AppendProperties DEF IInv, TypeOK
    <2>3. Cardinality(Blocked') = Cardinality(Blocked) - 1
        BY <1>0, <1>2, BlockedCount
    <2>4. InHand' = InHand /\ UNCHANGED <<arrivals, counters>>
        BY <1>2 DEF Report, ReportInto, InHand
    <2>5. arrivals \in Nat /\ completedCalls \in Nat /\ Len(callEndChan) \in Nat
        BY <1>0 DEF TypeOK
    <2> QED BY <1>0, <2>2, <2>3, <2>4, <2>5, BooksAs DEF Balance, counters
<1>3. CASE UAStarts(n) \/ UAFails(n) \/ Leave(n)
    <2>1. UNCHANGED <<pc, arrivals, callEndChan, counters>>
        BY <1>3 DEF UAStarts, UAFails, Leave
    <2> QED BY <1>0, <1>3, <2>1, BlockedCount, BooksAs DEF Balance, InHand, counters
<1> QED BY <1>1, <1>2, <1>3 DEF AgentStep

\* A step of the collector takes a report into the hand or counts it.
LEMMA CollectorKeepsBooks ==
    ASSUME IInv, Books, Collector
    PROVE  Books'
<1>0. Cardinality(Blocked) \in Nat /\ TypeOK
    BY BlockedFinite DEF Blocked, IInv
<1>1. CASE SelectDone
    BY <1>1, BooksAs DEF SelectDone, Balance, InHand, Blocked, counters
<1>2. CASE SelectReport
    BY <1>0, <1>2, BooksAs, Receive DEF SelectReport, Balance, InHand, Blocked, counters, TypeOK
<1>3. CASE SnapshotLen
    BY <1>3, BooksAs DEF SnapshotLen, TakeLen, Balance, InHand, Blocked, counters
<1>4. CASE AccountMore
    BY <1>0, <1>4, BooksAs, Receive, TallyCounts DEF AccountMore, Balance, InHand, Blocked, TypeOK
<1>5. CASE AccountLast
    <2>1. /\ Tally /\ pc = "account" /\ pc' \in {"wait", "select"}
          /\ UNCHANGED <<agent, arrivals, callEndChan>>
        BY <1>5, Zenon DEF AccountLast
    <2> QED BY <1>0, <2>1, BooksAs, TallyCounts DEF Balance, InHand, Blocked, TypeOK
<1>6. CASE AllExited
    BY <1>6, BooksAs DEF AllExited, Balance, InHand, Blocked, counters
<1> QED BY <1>1, <1>2, <1>3, <1>4, <1>5, <1>6 DEF Collector

\* No report of a call is lost or counted twice on its way from an agent to
\* the summary, for every number of agents and calls.
THEOREM BooksBalance == Spec => []Books
<1>1. Init => Books
    <2> SUFFICES ASSUME Init PROVE Books
        OBVIOUS
    <2>1. Blocked = {} /\ InHand = 0 /\ Len(callEndChan) = 0
        BY EmptySeq, Zenon DEF Init, Blocked, InHand
    <2>2. Cardinality(Blocked) = 0
        BY <2>1, FS_EmptySet
    <2>3. arrivals = 0 /\ completedCalls = 0 /\ okCalls = 0 /\ badCalls = 0 /\ unknownCalls = 0
        BY Zenon DEF Init
    <2> QED BY <2>1, <2>2, <2>3, BooksAs DEF Balance
<1>2. IInv /\ Books /\ [Next]_vars => Books'
    <2> SUFFICES ASSUME IInv, Books, [Next]_vars PROVE Books'
        OBVIOUS
    <2>1. CASE Collector
        BY <2>1, CollectorKeepsBooks
    <2>2. CASE Signal
        BY <2>2 DEF Signal, Books, counters
    <2>3. CASE \E n \in UAs : AgentStep(n)
        BY <2>3, AgentKeepsBooks
    <2>4. CASE UNCHANGED vars
        BY <2>4 DEF Books, vars, counters
    <2> QED BY <2>1, <2>2, <2>3, <2>4 DEF Next, Done
<1> QED BY <1>1, <1>2, Invariance, PTL DEF Spec
=============================================================================
