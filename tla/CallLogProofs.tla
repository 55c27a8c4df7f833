----------------------------- MODULE CallLogProofs -----------------------------
(***************************************************************************)
(* Proofs about CallLog, for every capacity of logChan and any number of   *)
(* calls and lines: type correctness; that a MediaFunc the loop waits for  *)
(* never waits for room in logChan when the lines of one call and all late *)
(* ones fit; and that a report has all lines of its own MediaFunc and no   *)
(* other's.                                                                *)
(*                                                                         *)
(* The first argument is a count.  Emptied gives what the loop's snapshot  *)
(* is for: when a MediaFunc starts, only late lines are in the channel, so *)
(* while it runs there are no more than its own lines and the late ones.   *)
(* The second is about order: the lines of a call are in Logs and logChan, *)
(* one after the other (Gathered), and the snapshot ends behind the last   *)
(* of them (Swept).                                                        *)
(***************************************************************************)
EXTENDS CallLog, SequenceTheorems, TLAPS

\* Lines of the current MediaFunc that have got into logChan.
Sent == IF media = "log" THEN said[call] - 1 ELSE said[call]

\* Which positions of the loop and of MediaFunc go together.
Places ==
    /\ media # "none" => call \in Calls
    /\ media = "log" => said[call] > 0
    /\ pc = "waitMedia" => media # "none"
    /\ pc \in {"drain", "report"} => media = "none" /\ call \in Calls
    /\ reporter => media = "none" /\ call \in Calls
    /\ pc # "drain" => snapshot = 0
    /\ \A c \in Calls : c > call => said[c] = 0
    /\ writer # NoWriter => writer.call \in Calls

\* What can be in logChan.
Emptied ==
    /\ media = "none" => Len(logChan) <= late + snapshot
    /\ media # "none" => Len(logChan) <= late + Sent

IInv == TypeOK /\ Places /\ Emptied

\* A call has begun and is not reported yet.
Collecting == media # "none" \/ pc \in {"drain", "report"} \/ reporter

\* The lines of that call are in Logs and logChan.
Gathered ==
    Collecting /\ direct = {} => MediaLinesAre(Logs \o logChan, call, Sent)

\* They are all in Logs when the loop has read its snapshot.
Swept ==
    media = "none" => \A k \in DOMAIN logChan : k > snapshot => logChan[k].kind # "media"

\* Nobody has written to the log of a call to come, and none is reported yet.
Fresh ==
    /\ pc = "drain" => ~reporter
    /\ direct \subseteq 1 .. call
    /\ direct = {} => writer = NoWriter
    /\ media # "none" => report[call] = NoReport
    /\ \A c \in Calls : c > call => report[c] = NoReport

\* Before the first call nothing is sent, read or reported.
LEMMA InitIInv == Init => IInv
<1> SUFFICES ASSUME Init PROVE IInv
  OBVIOUS
<1>1. <<>> \in Seq(Line) /\ Len(<<>>) = 0
  OBVIOUS
<1>2. NoWriter \in [call : 0 .. MaxCalls, read : Seq(Line)]
  BY <1>1, LogAssumption DEF NoWriter
<1>3. report \in [Calls -> Seq(Line) \cup {NoReport}] /\ said \in [Calls -> 0 .. MaxLines]
  BY LogAssumption DEF Init
<1>4. /\ snapshot \in Nat /\ snapshot <= Len(logChan) /\ Len(logChan) <= Capacity
      /\ call \in 0 .. MaxCalls /\ late \in 0 .. MaxLate
  BY <1>1, LogAssumption DEF Init
<1>5. TypeOK
  BY <1>1, <1>2, <1>3, <1>4, Zenon DEF Init, TypeOK
<1>6. Places /\ Emptied
  BY DEF Init, Places, Emptied, Calls
<1> QED
  BY <1>5, <1>6 DEF IInv

\* Lines and sequences of lines.
LEMMA LineFacts ==
  ASSUME NEW logs \in Seq(Line), NEW l \in Line
  PROVE  /\ Append(logs, l) \in Seq(Line) /\ Len(Append(logs, l)) = Len(logs) + 1
         /\ Len(logs) \in Nat
         /\ logs # <<>> => /\ Head(logs) \in Line /\ Tail(logs) \in Seq(Line)
                           /\ Len(Tail(logs)) = Len(logs) - 1 /\ Len(logs) > 0
         /\ Len(logs) > 0 => logs # <<>>
  OBVIOUS

\* The lines the senders write.
LEMMA LineTyped ==
  ASSUME NEW c \in Calls, NEW kind \in {"media", "late", "direct"}, NEW n \in Nat
  PROVE  [call |-> c, kind |-> kind, no |-> n] \in Line
  BY DEF Line

-----------------------------------------------------------------------------
\* Types.

\* Every action keeps the variables in their sets.
LEMMA TypeStep ==
  ASSUME TypeOK, Places, [Next]_vars
  PROVE  TypeOK'
<1> USE LogAssumption DEF Calls
<1>0. role' \in {"uac", "uas"}
  BY DEF TypeOK, Next, Done, vars
<1>1. CASE TakeCall
  <2>1. call' \in 0 .. MaxCalls /\ Logs' \in Seq(Line)
    BY <1>1 DEF TypeOK, TakeCall
  <2> QED
    BY <1>0, <1>1, <2>1 DEF TypeOK, TakeCall, writerVars
<1>2. CASE TakeLine
  <2>1. /\ Logs' \in Seq(Line) /\ logChan' \in Seq(Line)
        /\ Len(logChan') <= Capacity /\ snapshot <= Len(logChan')
    BY <1>2, LineFacts DEF TypeOK, TakeLine, Places
  <2> QED
    BY <1>0, <1>2, <2>1 DEF TypeOK, TakeLine, mediaVars, writerVars
<1>3. CASE Terminated
  BY <1>0, <1>3 DEF TypeOK, Terminated, TerminatedThen, writerVars
<1>4. CASE Leave
  BY <1>0, <1>4 DEF TypeOK, Leave, writerVars
<1>5. CASE MediaEnded
  <2>1. snapshot' \in Nat /\ snapshot' <= Len(logChan')
    BY <1>5 DEF TypeOK, MediaEnded, MediaEndedWith
  <2> QED
    BY <1>0, <1>5, <2>1 DEF TypeOK, MediaEnded, MediaEndedWith, writerVars
<1>6. CASE Drain
  <2>1. /\ Logs' \in Seq(Line) /\ logChan' \in Seq(Line) /\ Len(logChan') <= Capacity
        /\ snapshot' \in Nat /\ snapshot' <= Len(logChan')
    BY <1>6, LineFacts DEF TypeOK, Drain
  <2> QED
    BY <1>0, <1>6, <2>1 DEF TypeOK, Drain, mediaVars, writerVars
<1>7. CASE Drained
  BY <1>0, <1>7 DEF TypeOK, Drained, mediaVars, writerVars
<1>8. CASE LoopReports
  <2>1. report' \in [Calls -> Seq(Line) \cup {NoReport}]
    BY <1>8 DEF TypeOK, LoopReports
  <2> QED
    BY <1>0, <1>8, <2>1 DEF TypeOK, LoopReports, mediaVars, writerVars
<1>9. CASE Reporter
  <2>1. report' \in [Calls -> Seq(Line) \cup {NoReport}]
    BY <1>9 DEF TypeOK, Reporter
  <2> QED
    BY <1>0, <1>9, <2>1 DEF TypeOK, Reporter, mediaVars, writerVars
<1>10. CASE Media
  <2>1. CASE MediaWantsToLog
    <3>1. said' \in [Calls -> 0 .. MaxLines]
      BY <2>1, <1>10 DEF TypeOK, MediaWantsToLog, Places
    <3> QED
      BY <1>0, <2>1, <1>10, <3>1 DEF TypeOK, Media, MediaWantsToLog, writerVars
  <2>2. CASE MediaLogs
    <3>1. logChan' \in Seq(Line) /\ Len(logChan') <= Capacity /\ snapshot <= Len(logChan')
      <4>1. said[call] \in Nat /\ call \in Calls
        BY <2>2 DEF TypeOK, MediaLogs, Places
      <4> QED
        BY <1>0, <2>2, <4>1, LineTyped, LineFacts DEF TypeOK, MediaLogs, HasRoom, Send
    <3> QED
      BY <1>0, <2>2, <1>10, <3>1 DEF TypeOK, Media, MediaLogs, writerVars
  <2>3. CASE MediaReturns
    BY <1>0, <2>3, <1>10 DEF TypeOK, Media, MediaReturns, writerVars
  <2> QED
    BY <1>10, <2>1, <2>2, <2>3 DEF Media
<1>11. ASSUME NEW c \in Calls, CallbackLogs(c)
       PROVE  TypeOK'
  <2>1. logChan' \in Seq(Line) /\ Len(logChan') <= Capacity /\ snapshot <= Len(logChan')
    BY <1>11, LineTyped, LineFacts DEF TypeOK, CallbackLogs, HasRoom, Send
  <2>2. late' \in 0 .. MaxLate
    BY <1>11 DEF TypeOK, CallbackLogs
  <2> QED
    BY <1>0, <1>11, <2>1, <2>2 DEF TypeOK, CallbackLogs, mediaVars, writerVars
<1>12. ASSUME NEW c \in Calls, DirectReads(c)
       PROVE  TypeOK'
  <2>1. writer' \in [call : 0 .. MaxCalls, read : Seq(Line)]
    BY <1>12 DEF TypeOK, DirectReads
  <2> QED
    BY <1>0, <1>12, <2>1 DEF TypeOK, DirectReads, mediaVars
<1>13. CASE DirectWrites
  <2>1. Logs' \in Seq(Line)
    <3>1. writer.call \in Calls /\ writer.read \in Seq(Line) /\ Logs \in Seq(Line)
      BY <1>13 DEF TypeOK, DirectWrites, Places
    <3> DEFINE l == [call |-> writer.call, kind |-> "direct", no |-> 0]
    <3>2. l \in Line
      BY <3>1, LineTyped
    <3>3. Logs' = Append(writer.read, l) \/ Logs' = Logs
      BY <1>13 DEF DirectWrites
    <3>4. Append(writer.read, l) \in Seq(Line)
      <4> HIDE DEF l
      <4> QED
        BY <3>1, <3>2
    <3> HIDE DEF l
    <3> QED
      BY <3>1, <3>3, <3>4
  <2>2. writer' \in [call : 0 .. MaxCalls, read : Seq(Line)]
    BY <1>13 DEF DirectWrites, NoWriter
  <2> QED
    BY <1>0, <1>13, <2>1, <2>2 DEF TypeOK, DirectWrites, mediaVars
<1>14. CASE UNCHANGED vars
  BY <1>0, <1>14 DEF TypeOK, vars, mediaVars, writerVars
<1> QED
  BY <1>1, <1>2, <1>3, <1>4, <1>5, <1>6, <1>7, <1>8, <1>9, <1>10, <1>11, <1>12, <1>13,
     <1>14 DEF Next, Loop, Done

-----------------------------------------------------------------------------
\* Positions.

\* Every action keeps the control of the three goroutines in step.
LEMMA PlacesStep ==
  ASSUME TypeOK, Places, [Next]_vars
  PROVE  Places'
<1> USE LogAssumption DEF Calls
<1>1. CASE TakeCall
  <2>1. said' = said /\ call' = call + 1 /\ call' \in Calls
    BY <1>1 DEF TypeOK, TakeCall
  <2>2. \A c \in Calls : c > call' => said'[c] = 0
    BY <2>1 DEF Places, TypeOK
  <2> QED
    BY <1>1, <2>1, <2>2 DEF TypeOK, Places, TakeCall, writerVars
<1>2. CASE TakeLine
  BY <1>2 DEF TypeOK, Places, TakeLine, mediaVars, writerVars
<1>3. CASE Terminated
  BY <1>3 DEF TypeOK, Places, Terminated, TerminatedThen, writerVars
<1>4. CASE Leave
  BY <1>4 DEF TypeOK, Places, Leave, writerVars
<1>5. CASE MediaEnded
  BY <1>5 DEF TypeOK, Places, MediaEnded, MediaEndedWith, writerVars
<1>6. CASE Drain
  BY <1>6 DEF TypeOK, Places, Drain, mediaVars, writerVars
<1>7. CASE Drained
  BY <1>7 DEF TypeOK, Places, Drained, mediaVars, writerVars
<1>8. CASE LoopReports
  BY <1>8 DEF TypeOK, Places, LoopReports, mediaVars, writerVars
<1>9. CASE Reporter
  BY <1>9 DEF TypeOK, Places, Reporter, mediaVars, writerVars
<1>10. CASE Media
  <2>1. CASE MediaWantsToLog
    <3>1. said' = [said EXCEPT ![call] = said[call] + 1] /\ said[call] \in Nat /\ call \in Calls
      BY <2>1, <1>10 DEF TypeOK, MediaWantsToLog, Places
    <3>2. call' = call /\ \A c \in Calls : c > call => said'[c] = 0
      BY <3>1, <1>10 DEF TypeOK, Places, Media
    <3> QED
      BY <2>1, <1>10, <3>1, <3>2 DEF TypeOK, Places, Media, MediaWantsToLog, writerVars
  <2>2. CASE MediaLogs
    BY <2>2, <1>10 DEF TypeOK, Places, Media, MediaLogs, writerVars
  <2>3. CASE MediaReturns
    BY <2>3, <1>10 DEF TypeOK, Places, Media, MediaReturns, writerVars
  <2> QED
    BY <1>10, <2>1, <2>2, <2>3 DEF Media
<1>11. ASSUME NEW c \in Calls, CallbackLogs(c)
       PROVE  Places'
  BY <1>11 DEF TypeOK, Places, CallbackLogs, mediaVars, writerVars
<1>12. ASSUME NEW c \in Calls, DirectReads(c)
       PROVE  Places'
  BY <1>12 DEF TypeOK, Places, DirectReads, mediaVars
<1>13. CASE DirectWrites
  BY <1>13 DEF TypeOK, Places, DirectWrites, mediaVars
<1>14. CASE UNCHANGED vars
  BY <1>14 DEF TypeOK, Places, vars, mediaVars, writerVars
<1> QED
  BY <1>1, <1>2, <1>3, <1>4, <1>5, <1>6, <1>7, <1>8, <1>9, <1>10, <1>11, <1>12, <1>13,
     <1>14 DEF Next, Loop, Done

-----------------------------------------------------------------------------
\* The count.

\* What is in the channel is at most what the senders still account for.
LEMMA EmptiedStep ==
  ASSUME IInv, [Next]_vars
  PROVE  Emptied'
<1> USE LogAssumption DEF IInv, Calls
<1>0. /\ Len(logChan) \in Nat /\ snapshot \in Nat /\ late \in Nat
      /\ \A c \in Calls : said[c] \in Nat
      /\ logChan \in Seq(Line)
  BY DEF TypeOK
<1>1. CASE TakeCall
  <2>1. Len(logChan') <= late' /\ said'[call'] = 0 /\ media' = "work"
    BY <1>0, <1>1 DEF TypeOK, TakeCall, Emptied, Places
  <2> QED
    BY <1>0, <1>1, <2>1 DEF TakeCall, Emptied, Sent
<1>2. CASE TakeLine
  <2>1. Len(logChan') = Len(logChan) - 1
    BY <1>0, <1>2, LineFacts DEF TakeLine
  <2> QED
    BY <1>0, <1>2, <2>1 DEF TakeLine, Emptied, Sent, Places, mediaVars
<1>3. CASE Terminated
  BY <1>0, <1>3 DEF Terminated, TerminatedThen, Emptied, Sent
<1>4. CASE Leave
  BY <1>0, <1>4 DEF Leave, Emptied, Sent
<1>5. CASE MediaEnded
  BY <1>0, <1>5 DEF MediaEnded, MediaEndedWith, Emptied
<1>6. CASE Drain
  <2>1. Len(logChan') = Len(logChan) - 1 /\ media = "none"
    BY <1>0, <1>6, LineFacts DEF TypeOK, Drain, Places
  <2> QED
    BY <1>0, <1>6, <2>1 DEF Drain, Emptied, mediaVars
<1>7. CASE Drained
  BY <1>0, <1>7 DEF Drained, Emptied, Sent, mediaVars
<1>8. CASE LoopReports
  BY <1>0, <1>8 DEF LoopReports, Emptied, Sent, mediaVars
<1>9. CASE Reporter
  BY <1>0, <1>9 DEF Reporter, Emptied, Sent, mediaVars
<1>10. CASE Media
  <2>1. CASE MediaWantsToLog
    <3>1. said'[call] = said[call] + 1 /\ said[call] \in Nat
      BY <1>0, <2>1 DEF TypeOK, MediaWantsToLog, Places
    <3> QED
      BY <1>0, <2>1, <1>10, <3>1 DEF Media, MediaWantsToLog, Emptied, Sent
  <2>2. CASE MediaLogs
    <3>1. said[call] \in Nat /\ call \in Calls
      BY <1>0, <2>2 DEF MediaLogs, Places
    <3>2. Len(logChan') = Len(logChan) + 1
      BY <1>0, <2>2, <3>1, LineTyped, LineFacts DEF MediaLogs, Send
    <3> QED
      BY <1>0, <2>2, <1>10, <3>1, <3>2 DEF Media, MediaLogs, Emptied, Sent
  <2>3. CASE MediaReturns
    BY <1>0, <2>3, <1>10 DEF Media, MediaReturns, Emptied, Sent
  <2> QED
    BY <1>10, <2>1, <2>2, <2>3 DEF Media
<1>11. ASSUME NEW c \in Calls, CallbackLogs(c)
       PROVE  Emptied'
  <2>1. Len(logChan') = Len(logChan) + 1
    BY <1>0, <1>11, LineTyped, LineFacts DEF CallbackLogs, Send
  <2>2. /\ late' = late + 1 /\ snapshot' = snapshot /\ media' = media /\ call' = call
        /\ said' = said
    BY <1>11 DEF CallbackLogs, mediaVars
  <2> QED
    BY <1>0, <2>1, <2>2 DEF Emptied, Sent, Places
<1>12. ASSUME NEW c \in Calls, DirectReads(c)
       PROVE  Emptied'
  BY <1>12 DEF DirectReads, Emptied, Sent, mediaVars
<1>13. CASE DirectWrites
  BY <1>13 DEF DirectWrites, Emptied, Sent, mediaVars
<1>14. CASE UNCHANGED vars
  BY <1>14 DEF vars, Emptied, Sent, mediaVars
<1> QED
  BY <1>1, <1>2, <1>3, <1>4, <1>5, <1>6, <1>7, <1>8, <1>9, <1>10, <1>11, <1>12, <1>13,
     <1>14 DEF Next, Loop, Done

-----------------------------------------------------------------------------
(***************************************************************************)
(* The whole log of a call in its report.  Between TakeCall and the report *)
(* the lines its MediaFunc has sent are in Logs and logChan, in order      *)
(* (Gathered); the snapshot reaches the last of them, since MediaFunc ends *)
(* before it is taken (Swept); so Logs has all of them when it is copied.  *)
(***************************************************************************)

\* A line that is none of MediaFunc's changes nothing.
LEMMA OtherLine ==
  ASSUME NEW logs \in Seq(Line), NEW l \in Line, l.kind # "media",
         NEW c \in Calls, NEW m \in Nat, MediaLinesAre(logs, c, m)
  PROVE  MediaLinesAre(Append(logs, l), c, m)
<1>1. /\ Append(logs, l) \in Seq(Line) /\ Len(Append(logs, l)) = Len(logs) + 1
      /\ \A k \in 1 .. Len(logs) : Append(logs, l)[k] = logs[k]
      /\ Append(logs, l)[Len(logs) + 1] = l
      /\ Len(logs) \in Nat
  BY AppendProperties
<1>2. DOMAIN logs = 1 .. Len(logs) /\ DOMAIN Append(logs, l) = 1 .. (Len(logs) + 1)
  BY <1>1
<1> DEFINE longer == Append(logs, l)
<1>3. \A k \in 1 .. (Len(logs) + 1) : longer[k].kind = "media" =>
          k \in 1 .. Len(logs) /\ longer[k] = logs[k]
  BY <1>1
<1>4. \A k \in 1 .. Len(logs) : k \in 1 .. (Len(logs) + 1) /\ longer[k] = logs[k]
  BY <1>1
<1> HIDE DEF longer
<1> QED
  BY <1>2, <1>3, <1>4 DEF MediaLinesAre, longer

\* MediaFunc's next line is the last.
LEMMA NextLine ==
  ASSUME NEW logs \in Seq(Line), NEW c \in Calls, NEW m \in Nat, MediaLinesAre(logs, c, m)
  PROVE  MediaLinesAre(Append(logs, [call |-> c, kind |-> "media", no |-> m + 1]), c, m + 1)
<1> DEFINE l == [call |-> c, kind |-> "media", no |-> m + 1]
           longer == Append(logs, l)
<1>0. l \in Line /\ l.call = c /\ l.kind = "media" /\ l.no = m + 1
  BY LineTyped
<1> HIDE DEF l
<1>1. /\ longer \in Seq(Line) /\ Len(longer) = Len(logs) + 1
      /\ \A k \in 1 .. Len(logs) : longer[k] = logs[k]
      /\ longer[Len(logs) + 1] = l
      /\ Len(logs) \in Nat
  BY <1>0, AppendProperties
<1>2. DOMAIN logs = 1 .. Len(logs) /\ DOMAIN longer = 1 .. (Len(logs) + 1)
  BY <1>1
<1> HIDE DEF longer
<1>3. \A k \in DOMAIN longer : longer[k].kind = "media" =>
          longer[k].call = c /\ longer[k].no \in 1 .. m + 1
  BY <1>0, <1>1, <1>2 DEF MediaLinesAre
<1>4. \A n \in 1 .. m + 1 :
          \E k \in DOMAIN longer : longer[k].kind = "media" /\ longer[k].no = n
  <2> SUFFICES ASSUME NEW n \in 1 .. m + 1
               PROVE  \E k \in DOMAIN longer : longer[k].kind = "media" /\ longer[k].no = n
    OBVIOUS
  <2>1. CASE n = m + 1
    BY <1>0, <1>1, <1>2, <2>1
  <2>2. CASE n \in 1 .. m
    <3>1. PICK k \in DOMAIN logs : logs[k].kind = "media" /\ logs[k].no = n
      BY <2>2 DEF MediaLinesAre
    <3>2. k \in DOMAIN longer /\ longer[k] = logs[k]
      BY <1>1, <1>2
    <3> QED
      BY <3>1, <3>2
  <2> QED
    BY <2>1, <2>2
<1>5. \A j, k \in DOMAIN longer :
          j < k /\ longer[j].kind = "media" /\ longer[k].kind = "media" =>
              longer[j].no < longer[k].no
  <2> SUFFICES ASSUME NEW j \in DOMAIN longer, NEW k \in DOMAIN longer, j < k,
                      longer[j].kind = "media", longer[k].kind = "media"
               PROVE  longer[j].no < longer[k].no
    OBVIOUS
  <2>1. j \in DOMAIN logs /\ longer[j] = logs[j]
    BY <1>1, <1>2
  <2>2. CASE k \in DOMAIN logs
    BY <1>1, <1>2, <2>1, <2>2 DEF MediaLinesAre
  <2>3. CASE k = Len(logs) + 1
    <3>1. longer[j].no \in 1 .. m
      BY <2>1 DEF MediaLinesAre
    <3> QED
      BY <1>0, <1>1, <2>3, <3>1
  <2> QED
    BY <1>1, <1>2, <2>2, <2>3
<1> QED
  BY <1>3, <1>4, <1>5 DEF MediaLinesAre, longer, l

\* What comes behind all of MediaFunc's lines may be cut off.
LEMMA LinesBefore ==
  ASSUME NEW logs \in Seq(Line), NEW rest \in Seq(Line),
         \A k \in DOMAIN rest : rest[k].kind # "media",
         NEW c \in Calls, NEW m \in Nat, MediaLinesAre(logs \o rest, c, m)
  PROVE  MediaLinesAre(logs, c, m)
<1> DEFINE all == logs \o rest
<1>1. /\ Len(logs) \in Nat /\ Len(rest) \in Nat
      /\ all \in Seq(Line) /\ Len(all) = Len(logs) + Len(rest)
      /\ \A k \in 1 .. Len(logs) + Len(rest) :
            all[k] = IF k <= Len(logs) THEN logs[k] ELSE rest[k - Len(logs)]
  BY ConcatProperties
<1>2. /\ DOMAIN logs = 1 .. Len(logs) /\ DOMAIN rest = 1 .. Len(rest)
      /\ DOMAIN all = 1 .. Len(logs) + Len(rest)
  BY <1>1
<1>3. MediaLinesAre(all, c, m)
  OBVIOUS
<1> HIDE DEF all
<1>4. \A k \in DOMAIN logs : k \in DOMAIN all /\ all[k] = logs[k]
  BY <1>1, <1>2
<1>5. \A k \in DOMAIN all : all[k].kind = "media" => k \in DOMAIN logs
  <2> SUFFICES ASSUME NEW k \in DOMAIN all, k > Len(logs)
               PROVE  all[k].kind # "media"
    BY <1>1, <1>2
  <2>1. k - Len(logs) \in DOMAIN rest /\ all[k] = rest[k - Len(logs)]
    BY <1>1, <1>2
  <2> QED
    BY <2>1
<1>6. \A k \in DOMAIN logs : logs[k].kind = "media" =>
          logs[k].call = c /\ logs[k].no \in 1 .. m
  BY <1>3, <1>4 DEF MediaLinesAre
<1>7. \A n \in 1 .. m : \E k \in DOMAIN logs : logs[k].kind = "media" /\ logs[k].no = n
  <2> SUFFICES ASSUME NEW n \in 1 .. m
               PROVE  \E k \in DOMAIN logs : logs[k].kind = "media" /\ logs[k].no = n
    OBVIOUS
  <2>1. PICK k \in DOMAIN all : all[k].kind = "media" /\ all[k].no = n
    BY <1>3 DEF MediaLinesAre
  <2>2. k \in DOMAIN logs /\ all[k] = logs[k]
    BY <1>4, <1>5, <2>1
  <2> QED
    BY <2>1, <2>2
<1>8. \A j, k \in DOMAIN logs :
          j < k /\ logs[j].kind = "media" /\ logs[k].kind = "media" =>
              logs[j].no < logs[k].no
  BY <1>3, <1>4 DEF MediaLinesAre
<1> QED
  BY <1>6, <1>7, <1>8 DEF MediaLinesAre

\* A new call finds none.
LEMMA NoLines ==
  ASSUME NEW logs \in Seq(Line), \A k \in DOMAIN logs : logs[k].kind # "media",
         NEW c \in Calls
  PROVE  MediaLinesAre(logs, c, 0)
BY DEF MediaLinesAre

\* Reading a line moves it, sending one adds it at the end.
LEMMA Moved ==
  ASSUME NEW logs \in Seq(Line), NEW chan \in Seq(Line)
  PROVE  /\ chan # <<>> => Append(logs, Head(chan)) \o Tail(chan) = logs \o chan
         /\ \A l \in Line : logs \o Append(chan, l) = Append(logs \o chan, l)
<1>1. ASSUME chan # <<>>
      PROVE  Append(logs, Head(chan)) \o Tail(chan) = logs \o chan
  <2>1. /\ Head(chan) \in Line /\ Tail(chan) \in Seq(Line)
        /\ <<Head(chan)>> \in Seq(Line)
    BY <1>1, HeadTailProperties
  <2>2. Append(logs, Head(chan)) = logs \o <<Head(chan)>>
    BY <2>1, AppendIsConcat
  <2>3. <<Head(chan)>> \o Tail(chan) = chan
    BY <1>1, <2>1
  <2> QED
    BY <2>1, <2>2, <2>3, ConcatAssociative
<1>2. ASSUME NEW l \in Line
      PROVE  logs \o Append(chan, l) = Append(logs \o chan, l)
  <2>1. <<l>> \in Seq(Line) /\ logs \o chan \in Seq(Line)
    BY ConcatProperties
  <2>2. Append(chan, l) = chan \o <<l>> /\ Append(logs \o chan, l) = (logs \o chan) \o <<l>>
    BY <2>1, AppendIsConcat
  <2> QED
    BY <2>1, <2>2, ConcatAssociative
<1> QED
  BY <1>1, <1>2

\* Which lines are behind the loop's snapshot.
LEMMA SweptStep ==
  ASSUME TypeOK, TypeOK', Places, Swept, [Next]_vars
  PROVE  Swept'
<1>0. /\ Len(logChan) \in Nat /\ snapshot \in Nat /\ logChan \in Seq(Line)
      /\ DOMAIN logChan = 1 .. Len(logChan)
  BY DEF TypeOK
<1> USE DEF Swept
\* A line is read.
<1>1. ASSUME logChan # <<>>, logChan' = Tail(logChan), media' = media,
             snapshot' \in Nat, snapshot' >= snapshot - 1
      PROVE  Swept'
  <2>1. /\ Tail(logChan) \in Seq(Line) /\ Len(Tail(logChan)) = Len(logChan) - 1
        /\ \A k \in 1 .. Len(Tail(logChan)) : Tail(logChan)[k] = logChan[k + 1]
    BY <1>0, <1>1, HeadTailProperties
  <2> SUFFICES ASSUME media = "none", NEW k \in DOMAIN Tail(logChan), k > snapshot'
               PROVE  Tail(logChan)[k].kind # "media"
    BY <1>1
  <2> QED
    BY <1>0, <1>1, <2>1
\* A line that is none of MediaFunc's is added.
<1>2. ASSUME NEW l \in Line, l.kind # "media", logChan' = Append(logChan, l),
             media' = media, snapshot' = snapshot
      PROVE  Swept'
  <2>1. /\ Len(logChan') = Len(logChan) + 1 /\ DOMAIN logChan' = 1 .. Len(logChan')
        /\ \A k \in 1 .. Len(logChan) : logChan'[k] = logChan[k]
        /\ logChan'[Len(logChan) + 1] = l
    BY <1>0, <1>2, AppendProperties
  <2> SUFFICES ASSUME media = "none", NEW k \in DOMAIN logChan', k > snapshot
               PROVE  logChan'[k].kind # "media"
    BY <1>2
  <2>2. CASE k = Len(logChan) + 1
    BY <1>2, <2>1, <2>2
  <2>3. CASE k \in DOMAIN logChan
    BY <1>0, <2>1, <2>3
  <2> QED
    BY <1>0, <2>1, <2>2, <2>3
<1>3. ASSUME UNCHANGED <<logChan, snapshot>>, media' = "none" => media = "none"
      PROVE  Swept'
  BY <1>3
<1>4. CASE TakeLine
  BY <1>0, <1>1, <1>4 DEF TakeLine, mediaVars
<1>5. CASE MediaEnded
  BY <1>0, <1>5 DEF MediaEnded, MediaEndedWith
<1>6. CASE Drain
  <2>1. logChan # <<>>
    BY <1>6, LineFacts DEF TypeOK, Drain
  <2> QED
    BY <1>0, <1>1, <1>6, <2>1 DEF Drain, mediaVars
<1>7. CASE Media
  BY <1>3, <1>7 DEF Media, MediaWantsToLog, MediaLogs, MediaReturns
<1>8. ASSUME NEW c \in Calls, CallbackLogs(c)
      PROVE  Swept'
  <2> DEFINE l == [call |-> c, kind |-> "late", no |-> late]
  <2>1. l \in Line /\ l.kind # "media"
    <3>1. late \in Nat
      BY LogAssumption DEF TypeOK
    <3> QED
      BY <3>1, LineTyped
  <2>2. logChan' = Append(logChan, l) /\ media' = media /\ snapshot' = snapshot
    BY <1>8 DEF CallbackLogs, Send, mediaVars
  <2> HIDE DEF l
  <2> QED
    BY <1>2, <2>1, <2>2
<1>9. CASE TakeCall \/ Terminated \/ Leave \/ Drained \/ LoopReports \/ Reporter
  BY <1>3, <1>9 DEF TakeCall, Terminated, TerminatedThen, Leave, Drained, LoopReports,
                    Reporter, mediaVars
<1>10. ASSUME NEW c \in Calls, DirectReads(c)
       PROVE  Swept'
  BY <1>3, <1>10 DEF DirectReads, mediaVars
<1>11. CASE DirectWrites \/ UNCHANGED vars
  BY <1>3, <1>11 DEF DirectWrites, mediaVars, vars
<1> QED
  BY <1>4, <1>5, <1>6, <1>7, <1>8, <1>9, <1>10, <1>11 DEF Next, Loop, Done

\* The next call's log is untouched.
LEMMA FreshStep ==
  ASSUME TypeOK, Places, Fresh, [Next]_vars
  PROVE  Fresh'
<1>0. call \in 0 .. MaxCalls /\ report \in [Calls -> Seq(Line) \cup {NoReport}]
  BY DEF TypeOK
<1> USE LogAssumption DEF Fresh, Calls
<1>1. CASE TakeCall
  BY <1>0, <1>1 DEF TakeCall, Places, writerVars
<1>2. CASE TakeLine \/ Terminated \/ Leave \/ Drain \/ Drained
  <2>1. UNCHANGED <<call, media, direct, writer, report>>
    BY <1>2 DEF TakeLine, Terminated, TerminatedThen, Leave, Drain, Drained, mediaVars,
                writerVars
  <2>2. \/ pc' # "drain"
        \/ pc' = pc /\ reporter' = reporter
    BY <1>2 DEF TakeLine, Terminated, TerminatedThen, Leave, Drain, Drained
  <2> QED
    BY <1>0, <2>1, <2>2
<1>3. CASE MediaEnded
  BY <1>0, <1>3 DEF MediaEnded, MediaEndedWith, Places, writerVars
<1>4. CASE LoopReports \/ Reporter
  <2>1. /\ UNCHANGED <<call, media, direct, writer>> /\ media = "none"
        /\ report' = [report EXCEPT ![call] = Logs]
        /\ pc' = "drain" => pc = "drain"
        /\ reporter' => reporter
    BY <1>4 DEF LoopReports, Reporter, Places, mediaVars, writerVars
  <2> QED
    BY <1>0, <2>1
<1>5. CASE Media
  BY <1>0, <1>5 DEF Media, MediaWantsToLog, MediaLogs, MediaReturns, writerVars
<1>6. ASSUME NEW c \in Calls, CallbackLogs(c)
      PROVE  Fresh'
  BY <1>0, <1>6 DEF CallbackLogs, mediaVars, writerVars
<1>7. ASSUME NEW c \in Calls, DirectReads(c)
      PROVE  Fresh'
  BY <1>0, <1>7 DEF DirectReads, mediaVars
<1>8. CASE DirectWrites
  BY <1>0, <1>8 DEF DirectWrites, mediaVars
<1>9. CASE UNCHANGED vars
  BY <1>0, <1>9 DEF vars, mediaVars, writerVars
<1> QED
  BY <1>1, <1>2, <1>3, <1>4, <1>5, <1>6, <1>7, <1>8, <1>9 DEF Next, Loop, Done

\* The lines MediaFunc has sent.
LEMMA GatheredStep ==
  ASSUME TypeOK, TypeOK', Places, Places', Swept, Fresh, Gathered, [Next]_vars
  PROVE  Gathered'
<1>0. /\ Logs \in Seq(Line) /\ logChan \in Seq(Line) /\ Logs \o logChan \in Seq(Line)
      /\ \A c \in Calls : said[c] \in Nat
      /\ snapshot \in Nat /\ call \in 0 .. MaxCalls
  BY ConcatProperties DEF TypeOK
<1>1. Collecting => call \in Calls /\ Sent \in Nat
  BY <1>0 DEF Collecting, Sent, Places, Calls
<1> USE DEF Gathered
\* Nothing happens to them.
<1>2. ASSUME Logs' \o logChan' = Logs \o logChan, Collecting' => Collecting,
             direct' = {} => direct = {}, call' = call, Sent' = Sent
      PROVE  Gathered'
  BY <1>2
<1>3. CASE TakeCall
  <2>1. /\ Logs' = <<>> /\ logChan' = logChan /\ call' = call + 1 /\ call' \in Calls
        /\ media = "none" /\ snapshot = 0 /\ media' = "work" /\ said' = said
    BY <1>0, <1>3 DEF TakeCall, Places, Calls
  <2>2. Logs' \o logChan' = logChan
    BY <1>0, <2>1, ConcatEmptySeq
  <2>3. \A k \in DOMAIN logChan : logChan[k].kind # "media"
    BY <1>0, <2>1 DEF Swept
  <2>4. Sent' = 0
    BY <1>0, <2>1 DEF Sent, Places
  <2> QED
    BY <1>0, <2>1, <2>2, <2>3, <2>4, NoLines
<1>4. CASE TakeLine
  <2>1. /\ logChan # <<>> /\ Logs' = Append(Logs, Head(logChan)) /\ logChan' = Tail(logChan)
        /\ UNCHANGED <<pc, call, media, said, reporter, direct>>
    BY <1>4 DEF TakeLine, mediaVars, writerVars
  <2>2. Logs' \o logChan' = Logs \o logChan
    BY <1>0, <2>1, Moved
  <2> QED
    BY <1>2, <2>1, <2>2 DEF Collecting, Sent
<1>5. CASE Drain
  <2>1. /\ logChan # <<>> /\ Logs' = Append(Logs, Head(logChan)) /\ logChan' = Tail(logChan)
        /\ UNCHANGED <<pc, call, media, said, reporter, direct>>
    BY <1>5, LineFacts DEF TypeOK, Drain, mediaVars, writerVars
  <2>2. Logs' \o logChan' = Logs \o logChan
    BY <1>0, <2>1, Moved
  <2> QED
    BY <1>2, <2>1, <2>2 DEF Collecting, Sent
<1>6. CASE Terminated \/ Leave \/ MediaEnded \/ Drained \/ LoopReports \/ Reporter
  <2>1. UNCHANGED <<Logs, logChan, call, said, direct>>
    BY <1>6 DEF Terminated, TerminatedThen, Leave, MediaEnded, MediaEndedWith, Drained,
                LoopReports, Reporter, mediaVars, writerVars
  <2>2. media' = "log" <=> media = "log"
    BY <1>6 DEF Terminated, TerminatedThen, Leave, MediaEnded, MediaEndedWith, Drained,
                LoopReports, Reporter, mediaVars
  <2>3. Collecting' => Collecting
    BY <1>6 DEF Terminated, TerminatedThen, Leave, MediaEnded, MediaEndedWith, Drained,
                LoopReports, Reporter, Collecting, Places, mediaVars
  <2> QED
    BY <1>2, <2>1, <2>2, <2>3 DEF Sent
<1>7. CASE Media
  <2>0. UNCHANGED <<pc, call, Logs, reporter, direct>> /\ media # "none" /\ call \in Calls
    BY <1>1, <1>7 DEF Media, MediaWantsToLog, MediaLogs, MediaReturns, writerVars, Places
  <2>1. CASE MediaWantsToLog
    <3>1. said'[call] = said[call] + 1
      BY <2>0, <2>1 DEF TypeOK, MediaWantsToLog
    <3>2. Sent' = Sent
      BY <1>0, <2>0, <2>1, <3>1 DEF MediaWantsToLog, Sent
    <3> QED
      BY <1>2, <2>0, <2>1, <3>2 DEF MediaWantsToLog, Collecting
  <2>2. CASE MediaLogs
    <3>1. Sent \in Nat /\ said[call] = Sent + 1 /\ Sent' = Sent + 1
      BY <1>0, <1>1, <2>0, <2>2 DEF MediaLogs, Sent, Collecting
    <3> DEFINE l == [call |-> call, kind |-> "media", no |-> Sent + 1]
    <3>2. logChan' = Append(logChan, l) /\ l \in Line
      BY <2>0, <2>2, <3>1, LineTyped DEF MediaLogs, Send
    <3>3. Logs' \o logChan' = Append(Logs \o logChan, l)
      BY <1>0, <2>0, <3>2, Moved
    <3>4. direct = {} => MediaLinesAre(Logs \o logChan, call, Sent)
      BY <2>0 DEF Collecting
    <3>5. direct = {} => MediaLinesAre(Append(Logs \o logChan, l), call, Sent + 1)
      BY <1>0, <2>0, <3>1, <3>4, NextLine
    <3> QED
      BY <2>0, <3>1, <3>3, <3>5
  <2>3. CASE MediaReturns
    BY <1>2, <2>0, <2>3 DEF MediaReturns, Collecting, Sent
  <2> QED
    BY <1>7, <2>1, <2>2, <2>3 DEF Media
<1>8. ASSUME NEW c \in Calls, CallbackLogs(c)
      PROVE  Gathered'
  <2> DEFINE l == [call |-> c, kind |-> "late", no |-> late]
  <2>1. l \in Line /\ l.kind # "media"
    BY LineTyped, LogAssumption DEF TypeOK
  <2>2. /\ logChan' = Append(logChan, l)
        /\ UNCHANGED <<pc, call, Logs, media, said, reporter, direct>>
    BY <1>8 DEF CallbackLogs, Send, mediaVars, writerVars
  <2>3. Logs' \o logChan' = Append(Logs \o logChan, l)
    BY <1>0, <2>1, <2>2, Moved
  <2>4. Collecting' = Collecting /\ Sent' = Sent
    BY <2>2 DEF Collecting, Sent
  <2> HIDE DEF l
  <2>5. Collecting /\ direct = {} => MediaLinesAre(Append(Logs \o logChan, l), call, Sent)
    BY <1>0, <1>1, <2>1, OtherLine
  <2> QED
    BY <2>2, <2>3, <2>4, <2>5
<1>9. ASSUME NEW c \in Calls, DirectReads(c)
      PROVE  Gathered'
  <2>1. direct' # {}
    BY <1>9 DEF DirectReads
  <2> QED
    BY <2>1
<1>10. CASE DirectWrites
  <2>1. direct' # {}
    BY <1>10 DEF DirectWrites, Fresh
  <2> QED
    BY <2>1
<1>11. CASE UNCHANGED vars
  BY <1>2, <1>11 DEF vars, mediaVars, writerVars, Collecting, Sent
<1> QED
  BY <1>3, <1>4, <1>5, <1>6, <1>7, <1>8, <1>9, <1>10, <1>11 DEF Next, Loop, Done

\* The log is whole when it is copied, and the report is not touched again.
LEMMA CompleteStep ==
  ASSUME TypeOK, TypeOK', Places, Swept, Fresh, Gathered, CompleteLog, [Next]_vars
  PROVE  CompleteLog'
<1>0. /\ Logs \in Seq(Line) /\ logChan \in Seq(Line)
      /\ \A c \in Calls : said[c] \in Nat
      /\ snapshot \in Nat /\ call \in 0 .. MaxCalls
      /\ report \in [Calls -> Seq(Line) \cup {NoReport}]
      /\ said \in [Calls -> 0 .. MaxLines]
  BY DEF TypeOK
<1> USE DEF CompleteLog
<1>1. ASSUME report' = report, direct \subseteq direct',
             \A c \in Calls : report[c] # NoReport => said'[c] = said[c]
      PROVE  CompleteLog'
  BY <1>1
<1>2. CASE LoopReports \/ Reporter
  <2>1. /\ report' = [report EXCEPT ![call] = Logs] /\ UNCHANGED <<said, direct>>
        /\ Collecting /\ media = "none" /\ call \in Calls /\ snapshot = 0
    BY <1>2 DEF LoopReports, Reporter, Places, Fresh, Collecting, mediaVars, writerVars
  <2>2. direct = {} => MediaLinesAre(Logs \o logChan, call, said[call])
    BY <2>1 DEF Gathered, Sent
  <2>3. \A k \in DOMAIN logChan : logChan[k].kind # "media"
    BY <1>0, <2>1 DEF Swept
  <2>4. direct = {} => MediaLinesAre(Logs, call, said[call])
    BY <1>0, <2>1, <2>2, <2>3, LinesBefore
  <2>5. direct \cap (1 .. call) = {} => direct = {}
    BY DEF Fresh
  <2>6. report'[call] = Logs /\ \A c \in Calls \ {call} : report'[c] = report[c]
    BY <1>0, <2>1
  <2> QED
    BY <2>1, <2>4, <2>5, <2>6
<1>3. CASE Media
  <2>1. /\ report' = report /\ direct' = direct /\ media # "none" /\ call \in Calls
        /\ \A c \in Calls \ {call} : said'[c] = said[c]
    BY <1>0, <1>3 DEF Media, MediaWantsToLog, MediaLogs, MediaReturns, writerVars, Places
  <2> QED
    BY <1>1, <2>1 DEF Fresh
<1>4. CASE TakeCall \/ TakeLine \/ Terminated \/ Leave \/ MediaEnded \/ Drain \/ Drained
  BY <1>1, <1>4 DEF TakeCall, TakeLine, Terminated, TerminatedThen, Leave, MediaEnded,
                    MediaEndedWith, Drain, Drained, mediaVars, writerVars
<1>5. ASSUME NEW c \in Calls, CallbackLogs(c) \/ DirectReads(c)
      PROVE  CompleteLog'
  BY <1>1, <1>5 DEF CallbackLogs, DirectReads, mediaVars, writerVars
<1>6. CASE DirectWrites \/ UNCHANGED vars
  BY <1>1, <1>6 DEF DirectWrites, mediaVars, writerVars, vars
<1> QED
  BY <1>2, <1>3, <1>4, <1>5, <1>6 DEF Next, Loop, Done

-----------------------------------------------------------------------------
\* The inductive invariant holds always.
THEOREM Invariance == Spec => []IInv
<1>1. Init => IInv
  BY InitIInv
<1>2. IInv /\ [Next]_vars => IInv'
  BY TypeStep, PlacesStep, EmptiedStep DEF IInv
<1> QED
  BY <1>1, <1>2, PTL DEF Spec

\* Every variable keeps its type: logChan holds no more than its capacity,
\* and the lines of the loop's snapshot are in it.
THEOREM TypeCorrect == Spec => []TypeOK
<1>1. IInv => TypeOK
  BY DEF IInv
<1> QED
  BY <1>1, Invariance, PTL

\* While the loop waits for MediaFunc, MediaFunc does not wait for the loop
\* to read logChan (ua.go:211 and 358).
THEOREM NeverStuck == Spec => []NoStuck
<1>1. IInv => NoStuck
  <2> SUFFICES ASSUME IInv, Fits, media = "log" PROVE HasRoom
    BY DEF NoStuck
  <2>1. /\ Len(logChan) \in Nat /\ late \in 0 .. MaxLate
        /\ call \in Calls /\ said[call] \in 0 .. MaxLines
    BY DEF IInv, TypeOK, Places
  <2>2. Len(logChan) <= late + (said[call] - 1)
    BY DEF IInv, Emptied, Sent
  <2> QED
    BY <2>1, <2>2, LogAssumption DEF Fits, HasRoom
<1> QED
  BY <1>1, Invariance, PTL
\* The report of a call holds every line its MediaFunc logged, in order and
\* nobody else's, unless a goroutine appended to cr.Logs on its own.
THEOREM ReportsAreComplete == Spec => []CompleteLog
<1> DEFINE Whole == Swept /\ Fresh /\ Gathered /\ CompleteLog
<1>1. Init => Whole
  <2> SUFFICES ASSUME Init PROVE Whole
    OBVIOUS
  <2>1. Swept /\ Fresh
    BY LogAssumption DEF Init, Swept, Fresh, Calls
  <2>2. Gathered
    BY DEF Init, Gathered, Collecting
  <2>3. CompleteLog
    BY DEF Init, CompleteLog
  <2> QED
    BY <2>1, <2>2, <2>3
<1>2. IInv /\ IInv' /\ Whole /\ [Next]_vars => Whole'
  BY SweptStep, FreshStep, GatheredStep, CompleteStep DEF IInv
<1>3. Whole => CompleteLog
  OBVIOUS
<1> QED
  BY <1>1, <1>2, <1>3, Invariance, PTL DEF Spec
=============================================================================
