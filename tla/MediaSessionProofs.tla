------------------------- MODULE MediaSessionProofs -------------------------
(***************************************************************************)
(* Proofs about one MediaFunc (MediaSession), in either role, with every   *)
(* medium and whether or not a step of it may fail.                        *)
(*                                                                         *)
(* That the end message comes last rests on two facts that hold all along: *)
(* the WaitGroup counts the goroutines that are not done (Counted), and a  *)
(* connection that was marked as closed is being closed by somebody or is  *)
(* closed (Closing).  Places says which positions of the body, the watcher *)
(* and the two callers of doClose go together.                             *)
(***************************************************************************)
EXTENDS MediaSession, TLAPS

Unfinished(w) == IF worker[w] \in {"no", "done"} THEN 0 ELSE 1

\* The WaitGroup counts the goroutines that have not ended.
Counted == wg = Unfinished("watcher") + Unfinished("reader") + Unfinished("ingester")

\* Before the goroutines are started, and after the deferred doClose.
Before == {"idle", "offer", "setup"}
After  == {"join", "notify", "ended"}

Places ==
    /\ body \in Before => /\ \A w \in Workers : worker[w] = "no"
                          /\ conn = "none" /\ sender = "nil" /\ ~doClosed
    /\ body = "offer" => cp.Role = "uas"
    /\ body = "answer" => cp.Role = "uac"
    /\ body \notin After \cup {"close"} => closer["body"] = "no"
    /\ body = "close" => closer["body"] # "no"
    /\ body \in After => closer["body"] \in {"no", "out"}
    /\ worker["watcher"] \in {"no", "wait", "close", "done"}
    /\ worker["watcher"] \in {"no", "wait"} => closer["watcher"] = "no"
    /\ worker["watcher"] = "close" => closer["watcher"] # "no"
    /\ worker["watcher"] = "done" => closer["watcher"] = "out"
    /\ body \in {"notify", "ended"} => wg = 0
    /\ end => body = "ended"

\* Caller a of doClose has passed the mark and not yet returned.
Past(a) == closer[a] \in {"pc", "closing", "test", "stop", "clear"}

Closing ==
    /\ \A a \in Closers : Past(a) \/ closer[a] = "out" => doClosed
    /\ \A a \in Closers : Past(a) /\ closer[a] # "pc" => conn \in {"none", "closing", "closed"}
    /\ conn = "closing" => \E a \in Closers : closer[a] = "closing"
    /\ doClosed => \/ \E a \in Closers : Past(a)
                   \/ (conn \in {"none", "closed"} /\ sender = "nil")
    /\ body \in After => \/ doClosed
                        \/ (conn = "none" /\ sender = "nil")

\* The inductive invariant.
IInv == TypeOK /\ Counted /\ Places /\ Closing

-----------------------------------------------------------------------------
\* MediaFunc starts with the invariant.
LEMMA InitIInv == Init => IInv
  <1> SUFFICES ASSUME Init PROVE IInv
    OBVIOUS
  <1>1. TypeOK
    <2>1. /\ worker \in [Workers -> {"no", "wait", "check", "use", "busy", "close", "done"}]
          /\ closer \in [Closers -> {"no", "enter", "mark", "pc", "closing", "test", "stop",
                                     "clear", "out"}]
      BY DEF Init
    <2>2. /\ doClosed \in BOOLEAN /\ stopped \in BOOLEAN /\ crashed \in BOOLEAN
          /\ pcDone \in BOOLEAN /\ inner \in BOOLEAN /\ mediaCtx \in BOOLEAN
          /\ sdpIn \in BOOLEAN /\ sdpOut \in BOOLEAN /\ end \in BOOLEAN
      BY Zenon DEF Init
    <2>3. /\ wg \in 0 .. 3
          /\ callbacks \subseteq {"connected", "failed", "closed"}
          /\ body = "idle" /\ conn = "none" /\ sender = "nil"
      BY DEF Init
    <2>4. cp \in [Role : {"uac", "uas"}, media : {"audio", "video", "none"}]
      BY DEF Init
    <2> QED
      BY <2>1, <2>2, <2>3, <2>4 DEF TypeOK
  <1>2. Counted
    BY DEF Init, Counted, Unfinished, Workers
  <1>3. Places
    BY DEF Init, Places, Before, After, Workers, Closers
  <1>4. Closing
    BY DEF Init, Closing, Past, After, Closers
  <1> QED
    BY <1>1, <1>2, <1>3, <1>4 DEF IInv

-----------------------------------------------------------------------------
(***************************************************************************)
(* The steps of the body.                                                  *)
(***************************************************************************)

\* Every step of the body keeps the invariant.
LEMMA BodyStep == IInv /\ Body => IInv'
  <1> SUFFICES ASSUME IInv, Body PROVE IInv'
    OBVIOUS
  <1>0. TypeOK /\ Counted /\ Places /\ Closing /\ UNCHANGED <<cp, ctxs, crashed>>
    BY DEF IInv, Body
  <1>1. CASE Called
    <2>1. TypeOK'
      BY <1>0, <1>1 DEF Called, TypeOK, Workers, Closers, pcVars, ctxs, chans
    <2>2. Counted'
      BY <1>0, <1>1 DEF Called, Counted, Places, Before, Unfinished, TypeOK, Workers, pcVars, chans
    <2>3. Places'
      BY <1>0, <1>1 DEF Called, Places, Before, After, TypeOK, Workers, Closers, pcVars, chans
    <2>4. Closing'
      BY <1>0, <1>1 DEF Called, Closing, Places, Past, Before, After, TypeOK, Closers, pcVars, chans
    <2> QED
      BY <2>1, <2>2, <2>3, <2>4 DEF IInv
  <1>2. CASE GetOffer
    <2>1. TypeOK'
      <3>1. sdpIn' = FALSE /\ UNCHANGED <<worker, wg, doClosed, pcVars, ctxs, sdpOut, end, cp, crashed>>
        BY <1>0, <1>2 DEF GetOffer
      <3>2. sdpIn' \in BOOLEAN /\ doClosed' \in BOOLEAN
        BY <1>0, <3>1, Zenon DEF TypeOK
      <3> QED
        BY <1>0, <1>2, <3>1, <3>2 DEF GetOffer, TypeOK, Closers, pcVars, ctxs
    <2>2. Counted'
      BY <1>0, <1>2 DEF GetOffer, Counted, Places, Before, Unfinished, TypeOK, Workers, pcVars, chans
    <2>3. Places'
      BY <1>0, <1>2 DEF GetOffer, Places, Before, After, TypeOK, Workers, Closers, pcVars, chans
    <2>4. Closing'
      BY <1>0, <1>2 DEF GetOffer, Closing, Places, Past, Before, After, TypeOK, Closers, pcVars, chans
    <2> QED
      BY <2>1, <2>2, <2>3, <2>4 DEF IInv
  <1>3. CASE OfferCancelled
    <2>1. TypeOK'
      BY <1>0, <1>3 DEF OfferCancelled, TypeOK, Workers, Closers, pcVars, ctxs, chans
    <2>2. Counted'
      BY <1>0, <1>3 DEF OfferCancelled, Counted, Places, Before, Unfinished, TypeOK, Workers, pcVars, chans
    <2>3. Places'
      BY <1>0, <1>3 DEF OfferCancelled, Places, Before, After, TypeOK, Workers, Closers, pcVars, chans
    <2>4. Closing'
      BY <1>0, <1>3 DEF OfferCancelled, Closing, Places, Past, Before, After, TypeOK, Closers, pcVars, chans
    <2> QED
      BY <2>1, <2>2, <2>3, <2>4 DEF IInv
  <1>4. CASE SetupFails
    <2>1. TypeOK'
      BY <1>0, <1>4 DEF SetupFails, ReturnFrom, TypeOK, Workers, Closers, pcVars, ctxs, chans
    <2>2. Counted'
      BY <1>0, <1>4 DEF SetupFails, ReturnFrom, Counted, Places, Before, Unfinished, TypeOK, Workers, pcVars, chans
    <2>3. Places'
      BY <1>0, <1>4 DEF SetupFails, ReturnFrom, Places, Before, After, TypeOK, Workers, Closers, pcVars, chans
    <2>4. Closing'
      BY <1>0, <1>4 DEF SetupFails, ReturnFrom, Closing, Places, Past, Before, After, TypeOK, Closers, pcVars, chans
    <2> QED
      BY <2>1, <2>2, <2>3, <2>4 DEF IInv
  <1>5. CASE Setup
    <2>1. TypeOK'
      BY <1>0, <1>5 DEF Setup, TypeOK, Workers, Closers, pcVars, ctxs, chans
    <2>2. Counted'
      BY <1>0, <1>5 DEF Setup, Counted, Places, Before, Unfinished, TypeOK, Workers, pcVars, chans
    <2>3. Places'
      BY <1>0, <1>5 DEF Setup, Places, Before, After, TypeOK, Workers, Closers, pcVars, chans
    <2>4. Closing'
      BY <1>0, <1>5 DEF Setup, Closing, Places, Past, Before, After, TypeOK, Closers, pcVars, chans
    <2> QED
      BY <2>1, <2>2, <2>3, <2>4 DEF IInv
  <1>6. CASE LocalFails
    <2>1. TypeOK'
      BY <1>0, <1>6 DEF LocalFails, ReturnFrom, TypeOK, Workers, Closers, pcVars, ctxs, chans
    <2>2. Counted'
      BY <1>0, <1>6 DEF LocalFails, ReturnFrom, Counted, Places, Before, Unfinished, TypeOK, Workers, pcVars, chans
    <2>3. Places'
      BY <1>0, <1>6 DEF LocalFails, ReturnFrom, Places, Before, After, TypeOK, Workers, Closers, pcVars, chans
    <2>4. Closing'
      BY <1>0, <1>6 DEF LocalFails, ReturnFrom, Closing, Places, Past, Before, After, TypeOK, Closers, pcVars, chans
    <2> QED
      BY <2>1, <2>2, <2>3, <2>4 DEF IInv
  <1>7. CASE Local
    <2>1. TypeOK'
      BY <1>0, <1>7 DEF Local, TypeOK, Workers, Closers, pcVars, ctxs, chans
    <2>2. Counted'
      BY <1>0, <1>7 DEF Local, Counted, Places, Before, Unfinished, TypeOK, Workers, pcVars, chans
    <2>3. Places'
      BY <1>0, <1>7 DEF Local, Places, Before, After, TypeOK, Workers, Closers, pcVars, chans
    <2>4. Closing'
      BY <1>0, <1>7 DEF Local, Closing, Places, Past, Before, After, TypeOK, Closers, pcVars, chans
    <2> QED
      BY <2>1, <2>2, <2>3, <2>4 DEF IInv
  <1>8. CASE Cancelled
    <2>1. TypeOK'
      BY <1>0, <1>8 DEF Cancelled, ReturnFrom, TypeOK, Workers, Closers, pcVars, ctxs, chans
    <2>2. Counted'
      BY <1>0, <1>8 DEF Cancelled, ReturnFrom, Counted, Places, Before, Unfinished, TypeOK, Workers, pcVars, chans
    <2>3. Places'
      BY <1>0, <1>8 DEF Cancelled, ReturnFrom, Places, Before, After, TypeOK, Workers, Closers, pcVars, chans
    <2>4. Closing'
      BY <1>0, <1>8 DEF Cancelled, ReturnFrom, Closing, Places, Past, Before, After, TypeOK, Closers, pcVars, chans
    <2> QED
      BY <2>1, <2>2, <2>3, <2>4 DEF IInv
  <1>9. CASE Gathered
    <2>1. TypeOK'
      BY <1>0, <1>9 DEF Gathered, TypeOK, Workers, Closers, pcVars, ctxs, chans
    <2>2. Counted'
      BY <1>0, <1>9 DEF Gathered, Counted, Places, Before, Unfinished, TypeOK, Workers, pcVars, chans
    <2>3. Places'
      BY <1>0, <1>9 DEF Gathered, Places, Before, After, TypeOK, Workers, Closers, pcVars, chans
    <2>4. Closing'
      BY <1>0, <1>9 DEF Gathered, Closing, Places, Past, Before, After, TypeOK, Closers, pcVars, chans
    <2> QED
      BY <2>1, <2>2, <2>3, <2>4 DEF IInv
  <1>10. CASE SendSdp
    <2>1. TypeOK'
      BY <1>0, <1>10 DEF SendSdp, SendTo, TypeOK, Workers, Closers, pcVars, ctxs, chans
    <2>2. Counted'
      BY <1>0, <1>10 DEF SendSdp, SendTo, Counted, Places, Before, Unfinished, TypeOK, Workers, pcVars, chans
    <2>3. Places'
      BY <1>0, <1>10 DEF SendSdp, SendTo, Places, Before, After, TypeOK, Workers, Closers, pcVars, chans
    <2>4. Closing'
      BY <1>0, <1>10 DEF SendSdp, SendTo, Closing, Places, Past, Before, After, TypeOK, Closers, pcVars, chans
    <2> QED
      BY <2>1, <2>2, <2>3, <2>4 DEF IInv
  <1>11. CASE GetAnswer
    <2>1. TypeOK'
      <3>1. /\ sdpIn' = FALSE /\ body' = "run" /\ conn' = "connecting"
            /\ UNCHANGED <<worker, wg, closer, doClosed, callbacks, sender, stopped, ctxs,
                           sdpOut, end, cp, crashed>>
        BY <1>0, <1>11 DEF GetAnswer
      <3>2. sdpIn' \in BOOLEAN /\ doClosed' \in BOOLEAN /\ stopped' \in BOOLEAN
        BY <1>0, <3>1, Zenon DEF TypeOK
      <3> QED
        BY <1>0, <3>1, <3>2 DEF TypeOK, Closers, pcVars, ctxs
    <2>2. Counted'
      BY <1>0, <1>11 DEF GetAnswer, Counted, Places, Before, Unfinished, TypeOK, Workers, pcVars, chans
    <2>3. Places'
      BY <1>0, <1>11 DEF GetAnswer, Places, Before, After, TypeOK, Workers, Closers, pcVars, chans
    <2>4. Closing'
      BY <1>0, <1>11 DEF GetAnswer, Closing, Places, Past, Before, After, TypeOK, Closers, pcVars, chans
    <2> QED
      BY <2>1, <2>2, <2>3, <2>4 DEF IInv
  <1>12. CASE AnswerFails
    <2>1. TypeOK'
      <3>1. sdpIn' = FALSE /\ UNCHANGED <<worker, wg, doClosed, pcVars, ctxs, sdpOut, end, cp, crashed>>
        BY <1>0, <1>12 DEF AnswerFails, ReturnFrom
      <3>2. sdpIn' \in BOOLEAN /\ doClosed' \in BOOLEAN
        BY <1>0, <3>1, Zenon DEF TypeOK
      <3> QED
        BY <1>0, <1>12, <3>1, <3>2 DEF AnswerFails, ReturnFrom, TypeOK, Closers, pcVars, ctxs
    <2>2. Counted'
      BY <1>0, <1>12 DEF AnswerFails, ReturnFrom, Counted, Places, Before, Unfinished, TypeOK, Workers, pcVars, chans
    <2>3. Places'
      BY <1>0, <1>12 DEF AnswerFails, ReturnFrom, Places, Before, After, TypeOK, Workers, Closers, pcVars, chans
    <2>4. Closing'
      BY <1>0, <1>12 DEF AnswerFails, ReturnFrom, Closing, Places, Past, Before, After, TypeOK, Closers, pcVars, chans
    <2> QED
      BY <2>1, <2>2, <2>3, <2>4 DEF IInv
  <1>13. CASE RunEnds
    <2>1. TypeOK'
      BY <1>0, <1>13 DEF RunEnds, ReturnFrom, TypeOK, Workers, Closers, pcVars, ctxs, chans
    <2>2. Counted'
      BY <1>0, <1>13 DEF RunEnds, ReturnFrom, Counted, Places, Before, Unfinished, TypeOK, Workers, pcVars, chans
    <2>3. Places'
      BY <1>0, <1>13 DEF RunEnds, ReturnFrom, Places, Before, After, TypeOK, Workers, Closers, pcVars, chans
    <2>4. Closing'
      BY <1>0, <1>13 DEF RunEnds, ReturnFrom, Closing, Places, Past, Before, After, TypeOK, Closers, pcVars, chans
    <2> QED
      BY <2>1, <2>2, <2>3, <2>4 DEF IInv
  <1>14. CASE Closed
    <2>1. TypeOK'
      BY <1>0, <1>14 DEF Closed, TypeOK, Workers, Closers, pcVars, ctxs, chans
    <2>2. Counted'
      BY <1>0, <1>14 DEF Closed, Counted, Places, Before, Unfinished, TypeOK, Workers, pcVars, chans
    <2>3. Places'
      BY <1>0, <1>14 DEF Closed, Places, Before, After, TypeOK, Workers, Closers, pcVars, chans
    <2>4. Closing'
      BY <1>0, <1>14 DEF Closed, Closing, Places, Past, Before, After, TypeOK, Closers, pcVars, chans
    <2> QED
      BY <2>1, <2>2, <2>3, <2>4 DEF IInv
  <1>15. CASE Join
    <2>1. TypeOK'
      BY <1>0, <1>15 DEF Join, JoinWhen, TypeOK, Workers, Closers, pcVars, ctxs, chans
    <2>2. Counted'
      BY <1>0, <1>15 DEF Join, JoinWhen, Counted, Places, Before, Unfinished, TypeOK, Workers, pcVars, chans
    <2>3. Places'
      BY <1>0, <1>15 DEF Join, JoinWhen, Places, Before, After, TypeOK, Workers, Closers, pcVars, chans
    <2>4. Closing'
      BY <1>0, <1>15 DEF Join, JoinWhen, Closing, Places, Past, Before, After, TypeOK, Closers, pcVars, chans
    <2> QED
      BY <2>1, <2>2, <2>3, <2>4 DEF IInv
  <1>16. CASE Notify
    <2>1. TypeOK'
      BY <1>0, <1>16 DEF Notify, TypeOK, Workers, Closers, pcVars, ctxs, chans
    <2>2. Counted'
      BY <1>0, <1>16 DEF Notify, Counted, Places, Before, Unfinished, TypeOK, Workers, pcVars, chans
    <2>3. Places'
      BY <1>0, <1>16 DEF Notify, Places, Before, After, TypeOK, Workers, Closers, pcVars, chans
    <2>4. Closing'
      BY <1>0, <1>16 DEF Notify, Closing, Places, Past, Before, After, TypeOK, Closers, pcVars, chans
    <2> QED
      BY <2>1, <2>2, <2>3, <2>4 DEF IInv
  <1> QED
    BY <1>1, <1>2, <1>3, <1>4, <1>5, <1>6, <1>7, <1>8, <1>9, <1>10, <1>11, <1>12, <1>13, <1>14, <1>15, <1>16 DEF Body

-----------------------------------------------------------------------------
(***************************************************************************)
(* The steps of doClose.                                                   *)
(***************************************************************************)

\* Every step of a caller of doClose keeps the invariant.
LEMMA CloseStep == ASSUME NEW a \in Closers PROVE IInv /\ DoClose(a) => IInv'
  <1> SUFFICES ASSUME IInv, DoClose(a) PROVE IInv'
    OBVIOUS
  <1>0. TypeOK /\ Counted /\ Places /\ Closing
        /\ UNCHANGED <<cp, body, worker, wg, ctxs, chans, crashed>>
    BY DEF IInv, DoClose
  <1>a. Counted'
    BY <1>0 DEF Counted, Unfinished
  <1>1. CASE CloseEnter(a)
    <2>1. TypeOK'
      BY <1>0, <1>1 DEF CloseEnter, Goes, TypeOK, Workers, Closers, pcVars, ctxs, chans
    <2>2. Places'
      BY <1>0, <1>1 DEF CloseEnter, Goes, Places, Before, After, TypeOK, Workers, Closers, pcVars, chans
    <2>3. Closing'
      BY <1>0, <1>1 DEF CloseEnter, Goes, Closing, Places, Past, Before, After, TypeOK, Workers, Closers, pcVars
    <2> QED
      BY <1>a, <2>1, <2>2, <2>3 DEF IInv
  <1>2. CASE CloseMark(a)
    <2>1. TypeOK'
      BY <1>0, <1>2 DEF CloseMark, Goes, TypeOK, Workers, Closers, pcVars, ctxs, chans
    <2>2. Places'
      BY <1>0, <1>2 DEF CloseMark, Goes, Places, Before, After, TypeOK, Workers, Closers, pcVars, chans
    <2>3. Closing'
      BY <1>0, <1>2 DEF CloseMark, Goes, Closing, Places, Past, Before, After, TypeOK, Workers, Closers, pcVars
    <2> QED
      BY <1>a, <2>1, <2>2, <2>3 DEF IInv
  <1>3. CASE ClosePc(a)
    <2>1. TypeOK'
      BY <1>0, <1>3 DEF ClosePc, Goes, TypeOK, Workers, Closers, pcVars, ctxs, chans
    <2>2. Places'
      BY <1>0, <1>3 DEF ClosePc, Goes, Places, Before, After, TypeOK, Workers, Closers, pcVars, chans
    <2>3. Closing'
      BY <1>0, <1>3 DEF ClosePc, Goes, Closing, Places, Past, Before, After, TypeOK, Workers, Closers, pcVars
    <2> QED
      BY <1>a, <2>1, <2>2, <2>3 DEF IInv
  <1>4. CASE ClosePcEnds(a)
    <2>1. TypeOK'
      BY <1>0, <1>4 DEF ClosePcEnds, Goes, TypeOK, Workers, Closers, pcVars, ctxs, chans
    <2>2. Places'
      BY <1>0, <1>4 DEF ClosePcEnds, Goes, Places, Before, After, TypeOK, Workers, Closers, pcVars, chans
    <2>3. Closing'
      BY <1>0, <1>4 DEF ClosePcEnds, Goes, Closing, Places, Past, Before, After, TypeOK, Workers, Closers, pcVars
    <2> QED
      BY <1>a, <2>1, <2>2, <2>3 DEF IInv
  <1>5. CASE CloseTest(a)
    <2>1. TypeOK'
      BY <1>0, <1>5 DEF CloseTest, Goes, TypeOK, Workers, Closers, pcVars, ctxs, chans
    <2>2. Places'
      BY <1>0, <1>5 DEF CloseTest, Goes, Places, Before, After, TypeOK, Workers, Closers, pcVars, chans
    <2>3. Closing'
      BY <1>0, <1>5 DEF CloseTest, Goes, Closing, Places, Past, Before, After, TypeOK, Workers, Closers, pcVars
    <2> QED
      BY <1>a, <2>1, <2>2, <2>3 DEF IInv
  <1>6. CASE CloseStop(a)
    <2>1. TypeOK'
      BY <1>0, <1>6 DEF CloseStop, Goes, TypeOK, Workers, Closers, pcVars, ctxs, chans
    <2>2. Places'
      BY <1>0, <1>6 DEF CloseStop, Goes, Places, Before, After, TypeOK, Workers, Closers, pcVars, chans
    <2>3. Closing'
      BY <1>0, <1>6 DEF CloseStop, Goes, Closing, Places, Past, Before, After, TypeOK, Workers, Closers, pcVars
    <2> QED
      BY <1>a, <2>1, <2>2, <2>3 DEF IInv
  <1>7. CASE CloseClear(a)
    <2>1. TypeOK'
      BY <1>0, <1>7 DEF CloseClear, Goes, TypeOK, Workers, Closers, pcVars, ctxs, chans
    <2>2. Places'
      BY <1>0, <1>7 DEF CloseClear, Goes, Places, Before, After, TypeOK, Workers, Closers, pcVars, chans
    <2>3. Closing'
      BY <1>0, <1>7 DEF CloseClear, Goes, Closing, Places, Past, Before, After, TypeOK, Workers, Closers, pcVars
    <2> QED
      BY <1>a, <2>1, <2>2, <2>3 DEF IInv
  <1> QED
    BY <1>1, <1>2, <1>3, <1>4, <1>5, <1>6, <1>7 DEF DoClose

-----------------------------------------------------------------------------
(***************************************************************************)
(* The steps of the goroutines.                                            *)
(***************************************************************************)

\* Every step of a goroutine keeps the invariant.
LEMMA GoroutineStep == ASSUME NEW w \in Workers PROVE IInv /\ Goroutine(w) => IInv'
  <1> SUFFICES ASSUME IInv, Goroutine(w) PROVE IInv'
    OBVIOUS
  <1>0. TypeOK /\ Counted /\ Places /\ Closing
        /\ UNCHANGED <<cp, body, doClosed, pcVars, ctxs, chans>>
    BY DEF IInv, Goroutine
  <1>1. CASE WatchContext
    <2>1. TypeOK' /\ Counted'
      BY <1>0, <1>1 DEF WatchContext, Moves, Ends, TypeOK, Counted, Unfinished, Workers, Closers, pcVars, ctxs, chans
    <2>2. Places'
      BY <1>0, <1>1 DEF WatchContext, Moves, Ends, Places, Counted, Unfinished, Before, After, TypeOK, Workers, Closers, pcVars, chans
    <2>3. Closing'
      BY <1>0, <1>1 DEF WatchContext, Moves, Ends, Closing, Places, Past, After, TypeOK, Workers, Closers, pcVars
    <2> QED
      BY <2>1, <2>2, <2>3 DEF IInv
  <1>2. CASE WatcherEnds
    <2>1. TypeOK' /\ Counted'
      BY <1>0, <1>2 DEF WatcherEnds, Moves, Ends, TypeOK, Counted, Unfinished, Workers, Closers, pcVars, ctxs, chans
    <2>2. Places'
      BY <1>0, <1>2 DEF WatcherEnds, Moves, Ends, Places, Counted, Unfinished, Before, After, TypeOK, Workers, Closers, pcVars, chans
    <2>3. Closing'
      BY <1>0, <1>2 DEF WatcherEnds, Moves, Ends, Closing, Places, Past, After, TypeOK, Workers, Closers, pcVars
    <2> QED
      BY <2>1, <2>2, <2>3 DEF IInv
  <1>3. CASE w # "watcher" /\ WaitForPc(w)
    <2>1. TypeOK' /\ Counted'
      BY <1>0, <1>3 DEF WaitForPc, Moves, Ends, TypeOK, Counted, Unfinished, Workers, Closers, pcVars, ctxs, chans
    <2>2. Places'
      BY <1>0, <1>3 DEF WaitForPc, Moves, Ends, Places, Counted, Unfinished, Before, After, TypeOK, Workers, Closers, pcVars, chans
    <2>3. Closing'
      BY <1>0, <1>3 DEF WaitForPc, Moves, Ends, Closing, Places, Past, After, TypeOK, Workers, Closers, pcVars
    <2> QED
      BY <2>1, <2>2, <2>3 DEF IInv
  <1>4. CASE w # "watcher" /\ CheckContext(w)
    <2>1. TypeOK' /\ Counted'
      BY <1>0, <1>4 DEF CheckContext, Moves, Ends, TypeOK, Counted, Unfinished, Workers, Closers, pcVars, ctxs, chans
    <2>2. Places'
      BY <1>0, <1>4 DEF CheckContext, Moves, Ends, Places, Counted, Unfinished, Before, After, TypeOK, Workers, Closers, pcVars, chans
    <2>3. Closing'
      BY <1>0, <1>4 DEF CheckContext, Moves, Ends, Closing, Places, Past, After, TypeOK, Workers, Closers, pcVars
    <2> QED
      BY <2>1, <2>2, <2>3 DEF IInv
  <1>5. CASE ReadSender
    <2>1. TypeOK' /\ Counted'
      BY <1>0, <1>5 DEF ReadSender, Moves, Ends, TypeOK, Counted, Unfinished, Workers, Closers, pcVars, ctxs, chans
    <2>2. Places'
      BY <1>0, <1>5 DEF ReadSender, Moves, Ends, Places, Counted, Unfinished, Before, After, TypeOK, Workers, Closers, pcVars, chans
    <2>3. Closing'
      BY <1>0, <1>5 DEF ReadSender, Moves, Ends, Closing, Places, Past, After, TypeOK, Workers, Closers, pcVars
    <2> QED
      BY <2>1, <2>2, <2>3 DEF IInv
  <1>6. CASE ReadPacket
    <2>1. TypeOK' /\ Counted'
      BY <1>0, <1>6 DEF ReadPacket, Moves, Ends, TypeOK, Counted, Unfinished, Workers, Closers, pcVars, ctxs, chans
    <2>2. Places'
      BY <1>0, <1>6 DEF ReadPacket, Moves, Ends, Places, Counted, Unfinished, Before, After, TypeOK, Workers, Closers, pcVars, chans
    <2>3. Closing'
      BY <1>0, <1>6 DEF ReadPacket, Moves, Ends, Closing, Places, Past, After, TypeOK, Workers, Closers, pcVars
    <2> QED
      BY <2>1, <2>2, <2>3 DEF IInv
  <1>7. CASE ReadFails
    <2>1. TypeOK' /\ Counted'
      BY <1>0, <1>7 DEF ReadFails, Moves, Ends, TypeOK, Counted, Unfinished, Workers, Closers, pcVars, ctxs, chans
    <2>2. Places'
      BY <1>0, <1>7 DEF ReadFails, Moves, Ends, Places, Counted, Unfinished, Before, After, TypeOK, Workers, Closers, pcVars, chans
    <2>3. Closing'
      BY <1>0, <1>7 DEF ReadFails, Moves, Ends, Closing, Places, Past, After, TypeOK, Workers, Closers, pcVars
    <2> QED
      BY <2>1, <2>2, <2>3 DEF IInv
  <1>8. CASE OpenFails
    <2>1. TypeOK' /\ Counted'
      BY <1>0, <1>8 DEF OpenFails, Moves, Ends, TypeOK, Counted, Unfinished, Workers, Closers, pcVars, ctxs, chans
    <2>2. Places'
      BY <1>0, <1>8 DEF OpenFails, Moves, Ends, Places, Counted, Unfinished, Before, After, TypeOK, Workers, Closers, pcVars, chans
    <2>3. Closing'
      BY <1>0, <1>8 DEF OpenFails, Moves, Ends, Closing, Places, Past, After, TypeOK, Workers, Closers, pcVars
    <2> QED
      BY <2>1, <2>2, <2>3 DEF IInv
  <1>9. CASE OpenFile
    <2>1. TypeOK' /\ Counted'
      BY <1>0, <1>9 DEF OpenFile, Moves, Ends, TypeOK, Counted, Unfinished, Workers, Closers, pcVars, ctxs, chans
    <2>2. Places'
      BY <1>0, <1>9 DEF OpenFile, Moves, Ends, Places, Counted, Unfinished, Before, After, TypeOK, Workers, Closers, pcVars, chans
    <2>3. Closing'
      BY <1>0, <1>9 DEF OpenFile, Moves, Ends, Closing, Places, Past, After, TypeOK, Workers, Closers, pcVars
    <2> QED
      BY <2>1, <2>2, <2>3 DEF IInv
  <1>10. CASE IngestAll
    <2>1. TypeOK' /\ Counted'
      BY <1>0, <1>10 DEF IngestAll, Moves, Ends, TypeOK, Counted, Unfinished, Workers, Closers, pcVars, ctxs, chans
    <2>2. Places'
      BY <1>0, <1>10 DEF IngestAll, Moves, Ends, Places, Counted, Unfinished, Before, After, TypeOK, Workers, Closers, pcVars, chans
    <2>3. Closing'
      BY <1>0, <1>10 DEF IngestAll, Moves, Ends, Closing, Places, Past, After, TypeOK, Workers, Closers, pcVars
    <2> QED
      BY <2>1, <2>2, <2>3 DEF IInv
  <1>11. CASE IngestFails
    <2>1. TypeOK' /\ Counted'
      BY <1>0, <1>11 DEF IngestFails, Moves, Ends, TypeOK, Counted, Unfinished, Workers, Closers, pcVars, ctxs, chans
    <2>2. Places'
      BY <1>0, <1>11 DEF IngestFails, Moves, Ends, Places, Counted, Unfinished, Before, After, TypeOK, Workers, Closers, pcVars, chans
    <2>3. Closing'
      BY <1>0, <1>11 DEF IngestFails, Moves, Ends, Closing, Places, Past, After, TypeOK, Workers, Closers, pcVars
    <2> QED
      BY <2>1, <2>2, <2>3 DEF IInv
  <1> QED
    BY <1>1, <1>2, <1>3, <1>4, <1>5, <1>6, <1>7, <1>8, <1>9, <1>10, <1>11 DEF Goroutine

-----------------------------------------------------------------------------
(***************************************************************************)
(* The steps of the peer connection and of the user agent.                 *)
(***************************************************************************)

\* Every step of the peer connection keeps the invariant.
LEMMA PeerStep == IInv /\ (PeerConnection \/ Callback) => IInv'
  <1> SUFFICES ASSUME IInv, PeerConnection \/ Callback PROVE IInv'
    OBVIOUS
  <1>0. TypeOK /\ Counted /\ Places /\ Closing
        /\ UNCHANGED <<cp, body, worker, wg, closer, doClosed, chans, crashed>>
    BY DEF IInv, PeerConnection, Callback
  <1>a. Counted'
    BY <1>0 DEF Counted, Unfinished
  <1>1. CASE Connected
    <2>1. TypeOK'
      BY <1>0, <1>1 DEF Connected, TypeOK, ctxs, chans
    <2>2. Places'
      BY <1>0, <1>1 DEF Connected, Places, Before, After, chans
    <2>3. Closing'
      BY <1>0, <1>1 DEF Connected, Closing, Past, After
    <2> QED
      BY <1>a, <2>1, <2>2, <2>3 DEF IInv
  <1>2. CASE Failed
    <2>1. TypeOK'
      BY <1>0, <1>2 DEF Failed, TypeOK, ctxs, chans
    <2>2. Places'
      BY <1>0, <1>2 DEF Failed, Places, Before, After, chans
    <2>3. Closing'
      BY <1>0, <1>2 DEF Failed, Closing, Past, After
    <2> QED
      BY <1>a, <2>1, <2>2, <2>3 DEF IInv
  <1>3. CASE HandleConnected
    <2>1. TypeOK'
      BY <1>0, <1>3 DEF HandleConnected, TypeOK, ctxs, chans
    <2>2. Places'
      BY <1>0, <1>3 DEF HandleConnected, Places, Before, After, chans
    <2>3. Closing'
      BY <1>0, <1>3 DEF HandleConnected, Closing, Past, After
    <2> QED
      BY <1>a, <2>1, <2>2, <2>3 DEF IInv
  <1>4. CASE HandleEnd
    <2>1. TypeOK'
      BY <1>0, <1>4 DEF HandleEnd, HandleEndIn, TypeOK, ctxs, chans
    <2>2. Places'
      BY <1>0, <1>4 DEF HandleEnd, HandleEndIn, Places, Before, After, chans
    <2>3. Closing'
      BY <1>0, <1>4 DEF HandleEnd, HandleEndIn, Closing, Past, After
    <2> QED
      BY <1>a, <2>1, <2>2, <2>3 DEF IInv
  <1> QED
    BY <1>1, <1>2, <1>3, <1>4 DEF PeerConnection, Callback

\* Every step of the user agent keeps the invariant.
LEMMA AgentStep == IInv /\ UserAgent => IInv'
  <1> SUFFICES ASSUME IInv, UserAgent PROVE IInv'
    OBVIOUS
  <1>0. TypeOK /\ Counted /\ Places /\ Closing
        /\ UNCHANGED <<cp, body, worker, wg, closer, doClosed, pcVars, crashed>>
    BY DEF IInv, UserAgent
  <1>1. end' = end
    BY DEF UserAgent, CancelMedia, PutSdp, TakeSdp, chans
  <1>2. TypeOK'
    <2>1. /\ mediaCtx' = mediaCtx \/ mediaCtx' = TRUE
          /\ sdpIn' = sdpIn \/ sdpIn' = TRUE
          /\ sdpOut' = sdpOut \/ sdpOut' = FALSE
          /\ UNCHANGED <<pcDone, inner>>
      BY DEF UserAgent, CancelMedia, PutSdp, TakeSdp, ctxs, chans
    <2>2. mediaCtx' \in BOOLEAN /\ sdpIn' \in BOOLEAN /\ sdpOut' \in BOOLEAN
      BY <1>0, <2>1, Zenon DEF TypeOK
    <2> QED
      BY <1>0, <1>1, <2>1, <2>2 DEF TypeOK, pcVars
  <1>3. Counted'
    BY <1>0 DEF Counted, Unfinished
  <1>4. Places'
    BY <1>0, <1>1 DEF Places, Before, After, pcVars
  <1>5. Closing'
    BY <1>0 DEF Closing, Past, After, pcVars
  <1> QED
    BY <1>2, <1>3, <1>4, <1>5 DEF IInv

-----------------------------------------------------------------------------
(***************************************************************************)
(* The theorems.                                                           *)
(***************************************************************************)

\* The inductive invariant holds in every reachable state.
THEOREM Invariance == Spec => []IInv
  <1>1. IInv /\ [Next]_vars => IInv'
    <2> SUFFICES ASSUME IInv, [Next]_vars PROVE IInv'
      OBVIOUS
    <2>1. CASE Next /\ ~UNCHANGED vars
      BY <2>1, BodyStep, CloseStep, GoroutineStep, PeerStep, AgentStep DEF Next
    <2>2. CASE UNCHANGED vars
      BY <2>2 DEF vars, pcVars, ctxs, chans, IInv, TypeOK, Counted, Unfinished, Places, Before,
                  After, Closing, Past
    <2> QED
      BY <2>1, <2>2
  <1> QED
    BY <1>1, InitIInv, PTL DEF Spec

\* Every variable of a media session keeps its type; in particular the
\* WaitGroup's counter never becomes negative, which would be a panic.
THEOREM TypeCorrect == Spec => []TypeOK
  BY Invariance, PTL DEF IInv

\* The end message is the last thing a call does: whoever has read it finds no
\* goroutine, no caller of doClose, no open connection and no sender.
THEOREM EndComesLast == Spec => []EndIsLast
  <1>1. IInv => EndIsLast
    <2> SUFFICES ASSUME IInv, end PROVE EndIsLast
      BY DEF EndIsLast
    <2>1. body = "ended" /\ wg = 0
      BY DEF IInv, Places
    <2>2. \A w \in Workers : worker[w] \in {"no", "done"}
      BY <2>1 DEF IInv, TypeOK, Counted, Unfinished, Workers
    <2>3. \A a \in Closers : closer[a] \in {"no", "out"}
      BY <2>1, <2>2 DEF IInv, Places, After, Workers, Closers
    <2>4. conn \in {"none", "closed"} /\ sender = "nil"
      BY <2>1, <2>3 DEF IInv, Closing, Past, After
    <2> QED
      BY <2>2, <2>3, <2>4 DEF EndIsLast
  <1> QED
    BY <1>1, Invariance, PTL

-----------------------------------------------------------------------------
(***************************************************************************)
(* The contract with the event loop.                                       *)
(***************************************************************************)

\* A step of the body is a step of the contract or does not show.
LEMMA BodyKeepsContract ==
  ASSUME TypeOK, Places, Body
  PROVE  Contract!ContractNext \/ UNCHANGED Contract!contractVars
  <1>0. UNCHANGED <<cp, ctxs, crashed>> /\ cp.Role \in {"uac", "uas"}
    BY DEF Body, TypeOK
  <1>1. CASE Called
    <2>1. Contract!Start
      BY <1>0, <1>1 DEF Called, Contract!Start, At, Places, TypeOK, ctxs, chans
    <2> QED
      BY <2>1 DEF Contract!ContractNext
  <1>2. CASE GetOffer
    <2>1. Contract!GetsSdp
      BY <1>0, <1>2 DEF GetOffer, Contract!GetsSdp, At, Places, TypeOK, ctxs, chans
    <2> QED
      BY <2>1 DEF Contract!ContractNext
  <1>3. CASE OfferCancelled
    <2>1. Contract!Returns
      BY <1>0, <1>3 DEF OfferCancelled, Contract!Returns, At, Places, TypeOK, ctxs, chans
    <2> QED
      BY <2>1 DEF Contract!ContractNext
  <1>4. CASE SetupFails
    <2>1. Contract!Returns
      BY <1>0, <1>4 DEF SetupFails, ReturnFrom, Contract!Returns, At, Places, TypeOK, ctxs, chans
    <2> QED
      BY <2>1 DEF Contract!ContractNext
  <1>5. CASE Setup
    BY <1>0, <1>5 DEF Setup, Contract!contractVars, At, ctxs, chans
  <1>6. CASE LocalFails
    <2>1. Contract!Returns
      BY <1>0, <1>6 DEF LocalFails, ReturnFrom, Contract!Returns, At, Places, TypeOK, ctxs, chans
    <2> QED
      BY <2>1 DEF Contract!ContractNext
  <1>7. CASE Local
    BY <1>0, <1>7 DEF Local, Contract!contractVars, At, ctxs, chans
  <1>8. CASE Cancelled
    <2>1. Contract!Returns
      BY <1>0, <1>8 DEF Cancelled, ReturnFrom, Contract!Returns, At, Places, TypeOK, ctxs, chans
    <2> QED
      BY <2>1 DEF Contract!ContractNext
  <1>9. CASE Gathered
    <2>1. Contract!Gathered
      BY <1>0, <1>9 DEF Gathered, Contract!Gathered, At, Places, TypeOK, ctxs, chans
    <2> QED
      BY <2>1 DEF Contract!ContractNext
  <1>10. CASE SendSdp
    <2>1. Contract!SendsSdp
      BY <1>0, <1>10 DEF SendSdp, SendTo, Contract!SendsSdp, At, Places, TypeOK, ctxs, chans
    <2> QED
      BY <2>1 DEF Contract!ContractNext
  <1>11. CASE GetAnswer
    <2>1. Contract!GetsSdp
      BY <1>0, <1>11 DEF GetAnswer, Contract!GetsSdp, At, Places, TypeOK, ctxs, chans
    <2> QED
      BY <2>1 DEF Contract!ContractNext
  <1>12. CASE AnswerFails
    <2>1. Contract!RejectsSdp
      BY <1>0, <1>12 DEF AnswerFails, ReturnFrom, Contract!RejectsSdp, At, Places, TypeOK, ctxs, chans
    <2> QED
      BY <2>1 DEF Contract!ContractNext
  <1>13. CASE RunEnds
    <2>1. Contract!Returns
      BY <1>0, <1>13 DEF RunEnds, ReturnFrom, Contract!Returns, At, Places, TypeOK, ctxs, chans
    <2> QED
      BY <2>1 DEF Contract!ContractNext
  <1>14. CASE Closed \/ Join
    BY <1>0, <1>14 DEF Closed, Join, JoinWhen, Contract!contractVars, At, ctxs, chans
  <1>15. CASE Notify
    <2>1. Contract!Exits
      BY <1>0, <1>15 DEF Notify, Contract!Exits, At, Places, TypeOK, ctxs, chans
    <2> QED
      BY <2>1 DEF Contract!ContractNext
  <1> QED
    BY <1>1, <1>2, <1>3, <1>4, <1>5, <1>6, <1>7, <1>8, <1>9, <1>10, <1>11, <1>12, <1>13, <1>14, <1>15 DEF Body

\* So is every other step.
LEMMA ContractStep == IInv /\ [Next]_vars => [Contract!ContractNext]_(Contract!contractVars)
  <1> SUFFICES ASSUME IInv, [Next]_vars
               PROVE  Contract!ContractNext \/ UNCHANGED Contract!contractVars
    OBVIOUS
  <1>1. CASE Body
    BY <1>1, BodyKeepsContract DEF IInv
  <1>2. CASE \E a \in Closers : DoClose(a)
    BY <1>2 DEF DoClose, At, Contract!contractVars, ctxs, chans
  <1>3. CASE \E w \in Workers : Goroutine(w)
    BY <1>3 DEF Goroutine, At, Contract!contractVars, ctxs, chans
  <1>4. CASE PeerConnection
    BY <1>4 DEF PeerConnection, Connected, Failed, At, Contract!contractVars, ctxs, chans
  <1>5. CASE Callback
    BY <1>5 DEF Callback, HandleConnected, HandleEnd, HandleEndIn, At, Contract!contractVars, chans
  <1>6. CASE UserAgent
    <2>1. UNCHANGED <<cp, body, At>>
      BY <1>6 DEF UserAgent, At
    <2>2. CASE CancelMedia
      BY <2>1, <2>2 DEF CancelMedia, Contract!Cancelled, Contract!ContractNext, chans
    <2>3. CASE PutSdp
      BY <2>1, <2>3 DEF PutSdp, Contract!PutSdp, Contract!ContractNext, ctxs
    <2>4. CASE TakeSdp
      BY <2>1, <2>4 DEF TakeSdp, Contract!TakeSdp, Contract!ContractNext, ctxs
    <2> QED
      BY <1>6, <2>2, <2>3, <2>4 DEF UserAgent
  <1>7. CASE UNCHANGED vars
    BY <1>7 DEF vars, At, Contract!contractVars, ctxs, chans
  <1> QED
    BY <1>1, <1>2, <1>3, <1>4, <1>5, <1>6, <1>7 DEF Next

\* One MediaFunc implements the contract with the event loop: one SDP of its
\* own, in order and never over another, and one end message.
THEOREM Implementation == Spec => KeepsContract
  <1>1. Init => Contract!ContractInit
    BY DEF Init, Contract!ContractInit, At
  <1> QED
    BY <1>1, Invariance, ContractStep, PTL DEF Spec, KeepsContract, Contract!ContractSpec
=============================================================================
