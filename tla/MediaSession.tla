---------------------------- MODULE MediaSession ----------------------------
(***************************************************************************)
(* One call of rtc.MediaFunc: its body with the deferred calls, the        *)
(* goroutine that watches the context, the goroutines that read RTCP from  *)
(* and ingest media into the one track, and the callbacks of the peer      *)
(* connection.                                                             *)
(*                                                                         *)
(* The body's context is derived twice: ctx (done when mediaCtx is, or     *)
(* when cancel() was called) and iceCtx (done when mediaCtx is, after five *)
(* seconds, or when gathering is complete).  The peer connection runs its  *)
(* callbacks in goroutines of their own.  Calls are not recorded: only an  *)
(* agent's first call may be, and then handleTrack runs as well.           *)
(***************************************************************************)
EXTENDS Integers, FiniteSets

CONSTANT MayFail    \* may a step of the set-up, or the connection, fail?

ASSUME MediaAssumption == MayFail \in BOOLEAN

Workers == {"watcher", "reader", "ingester"}
Closers == {"body", "watcher"}     \* who calls doClose

VARIABLES
    cp,          \* the role, and the medium that is sent ("none": no source file)
    body,        \* where MediaFunc's own goroutine is
    worker,      \* where the goroutines it started are
    wg,          \* the WaitGroup's counter
    closer,      \* where a caller of doClose is
    doClosed,
    conn,        \* the peer connection
    callbacks,   \* calls of the OnConnectionStateChange function under way
    pcDone,      \* was pcDoneCancel() called?
    inner,       \* was cancel() called?
    mediaCtx,    \* is the context passed to MediaFunc done?
    sender,      \* the ingester's sender field: "nil" or "set"
    stopped,     \* was the sender stopped?
    sdpIn, sdpOut, end,   \* the channels to and from the user agent
    crashed      \* was a method called on a nil sender?

chans == <<sdpIn, sdpOut, end>>
ctxs  == <<pcDone, inner, mediaCtx>>
pcVars == <<conn, callbacks, sender, stopped>>
vars == <<cp, body, worker, wg, closer, doClosed, pcVars, ctxs, chans, crashed>>

CtxDone == inner \/ mediaCtx

TypeOK ==
    /\ cp \in [Role : {"uac", "uas"}, media : {"audio", "video", "none"}]
    /\ body \in {"idle", "offer", "setup", "local", "gather", "send", "answer", "run",
                 "close", "join", "notify", "ended"}
    /\ worker \in [Workers -> {"no", "wait", "check", "use", "busy", "close", "done"}]
    /\ wg \in 0 .. 3
    /\ closer \in [Closers -> {"no", "enter", "mark", "pc", "closing", "test", "stop",
                               "clear", "out"}]
    /\ conn \in {"none", "new", "connecting", "connected", "failed", "closing", "closed"}
    /\ callbacks \subseteq {"connected", "failed", "closed"}
    /\ sender \in {"nil", "set"}
    /\ doClosed \in BOOLEAN /\ stopped \in BOOLEAN /\ crashed \in BOOLEAN
    /\ pcDone \in BOOLEAN /\ inner \in BOOLEAN /\ mediaCtx \in BOOLEAN
    /\ sdpIn \in BOOLEAN /\ sdpOut \in BOOLEAN /\ end \in BOOLEAN

Init ==
    /\ cp \in [Role : {"uac", "uas"}, media : {"audio", "video", "none"}]
    /\ body = "idle"
    /\ worker = [w \in Workers |-> "no"]
    /\ wg = 0
    /\ closer = [a \in Closers |-> "no"]
    /\ doClosed = FALSE
    /\ conn = "none"
    /\ callbacks = {}
    /\ pcDone = FALSE /\ inner = FALSE
    /\ mediaCtx \in BOOLEAN
    /\ sender = "nil" /\ stopped = FALSE
    /\ sdpIn \in BOOLEAN /\ sdpOut \in BOOLEAN     \* left by an earlier call
    /\ end = FALSE
    /\ crashed = FALSE

-----------------------------------------------------------------------------
(***************************************************************************)
(* The body.                                                               *)
(***************************************************************************)

Called ==
    /\ body = "idle"
    /\ body' = IF cp.Role = "uac" THEN "setup" ELSE "offer"
    /\ UNCHANGED <<worker, wg, closer, doClosed, pcVars, chans>>

GetOffer ==
    /\ body = "offer"
    /\ sdpIn
    /\ sdpIn' = FALSE
    /\ body' = "setup"
    /\ UNCHANGED <<worker, wg, closer, doClosed, pcVars, sdpOut, end>>

\* doClose is not deferred yet.
OfferCancelled ==
    /\ body = "offer"
    /\ mediaCtx
    /\ body' = "join"
    /\ UNCHANGED <<worker, wg, closer, doClosed, pcVars, chans>>

\* The return statements run the deferred doClose.
ReturnFrom(place) ==
    /\ body = place
    /\ body' = "close"
    /\ closer' = [closer EXCEPT !["body"] = "enter"]

\* The peer connection cannot be created, or the track cannot be added.
SetupFails ==
    /\ MayFail
    /\ ReturnFrom("setup")
    /\ conn' \in {"none", "new"}
    /\ UNCHANGED <<worker, wg, doClosed, callbacks, sender, stopped, chans>>

\* Peer connection, track and callbacks are there and the goroutines are
\* started.  Those of the medium that is not sent return at once.
Setup ==
    /\ body = "setup"
    /\ body' = "local"
    /\ conn' = "new"
    /\ sender' = IF cp.media = "none" THEN "nil" ELSE "set"
    /\ worker' = [w \in Workers |->
                     IF cp.media = "none" /\ w # "watcher" THEN "done" ELSE "wait"]
    /\ wg' = IF cp.media = "none" THEN 1 ELSE 3
    /\ UNCHANGED <<closer, doClosed, callbacks, stopped, chans>>

\* CreateOffer and SetLocalDescription; for a callee SetRemoteDescription,
\* CreateAnswer and SetLocalDescription.  They fail when the watcher has
\* closed the connection.
LocalFails ==
    /\ MayFail \/ conn # "new"
    /\ ReturnFrom("local")
    /\ UNCHANGED <<worker, wg, doClosed, pcVars, chans>>

\* A connection with both descriptions starts to connect.
Local ==
    /\ body = "local"
    /\ conn = "new"
    /\ body' = "gather"
    /\ conn' = IF cp.Role = "uas" THEN "connecting" ELSE "new"
    /\ UNCHANGED <<worker, wg, closer, doClosed, callbacks, sender, stopped, chans>>

\* case <-ctx.Done() while gathering and while waiting for the answer.
Cancelled ==
    /\ CtxDone
    /\ ReturnFrom("gather") \/ ReturnFrom("answer")
    /\ UNCHANGED <<worker, wg, doClosed, pcVars, chans>>

\* case <-iceCtx.Done(), which comes at last: gathering is complete, its five
\* seconds are over or mediaCtx is done.
Gathered ==
    /\ body = "gather"
    /\ body' = "send"
    /\ UNCHANGED <<worker, wg, closer, doClosed, pcVars, chans>>

SendTo(room) ==
    /\ body = "send"
    /\ room
    /\ sdpOut' = TRUE
    /\ body' = IF cp.Role = "uac" THEN "answer" ELSE "run"
    /\ UNCHANGED <<worker, wg, closer, doClosed, pcVars, sdpIn, end>>

\* Mutant: the SDP replaces one that was not taken.
SendSdpOver == SendTo(TRUE)

SendSdp == SendTo(~sdpOut)

GetAnswer ==
    /\ body = "answer"
    /\ sdpIn
    /\ conn = "new"
    /\ sdpIn' = FALSE
    /\ body' = "run"
    /\ conn' = "connecting"
    /\ UNCHANGED <<worker, wg, closer, doClosed, callbacks, sender, stopped, sdpOut, end>>

\* The peer connection does not take the answer.
AnswerFails ==
    /\ MayFail \/ conn # "new"
    /\ sdpIn
    /\ ReturnFrom("answer")
    /\ sdpIn' = FALSE
    /\ UNCHANGED <<worker, wg, doClosed, pcVars, sdpOut, end>>

\* wg.Wait() at the end of the body.
RunEnds ==
    /\ wg = 0
    /\ ReturnFrom("run")
    /\ UNCHANGED <<worker, wg, doClosed, pcVars, chans>>

Closed ==
    /\ body = "close"
    /\ closer["body"] = "out"
    /\ body' = "join"
    /\ UNCHANGED <<worker, wg, closer, doClosed, pcVars, chans>>

\* doNotifyMediaFuncExit.
JoinWhen(over) ==
    /\ body = "join"
    /\ over
    /\ body' = "notify"
    /\ UNCHANGED <<worker, wg, closer, doClosed, pcVars, chans>>

\* Mutant: it does not wait.
JoinAtOnce == JoinWhen(TRUE)

Join == JoinWhen(wg = 0)

Notify ==
    /\ body = "notify"
    /\ ~end
    /\ end' = TRUE
    /\ body' = "ended"
    /\ UNCHANGED <<worker, wg, closer, doClosed, pcVars, sdpIn, sdpOut>>

Body ==
    /\ \/ Called \/ GetOffer \/ OfferCancelled \/ SetupFails \/ Setup \/ LocalFails \/ Local
       \/ Cancelled \/ Gathered \/ SendSdp \/ GetAnswer \/ AnswerFails \/ RunEnds
       \/ Closed \/ Join \/ Notify
    /\ UNCHANGED <<cp, ctxs, crashed>>

-----------------------------------------------------------------------------
(***************************************************************************)
(* doClose.  doClosed is an ordinary variable: the test and the assignment *)
(* are two steps, and two goroutines may be in between.                    *)
(***************************************************************************)

Goes(a, from, to) ==
    /\ closer[a] = from
    /\ closer' = [closer EXCEPT ![a] = to]

CloseEnter(a) ==
    /\ Goes(a, "enter", IF doClosed THEN "out" ELSE "mark")
    /\ UNCHANGED <<doClosed, pcVars>>

CloseMark(a) ==
    /\ Goes(a, "mark", "pc")
    /\ doClosed' = TRUE
    /\ UNCHANGED pcVars

\* pc.Close() does nothing if it was called before.
ClosePc(a) ==
    /\ IF conn \in {"none", "closing", "closed"}
       THEN Goes(a, "pc", "test") /\ UNCHANGED conn
       ELSE Goes(a, "pc", "closing") /\ conn' = "closing"
    /\ UNCHANGED <<doClosed, callbacks, sender, stopped>>

\* It stops the senders and reports the state "closed" to the function that
\* Setup registered.
ClosePcEnds(a) ==
    /\ Goes(a, "closing", "test")
    /\ conn' = "closed"
    /\ stopped' = TRUE
    /\ callbacks' = callbacks \cup (IF worker["watcher"] = "no" THEN {} ELSE {"closed"})
    /\ UNCHANGED <<doClosed, sender>>

\* if sender != nil { sender.Stop(); sender = nil }
CloseTest(a) ==
    /\ Goes(a, "test", IF sender = "nil" THEN "out" ELSE "stop")
    /\ UNCHANGED <<doClosed, pcVars>>

CloseStop(a) ==
    /\ Goes(a, "stop", "clear")
    /\ stopped' = TRUE
    /\ UNCHANGED <<doClosed, conn, callbacks, sender>>

CloseClear(a) ==
    /\ Goes(a, "clear", "out")
    /\ sender' = "nil"
    /\ UNCHANGED <<doClosed, conn, callbacks, stopped>>

DoClose(a) ==
    /\ \/ CloseEnter(a) \/ CloseMark(a) \/ ClosePc(a) \/ ClosePcEnds(a)
       \/ CloseTest(a) \/ CloseStop(a) \/ CloseClear(a)
    /\ UNCHANGED <<cp, body, worker, wg, ctxs, chans, crashed>>

-----------------------------------------------------------------------------
(***************************************************************************)
(* The goroutines.  Each ends with wg.Done().                              *)
(***************************************************************************)

Moves(w, from, to) ==
    /\ worker[w] = from
    /\ worker' = [worker EXCEPT ![w] = to]

Ends(w, from) ==
    /\ Moves(w, from, "done")
    /\ wg' = wg - 1

WatchContext ==
    /\ CtxDone
    /\ Moves("watcher", "wait", "close")
    /\ closer' = [closer EXCEPT !["watcher"] = "enter"]
    /\ UNCHANGED <<wg, crashed>>

WatcherEnds ==
    /\ closer["watcher"] = "out"
    /\ Ends("watcher", "close")
    /\ UNCHANGED <<closer, crashed>>

\* The select of reader and ingester.
WaitForPc(w) ==
    /\ CtxDone \/ pcDone
    /\ Moves(w, "wait", "check")
    /\ UNCHANGED <<wg, closer, crashed>>

\* for ctx.Err() == nil
CheckContext(w) ==
    /\ IF CtxDone THEN Ends(w, "check") ELSE Moves(w, "check", "use") /\ UNCHANGED wg
    /\ UNCHANGED <<closer, crashed>>

\* Read is called on what the sender field holds now.
ReadSender ==
    /\ Moves("reader", "use", "busy")
    /\ crashed' = (sender = "nil")
    /\ UNCHANGED <<wg, closer>>

ReadPacket ==
    /\ conn = "connected"
    /\ Moves("reader", "busy", "check")
    /\ UNCHANGED <<wg, closer, crashed>>

\* Mutant: the reader calls wg.Done() when Read fails, and again at its end.
ReadFailsTwice ==
    /\ stopped
    /\ Moves("reader", "busy", "done")
    /\ wg' = wg - 2
    /\ UNCHANGED <<closer, crashed>>

ReadFails ==
    /\ stopped
    /\ Ends("reader", "busy")
    /\ UNCHANGED <<closer, crashed>>

\* The file cannot be opened: next try.
OpenFails ==
    /\ MayFail
    /\ Moves("ingester", "use", "check")
    /\ UNCHANGED <<wg, closer, crashed>>

\* Audio asks the sender for its parameters, video does not.
OpenFile ==
    /\ Moves("ingester", "use", "busy")
    /\ crashed' = (cp.media = "audio" /\ sender = "nil")
    /\ UNCHANGED <<wg, closer>>

\* End of file, or the end of the context: the outer loop decides.
IngestAll ==
    /\ Moves("ingester", "busy", "check")
    /\ UNCHANGED <<wg, closer, crashed>>

\* A sample is not written: the outer loop is left.
IngestFails ==
    /\ MayFail \/ stopped
    /\ Ends("ingester", "busy")
    /\ UNCHANGED <<closer, crashed>>

Goroutine(w) ==
    /\ \/ w = "watcher" /\ (WatchContext \/ WatcherEnds)
       \/ w # "watcher" /\ (WaitForPc(w) \/ CheckContext(w))
       \/ w = "reader" /\ (ReadSender \/ ReadPacket \/ ReadFails)
       \/ w = "ingester" /\ (OpenFails \/ OpenFile \/ IngestAll \/ IngestFails)
    /\ UNCHANGED <<cp, body, doClosed, pcVars, ctxs, chans>>

-----------------------------------------------------------------------------
(***************************************************************************)
(* The peer connection's goroutines.                                       *)
(***************************************************************************)

Connected ==
    /\ conn = "connecting"
    /\ conn' = "connected"
    /\ callbacks' = callbacks \cup {"connected"}
    /\ UNCHANGED <<sender, stopped, ctxs>>

Failed ==
    /\ MayFail
    /\ conn \in {"connecting", "connected"}
    /\ conn' = "failed"
    /\ callbacks' = callbacks \cup {"failed"}
    /\ UNCHANGED <<sender, stopped, ctxs>>

\* The OnConnectionStateChange function.
HandleConnected ==
    /\ "connected" \in callbacks
    /\ callbacks' = callbacks \ {"connected"}
    /\ pcDone' = TRUE
    /\ UNCHANGED <<conn, sender, stopped, inner, mediaCtx>>

HandleEndIn(states) ==
    \E state \in callbacks \cap {"failed", "closed"} :
        /\ callbacks' = callbacks \ {state}
        /\ inner' = (inner \/ (state \in states /\ ~mediaCtx))
        /\ UNCHANGED <<conn, sender, stopped, pcDone, mediaCtx>>

\* Mutant: only a failed connection cancels.
HandleFailed == HandleEndIn({"failed"})

HandleEnd == HandleEndIn({"failed", "closed"})

PeerConnection ==
    /\ Connected \/ Failed
    /\ UNCHANGED <<cp, body, worker, wg, closer, doClosed, chans, crashed>>

Callback ==
    /\ HandleConnected \/ HandleEnd
    /\ UNCHANGED <<cp, body, worker, wg, closer, doClosed, chans, crashed>>

-----------------------------------------------------------------------------
(***************************************************************************)
(* The user agent, which may or may not do these.                          *)
(***************************************************************************)

CancelMedia ==
    /\ ~mediaCtx
    /\ mediaCtx' = TRUE
    /\ UNCHANGED <<pcDone, inner, chans>>

\* Only what MediaFunc can still notice: an SDP that is put or taken before
\* its body looks at the channel is one that was there, or not, from the
\* beginning.
PutSdp ==
    /\ body \in {"offer", "answer"}
    /\ ~sdpIn
    /\ sdpIn' = TRUE
    /\ UNCHANGED <<ctxs, sdpOut, end>>

TakeSdp ==
    /\ body = "send"
    /\ sdpOut
    /\ sdpOut' = FALSE
    /\ UNCHANGED <<ctxs, sdpIn, end>>

UserAgent ==
    /\ body # "ended"
    /\ CancelMedia \/ PutSdp \/ TakeSdp
    /\ UNCHANGED <<cp, body, worker, wg, closer, doClosed, pcVars, crashed>>

Stopped == body = "ended" \/ crashed

Next ==
    \/ /\ ~crashed
       /\ \/ Body
          \/ \E a \in Closers : DoClose(a)
          \/ \E w \in Workers : Goroutine(w)
          \/ PeerConnection \/ Callback \/ UserAgent
    \/ Stopped /\ UNCHANGED vars

Spec == Init /\ [][Next]_vars

\* Goroutines run, the timeout of gathering expires and the peer connection
\* calls back.  Nothing obliges the peer or the user agent to do anything.
FairSpec ==
    /\ Spec
    /\ WF_vars(~crashed /\ Body)
    /\ \A a \in Closers : WF_vars(~crashed /\ DoClose(a))
    /\ \A w \in Workers : WF_vars(~crashed /\ Goroutine(w))
    /\ WF_vars(~crashed /\ Callback)

-----------------------------------------------------------------------------
(***************************************************************************)
(* Properties.                                                             *)
(***************************************************************************)

\* When the user agent is told that MediaFunc has ended, nothing of the call
\* is left running: no goroutine, no doClose, no open peer connection and no
\* sender.  The next call's MediaFunc starts on that message
\* (doNotifyMediaFuncExit, deferred before doClose).
EndIsLast ==
    end => /\ \A w \in Workers : worker[w] \in {"no", "done"}
           /\ \A a \in Closers : closer[a] \in {"no", "out"}
           /\ conn \in {"none", "closed"}
           /\ sender = "nil"

\* A call that was cancelled, or whose set-up or connection failed, ends,
\* whatever it was doing: the only place from which it may never return is
\* the send of its SDP into a full sdpToUAChan (the deferred calls, and
\* cancel() in the OnConnectionStateChange function).
MediaEnds ==
    (CtxDone \/ body = "close") ~> (end \/ (body = "send" /\ sdpOut) \/ crashed)

At == CASE body \in {"idle", "ended"}             -> "none"
        [] body = "offer"                         -> "waitOffer"
        [] body \in {"setup", "local", "gather"}  -> "gather"
        [] body = "send"                          -> "sendSdp"
        [] body = "answer"                        -> "waitAnswer"
        [] body = "run"                           -> "run"
        [] OTHER                                  -> "exit"

Contract == INSTANCE MediaContract WITH role <- cp.Role, at <- At, cancelled <- mediaCtx

\* MediaFunc keeps its side of the contract with the event loop: one SDP of
\* its own, in order, never over one that was not taken, and one end message.
KeepsContract == Contract!ContractSpec

\* doClose ends the readers: "doClose() // Interrupt the RTCP read."  No
\* goroutine calls a method of a sender that doClose has set to nil.
NoNilSender == ~crashed
=============================================================================
