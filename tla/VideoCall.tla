------------------------------ MODULE VideoCall ------------------------------
(***************************************************************************)
(* A video call between two programs: the ingester of one (VideoSender)    *)
(* and, in the other, what rtc/media.go and rtc/h264writer do with the     *)
(* track: handleTrack writes it to a file if it is to be recorded, a       *)
(* goroutine of its own asks for key frames, and doClose closes the        *)
(* connection and the file when the context is done.                       *)
(*                                                                         *)
(* RTP goes through FreeSWITCH; packets may be lost or overtaken.          *)
(***************************************************************************)
EXTENDS VideoSender

CONSTANTS
    CallIndex,   \* cr.CallIndex of the call
    MaxFaults    \* bound: packets lost or overtaken by the next

ASSUME CallAssumption ==
    /\ CallIndex \in Nat \ {0}
    /\ MaxFaults \in Nat

VARIABLES
    rctx,         \* ctx.Err() == nil, at the receiver
    closed,       \* doClosed
    track,        \* the goroutine that pion calls OnTrack in
    pli,          \* the goroutine that asks for key frames
    mediaFunc,    \* "runs", "returned" after wg.Wait, or the program "panicked"
    dv_h264,      \* the file: "nil", "open", "closed", or "typednil"
    hasKeyFrame,
    recorded,     \* the bytes of the file
    faults        \* packets lost and overtaken

recorderVars == <<rctx, closed, track, pli, mediaFunc, dv_h264, hasKeyFrame, recorded>>
vars == <<fileVars, senderVars, sctx, sent, wire, recorderVars, faults>>

TypeOK ==
    /\ SenderTypes
    /\ rctx \in BOOLEAN /\ closed \in BOOLEAN
    /\ track \in {"none", "read", "returned"}
    /\ pli \in {"none", "runs", "returned"}
    /\ mediaFunc \in {"runs", "returned", "panicked"}
    /\ dv_h264 \in {"nil", "open", "closed", "typednil"}
    /\ hasKeyFrame \in BOOLEAN
    /\ recorded \in Seq(Byte)
    /\ faults \in 0 .. MaxFaults

Init ==
    /\ SenderInit
    /\ rctx = TRUE /\ closed = FALSE
    /\ track = "none" /\ pli = "none" /\ mediaFunc = "runs"
    /\ dv_h264 = "nil" /\ hasKeyFrame = FALSE /\ recorded = <<>>
    /\ faults = 0

senderSide == <<fileVars, senderVars, sctx, sent>>

-----------------------------------------------------------------------------
(***************************************************************************)
(* The network.                                                            *)
(***************************************************************************)

Lose ==
    /\ wire # <<>>
    /\ wire' = Tail(wire)

Overtake ==
    /\ Len(wire) > 1
    /\ wire' = <<wire[2], wire[1]>> \o SubSeq(wire, 3, Len(wire))

Network ==
    /\ Lose \/ Overtake
    /\ faults < MaxFaults
    /\ faults' = faults + 1
    /\ UNCHANGED <<senderSide, recorderVars>>

-----------------------------------------------------------------------------
(***************************************************************************)
(* The receiver.                                                           *)
(***************************************************************************)

\* cr.CallIndex == 1; cp.DumpMedia is not looked at (sip/ua.go:250).
record == CallIndex = 1

\* OnTrack, when the first packet has come: the file is created, and the
\* goroutine that asks for key frames started.
TrackStarts ==
    /\ track = "none" /\ wire # <<>>
    /\ IF record
       THEN track' = "read" /\ pli' = "runs" /\ dv_h264' = "open"
       ELSE track' = "returned" /\ UNCHANGED <<pli, dv_h264>>
    /\ UNCHANGED <<wire, rctx, closed, mediaFunc, hasKeyFrame, recorded>>

\* The file cannot be created: New returns a nil *H264Writer, and dv_h264, which
\* is an interface, is not nil with it.  cancel().
FileFails ==
    /\ record
    /\ track = "none" /\ wire # <<>>
    /\ pli' = "runs"
    /\ dv_h264' = "typednil"
    /\ track' = "returned"
    /\ rctx' = FALSE
    /\ UNCHANGED <<wire, closed, mediaFunc, hasKeyFrame, recorded>>

\* Reading fails: cancel().
TrackFails ==
    /\ track = "read" /\ rctx
    /\ track' = "returned"
    /\ rctx' = FALSE
    /\ UNCHANGED <<wire, closed, pli, mediaFunc, dv_h264, hasKeyFrame, recorded>>

\* isKeyFrame, which reads four bytes.  Mutant: a key picture will do.
KeyFrameOrIdr(p) == p.type \in {SPS, STAPA, IDR}
IsKeyFrame(p) ==
    \/ p.type = SPS /\ Len(p.data[1]) > 3
    \/ p.type = STAPA /\ UnitType(p.data[1]) = SPS

\* H264Packet.Unmarshal returns an error: for a payload of one or two bytes,
\* which is a unit by itself, and for a type that is not handled.
Refused(p) ==
    \/ p.type \notin (1 .. STAPA) \cup {FUA}
    \/ p.type < STAPA /\ Len(p.data[1]) <= 2

\* What it returns otherwise: a start code before each unit, not before the
\* later pieces of one.
Unmarshal(p) ==
    IF p.first THEN FlattenSeq([k \in 1 .. Len(p.data) |-> StartCode(4) \o p.data[k]])
    ELSE p.data[1]

\* What WriteRTP writes.  writeTrackToDisk ignores its errors.
Output(p) == IF Refused(p) THEN <<>> ELSE Unmarshal(p)

\* writeTrackToDisk and WriteRTP: nothing is written before the first
\* parameter sets, and nothing to a closed file.  One more packet may be read
\* after ctx is done.
ReadRTP ==
    /\ track = "read"
    /\ wire # <<>>
    /\ track' = IF rctx THEN "read" ELSE "returned"
    /\ wire' = Tail(wire)
    /\ LET p == Head(wire).payload IN
       /\ hasKeyFrame' = (hasKeyFrame \/ IsKeyFrame(p))
       /\ recorded' = IF hasKeyFrame' /\ dv_h264 = "open" THEN recorded \o Output(p)
                      ELSE recorded
    /\ UNCHANGED <<rctx, closed, pli, mediaFunc, dv_h264>>

\* ctx is done, or ReadRTP fails because doClose has closed the connection.
TrackReturns ==
    /\ track = "read" /\ ~rctx
    /\ track' = "returned"
    /\ UNCHANGED <<wire, rctx, closed, pli, mediaFunc, dv_h264, hasKeyFrame, recorded>>

\* doClose, when ctx is done: dv_h264 is closed unless it is nil.  Close looks
\* into the writer, and there is none.
DoClose ==
    /\ ~rctx /\ ~closed
    /\ closed' = TRUE
    /\ dv_h264' = IF dv_h264 = "open" THEN "closed" ELSE dv_h264
    /\ mediaFunc' = IF dv_h264 = "typednil" THEN "panicked" ELSE mediaFunc
    /\ UNCHANGED <<wire, rctx, track, pli, hasKeyFrame, recorded>>

\* Its select has ctx.Done(), and a timer for the next request.
PliReturns ==
    /\ pli = "runs" /\ ~rctx
    /\ pli' = "returned"
    /\ UNCHANGED <<wire, rctx, closed, track, mediaFunc, dv_h264, hasKeyFrame, recorded>>

\* wg.Wait() counts the goroutine that closes and the one above, not the one
\* of the track.
MediaFuncReturns ==
    /\ mediaFunc = "runs" /\ closed /\ pli # "runs"
    /\ mediaFunc' = "returned"
    /\ UNCHANGED <<wire, rctx, closed, track, pli, dv_h264, hasKeyFrame, recorded>>

Receiver ==
    /\ mediaFunc # "panicked"
    /\ \/ TrackStarts \/ FileFails \/ TrackFails \/ ReadRTP \/ TrackReturns
       \/ DoClose \/ PliReturns \/ MediaFuncReturns
    /\ UNCHANGED <<senderSide, faults>>

-----------------------------------------------------------------------------
\* Either side's call ends.
SenderCancelled ==
    /\ sctx /\ sctx' = FALSE
    /\ UNCHANGED <<fileVars, senderVars, sent, wire, recorderVars, faults>>

ReceiverCancelled ==
    /\ rctx /\ rctx' = FALSE
    /\ UNCHANGED <<senderSide, wire, closed, track, pli, mediaFunc, dv_h264, hasKeyFrame,
                   recorded, faults>>

\* The sender has stopped, or played the file MaxPasses times.
Done ==
    /\ spc = "stopped" \/ (spc = "open" /\ passes = MaxPasses)
    /\ UNCHANGED vars

Next ==
    \/ Sender /\ UNCHANGED <<recorderVars, faults>>
    \/ Network
    \/ Receiver
    \/ SenderCancelled \/ ReceiverCancelled
    \/ Done

Spec == Init /\ [][Next]_vars

\* The goroutines run.  Nobody need end the call.
FairSpec ==
    /\ Spec
    /\ WF_vars(Sender /\ UNCHANGED <<recorderVars, faults>>)
    /\ WF_vars(TrackReturns /\ Receiver)
    /\ WF_vars((DoClose \/ PliReturns \/ MediaFuncReturns) /\ Receiver)

-----------------------------------------------------------------------------
\* What is recorded is what was in the file, from its first parameter sets on,
\* unless packets are lost or overtaken: every unit except SEI units,
\* delimiters, filler and units of one or two bytes, each with its start code and
\* in its place, however it was grouped, packed or cut into pieces.
SameVideo ==
    faults = 0 =>
        /\ Len(recorded) <= passes * Len(plain)
        /\ \A k \in 1 .. Len(recorded) : recorded[k] = plain[((k - 1) % Len(plain)) + 1]

\* A recording starts with parameter sets, whatever happened to packets: a
\* player needs them before the first picture (h264writer.go:53).
RecordingStarts ==
    recorded # <<>> =>
        /\ Len(recorded) > 4 /\ SubSeq(recorded, 1, 4) = StartCode(4)
        /\ recorded[5] % 32 = SPS
        /\ \E k \in 6 .. Len(recorded) - 4 :
              SubSeq(recorded, k, k + 3) = StartCode(4) /\ recorded[k + 4] % 32 = PPS

\* A cancelled side stops: the ingester does not start the file again
\* (media.go:533), and the track's goroutines and MediaFunc return.  Only where
\* the recording's file could not be created may closing it end the program
\* instead (media.go:159, h264writer.go:68).
Returned == track # "read" /\ pli # "runs" /\ mediaFunc = "returned"
Crashed == dv_h264 = "typednil" /\ mediaFunc = "panicked"

BothStop ==
    /\ ~sctx ~> spc = "stopped"
    /\ ~rctx ~> Returned \/ Crashed
=============================================================================
