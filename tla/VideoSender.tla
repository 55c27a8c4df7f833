------------------------------ MODULE VideoSender ------------------------------
(***************************************************************************)
(* The video ingester (rtc/ingester.go): NAL units are read in groups, a   *)
(* group is written as samples, a sample becomes RTP packets (pion's       *)
(* packetizer and H.264 payloader), and the marker interceptor has the     *)
(* last word on each packet.  Ingest is called again at the end of the     *)
(* file, until the context of MediaFunc is done.                           *)
(*                                                                         *)
(* The unit of time stamps is the duration of one sample.  Pacing is left  *)
(* out.                                                                    *)
(***************************************************************************)
EXTENDS H264Reader

CONSTANTS
    Files,       \* the files there may be, as sequences of units
    Mtu,         \* the payloader's limit on a payload
    MaxPasses,   \* bound: how often the file is opened
    MaxWire      \* bound: packets under way when a sample is written

ASSUME SenderAssumption ==
    /\ Files \subseteq Seq(Unit)
    /\ Mtu \in Nat /\ Mtu > 2 /\ Mtu < 65536
    /\ MaxPasses \in Nat /\ MaxWire \in Nat

\* The order of a file's units, SEI units aside: parameter sets come in pairs,
\* the first ones before anything else that is sent; a pair is followed by a
\* picture, and every key picture (of one slice) follows a pair.  Type 0 and
\* types above 23 are not used in files.
Neighbours(nals, j, k) ==
    /\ j < k /\ UnitType(nals[j]) # SEI /\ UnitType(nals[k]) # SEI
    /\ \A i \in j + 1 .. k - 1 : UnitType(nals[i]) = SEI

Ordered(nals) ==
    /\ \A k \in DOMAIN nals : UnitType(nals[k]) \in 1 .. STAPA - 1
    /\ UnitType(nals[Len(nals)]) \notin {SEI, SPS, PPS}
    /\ \A k \in DOMAIN nals :
          (\A j \in 1 .. k - 1 : UnitType(nals[j]) \in {SEI, AUD, FILLER}) =>
             UnitType(nals[k]) \in {SEI, AUD, FILLER, SPS}
    /\ \A j, k \in DOMAIN nals : Neighbours(nals, j, k) =>
          /\ UnitType(nals[j]) = SPS <=> UnitType(nals[k]) = PPS
          /\ UnitType(nals[j]) = PPS => UnitType(nals[k]) \notin {SPS, AUD, FILLER}
          /\ UnitType(nals[k]) = IDR => UnitType(nals[j]) = PPS

\* packageAsSTAPA: a header with the reference number of the first unit, then each
\* unit after its length in two bytes.
Sized(nal) == <<(Len(nal) \div 256) % 256, Len(nal) % 256>> \o nal
Aggregate(s, p) == <<((s[1] \div 32) % 4) * 32 + STAPA>> \o Sized(s) \o Sized(p)

\* The pairs fit: they are tens of bytes, and the limit is 1188.  The payloader
\* would cut a longer pair as it cuts a long unit; its last piece would keep the
\* marker, and no recorder would know it for parameter sets.
PairsFit(nals) ==
    \A j, k \in DOMAIN nals :
        Neighbours(nals, j, k) /\ UnitType(nals[j]) = SPS =>
            Len(Aggregate(nals[j], nals[k])) <= Mtu

ASSUME FileAssumption ==
    \A units \in Files :
        /\ units # <<>> /\ \A k \in DOMAIN units : Encoded(NalOf(units[k]))
        /\ Ordered(NalsOf(units)) /\ PairsFit(NalsOf(units))

VARIABLES
    file,        \* the file, cut by the reader
    plain,       \* history: its units that should arrive, as bytes
    at,          \* the reader's position
    spc,         \* position of the goroutine that calls Ingest
    passes,      \* how often the file has been opened
    sps, pps,    \* the last of each in this group, or <<>>
    oFrames,     \* the units of this group
    frames,      \* samples still to write
    timestamp,   \* the packetizer's
    sctx,        \* ctx.Err() == nil
    sent,        \* history: packets in the order sent
    wire         \* packets under way

fileVars == <<file, plain>>
senderVars == <<at, spc, passes, sps, pps, oFrames, frames, timestamp>>

\* A payload: its type, the units it holds or the piece of one, and whether it
\* is the first piece.
Payload == [type : Byte, data : Seq(Seq(Byte)), first : BOOLEAN]
Packet == [ts : Nat, marker : BOOLEAN, payload : Payload]

SenderTypes ==
    /\ file \in [err : {"nil", "eof", "error"}, nals : Seq(Seq(Byte))]
    /\ plain \in Seq(Byte)
    /\ at \in Nat \ {0}
    /\ spc \in {"open", "group", "read", "write", "stopped"}
    /\ passes \in 0 .. MaxPasses
    /\ sps \in Seq(Byte) /\ pps \in Seq(Byte)
    /\ oFrames \in Seq(Seq(Byte))
    /\ frames \in Seq([nals : Seq(Seq(Byte)), duration : {0, 1}])
    /\ spc \in {"open", "group", "read"} => frames = <<>>
    /\ timestamp \in Nat
    /\ sctx \in BOOLEAN
    /\ sent \in Seq(Packet) /\ wire \in Seq(Packet)

\* The bytes of a file that should arrive: all units but SEI units, which are
\* left out, delimiters and filler, which are not sent, and units of one or two
\* bytes (the end of a sequence or stream), which the receiver refuses.  Their
\* start codes become long ones.
Arrives(nal) ==
    /\ UnitType(nal) \notin {SEI, AUD, FILLER}
    /\ UnitType(nal) \in {SPS, PPS} \/ Len(nal) > 2
PlainUnit(nal) == IF Arrives(nal) THEN StartCode(4) \o nal ELSE <<>>
Plain(units) == FlattenSeq([k \in 1 .. Len(units) |-> PlainUnit(NalOf(units[k]))])

SenderInit ==
    /\ \E units \in Files : file = Opened(BytesOf(units)) /\ plain = Plain(units)
    /\ at = 1
    /\ spc = "open" /\ passes = 0
    /\ sps = <<>> /\ pps = <<>> /\ oFrames = <<>> /\ frames = <<>>
    /\ timestamp = 0 /\ sctx = TRUE
    /\ sent = <<>> /\ wire = <<>>

-----------------------------------------------------------------------------
\* ctx.Err() == nil.  Mutant: the context is not the one that is cancelled.
RunningAlways == TRUE
Running == sctx

\* for ctx.Err() == nil { Ingest(ctx) ... }: open the file, or leave.  A file
\* that cannot be opened is tried again at once, which changes nothing.
Open ==
    /\ spc = "open" /\ Running
    /\ passes < MaxPasses
    /\ passes' = passes + 1
    /\ at' = 1
    /\ spc' = "group"
    /\ UNCHANGED <<fileVars, sps, pps, oFrames, frames, timestamp, sent, wire>>

Stop ==
    /\ spc \in {"open", "group"} /\ ~Running
    /\ spc' = "stopped"
    /\ UNCHANGED <<fileVars, at, passes, sps, pps, oFrames, frames, timestamp, sent,
                   wire>>

\* A new group: for ctx.Err() == nil { var sps, pps; var oFrames ... }.
NewGroup ==
    /\ spc = "group" /\ Running
    /\ sps' = <<>> /\ pps' = <<>> /\ oFrames' = <<>>
    /\ spc' = "read"
    /\ UNCHANGED <<fileVars, at, passes, frames, timestamp, sent, wire>>

\* The samples of a group: its parameter sets as one STAP-A if it has both,
\* then the other units.  A group with only one parameter set loses it.
IsParameterSet(nal) == UnitType(nal) \in {SPS, PPS}

InSamples(group, s, p) ==
    (IF s # <<>> /\ p # <<>> THEN << <<s, p>> >> ELSE <<>>)
        \o FlattenSeq([k \in 1 .. Len(group) |->
                          IF IsParameterSet(group[k]) THEN <<>> ELSE << <<group[k]>> >>])

\* Only the last sample takes time.
Timed(list) ==
    [k \in 1 .. Len(list) |->
        [nals |-> list[k], duration |-> IF k = Len(list) THEN 1 ELSE 0]]

\* NextNAL returns a unit: it ends the group, or another is read.
ReadNAL ==
    LET next == NextNAL(file, at) IN
    /\ spc = "read" /\ next.err = "nil"
    /\ at' = next.at
    /\ oFrames' = Append(oFrames, next.nal)
    /\ sps' = IF UnitType(next.nal) = SPS THEN next.nal ELSE sps
    /\ pps' = IF UnitType(next.nal) = PPS THEN next.nal ELSE pps
    /\ IF IsParameterSet(next.nal) /\ Running THEN UNCHANGED <<spc, frames>>
       ELSE spc' = "write" /\ frames' = Timed(InSamples(oFrames', sps', pps'))
    /\ UNCHANGED <<fileVars, passes, timestamp, sent, wire>>

\* It returns an error: what there is of a group is lost.  After io.EOF Ingest
\* is called again.
ReadFails ==
    LET err == NextNAL(file, at).err IN
    /\ spc = "read" /\ err # "nil"
    /\ spc' = IF err = "eof" THEN "open" ELSE "stopped"
    /\ UNCHANGED <<fileVars, at, passes, sps, pps, oFrames, frames, timestamp, sent, wire>>

-----------------------------------------------------------------------------
(***************************************************************************)
(* pion: the payloads of a sample.                                         *)
(***************************************************************************)

\* The pieces of a unit that is too long (FU-A): the header byte, its forbidden
\* bit aside, goes with the first one when it is put together again.
Pieces(nal) ==
    LET size == Mtu - 2
        n    == (Len(nal) - 1 + size - 1) \div size
        piece(k) == SubSeq(nal, 2 + (k - 1) * size,
                           IF 1 + k * size <= Len(nal) THEN 1 + k * size ELSE Len(nal))
    IN  [k \in 1 .. n |->
            [type |-> FUA, first |-> k = 1,
             data |-> << IF k = 1 THEN <<nal[1] % 128>> \o piece(1) ELSE piece(k) >>]]

\* Payload: of one unit, or of the STAP-A of two, which is a unit as any other to
\* the payloader.
Payloads(nals) ==
    LET nal == IF Len(nals) = 2 THEN Aggregate(nals[1], nals[2]) ELSE nals[1] IN
    IF UnitType(nal) \in {AUD, FILLER} THEN <<>>
    ELSE IF Len(nal) <= Mtu
         THEN << [type |-> UnitType(nal), first |-> TRUE, data |-> nals] >>
    ELSE Pieces(nal)

\* The interceptor: no marker on a STAP-A.  Mutant: as the packetizer set it.
MarkerAsSet(p, marker) == marker
Marker(p, marker) == p.type # STAPA /\ marker

Packets(sample) ==
    LET ps == Payloads(sample.nals) IN
    [k \in 1 .. Len(ps) |->
        [ts |-> timestamp, marker |-> Marker(ps[k], k = Len(ps)), payload |-> ps[k]]]

\* track.WriteSample, for the samples of the group one after the other.
WriteSample ==
    /\ spc = "write" /\ frames # <<>>
    /\ Len(wire) <= MaxWire
    /\ sent' = sent \o Packets(Head(frames))
    /\ wire' = wire \o Packets(Head(frames))
    /\ timestamp' = timestamp + Head(frames).duration
    /\ frames' = Tail(frames)
    /\ UNCHANGED <<fileVars, at, spc, passes, sps, pps, oFrames>>

\* The connection is closed.
WriteFails ==
    /\ spc = "write" /\ frames # <<>> /\ ~sctx
    /\ spc' = "stopped"
    /\ UNCHANGED <<fileVars, at, passes, sps, pps, oFrames, frames, timestamp, sent,
                   wire>>

\* Mutant: the rest of a group is given up.
WrittenSome == Len(frames) <= 1
Written == frames = <<>>

GroupWritten ==
    /\ spc = "write" /\ Written
    /\ spc' = "group"
    /\ UNCHANGED <<fileVars, at, passes, sps, pps, oFrames, frames, timestamp, sent, wire>>

Sender ==
    /\ \/ Open \/ Stop \/ NewGroup \/ ReadNAL \/ ReadFails
       \/ WriteSample \/ WriteFails \/ GroupWritten
    /\ UNCHANGED sctx

-----------------------------------------------------------------------------
\* The time stamp changes exactly after a packet with the marker, so that a
\* receiver takes the parameter sets and their picture for one access unit
\* (ingester.go:157: "For STAP-A, set marker to false, to make Chrome happy"),
\* for files with pairs that fit.
MarkerEndsPicture ==
    \A k \in 1 .. Len(sent) - 1 : sent[k].marker <=> sent[k + 1].ts # sent[k].ts

\* No key picture goes without its parameter sets: the packet before its first
\* one is a STAP-A of the same time stamp, although SEI units may stand between
\* them in the file (h264reader.go:134).
StartsKeyPicture(p) == p.payload.first /\ UnitType(p.payload.data[1]) = IDR

ParameterSetsKept ==
    \A k \in 1 .. Len(sent) :
        StartsKeyPicture(sent[k]) =>
            /\ k > 1
            /\ sent[k - 1].payload.type = STAPA
            /\ sent[k - 1].ts = sent[k].ts
=============================================================================
