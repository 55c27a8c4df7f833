------------------------------ MODULE H264Reader ------------------------------
(***************************************************************************)
(* rtc/h264reader: NextNAL, which cuts an H.264 byte stream (Annex B) into *)
(* NAL units and leaves out the SEI units.                                 *)
(*                                                                         *)
(* A file is given by its units, so that what comes out can be compared    *)
(* with what it was made of.  Cutting the bytes is a function of the file, *)
(* so it is done once: a reader is a position in the sequence of units.    *)
(* No unit is empty.                                                       *)
(***************************************************************************)
EXTENDS Integers, Sequences, SequencesExt

Byte == 0 .. 255

\* A unit of a file: the length of its start code, its header byte, its body.
Unit == [code : {3, 4}, head : Byte, body : Seq(Byte)]

\* NalUnitType, and two of RTP's own.
IDR == 5
SEI == 6
SPS == 7
PPS == 8
AUD == 9
FILLER == 12
STAPA == 24
FUA == 28

\* parseHeader: the type is in the five low bits of the first byte.
UnitType(nal) == nal[1] % 32

StartCode(code) == IF code = 3 THEN <<0, 0, 1>> ELSE <<0, 0, 0, 1>>
NalOf(unit) == <<unit.head>> \o unit.body
NalsOf(units) == [k \in 1 .. Len(units) |-> NalOf(units[k])]
BytesOf(units) ==
    FlattenSeq([k \in 1 .. Len(units) |-> StartCode(units[k].code) \o NalOf(units[k])])

\* A start code ends at byte k.
EndsStartCode(bytes, k) == k > 2 /\ bytes[k] = 1 /\ bytes[k - 1] = 0 /\ bytes[k - 2] = 0

\* A unit as H.264 wants it: its forbidden bit is not set, it holds no start code
\* and does not end with a zero.
Encoded(nal) ==
    /\ nal[1] < 128 /\ nal[Len(nal)] # 0
    /\ \A k \in 1 .. Len(nal) : ~EndsStartCode(nal, k)

-----------------------------------------------------------------------------
\* bitStreamStartsWithH264Prefix, at the beginning of a file.
Prefix(stream) ==
    LET n     == Len(stream)
        three == n >= 3 /\ SubSeq(stream, 1, 3) = <<0, 0, 1>>
        four  == n >= 4 /\ SubSeq(stream, 1, 4) = <<0, 0, 0, 1>>
    IN  CASE n > 3 /\ (three \/ four) -> "nil"
          [] n = 0 \/ (n = 3 /\ three) -> "eof"
          [] OTHER -> "error"

\* processByte: a 1 after two zeros or more ends a start code, which has three
\* zeros if there are that many.  Mutant: always two.
Codes(stream) ==
    FlattenSeq([k \in 1 .. Len(stream) |-> IF EndsStartCode(stream, k) THEN <<k>> ELSE <<>>])

TwoZeros(stream, k) == 2
Zeros(stream, k) == IF k > 3 /\ stream[k - 3] = 0 THEN 3 ELSE 2

\* The units between the start codes; the last one ends with the file.
Cut(stream) ==
    LET codes == Codes(stream)
        ends  == [k \in 1 .. Len(codes) |->
                    IF k = Len(codes) THEN Len(stream)
                    ELSE codes[k + 1] - 1 - Zeros(stream, codes[k + 1])]
    IN  [k \in 1 .. Len(codes) |-> SubSeq(stream, codes[k] + 1, ends[k])]

\* A file as the reader finds it.
Opened(stream) ==
    LET err == Prefix(stream) IN [err |-> err, nals |-> IF err = "nil" THEN Cut(stream) ELSE <<>>]

\* Mutant: an SEI unit is returned as any other.
SkipNone(nal) == FALSE
Skip(nal) == UnitType(nal) = SEI

\* NextNAL, with the reader at unit `at` of the file: the first unit there that
\* is not skipped, or the last one, whatever its type.
NextNAL(f, at) ==
    LET rest == at .. Len(f.nals)
        k    == CHOOSE i \in rest :
                    /\ i = Len(f.nals) \/ ~Skip(f.nals[i])
                    /\ \A j \in at .. i - 1 : Skip(f.nals[j])
    IN  CASE f.err # "nil" -> [err |-> f.err, nal |-> <<>>, at |-> at]
          [] f.err = "nil" /\ rest = {} -> [err |-> "eof", nal |-> <<>>, at |-> at]
          [] OTHER -> [err |-> "nil", nal |-> f.nals[k], at |-> k + 1]
=============================================================================
