------------------------------- MODULE SdpEdit -------------------------------
(***************************************************************************)
(* What rtc/media.go does to session descriptions, with the helpers of     *)
(* rtc/util.go.  An SDP is a sequence of lines and a line a sequence of    *)
(* its items, the first of which tells the lines apart, as the prefixes    *)
(* that strings.Index is given do.                                         *)
(***************************************************************************)
EXTENDS Integers, Sequences, SequencesExt

Line == Seq(STRING) \ {<<>>}
Sdp == Seq(Line)

\* strings.Index: the first line with the prefix, 0 if there is none.
Index(sdp, prefix) == SelectInSeq(sdp, LAMBDA line : line[1] = prefix)
Has(sdp, prefix) == Index(sdp, prefix) # 0

getNthItemInALineOfSDP(sdp, prefix, n) ==
    IF Has(sdp, prefix) /\ n <= Len(sdp[Index(sdp, prefix)])
    THEN sdp[Index(sdp, prefix)][n]
    ELSE ""

replaceNthItemInALineOfSDP(sdp, prefix, n, new) ==
    IF Has(sdp, prefix) /\ n <= Len(sdp[Index(sdp, prefix)])
    THEN [sdp EXCEPT ![Index(sdp, prefix)][n] = new]
    ELSE sdp

\* The lines that begin a section.
MediaLines(sdp) == {k \in DOMAIN sdp : sdp[k][1] \in {"m=audio", "m=video"}}

-----------------------------------------------------------------------------
\* Mutant: the audio section is taken to be the first.
WithoutFirst(sdp) ==
    SubSeq(sdp, 1, Index(sdp, "m=audio") - 1)
        \o SubSeq(sdp, Index(sdp, "m=video"), Len(sdp))

\* Prefer video: the audio section is cut out, wherever it is.
WithoutAudio(sdp) ==
    LET audio == Index(sdp, "m=audio")
        video == Index(sdp, "m=video")
    IN IF audio < video
       THEN SubSeq(sdp, 1, audio - 1) \o SubSeq(sdp, video, Len(sdp))
       ELSE SubSeq(sdp, 1, audio - 1)

\* The remote SDP as it is given to pion.
ForPion(sdp) ==
    (IF Has(sdp, "m=video") /\ Has(sdp, "m=audio") THEN WithoutAudio(sdp) ELSE sdp)
        \o <<<<"a=sendrecv">>, <<"a=mid:0">>>>

\* What a callee sends: the kind of an offer.
KindOf(sdp) == CASE Has(sdp, "m=video") -> "video"
                 [] ~Has(sdp, "m=video") /\ Has(sdp, "m=audio") -> "audio"
                 [] OTHER -> ""

\* "only for TURN": the first candidate is named as the address to send to.
ForTurn(sdp) ==
    LET relayip   == getNthItemInALineOfSDP(sdp, "a=candidate", 5)
        relayport == getNthItemInALineOfSDP(sdp, "a=candidate", 6)
        addressed == replaceNthItemInALineOfSDP(sdp, "c=IN", 3, relayip)
        video     == replaceNthItemInALineOfSDP(addressed, "m=video", 2, relayport)
    IN replaceNthItemInALineOfSDP(video, "m=audio", 2, relayport)
=============================================================================
