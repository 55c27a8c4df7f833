----------------------------- MODULE CallProfile -----------------------------
(***************************************************************************)
(* profile/profile.go: what ParseCallProfile makes of a profile file.      *)
(*                                                                         *)
(* A range pattern is a sequence of parts "prefix[first-last]suffix" with  *)
(* an optional {repeat} or {@repeat}.  Names are told apart by their       *)
(* number only; a part that the parser's checks of brackets, numbers and   *)
(* lengths refuse is one that is not wellFormed.  An absent or empty       *)
(* pattern has one empty part, which is refused as well.                   *)
(***************************************************************************)
EXTENDS Integers, Sequences, SequencesExt

Part == [wellFormed : BOOLEAN, first : Nat, last : Nat, repeat : Int, each : BOOLEAN]
Pattern == Seq(Part)

\* localports may be "" or "0".
NoPorts == <<>>

\* A profile file, with the fields that have a value of another type.
Profile ==
    [role : STRING, knownWords : BOOLEAN, mediatype : STRING, iceurls : BOOLEAN,
     accounts : Pattern, passwords : Pattern, calledparties : Pattern, localports : Pattern,
     maxconcurrentcalls : Int, totalcalls : Int,
     mistyped : SUBSET {"maxconcurrentcalls", "totalcalls"}]

\* The numeric fields that json.Unmarshal leaves zero when the file has a
\* value of another type there; its error is not looked at.
Number(file, field) == IF field \in file.mistyped THEN 0 ELSE file[field]

-----------------------------------------------------------------------------
(***************************************************************************)
(* parseRangePattern.                                                      *)
(***************************************************************************)

IsError(rp) == \E k \in DOMAIN rp : ~rp[k].wellFormed \/ rp[k].last < rp[k].first

\* [first-last]{repeat} runs through the range repeat times, with {@repeat}
\* each name is repeated; repeat may be zero or negative.
Names(part) ==
    LET times == IF part.repeat < 0 THEN 0 ELSE part.repeat
        count == part.last - part.first + 1
    IN [k \in 1 .. count * times |->
            part.first + IF part.each THEN (k - 1) \div times ELSE (k - 1) % count]

parseRangePattern(rp) == FlattenSeq([k \in 1 .. Len(rp) |-> Names(rp[k])])

-----------------------------------------------------------------------------
(***************************************************************************)
(* ParseCallProfile.                                                       *)
(***************************************************************************)

\* "" and "0" stand for "0{n}", n the number of accounts.
LocalPorts(file) ==
    IF file.localports = NoPorts
    THEN <<[wellFormed |-> TRUE, first |-> 0, last |-> 0, each |-> FALSE,
            repeat |-> Len(parseRangePattern(file.accounts))]>>
    ELSE file.localports

PatternError(file) ==
    \/ IsError(file.accounts) \/ IsError(file.passwords) \/ IsError(LocalPorts(file))
    \/ file.role = "uac" /\ IsError(file.calledparties)

\* What the slices hold; a callee's called parties are not parsed.
Parsed(file) ==
    [role |-> file.role, mediatype |-> file.mediatype, iceurls |-> file.iceurls,
     accounts |-> parseRangePattern(file.accounts),
     passwords |-> parseRangePattern(file.passwords),
     calledparties |-> IF file.role = "uac" THEN parseRangePattern(file.calledparties)
                                            ELSE <<>>,
     localports |-> parseRangePattern(LocalPorts(file)),
     maxconcurrentcalls |-> Number(file, "maxconcurrentcalls"),
     totalcalls |-> Number(file, "totalcalls")]

\* Mutant: called parties are compared for callees only.
SomethingMissingForCaller(cp) ==
    LET n == Len(cp.accounts) IN
    \/ n = 0 \/ n > Len(cp.passwords) \/ n > Len(cp.localports)
    \/ cp.role # "uac" /\ n > Len(cp.calledparties)

\* Longer than the accounts is accepted.
SomethingMissing(cp) ==
    LET n == Len(cp.accounts) IN
    \/ n = 0 \/ n > Len(cp.passwords) \/ n > Len(cp.localports)
    \/ cp.role = "uac" /\ n > Len(cp.calledparties)

\* As many agents as accounts when nothing is said.
Wanted(cp) ==
    IF cp.maxconcurrentcalls <= 0 THEN Len(cp.accounts) ELSE cp.maxconcurrentcalls

\* logtype, transport and role are words of the documented sets, and so is a
\* caller's mediatype.
UnknownWord(file) ==
    \/ ~file.knownWords
    \/ file.role \notin {"uac", "uas"}
    \/ file.role = "uac" /\ file.mediatype \notin {"audio", "video"}

Refused(file) ==
    \/ PatternError(file)
    \/ LET cp == Parsed(file) IN SomethingMissing(cp) \/ Wanted(cp) > Len(cp.accounts)
    \/ UnknownWord(file)

\* No more agents than calls.
Accepted(file) ==
    LET cp == Parsed(file) IN
    [cp EXCEPT !.maxconcurrentcalls =
        IF cp.totalcalls > 0 /\ cp.totalcalls < Wanted(cp) THEN cp.totalcalls
                                                           ELSE Wanted(cp)]
=============================================================================
