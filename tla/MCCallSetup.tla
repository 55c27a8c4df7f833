---------------------------- MODULE MCCallSetup ----------------------------
(***************************************************************************)
(* CallSetup with the profiles that patterns of at most two names, with    *)
(* and without repetitions, and limits below, at and above them make.      *)
(***************************************************************************)
EXTENDS CallSetup

P(wellFormed, first, last, repeat, each) ==
    [wellFormed |-> wellFormed, first |-> first, last |-> last, repeat |-> repeat,
     each |-> each]
One   == <<P(TRUE, 1, 1, 1, FALSE)>>
Two   == <<P(TRUE, 1, 2, 1, FALSE)>>
Twice == <<P(TRUE, 3, 3, 1, FALSE), P(TRUE, 1, 1, 1, TRUE)>>
Never == <<P(TRUE, 1, 2, -1, TRUE)>>
Bad   == <<P(TRUE, 2, 1, 1, FALSE)>>
Empty == <<P(FALSE, 0, 0, 1, FALSE)>>

MCFiles ==
    [role : {"uac", "uas"}, knownWords : {TRUE}, mediatype : {"audio", "video"},
     iceurls : BOOLEAN, accounts : {One, Two, Never}, passwords : {One, Twice},
     calledparties : {One, Twice, Empty}, localports : {NoPorts, One, Two},
     maxconcurrentcalls : {0, 2}, totalcalls : {0, 1},
     mistyped : {{}, {"maxconcurrentcalls", "totalcalls"}}]
    \cup
    [role : {"uac", "both"}, knownWords : BOOLEAN, mediatype : {"audio", "text"},
     iceurls : {FALSE}, accounts : {Two, Bad}, passwords : {Two},
     calledparties : {Two}, localports : {NoPorts}, maxconcurrentcalls : {-1, 3},
     totalcalls : {-1, 3}, mistyped : {{}}]

Header == <<<<"v=0">>, <<"c=IN", "IP4", "freeswitch">>>>
Section(m, port) == <<<<m, port, "RTP">>, <<"a=rtpmap">>>>
Audio == Section("m=audio", "20000")
Video == Section("m=video", "20002")

MCOffers == {Header \o Audio, Header \o Video, Header \o Audio \o Video,
             Header \o Video \o Audio}
=============================================================================
