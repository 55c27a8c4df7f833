------------------------------ MODULE CallSetup ------------------------------
(***************************************************************************)
(* From a profile file to the SDPs of a call: ParseCallProfile reads the   *)
(* file, main starts an agent for each concurrent call, which takes its    *)
(* account, password, port and called party out of the profile's slices,   *)
(* and MediaFunc edits what it is given and what it sends.                 *)
(***************************************************************************)
EXTENDS CallProfile, SdpEdit

CONSTANTS
    Files,     \* the profiles
    Offers     \* SDPs FreeSWITCH may offer a callee

ASSUME ProfileAssumption == Files \subseteq Profile

\* FreeSWITCH offers one section of audio, of video, or of each.
ASSUME OffersAssumption ==
    \A sdp \in Offers :
        /\ sdp \in Sdp
        /\ MediaLines(sdp) # {}
        /\ \A j, k \in MediaLines(sdp) : sdp[j][1] = sdp[k][1] => j = k

VARIABLES
    file,      \* the profile file
    cp,        \* what ParseCallProfile made of it
    step,      \* how far the program is
    ua,        \* agents started
    callKind,  \* MediaFunc's: "audio", "video" or ""
    remote,    \* the SDP given to SetRemoteDescription, <<>> before
    sent,      \* the SDP sent, <<>> before
    relay      \* history: the first candidate, if any was gathered

vars == <<file, cp, step, ua, callKind, remote, sent, relay>>

NoRelay == [ip |-> "", port |-> ""]
Relays == {NoRelay, [ip |-> "relay1", port |-> "50001"]}

Init ==
    /\ file \in Files
    /\ cp = <<>>
    /\ step = "profile"
    /\ ua = 0
    /\ callKind = "" /\ remote = <<>> /\ sent = <<>> /\ relay = NoRelay

\* log.Fatalf when the profile is refused.
ParseCallProfile ==
    /\ step = "profile"
    /\ IF Refused(file)
       THEN step' = "refused" /\ UNCHANGED cp
       ELSE step' = "agents" /\ cp' = Accepted(file)
    /\ UNCHANGED <<file, ua, callKind, remote, sent, relay>>

\* The slices that UA indexes by the number of the agent, counted from zero.
Slices == {cp.localports, cp.accounts, cp.passwords}
              \cup (IF cp.role = "uac" THEN {cp.calledparties} ELSE {})

\* go sip.UA(mainCtx, cp, n, ...): an index out of range is a panic.
StartAgent ==
    /\ step = "agents"
    /\ ua < cp.maxconcurrentcalls
    /\ IF \A slice \in Slices : ua + 1 \in DOMAIN slice
       THEN ua' = ua + 1 /\ UNCHANGED step
       ELSE step' = "panic" /\ UNCHANGED ua
    /\ UNCHANGED <<file, cp, callKind, remote, sent, relay>>

\* A call begins: a caller's MediaFunc knows its kind from the profile.
CallBegins ==
    /\ step = "agents"
    /\ ua = cp.maxconcurrentcalls
    /\ step' = IF cp.role = "uac" THEN "describe" ELSE "waitOffer"
    /\ callKind' = IF cp.role = "uac" THEN cp.mediatype ELSE callKind
    /\ UNCHANGED <<file, cp, ua, remote, sent, relay>>

\* pion's description of one medium: a placeholder address, and the candidates
\* gathered so far, of which a second may be worse (external).
Candidate(r) == <<"a=candidate", "1", "udp", "priority", r.ip, r.port, "typ relay">>
LocalDescription(kind, r) ==
    <<<<"v=0">>, <<IF kind = "video" THEN "m=video" ELSE "m=audio", "9", "RTP">>,
      <<"c=IN", "IP4", "0.0.0.0">>, <<"a=mid:0">>>>
        \o IF r = NoRelay THEN <<>>
           ELSE <<Candidate(r), Candidate([ip |-> "relay2", port |-> "50002"])>>

\* The gathering is complete or five seconds have passed: an offer or an
\* answer is sent.
SendDescription ==
    /\ step = "describe"
    /\ relay' \in Relays
    /\ LET newsdp == LocalDescription(callKind, relay')
       IN sent' = IF cp.iceurls THEN ForTurn(newsdp) ELSE newsdp
    /\ step' = IF cp.role = "uac" THEN "waitAnswer" ELSE "done"
    /\ UNCHANGED <<file, cp, ua, callKind, remote>>

GetOffer ==
    /\ step = "waitOffer"
    /\ \E offer \in Offers :
          /\ callKind' = KindOf(offer)
          /\ remote' = ForPion(offer)
    /\ step' = "describe"
    /\ UNCHANGED <<file, cp, ua, sent, relay>>

\* FreeSWITCH answers the medium it was offered, and may refuse another in
\* front of or behind it when that is video.
Answers == {sdp \in Offers : KindOf(sdp) = callKind}

GetAnswer ==
    /\ step = "waitAnswer"
    /\ \E answer \in Answers : remote' = ForPion(answer)
    /\ step' = "done"
    /\ UNCHANGED <<file, cp, ua, callKind, sent, relay>>

\* The program has given up, or the call goes on as in MediaSession.
Done ==
    /\ step \in {"refused", "panic", "done"}
    /\ UNCHANGED vars

Next ==
    \/ ParseCallProfile \/ StartAgent \/ CallBegins \/ SendDescription
    \/ GetOffer \/ GetAnswer \/ Done

Spec == Init /\ [][Next]_vars

-----------------------------------------------------------------------------
\* A profile that is accepted has everything for each agent that main starts,
\* at least one agent and no more than calls: whatever the patterns repeat or
\* leave out, no agent indexes past a slice (sip/ua.go:58, 75, 83, 115).
AgentsProvided ==
    /\ step # "panic"
    /\ step \notin {"profile", "refused"} =>
          /\ cp.maxconcurrentcalls > 0
          /\ cp.totalcalls > 0 => cp.maxconcurrentcalls <= cp.totalcalls

\* "there is only one media in a call" (README.md:152): pion gets a remote SDP
\* with the one medium the call is about, which the attributes put at its end
\* belong to.
OneMedium ==
    remote # <<>> =>
        \E k \in DOMAIN remote :
            /\ MediaLines(remote) = {k}
            /\ remote[k][1] = (IF callKind = "video" THEN "m=video" ELSE "m=audio")

\* With TURN, the address and the port that are sent are those of one and the
\* same candidate, when one was gathered in time.
NamesRelay ==
    sent # <<>> /\ cp.iceurls /\ relay # NoRelay =>
        \A k \in DOMAIN sent :
            /\ sent[k][1] = "c=IN" => sent[k][3] = relay.ip
            /\ sent[k][1] \in {"m=audio", "m=video"} => sent[k][2] = relay.port

SdpsFit == OneMedium /\ NamesRelay
=============================================================================
