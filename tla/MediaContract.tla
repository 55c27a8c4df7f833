---------------------------- MODULE MediaContract ----------------------------
(***************************************************************************)
(* What one user agent's media goroutines (rtc.MediaFunc, one per call)    *)
(* and the agent's event loop promise each other, as far as the context    *)
(* and the three channels between them tell.                               *)
(*                                                                         *)
(* MediaSession, the detailed model of one MediaFunc, is shown to implement *)
(* it, and so is UserAgent, where MediaFunc is a process of few steps.     *)
(***************************************************************************)
VARIABLES
    role,        \* cp.Role, never changed
    at,          \* where MediaFunc is, "none" when none runs
    cancelled,   \* is its context done?
    sdpIn,       \* is there an SDP in sdpToMediaChan?
    sdpOut,      \* is there an SDP in sdpFromMediaChan?
    end          \* is there an end message in mediaFuncEndChan?

contractVars == <<role, at, cancelled, sdpIn, sdpOut, end>>

ContractInit ==
    /\ role \in {"uac", "uas"}
    /\ at = "none"
    /\ cancelled \in BOOLEAN
    /\ sdpIn \in BOOLEAN
    /\ sdpOut \in BOOLEAN
    /\ end = FALSE

\* The loop starts MediaFunc only when the end of an earlier one was taken.
Start ==
    /\ at = "none"
    /\ ~end
    /\ at' = IF role = "uac" THEN "gather" ELSE "waitOffer"
    /\ cancelled' \in BOOLEAN
    /\ UNCHANGED <<role, sdpIn, sdpOut, end>>

GetsSdp ==
    /\ at \in {"waitOffer", "waitAnswer"}
    /\ sdpIn
    /\ sdpIn' = FALSE
    /\ at' = IF role = "uac" THEN "run" ELSE "gather"
    /\ UNCHANGED <<role, cancelled, sdpOut, end>>

Gathered ==
    /\ at = "gather"
    /\ at' = "sendSdp"
    /\ UNCHANGED <<role, cancelled, sdpIn, sdpOut, end>>

\* One SDP per call, and never over one that was not taken.
SendsSdp ==
    /\ at = "sendSdp"
    /\ ~sdpOut
    /\ sdpOut' = TRUE
    /\ at' = IF role = "uac" THEN "waitAnswer" ELSE "run"
    /\ UNCHANGED <<role, cancelled, sdpIn, end>>

\* MediaFunc returns: it was cancelled, or something failed after the offer.
Returns ==
    /\ at \in {"waitOffer", "gather", "waitAnswer", "run"}
    /\ at = "waitOffer" => cancelled
    /\ at' = "exit"
    /\ UNCHANGED <<role, cancelled, sdpIn, sdpOut, end>>

\* Exactly one end message per call.
Exits ==
    /\ at = "exit"
    /\ ~end
    /\ end' = TRUE
    /\ at' = "none"
    /\ UNCHANGED <<role, cancelled, sdpIn, sdpOut>>

\* An answer that is not fit is consumed.
RejectsSdp ==
    /\ at = "waitAnswer"
    /\ sdpIn
    /\ sdpIn' = FALSE
    /\ at' = "exit"
    /\ UNCHANGED <<role, cancelled, sdpOut, end>>

Cancelled ==
    /\ cancelled' = TRUE
    /\ UNCHANGED <<role, at, sdpIn, sdpOut, end>>

PutSdp ==
    /\ ~sdpIn
    /\ sdpIn' = TRUE
    /\ UNCHANGED <<role, at, cancelled, sdpOut, end>>

TakeSdp ==
    /\ sdpOut
    /\ sdpOut' = FALSE
    /\ UNCHANGED <<role, at, cancelled, sdpIn, end>>

\* The loop takes the end message, and may clear sdpToMediaChan then.
TakeEnd ==
    /\ end
    /\ end' = FALSE
    /\ sdpIn' \in {sdpIn, FALSE}
    /\ UNCHANGED <<role, at, cancelled, sdpOut>>

ContractNext ==
    \/ Start \/ GetsSdp \/ Gathered \/ SendsSdp \/ Returns \/ Exits \/ RejectsSdp
    \/ Cancelled \/ PutSdp \/ TakeSdp \/ TakeEnd

ContractSpec == ContractInit /\ [][ContractNext]_contractVars
=============================================================================
