----------------------------- MODULE MCUserAgent -----------------------------
(***************************************************************************)
(* UserAgent in the environments it is checked in.                         *)
(***************************************************************************)
EXTENDS UserAgent

\* Nothing fails, ends do not race, and nobody calls.
Calm ==
    [HasDuration |-> TRUE, AuthChallenge |-> Role = "uac", StartMayFail |-> FALSE,
     InviteMayFail |-> FALSE, MediaMayFail |-> FALSE, Cancels |-> FALSE,
     RacingEnds |-> FALSE, invites |-> 0]

UacRacing == {[Calm EXCEPT !.RacingEnds = TRUE]}
UacEnvs ==
    UacRacing \cup
    {[Calm EXCEPT !.StartMayFail = TRUE, !.InviteMayFail = TRUE, !.Cancels = TRUE,
                  !.invites = 1],
     [Calm EXCEPT !.HasDuration = FALSE, !.AuthChallenge = FALSE, !.MediaMayFail = TRUE]}

UasEnvs ==
    {[Calm EXCEPT !.invites = 3],
     [Calm EXCEPT !.RacingEnds = TRUE, !.StartMayFail = TRUE, !.MediaMayFail = TRUE,
                  !.invites = 2]}
UasCancelled ==
    {[Calm EXCEPT !.HasDuration = FALSE, !.RacingEnds = TRUE, !.Cancels = TRUE,
                  !.invites = 2]}
=============================================================================
