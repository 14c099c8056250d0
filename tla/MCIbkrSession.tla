---------------------------- MODULE MCIbkrSession ----------------------------
(***************************************************************************)
(* Two workers for IbkrSession.                                            *)
(***************************************************************************)
EXTENDS IbkrSession

CONSTANTS w1, w2

Unlimited == -1
Recoverable == FaultKinds \ {"refused"}
=============================================================================
