------------------------------ MODULE MCSignIn ------------------------------
(***************************************************************************)
(* A small instance of SignIn: two requests at once on one account, a lock *)
(* of two ticks after two failures, and two recovery codes.                *)
(***************************************************************************)
EXTENDS SignIn

CONSTANTS r1, r2, c1, c2

TwoRequests == {r1, r2}

TwoCodes == {c1, c2}

=============================================================================
