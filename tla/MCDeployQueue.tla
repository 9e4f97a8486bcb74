--------------------------- MODULE MCDeployQueue ---------------------------
(***************************************************************************)
(* Instances of DeployQueue for TLC.  With users: two requests made by     *)
(* users and one by a periodic task, which carries no user; or none that   *)
(* carries a user.                                                         *)
(***************************************************************************)
EXTENDS DeployQueue, TLC

CONSTANTS r1, r2, r3, alice, bob

MCUsers       == {alice, bob}
ThreeRequests == {r1, r2, r3}
TwoAuthors    == (r1 :> alice) @@ (r2 :> bob) @@ (r3 :> NoUser)
NoAuthor3     == [r \in ThreeRequests |-> NoUser]
=============================================================================
