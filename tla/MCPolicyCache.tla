-------------------------- MODULE MCPolicyCache --------------------------
(***************************************************************************)
(* A small instance of PolicyCache: one request, a deploy, and the two     *)
(* addresses that matter, one of which is the loopback listener's.         *)
(***************************************************************************)
EXTENDS PolicyCache

CONSTANTS p1, office

OneRequest == {p1}

TwoAddresses == {Loopback, office}

WithCa == [published |-> FALSE, allow |-> {Loopback}, mtls |-> FALSE, ca |-> TRUE]

Edits == {[published |-> TRUE], [mtls |-> TRUE], [ca |-> FALSE]}

=============================================================================
