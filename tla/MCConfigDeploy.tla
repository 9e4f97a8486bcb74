--------------------------- MODULE MCConfigDeploy ---------------------------
(***************************************************************************)
(* Instances of ConfigDeploy for TLC: three files, and two or three        *)
(* deploys, one of which renders a configuration Nginx refuses.            *)
(***************************************************************************)
EXTENDS ConfigDeploy

CONSTANTS good1, good2, bad

ThreeDeploys == {good1, good2, bad}
TwoDeploys   == {good1, bad}

\* Nginx refuses every file of the bad deploy and every torn one.  It also
\* refuses the first good deploy's last file with older maps before it, but not
\* every mixture of two configurations is caught.
MCAccepted ==
  {c \in Configs : /\ \A f \in Files : c[f] \notin {bad, Torn}
                   /\ c[NFiles] = good1 => c[1] # Before}
=============================================================================
