---------------------------- MODULE AtomicDeploy ----------------------------
(***************************************************************************)
(* What a deploy promises (apps/gateway/services.py, its first lines): it  *)
(* replaces the whole configuration, or it leaves the configuration as it  *)
(* was and is recorded as failed.  ConfigDeploy, which works file by file, *)
(* implements it.                                                          *)
(***************************************************************************)
CONSTANTS
  Deploys,  \* the deploys
  Files,    \* the managed files
  Before    \* the content of a file that no deploy has written

VARIABLES
  site,     \* the configuration a restart of Nginx would load, file by file
  served,   \* the configuration Nginx runs
  outcome   \* what is known of each deploy

vars == <<site, served, outcome>>

\* The configuration that d renders.
Whole(d) == [f \in Files |-> d]

Init ==
  /\ site = Whole(Before)
  /\ served = Whole(Before)
  /\ outcome = [d \in Deploys |-> "open"]

\* The deploy replaces every file, and Nginx runs the result.
Deploy(d) ==
  /\ outcome[d] = "open"
  /\ outcome' = [outcome EXCEPT ![d] = "deployed"]
  /\ site' = Whole(d)
  /\ served' = Whole(d)

\* The deploy fails and leaves the site as it was.
Refuse(d) ==
  /\ outcome[d] = "open"
  /\ outcome' = [outcome EXCEPT ![d] = "failed"]
  /\ UNCHANGED <<site, served>>

\* A reload that is reported to have failed has taken effect all the same.
Slip(d) ==
  /\ outcome[d] = "open"
  /\ served' = Whole(d)
  /\ UNCHANGED <<site, outcome>>

\* Nginx loads the site again: the reload after a rollback, or a restart.
LoadSite == served' = site /\ UNCHANGED <<site, outcome>>

Next ==
  \/ \E d \in Deploys : Deploy(d) \/ Refuse(d) \/ Slip(d)
  \/ LoadSite

Spec == Init /\ [][Next]_vars
=============================================================================
