--------------------------- MODULE SerialDeploys ---------------------------
(***************************************************************************)
(* What the deploy queue promises those who save edits (apps/gateway/      *)
(* tasks.py): deploys come one after the other, each begins by reading     *)
(* what is saved, and the site is always what one of them has read.        *)
(* DeployQueue, with its cache keys, retries and faults, implements it;    *)
(* the flag owed of the other modules rests on it.                         *)
(***************************************************************************)
CONSTANT Edits

VARIABLES
  saved,  \* the edits committed to the database
  busy,   \* a deploy is under way
  draft,  \* the edits it will put live
  live    \* the edits on the site

vars == <<saved, busy, draft, live>>

Init == saved = {} /\ busy = FALSE /\ draft = {} /\ live = {}

Save(e) == saved' = saved \cup {e} /\ UNCHANGED <<busy, draft, live>>

\* A deploy begins, and will put live whatever is saved.
Begin ==
  /\ ~busy
  /\ busy' = TRUE /\ draft' = saved
  /\ UNCHANGED <<saved, live>>

\* The render also reads some of what is saved under it.
ReadMore ==
  /\ busy
  /\ \E late \in SUBSET saved : draft' = draft \cup late
  /\ UNCHANGED <<saved, busy, live>>

End == busy /\ busy' = FALSE /\ draft' = {} /\ UNCHANGED saved

Succeed == End /\ live' = draft

\* It fails, or its worker dies.
Abandon == End /\ live' = live

Next == (\E e \in Edits : Save(e)) \/ Begin \/ ReadMore \/ Succeed \/ Abandon

Spec == Init /\ [][Next]_vars
=============================================================================
