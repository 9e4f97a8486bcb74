---------------------------- MODULE PolicyCache ----------------------------
(***************************************************************************)
(* The panel's access policy: a single row, read through the cache         *)
(* (apps/security/models.py), edited by the Security page                  *)
(* (apps/security/services.py, apis.py), enforced by the middleware on     *)
(* every request (middleware.py) and rendered into the gateway's           *)
(* configuration (apps/gateway/services.py).                               *)
(*                                                                         *)
(* Reading is three steps: ask the cache, on a miss read the row, and put  *)
(* it in the cache.  Editing is four: load, save the row, drop the cached  *)
(* copy, ask for a deploy.  Requests and deploys interleave step by step.  *)
(*                                                                         *)
(* Versions of the row, and what is said of copies in terms of them, are   *)
(* history: the code has none.  The traffic-protection policy is cached in *)
(* the same way.                                                           *)
(***************************************************************************)
EXTENDS Naturals, FiniteSets, Functions

CONSTANTS
  Requests,    \* requests to the panel that may run at once
  Deploy,      \* the deploy
  Addresses,   \* of clients
  Loopback,    \* the address of a client of the loopback listener
  Changes,     \* bound: the data of a PATCH of the policy
  Seed,        \* bound: the row at first
  None,
  MaxWrites    \* bound: how often the row is saved

Readers == Requests \cup {Deploy}

\* The columns that this module tells apart.
Policies == [published : BOOLEAN, allow : SUBSET Addresses, mtls : BOOLEAN, ca : BOOLEAN]

IsPolicyData(data) == \E row \in Policies :
  DOMAIN data \subseteq DOMAIN row /\ \A f \in DOMAIN data : row[f] = data[f]

ASSUME Assumptions ==
  /\ Deploy \notin Requests
  /\ Loopback \in Addresses
  /\ MaxWrites \in Nat
  /\ Seed \in Policies
  /\ Seed.mtls => Seed.ca
  /\ \A data \in Changes : data # None /\ IsPolicyData(data)

\* A copy of the row: which version it is, and whether it was cached after a newer
\* one had been saved and the cache cleared for it.
Copies == [version : 0 .. MaxWrites, row : Policies, late : BOOLEAN]

ASSUME NoneAssumption == None \notin Copies

VARIABLES
  row,        \* the row
  version,    \* how often it has been saved
  cache,      \* the cached copy, or None
  dropped,    \* the newest version after which the cache was cleared
  certified,  \* the panel's domain has a certificate
  active,     \* and is switched on
  crossed,    \* the last save found other values of mtls and ca than the change was
              \* checked with
  pc,         \* what each reader does next
  purpose,    \* what it loads the policy for
  got,        \* the copy it has loaded
  data,       \* what a PATCH is to change, from its check until it is saved
  mine,       \* the version a request has saved, or 0
  owed,       \* a deploy has been asked for and has not begun
  draft,      \* what the deploy has rendered
  live,       \* what Nginx runs for the panel's domain
  blind       \* the last deploy used a copy cached too late

domain   == <<certified, active>>
table    == <<row, version, crossed>>
requests == <<data, mine>>
gateway  == <<owed, draft, live, blind>>
vars     == <<table, cache, dropped, domain, pc, purpose, got, requests, gateway>>

-----------------------------------------------------------------------------

\* The panel's server block, and whether its domain has one like any other's if it
\* is switched on.
Panels == {p \in [allow : SUBSET Addresses, mtls : BOOLEAN, ca : BOOLEAN] : p.mtls => p.ca}

TypeOK ==
  /\ row \in Policies
  /\ version \in 0 .. MaxWrites /\ dropped \in 0 .. MaxWrites
  /\ cache \in Copies \cup {None}
  /\ certified \in BOOLEAN /\ active \in BOOLEAN /\ crossed \in BOOLEAN
  /\ pc \in [Readers -> {"free", "look", "read", "fill", "use", "save", "drop", "ask"}]
  /\ purpose \in [Readers -> {"admission", "edit", "panel", "servers"}]
  /\ got \in [Readers -> Copies \cup {None}]
  /\ \A p \in Requests : data[p] = None \/ IsPolicyData(data[p])
  /\ mine \in [Requests -> 0 .. MaxWrites]
  /\ owed \in BOOLEAN /\ blind \in BOOLEAN
  /\ live \in [panel : Panels \cup {None}, site : BOOLEAN]

\* The panel's server block under a policy.
PanelOf(policy) ==
  IF policy.published /\ certified /\ active
  THEN [allow |-> policy.allow, mtls |-> policy.mtls, ca |-> policy.ca]
  ELSE None

NoDraft == [panel |-> None, late |-> FALSE]

Init ==
  /\ row = Seed /\ version = 0 /\ crossed = FALSE
  /\ cache = None /\ dropped = 0
  /\ certified \in BOOLEAN /\ active \in BOOLEAN
  /\ pc = [p \in Readers |-> "free"]
  /\ purpose = [p \in Readers |-> IF p = Deploy THEN "panel" ELSE "admission"]
  /\ got = [p \in Readers |-> None]
  /\ data = [p \in Requests |-> None]
  /\ mine = [p \in Requests |-> 0]
  /\ owed = FALSE /\ draft = NoDraft /\ blind = FALSE
  /\ live = [panel |-> PanelOf(row), site |-> ~row.published]

-----------------------------------------------------------------------------
(* PanelAccessPolicy.load                                                  *)

Goto(p, from, to) == pc[p] = from /\ pc' = [pc EXCEPT ![p] = to]

\* cache.get, a hit.
Hit(p) ==
  /\ cache # None
  /\ Goto(p, "look", "use")
  /\ got' = [got EXCEPT ![p] = cache]
  /\ UNCHANGED <<table, cache, dropped, domain, purpose, requests, gateway>>

\* cache.get, a miss.
Miss(p) ==
  /\ cache = None
  /\ Goto(p, "look", "read")
  /\ UNCHANGED <<table, cache, dropped, domain, purpose, got, requests, gateway>>

\* get_or_create
ReadRow(p) ==
  /\ Goto(p, "read", "fill")
  /\ got' = [got EXCEPT ![p] = [version |-> version, row |-> row, late |-> FALSE]]
  /\ UNCHANGED <<table, cache, dropped, domain, purpose, requests, gateway>>

\* cache.set
Fill(p) ==
  /\ Goto(p, "fill", "use")
  /\ cache' = [got[p] EXCEPT !.late = got[p].version < dropped]
  /\ UNCHANGED <<table, dropped, domain, purpose, got, requests, gateway>>

LoadStep(p) == Hit(p) \/ Miss(p) \/ ReadRow(p) \/ Fill(p)

\* Mutant: the copy is cached for good.
NeverExpires == FALSE

\* It is cached for five minutes.
MayExpire == cache # None

Expire ==
  /\ MayExpire
  /\ cache' = None
  /\ UNCHANGED <<table, dropped, domain, pc, purpose, got, requests, gateway>>

-----------------------------------------------------------------------------
(* A request.                                                              *)

Ends(p) ==
  /\ pc' = [pc EXCEPT ![p] = "free"]
  /\ purpose' = [purpose EXCEPT ![p] = "admission"]
  /\ got' = [got EXCEPT ![p] = None]
  /\ data' = [data EXCEPT ![p] = None]
  /\ mine' = [mine EXCEPT ![p] = 0]

Arrive(p) ==
  /\ Goto(p, "free", "look")
  /\ UNCHANGED <<table, cache, dropped, domain, purpose, got, requests, gateway>>

\* ip_is_allowed
Allowed(policy, address) == policy.allow = {} \/ address \in policy.allow

\* IpAllowlistMiddleware lets a client's request on to its view.  That of a PATCH
\* loads the policy again.
AdmitRead(p) ==
  /\ pc[p] = "use" /\ purpose[p] = "admission"
  /\ \E a \in Addresses : Allowed(got[p].row, a)
  /\ Ends(p)
  /\ UNCHANGED <<table, cache, dropped, domain, gateway>>

AdmitPatch(p) ==
  /\ purpose[p] = "admission"
  /\ Goto(p, "use", "look")
  /\ \E a \in Addresses : Allowed(got[p].row, a)
  /\ purpose' = [purpose EXCEPT ![p] = "edit"]
  /\ got' = [got EXCEPT ![p] = None]
  /\ UNCHANGED <<table, cache, dropped, domain, requests, gateway>>

Refuse(p) ==
  /\ pc[p] = "use" /\ purpose[p] = "admission"
  /\ \E a \in Addresses : ~Allowed(got[p].row, a)
  /\ Ends(p)
  /\ UNCHANGED <<table, cache, dropped, domain, gateway>>

\* Mutant: only what the request gives is checked.
GivenAlone(policy, change) ==
  /\ "published" \in DOMAIN change /\ change.published => certified
  /\ "mtls" \in DOMAIN change /\ change.mtls /\ "ca" \in DOMAIN change => change.ca

\* A policy with a change over it.
Overlay(policy, change) ==
  [f \in DOMAIN policy |-> IF f \in DOMAIN change THEN change[f] ELSE policy[f]]

\* policy_update: the policy that was loaded, with the change over it, is published
\* only with a certificate, and asks for clients' certificates only with their CA.
MayChange(policy, change) ==
  LET merged == Overlay(policy, change)
  IN  /\ merged.published => certified
      /\ merged.mtls => merged.ca

\* What model_update saves: what the change makes different from the loaded policy.
Differs(policy, change) == {f \in DOMAIN change : change[f] # policy[f]}

\* Mutant: the cached copy is dropped before the row is saved.
DropFirst == [use |-> "drop", drop |-> "save", save |-> "ask", ask |-> "free"]

\* Mutant: the deploy is asked for before the cached copy is dropped.
AskFirst == [use |-> "save", save |-> "ask", ask |-> "drop", drop |-> "free"]

\* What follows what in a PATCH that changes the row.
After == [use |-> "save", save |-> "drop", drop |-> "ask", ask |-> "free"]

\* The view checks the change.  One that the loaded policy shows already is not saved.
Check(p) ==
  /\ pc[p] = "use" /\ purpose[p] = "edit"
  /\ \E change \in Changes :
       /\ MayChange(got[p].row, change)
       /\ LET differs == Differs(got[p].row, change)
          IN  /\ data' = [data EXCEPT ![p] = Restrict(change, differs)]
              /\ pc' = [pc EXCEPT ![p] = IF differs = {} THEN "ask" ELSE After.use]
  /\ UNCHANGED <<table, cache, dropped, domain, purpose, got, mine, gateway>>

\* SecurityError
Reject(p) ==
  /\ pc[p] = "use" /\ purpose[p] = "edit"
  /\ \E change \in Changes : ~MayChange(got[p].row, change)
  /\ Ends(p)
  /\ UNCHANGED <<table, cache, dropped, domain, gateway>>

SaveRow(p) ==
  /\ version < MaxWrites
  /\ Goto(p, "save", After.save)
  /\ row' = Overlay(row, data[p])
  /\ version' = version + 1
  /\ mine' = [mine EXCEPT ![p] = version']
  /\ crossed' = (got[p].row.mtls # row.mtls \/ got[p].row.ca # row.ca)
  /\ data' = [data EXCEPT ![p] = None]
  /\ got' = [got EXCEPT ![p] = None]
  /\ UNCHANGED <<cache, dropped, domain, purpose, gateway>>

\* cache.delete, in save.
DropCopy(p) ==
  /\ Goto(p, "drop", After.drop)
  /\ cache' = None
  /\ dropped' = IF mine[p] > dropped THEN mine[p] ELSE dropped
  /\ UNCHANGED <<table, domain, purpose, got, requests, gateway>>

\* request_config_deploy; the answer.
AskForDeploy(p) ==
  /\ pc[p] = "ask"
  /\ owed' = TRUE
  /\ IF After.ask = "free" THEN Ends(p)
     ELSE pc' = [pc EXCEPT ![p] = After.ask] /\ UNCHANGED <<purpose, got, requests>>
  /\ UNCHANGED <<table, cache, dropped, domain, draft, live, blind>>

RequestStep(p) ==
  \/ LoadStep(p)
  \/ AdmitRead(p) \/ AdmitPatch(p) \/ Refuse(p)
  \/ Check(p) \/ Reject(p) \/ SaveRow(p) \/ DropCopy(p) \/ AskForDeploy(p)

-----------------------------------------------------------------------------
(* The deploy, and the panel's domain.                                     *)

\* The certificate is issued, deleted or edited, and a deploy asked for.
CertificateChanges ==
  /\ certified' = ~certified
  /\ UNCHANGED active
  /\ owed' = TRUE
  /\ UNCHANGED <<table, cache, dropped, pc, purpose, got, requests, draft, live, blind>>

\* domain_update switches the domain on or off, and a deploy is asked for.
DomainSwitches ==
  /\ active' = ~active
  /\ UNCHANGED certified
  /\ owed' = TRUE
  /\ UNCHANGED <<table, cache, dropped, pc, purpose, got, requests, draft, live, blind>>

Begin ==
  /\ owed
  /\ Goto(Deploy, "free", "look")
  /\ owed' = FALSE
  /\ UNCHANGED <<table, cache, dropped, domain, purpose, got, requests, draft, live, blind>>

\* render_panel; render_servers loads the policy again.
RenderPanel ==
  /\ purpose[Deploy] = "panel"
  /\ Goto(Deploy, "use", "look")
  /\ purpose' = [purpose EXCEPT ![Deploy] = "servers"]
  /\ draft' = [panel |-> PanelOf(got[Deploy].row), late |-> got[Deploy].late]
  /\ got' = [got EXCEPT ![Deploy] = None]
  /\ UNCHANGED <<table, cache, dropped, domain, requests, owed, live, blind>>

\* Mutant: the configuration is not tested.
AcceptsAll(panel) == TRUE

\* nginx -t: clients' certificates are verified against a CA.
Accepts(panel) == panel # None => (panel.mtls => panel.ca)

\* render_servers leaves the panel's domain out if it is published; the rest of the
\* deploy puts both files in place if Nginx accepts them.
RenderServers ==
  /\ purpose[Deploy] = "servers"
  /\ Goto(Deploy, "use", "free")
  /\ purpose' = [purpose EXCEPT ![Deploy] = "panel"]
  /\ live' = IF Accepts(draft.panel)
             THEN [panel |-> draft.panel, site |-> ~got[Deploy].row.published]
             ELSE live
  /\ blind' = (draft.late \/ got[Deploy].late)
  /\ draft' = NoDraft
  /\ got' = [got EXCEPT ![Deploy] = None]
  /\ UNCHANGED <<table, cache, dropped, domain, requests, owed>>

DeployStep == Begin \/ LoadStep(Deploy) \/ RenderPanel \/ RenderServers

Next ==
  \/ \E p \in Requests : Arrive(p) \/ RequestStep(p)
  \/ Expire
  \/ CertificateChanges \/ DomainSwitches
  \/ DeployStep

Spec == Init /\ [][Next]_vars

\* A request that has begun goes on; the cached copy has a time-out.
FairSpec == Spec /\ WF_vars(Expire) /\ \A p \in Requests : WF_vars(RequestStep(p))

-----------------------------------------------------------------------------

\* A cached copy is older than the row only while a PATCH is between its save and its
\* clearing of the cache, or because a reader that had missed before put it there
\* afterwards.
StaleOnlyByRace ==
  cache # None /\ cache.version < version
    => \/ cache.late
       \/ \E p \in Requests : pc[p] = "drop" /\ mine[p] > cache.version

Quiet ==
  /\ pc[Deploy] = "free" /\ ~owed
  /\ \A p \in Requests : pc[p] \in {"drop", "ask"} => mine[p] = 0

\* When no deploy runs or is owed, Nginx serves the panel as its row and its domain's
\* have it, and the domain as any other exactly if the panel is not
\* published there; unless the deploy was given a copy cached too late, or the row is
\* one that Nginx refuses.
LiveIsCurrent ==
  Quiet /\ ~blind =>
    \/ live = [panel |-> PanelOf(row), site |-> ~row.published]
    \/ ~Accepts(PanelOf(row))

\* Clients' certificates are asked for without a CA to verify them only if another
\* change of one of the two came between the last PATCH's load and its save: a stale
\* copy that has both as the row does, or an earlier such PATCH, is no excuse.
MtlsHasCa == row.mtls /\ ~row.ca => crossed

\* A copy put back too late does not stay: once the policy is left alone, the cache
\* comes to hold the row or nothing.
CacheSettles == <>[](cache = None \/ cache.version = version)

\* A client of the loopback listener is not refused on account of its address; which
\* a change that leaves it out of allow breaks.  (DEPLOY.md: "That still works with a
\* broken allowlist".)
LoopbackIsServed ==
  \A p \in Requests :
    pc[p] = "use" /\ purpose[p] = "admission" => Allowed(got[p].row, Loopback)

=============================================================================
