--------------------------- MODULE RoutingProofs ---------------------------
(***************************************************************************)
(* Theorems about Routing, for any domains, backends, rules, header routes *)
(* and requests, and any data of theirs: the types and the references      *)
(* between rows; what the endpoints keep of a rule; and that the deploys   *)
(* catch up with the edits that were saved between their queries.          *)
(***************************************************************************)
EXTENDS Routing, TLAPS

-----------------------------------------------------------------------------
(* The rows.                                                               *)

\* What is saved of a row and a PATCH's data is a row.
LEMMA SavedIsARow ==
  ASSUME NEW now \in RuleRows, NEW read \in RuleRows, NEW data \in Patches
  PROVE  Saved(now, read, data) \in RuleRows
<1>1. PICK row \in RuleRows :
        DOMAIN data \subseteq DOMAIN row /\ \A f \in DOMAIN data : row[f] = data[f]
  BY BoundsAssumption DEF IsRuleData
<1>2. DOMAIN now = {"domain", "backend", "active", "cached", "bypass", "allow", "keys"}
  BY DEF RuleRows
<1>3. Saved(now, read, data)["keys"] \in SUBSET (Headers \cup {AcceptEncoding})
  BY <1>1, <1>2 DEF Saved, Given, Normalised, RuleRows
<1>4. \A f \in DOMAIN now \ {"keys"} : Saved(now, read, data)[f] \in {row[f], now[f]}
  BY <1>1 DEF Saved, Given
<1> QED
  BY <1>2, <1>3, <1>4 DEF Saved, RuleRows

\* Rows stay rows.
LEMMA RowEdits ==
  /\ \A row \in RuleRows, header \in Headers, read \in RuleRows :
       [row EXCEPT !.keys = Keyed(read, header)] \in RuleRows
  /\ \A row \in RuleRows : Created(row) \in RuleRows
BY DEF RuleRows, Keyed, Normalised, Created

\* A deletion and its cascade leave rows that were there before, whose rules are still
\* there and which the deletion does not name.
LEMMA CascadeLeavesRows ==
  ASSUME TypeOK, NEW goneRules, NEW goneRoutes, Cascade(goneRules, goneRoutes)
  PROVE  /\ rule' \in [Rules -> RuleRows \cup {None}]
         /\ route' \in [Routes -> RouteRows \cup {None}]
         /\ crossed' \subseteq Rules /\ rekeyed' \subseteq Rules
         /\ \A r \in Rules : rule'[r] # None =>
              /\ r \notin goneRules /\ rule'[r] = rule[r]
         /\ \A h \in Routes : route'[h] # None =>
              /\ h \notin goneRoutes /\ route'[h] = route[h]
              /\ rule'[route[h].rule] # None
<1>1. /\ rule' = [r \in Rules |-> IF r \in goneRules THEN None ELSE rule[r]]
      /\ route' = [h \in Routes |-> IF h \in Lost(goneRules, goneRoutes) THEN None ELSE route[h]]
      /\ crossed' \subseteq crossed /\ rekeyed' \subseteq rekeyed
  BY DEF Cascade
<1>2. rule' \in [Rules -> RuleRows \cup {None}]
  BY <1>1 DEF TypeOK
<1>3. route' \in [Routes -> RouteRows \cup {None}]
  BY <1>1 DEF TypeOK
<1>4. \A r \in Rules : rule'[r] # None => r \notin goneRules /\ rule'[r] = rule[r]
  BY <1>1
<1>5. ASSUME NEW h \in Routes, route'[h] # None
      PROVE  h \notin goneRoutes /\ route'[h] = route[h] /\ rule'[route[h].rule] # None
  <2>1. h \notin goneRoutes /\ route'[h] = route[h] /\ route[h].rule \notin goneRules
    BY <1>1, <1>5 DEF Lost
  <2>2. route[h].rule \in Rules /\ rule[route[h].rule] # None
    BY <1>5, <2>1 DEF TypeOK, RouteRows
  <2> QED
    BY <1>1, <2>1, <2>2
<1> QED
  BY <1>1, <1>2, <1>3, <1>4, <1>5 DEF TypeOK

\* Every variable keeps its type, and every row the rows it refers to: a rule its
\* domain and its backend, a header route its rule and its backend.
THEOREM TypeCorrect == Spec => []TypeOK
<1> USE IdentitiesAssumption, BoundsAssumption
<1>1. Init => TypeOK
  <2> SUFFICES ASSUME Init PROVE TypeOK
    OBVIOUS
  <2>1. PICK s \in Seed : /\ domain = s.domain /\ backend = s.backend
                          /\ instances = s.instances /\ rule = s.rule /\ route = s.route
    BY DEF Init
  <2>2. /\ domain \in [Domains -> Existing \cup {"none"}]
        /\ backend \in [Backends -> Existing \cup {"none"}]
        /\ instances \in [Backends -> SUBSET Instances]
        /\ rule \in [Rules -> RuleRows \cup {None}]
        /\ route \in [Routes -> RouteRows \cup {None}]
    BY <2>1
  <2>3. /\ \A r \in Rules : rule[r] # None =>
             domain[rule[r].domain] # "none" /\ backend[rule[r].backend] # "none"
        /\ \A h \in Routes : route[h] # None =>
             rule[route[h].rule] # None /\ backend[route[h].backend] # "none"
    BY <2>1, SeedAssumption
  <2>4. copy \in [Operators -> {None} \cup [rule : Rules, row : RuleRows]] /\ owed \in BOOLEAN
    BY DEF Init
  <2>5. tables = {} /\ asking = {} /\ crossed = {} /\ rekeyed = {} /\ edits = 0 /\ stage = "idle"
    BY DEF Init
  <2> QED
    BY <2>2, <2>3, <2>4, <2>5 DEF TypeOK
<1>2. TypeOK /\ [Next]_vars => TypeOK'
  <2> SUFFICES ASSUME TypeOK, [Next]_vars PROVE TypeOK'
    OBVIOUS
  <2> USE DEF TypeOK, topology, rows, requests, deploy
  <2>0. ASSUME NEW o \in Operators, Saves(o)
        PROVE  asking' \subseteq Operators /\ edits' \in 0 .. MaxEdits
    BY <2>0 DEF Saves
  <2>1. ASSUME NEW o \in Operators, AskForDeploy(o) PROVE TypeOK'
    BY <2>1 DEF AskForDeploy
  <2>2. ASSUME NEW o \in Operators, NEW d \in Domains, CreateDomain(o, d) \/ UpdateDomain(o, d)
        PROVE  TypeOK'
    BY <2>0, <2>2 DEF CreateDomain, UpdateDomain, Existing, RuleRows
  <2>3. ASSUME NEW o \in Operators, NEW d \in Domains, DeleteDomain(o, d) PROVE TypeOK'
    <3>1. /\ \A r \in Rules : rule'[r] # None =>
               rule'[r] = rule[r] /\ rule[r].domain # d /\ rule[r].domain \in Domains
          /\ rule' \in [Rules -> RuleRows \cup {None}]
          /\ route' \in [Routes -> RouteRows \cup {None}]
          /\ \A h \in Routes : route'[h] # None =>
               route'[h] = route[h] /\ rule'[route[h].rule] # None
      BY <2>3, CascadeLeavesRows DEF DeleteDomain, RuleRows
    <3>2. /\ domain' = [domain EXCEPT ![d] = "none"] /\ Saves(o)
          /\ crossed' \subseteq Rules /\ rekeyed' \subseteq Rules
          /\ UNCHANGED <<backend, instances, tables, copy, deploy>>
      BY <2>3, CascadeLeavesRows DEF DeleteDomain
    <3> QED
      BY <2>0, <3>1, <3>2
  <2>4. ASSUME NEW o \in Operators, NEW b \in Backends, CreateBackend(o, b) \/ UpdateBackend(o, b)
        PROVE  TypeOK'
    BY <2>0, <2>4 DEF CreateBackend, UpdateBackend, Existing, RuleRows, RouteRows
  <2>5. ASSUME NEW o \in Operators, NEW b \in Backends, DeleteBackend(o, b) PROVE TypeOK'
    <3>1. /\ \A r \in Rules : rule'[r] # None =>
               rule'[r] = rule[r] /\ rule[r].backend # b /\ rule[r].backend \in Backends
          /\ rule' \in [Rules -> RuleRows \cup {None}]
          /\ route' \in [Routes -> RouteRows \cup {None}]
          /\ \A h \in Routes : route'[h] # None =>
               /\ route'[h] = route[h] /\ rule'[route[h].rule] # None
               /\ route[h].backend # b /\ route[h].backend \in Backends
      BY <2>5, CascadeLeavesRows DEF DeleteBackend, RuleRows, RouteRows
    <3>2. /\ backend' = [backend EXCEPT ![b] = "none"]
          /\ instances' = [instances EXCEPT ![b] = {}] /\ Saves(o)
          /\ crossed' \subseteq Rules /\ rekeyed' \subseteq Rules
          /\ UNCHANGED <<domain, tables, copy, deploy>>
      BY <2>5, CascadeLeavesRows DEF DeleteBackend
    <3> QED
      BY <2>0, <3>1, <3>2
  <2>6. ASSUME NEW o \in Operators, InstanceViews(o) PROVE TypeOK'
    BY <2>0, <2>6 DEF InstanceViews, StartInstance, StopInstance
  <2>7. ASSUME NEW o \in Operators, NEW r \in Rules, NEW row \in NewRules, CreateRule(o, r, row)
        PROVE  TypeOK'
    BY <2>0, <2>7, RowEdits DEF CreateRule, Created, RuleRows
  <2>8. ASSUME NEW o \in Operators, NEW r \in Rules, ReadRule(o, r) PROVE TypeOK'
    BY <2>8 DEF ReadRule
  <2>9. ASSUME NEW o \in Operators, NEW data \in Patches, PatchRule(o, data) PROVE TypeOK'
    <3> DEFINE r    == copy[o].rule
               new  == Saved(rule[r], copy[o].row, data)
    <3>1. r \in Rules /\ rule[r] \in RuleRows /\ copy[o].row \in RuleRows
      BY <2>9 DEF PatchRule
    <3>2. new \in RuleRows
      BY <3>1, SavedIsARow
    <3>3. /\ rule' = [rule EXCEPT ![r] = new]
          /\ domain[new.domain] # "none" /\ backend[new.backend] # "none"
      BY <2>9 DEF PatchRule
    <3>4. crossed' \subseteq Rules /\ rekeyed' \subseteq Rules
      BY <2>9, <3>1 DEF PatchRule
    <3> HIDE DEF r, new
    <3>5. /\ Saves(o) /\ copy' = [copy EXCEPT ![o] = None]
          /\ UNCHANGED <<topology, route, tables, deploy>>
      BY <2>9 DEF PatchRule
    <3>6. /\ rule' \in [Rules -> RuleRows \cup {None}]
          /\ \A q \in Rules : rule'[q] # None =>
               domain[rule'[q].domain] # "none" /\ backend[rule'[q].backend] # "none"
          /\ \A q \in Rules : rule[q] # None => rule'[q] # None
      BY <3>1, <3>2, <3>3 DEF RuleRows
    <3>7. \A h \in Routes : route[h] # None => route[h].rule \in Rules
      BY DEF RouteRows
    <3> QED
      BY <2>0, <3>4, <3>5, <3>6, <3>7
  <2>10. ASSUME NEW o \in Operators, DeleteRule(o) PROVE TypeOK'
    BY <2>0, <2>10, CascadeLeavesRows DEF DeleteRule
  <2>11. ASSUME NEW o \in Operators, EndUnsaved(o) PROVE TypeOK'
    BY <2>11 DEF EndUnsaved
  <2>12. ASSUME NEW o \in Operators, NEW h \in Routes, NEW row \in RouteRows, CreateRoute(o, h, row)
         PROVE  TypeOK'
    <3>1. /\ row.rule \in Rules /\ rule[row.rule] \in RuleRows
          /\ copy[o].row \in RuleRows /\ row.header \in Headers
      BY <2>12 DEF CreateRoute, RouteRows
    <3> DEFINE keys == Keyed(copy[o].row, row.header)
    <3>2. /\ keys \in SUBSET (Headers \cup {AcceptEncoding})
          /\ rule' \in {rule, [rule EXCEPT ![row.rule].keys = keys]}
      BY <2>12, <3>1 DEF CreateRoute, Keyed, Normalised, RuleRows
    <3> HIDE DEF keys
    <3>3. /\ rule' \in [Rules -> RuleRows \cup {None}]
          /\ \A r \in Rules : rule[r] # None =>
               /\ rule'[r] # None
               /\ rule'[r].domain = rule[r].domain /\ rule'[r].backend = rule[r].backend
      BY <3>1, <3>2 DEF RuleRows
    <3> QED
      BY <2>0, <2>12, <3>1, <3>3 DEF CreateRoute, RouteRows
  <2>13. ASSUME NEW o \in Operators, NEW h \in Routes, NEW row \in RouteRows, PatchRoute(o, h, row)
         PROVE  TypeOK'
    BY <2>0, <2>13 DEF PatchRoute, RouteRows
  <2>14. ASSUME NEW o \in Operators, NEW h \in Routes, DeleteRoute(o, h) PROVE TypeOK'
    BY <2>0, <2>14 DEF DeleteRoute, RouteRows
  <2>15. ASSUME NEW o \in Operators, ProtectionViews(o) PROVE TypeOK'
    <3>1. /\ tables' \subseteq Tables /\ Saves(o)
          /\ UNCHANGED <<topology, rows, copy, crossed, rekeyed, deploy>>
      BY <2>15 DEF ProtectionViews, UpdateProtection, BlockAddress, UnblockAddress, Tables
    <3> QED
      BY <2>0, <3>1
  <2>16. CASE BlockExpires
    BY <2>16 DEF BlockExpires
  <2>17. CASE DeployStep
    BY <2>17 DEF DeployStep, Begin, ReadStaffed, ReadRules, ReadRoutes, RenderMaps, RenderRaises,
       RenderUpstreams, RenderServers, Activate, Goto, Reads, Unread, Owed
  <2>18. CASE UNCHANGED vars
    BY <2>18 DEF vars
  <2> QED
    BY <2>1, <2>2, <2>3, <2>4, <2>5, <2>6, <2>7, <2>8, <2>9, <2>10, <2>11, <2>12, <2>13,
       <2>14, <2>15, <2>16, <2>17, <2>18
       DEF Next, EditStep, DomainViews, BackendViews, RuleViews, HeaderRouteViews
<1> QED
  BY <1>1, <1>2, PTL DEF Spec

-----------------------------------------------------------------------------
(* What the endpoints keep of a rule.                                      *)

\* A PATCH that is checked with the row it is saved over leaves it safe to cache, and
\* one without the caching and the key leaves both.
LEMMA SavedColumns ==
  ASSUME NEW now \in RuleRows, NEW read \in RuleRows, NEW data \in Patches
  PROVE  /\ now = read /\ MayPatch(read, data) => CacheSafe(Saved(now, read, data))
         /\ DOMAIN data \cap {"cached", "keys"} = {} =>
              /\ Saved(now, read, data).cached = now.cached
              /\ Saved(now, read, data).keys = now.keys
<1>1. DOMAIN now = {"domain", "backend", "active", "cached", "bypass", "allow", "keys"}
  BY DEF RuleRows
<1>2. ASSUME now = read
      PROVE  \A f \in {"cached", "bypass", "allow"} :
               Saved(now, read, data)[f] = Overlay(read, data)[f]
  BY <1>1, <1>2 DEF Saved, Given, Overlay
<1>3. now = read /\ MayPatch(read, data) => CacheSafe(Saved(now, read, data))
  BY <1>2 DEF MayPatch, CacheSafe
<1> QED
  BY <1>1, <1>3 DEF Saved

RuleInv == UnsafeOnlyByOverlap /\ KeyedUntilEdited

\* No endpoint makes a rule unsafe to cache, or takes a header it switches on from its
\* key, but those that the properties name.
LEMMA RuleInvariant == Spec => []RuleInv
<1> USE IdentitiesAssumption, BoundsAssumption
<1>1. Init => RuleInv
  <2> SUFFICES ASSUME Init PROVE RuleInv
    OBVIOUS
  <2>1. PICK s \in Seed : rule = s.rule /\ route = s.route
    BY DEF Init
  <2> QED
    BY <2>1, SeedAssumption DEF RuleInv, UnsafeOnlyByOverlap, KeyedUntilEdited, RouteRows
<1>2. RuleInv /\ TypeOK /\ [Next]_vars => RuleInv'
  <2> SUFFICES ASSUME RuleInv, TypeOK, [Next]_vars PROVE RuleInv'
    OBVIOUS
  <2> USE DEF RuleInv, UnsafeOnlyByOverlap, KeyedUntilEdited
  <2>1. ASSUME UNCHANGED <<rule, route, crossed, rekeyed>> PROVE RuleInv'
    BY <2>1 DEF CacheSafe
  <2> USE DEF TypeOK, topology, rows, requests, deploy
  <2>2. ASSUME NEW gone \in SUBSET Rules, NEW goneRoutes \in SUBSET Routes,
               Cascade(gone, goneRoutes)
        PROVE  RuleInv'
    BY <2>2 DEF Cascade, Lost, CacheSafe, RouteRows
  <2>3. ASSUME NEW o \in Operators, EditStep(o) PROVE RuleInv'
    <3>1. ASSUME NEW d \in Domains, CreateDomain(o, d) \/ UpdateDomain(o, d) PROVE RuleInv'
      BY <2>1, <3>1 DEF CreateDomain, UpdateDomain
    <3>2. ASSUME NEW d \in Domains, DeleteDomain(o, d) PROVE RuleInv'
      BY <2>2, <3>2 DEF DeleteDomain
    <3>3. ASSUME NEW b \in Backends, CreateBackend(o, b) \/ UpdateBackend(o, b) PROVE RuleInv'
      BY <2>1, <3>3 DEF CreateBackend, UpdateBackend
    <3>4. ASSUME NEW b \in Backends, DeleteBackend(o, b) PROVE RuleInv'
      BY <2>2, <3>4 DEF DeleteBackend
    <3>5. CASE InstanceViews(o)
      BY <2>1, <3>5 DEF InstanceViews, StartInstance, StopInstance
    <3>6. ASSUME NEW r \in Rules, NEW row \in NewRules, CreateRule(o, r, row) PROVE RuleInv'
      <4>1. CacheSafe(Created(row))
        BY <3>6 DEF CreateRule, Created, CacheSafe, RuleRows
      <4> QED
        BY <3>6, <4>1 DEF CreateRule, CacheSafe, RouteRows
    <3>7. CASE EndUnsaved(o) \/ \E r \in Rules : ReadRule(o, r)
      BY <2>1, <3>7 DEF ReadRule, EndUnsaved
    <3>8. ASSUME NEW data \in Patches, PatchRule(o, data) PROVE RuleInv'
      <4> DEFINE r    == copy[o].rule
                 read == copy[o].row
                 new  == Saved(rule[r], read, data)
      <4>1. r \in Rules /\ rule[r] \in RuleRows /\ read \in RuleRows
        BY <3>8 DEF PatchRule
      <4>2. rule' = [rule EXCEPT ![r] = new] /\ route' = route
        BY <3>8 DEF PatchRule
      <4>3. crossed \subseteq crossed' /\ (CacheSafe(new) \/ r \in crossed')
        BY <3>8, <4>1, SavedColumns DEF PatchRule
      <4>4. /\ rekeyed \subseteq rekeyed'
            /\ (new.cached = rule[r].cached /\ new.keys = rule[r].keys) \/ r \in rekeyed'
        BY <3>8, <4>1, SavedColumns DEF PatchRule
      <4> HIDE DEF r, read, new
      <4>5. UnsafeOnlyByOverlap'
        BY <4>1, <4>2, <4>3
      <4>6. KeyedUntilEdited'
        BY <4>1, <4>2, <4>4 DEF RouteRows
      <4> QED
        BY <4>5, <4>6
    <3>9. CASE DeleteRule(o)
      BY <2>2, <3>9 DEF DeleteRule
    <3>10. ASSUME NEW h \in Routes, NEW row \in RouteRows, CreateRoute(o, h, row)
           PROVE  RuleInv'
      <4> DEFINE r    == row.rule
                 read == copy[o].row
                 keys == Keyed(read, row.header)
      <4>1. /\ r \in Rules /\ rule[r] \in RuleRows /\ read \in RuleRows
            /\ route' = [route EXCEPT ![h] = row] /\ route[h] = None /\ crossed' = crossed
        BY <3>10 DEF CreateRoute, RouteRows
      <4>2. CASE read.cached
        <5> DEFINE new == [rule[r] EXCEPT !.keys = keys]
        <5>1. rule' = [rule EXCEPT ![r] = new]
          BY <3>10, <4>2 DEF CreateRoute
        <5>2. new \in RuleRows
          BY <4>1, RowEdits DEF RouteRows
        <5>3. /\ row.header \in keys /\ rekeyed \subseteq rekeyed'
              /\ rule[r].keys \subseteq keys \/ r \in rekeyed'
          BY <3>10 DEF CreateRoute, Keyed, Normalised
        <5> HIDE DEF r, read, keys
        <5>4. \A q \in Rules : /\ rule[q] = None <=> rule'[q] = None
                               /\ rule[q] # None => /\ rule'[q].cached = rule[q].cached
                                                    /\ rule'[q].bypass = rule[q].bypass
                                                    /\ rule'[q].allow = rule[q].allow
                               /\ rule'[q].keys = IF q = r THEN keys ELSE rule[q].keys
          <6>1. /\ new.cached = rule[r].cached /\ new.bypass = rule[r].bypass
                /\ new.allow = rule[r].allow /\ new.keys = keys
            BY <4>1 DEF RuleRows
          <6> HIDE DEF new
          <6> QED
            BY <4>1, <5>2, <5>1, <6>1
        <5>5. UnsafeOnlyByOverlap'
          BY <4>1, <5>4 DEF CacheSafe
        <5>6. KeyedUntilEdited'
          BY <4>1, <5>3, <5>4 DEF RouteRows, r
        <5> QED
          BY <5>5, <5>6
      <4>3. CASE ~read.cached
        <5>1. /\ rule' = rule /\ rekeyed \subseteq rekeyed'
              /\ ~rule[r].cached \/ r \in rekeyed'
          BY <3>10, <4>3 DEF CreateRoute
        <5> QED
          BY <4>1, <5>1 DEF CacheSafe, RouteRows
      <4> QED
        BY <4>2, <4>3
    <3>11. ASSUME NEW h \in Routes, NEW row \in RouteRows, PatchRoute(o, h, row) PROVE RuleInv'
      BY <3>11 DEF PatchRoute, CacheSafe, RouteRows
    <3>12. ASSUME NEW h \in Routes, DeleteRoute(o, h) PROVE RuleInv'
      BY <3>12 DEF DeleteRoute, CacheSafe, RouteRows
    <3>13. CASE ProtectionViews(o)
      BY <2>1, <3>13 DEF ProtectionViews, UpdateProtection, BlockAddress, UnblockAddress
    <3> QED
      BY <2>3, <3>1, <3>2, <3>3, <3>4, <3>5, <3>6, <3>7, <3>8, <3>9, <3>10, <3>11, <3>12, <3>13
         DEF EditStep, DomainViews, BackendViews, RuleViews, HeaderRouteViews
  <2>4. ASSUME NEW o \in Operators, AskForDeploy(o) PROVE RuleInv'
    BY <2>1, <2>4 DEF AskForDeploy
  <2>5. CASE BlockExpires
    BY <2>1, <2>5 DEF BlockExpires
  <2>6. CASE DeployStep
    BY <2>1, <2>6 DEF DeployStep, Begin, ReadStaffed, ReadRules, ReadRoutes, RenderMaps,
       RenderRaises, RenderUpstreams, RenderServers, Activate, Unread
  <2>7. CASE UNCHANGED vars
    BY <2>1, <2>7 DEF vars
  <2> QED
    BY <2>3, <2>4, <2>5, <2>6, <2>7 DEF Next
<1> QED
  BY <1>1, <1>2, TypeCorrect, PTL DEF Spec

\* A cached rule without a bypass has been allowed, whatever the PATCHes, unless two of
\* the rule's requests overlapped.
THEOREM UnsafeNeedsOverlap == Spec => []UnsafeOnlyByOverlap
BY RuleInvariant, PTL DEF RuleInv

\* A rule that caches keeps each header that it switches on in its key, whatever its
\* header routes, unless it or the route was edited so.
THEOREM KeysAreKept == Spec => []KeyedUntilEdited
BY RuleInvariant, PTL DEF RuleInv

-----------------------------------------------------------------------------
(* The deploys catch up.                                                   *)

\* A draft has its fields, so that what a query reads is noted there.
DraftShape ==
  DOMAIN draft = {"sites", "staffed", "rules", "routes", "declares", "upstreams", "refers"}

\* Tables that were read hold every table there is: one may have gone since, when the
\* last block ran out.
Fresh(read) == tables \subseteq read /\ read \ tables \subseteq {"blocklist"}

LiveAgrees ==
  /\ live.sites = ActiveDomains
  /\ live.passes = Config(Current).passes
  /\ live.maps = Config(Current).maps
  /\ live.upstreams = StaffedBackends
  /\ Fresh(live.refers)

\* What the deploy has read, or what Nginx runs when there is none, is what a deploy
\* would read now.
Agrees ==
  /\ stage = "idle" => LiveAgrees \/ Clashes(Config(Current))
  /\ stage # "idle" => draft.sites = ActiveDomains
  /\ stage \notin {"idle", "staffed"} => draft.staffed = StaffedBackends
  /\ stage \notin {"idle", "staffed", "rules"} => draft.rules = Current.rules
  /\ stage \notin {"idle", "staffed", "rules", "routes"} => draft.routes = Current.routes
  /\ stage \in {"upstreams", "servers", "test"} => Fresh(draft.declares)
  /\ stage \in {"servers", "test"} => draft.upstreams = StaffedBackends
  /\ stage = "test" => Fresh(draft.refers) /\ draft.refers \subseteq draft.declares

\* An edit that a deploy has not read, or no longer can, has asked or is about to.
CatchesUp == owed \/ asking # {} \/ Agrees

\* While no row changes, a render reads the same rows and makes the same of them.
LEMMA RendersTheSame ==
  ASSUME UNCHANGED <<topology, rows>>
  PROVE  /\ ActiveDomains' = ActiveDomains /\ StaffedBackends' = StaffedBackends
         /\ Current.rules' = Current.rules /\ Current.routes' = Current.routes
         /\ Config(Current).passes' = Config(Current).passes
         /\ Config(Current).maps' = Config(Current).maps
         /\ Config(Current).upstreams' = Config(Current).upstreams
         /\ Clashes(Config(Current))' <=> Clashes(Config(Current))
<1> USE DEF topology, rows
<1>1. ActiveDomains' = ActiveDomains /\ StaffedBackends' = StaffedBackends
  BY DEF ActiveDomains, StaffedBackends, Staffed
<1>2. /\ RenderedRules(StaffedBackends)' = RenderedRules(StaffedBackends)
      /\ \A r \in Rules : RenderedRoutes(r)' = RenderedRoutes(r)
  BY <1>1 DEF RenderedRules, RenderedRoutes, Deployable
<1>3. Current.rules' = Current.rules /\ Current.routes' = Current.routes
  BY <1>2 DEF Current, RenderedRules
<1>4. /\ Current.sites' = Current.sites /\ Current.upstreams' = Current.upstreams
  BY <1>1 DEF Current
<1>5. /\ Config(Current).passes' = Config(Current).passes
      /\ Config(Current).maps' = Config(Current).maps
      /\ Config(Current).upstreams' = Config(Current).upstreams
  BY <1>3, <1>4 DEF Config
<1> QED
  BY <1>1, <1>3, <1>5 DEF Clashes

\* A draft that agrees with the rows renders what the rows say, and is refused only if
\* the rows clash.
LEMMA AgreeingRenders ==
  ASSUME stage = "test", Agrees
  PROVE  /\ Config(draft).sites = ActiveDomains /\ Config(draft).upstreams = StaffedBackends
         /\ Config(draft).passes = Config(Current).passes
         /\ Config(draft).maps = Config(Current).maps
         /\ Fresh(Config(draft).refers)
         /\ Clashes(Config(draft)) <=> Clashes(Config(Current))
         /\ Accepts(Config(draft)) \/ Clashes(Config(Current))
<1>1. /\ draft.sites = Current.sites /\ draft.rules = Current.rules
      /\ draft.routes = Current.routes /\ draft.upstreams = Current.upstreams
      /\ draft.upstreams = StaffedBackends /\ draft.sites = ActiveDomains
      /\ Fresh(draft.refers) /\ draft.refers \subseteq draft.declares
  BY DEF Agrees, Current
<1>2. /\ Config(draft).passes = Config(Current).passes
      /\ Config(draft).maps = Config(Current).maps
      /\ Config(draft).upstreams = Config(Current).upstreams
      /\ Config(draft).sites = ActiveDomains /\ Config(draft).upstreams = StaffedBackends
      /\ Config(draft).refers = draft.refers /\ Config(draft).declares = draft.declares
  BY <1>1 DEF Config
<1>3. Clashes(Config(draft)) <=> Clashes(Config(Current))
  BY <1>2 DEF Clashes
<1>4. \A r \in DOMAIN Config(Current).passes : Config(Current).passes[r] \in StaffedBackends
  BY DEF Config, Current, RenderedRules
<1>5. Accepts(Config(draft)) \/ Clashes(Config(draft))
  BY <1>1, <1>2, <1>4 DEF Accepts
<1> QED
  BY <1>1, <1>2, <1>3, <1>5

\* In a draft that agrees with the rows, every rule's domain is among the sites.
LEMMA AgreeingHasHomes ==
  ASSUME TypeOK, stage = "maps", Agrees
  PROVE  ~Homeless
<1>1. draft.sites = ActiveDomains /\ draft.rules = Current.rules
  BY DEF Agrees
<1>2. \A r \in DOMAIN Current.rules : /\ r \in RenderedRules(StaffedBackends)
                                      /\ Current.rules[r].domain = rule[r].domain
  BY DEF Current
<1>3. \A r \in RenderedRules(StaffedBackends) :
        domain[rule[r].domain] = "active"
  BY DEF RenderedRules, Deployable
<1>4. \A r \in RenderedRules(StaffedBackends) : rule[r].domain \in Domains
  BY DEF TypeOK, RenderedRules, Deployable, RuleRows
<1> QED
  BY <1>1, <1>2, <1>3, <1>4 DEF Homeless, ActiveDomains

\* An edit and a deploy, whichever steps of theirs come between the other's, do not lose
\* each other.
LEMMA CatchesUpInvariant == Spec => [](DraftShape /\ CatchesUp)
<1>1. Init => DraftShape /\ CatchesUp
  <2>1. Init => DraftShape
    BY DEF Init, DraftShape, EmptyDraft
  <2>2. ASSUME Init PROVE LiveAgrees
    <3>1. live = Config(Current) /\ tables = {}
      BY <2>2 DEF Init
    <3>2. /\ Config(Current).sites = ActiveDomains /\ Config(Current).upstreams = StaffedBackends
          /\ Config(Current).refers = tables
      BY DEF Config, Current
    <3> QED
      BY <3>1, <3>2 DEF LiveAgrees, Fresh
  <2>3. ASSUME Init PROVE stage = "idle"
    BY <2>3 DEF Init
  <2> QED
    BY <2>1, <2>2, <2>3 DEF CatchesUp, Agrees
<1>2. TypeOK /\ DraftShape /\ CatchesUp /\ [Next]_vars => (DraftShape /\ CatchesUp)'
  <2> SUFFICES ASSUME TypeOK, DraftShape, CatchesUp, [Next]_vars PROVE (DraftShape /\ CatchesUp)'
    OBVIOUS
  <2>1. ASSUME Agrees, tables' \subseteq tables, tables \ tables' \subseteq {"blocklist"},
               UNCHANGED <<topology, rows, stage, draft, live>>
        PROVE  Agrees'
    BY <2>1, RendersTheSame DEF Agrees, LiveAgrees, Fresh
  <2>2. ASSUME NEW o \in Operators, EditStep(o) PROVE (DraftShape /\ CatchesUp)'
    <3> USE DEF DomainViews, CreateDomain, UpdateDomain, DeleteDomain,
                BackendViews, CreateBackend, UpdateBackend, DeleteBackend,
                InstanceViews, StartInstance, StopInstance,
                RuleViews, ReadRule, CreateRule, PatchRule, DeleteRule, EndUnsaved,
                HeaderRouteViews, CreateRoute, PatchRoute, DeleteRoute,
                ProtectionViews, UpdateProtection, BlockAddress, UnblockAddress
    <3>1. UNCHANGED deploy
      BY <2>2 DEF EditStep
    <3>2. \/ Saves(o)
          \/ UNCHANGED <<topology, rows, tables, asking>>
      BY <2>2 DEF EditStep
    <3>3. CASE Saves(o)
      BY <3>1, <3>3 DEF Saves, deploy, DraftShape, CatchesUp
    <3>4. CASE UNCHANGED <<topology, rows, tables, asking>>
      BY <2>1, <3>1, <3>4 DEF deploy, DraftShape, CatchesUp
    <3> QED
      BY <3>2, <3>3, <3>4
  <2>3. ASSUME NEW o \in Operators, AskForDeploy(o) PROVE (DraftShape /\ CatchesUp)'
    BY <2>3 DEF AskForDeploy, DraftShape, CatchesUp
  <2>4. CASE BlockExpires
    BY <2>1, <2>4 DEF BlockExpires, DraftShape, CatchesUp, requests, deploy
  <2>5. CASE DeployStep
    <3>1. UNCHANGED <<topology, rows, tables, asking>>
      BY <2>5 DEF DeployStep, Begin, ReadStaffed, ReadRules, ReadRoutes, RenderMaps, RenderRaises,
         RenderUpstreams, RenderServers, Activate, Unread, requests
    <3>2. /\ ActiveDomains' = ActiveDomains /\ StaffedBackends' = StaffedBackends
          /\ Current.rules' = Current.rules /\ Current.routes' = Current.routes
          /\ Config(Current).passes' = Config(Current).passes
          /\ Config(Current).maps' = Config(Current).maps
          /\ Clashes(Config(Current))' <=> Clashes(Config(Current))
      BY <3>1, RendersTheSame
    <3> USE DEF DraftShape, CatchesUp, Agrees, Fresh, Goto, Reads, Unread, Owed, requests
    <3>3. CASE Begin
      BY <3>1, <3>2, <3>3 DEF Begin
    <3>4. CASE ReadStaffed
      BY <3>1, <3>2, <3>4 DEF ReadStaffed
    <3>5. CASE ReadRules
      BY <3>1, <3>2, <3>5 DEF ReadRules, Current
    <3>6. CASE ReadRoutes
      BY <3>1, <3>2, <3>6 DEF ReadRoutes, Current
    <3>7. CASE RenderMaps
      BY <3>1, <3>2, <3>7 DEF RenderMaps
    <3>8. CASE RenderRaises
      BY <3>8, <3>1, AgreeingHasHomes DEF RenderRaises, EmptyDraft
    <3>9. CASE RenderUpstreams
      BY <3>1, <3>2, <3>9 DEF RenderUpstreams
    <3>10. CASE RenderServers
      BY <3>1, <3>2, <3>10 DEF RenderServers
    <3>11. CASE Activate
      BY <3>1, <3>2, <3>11, AgreeingRenders DEF Activate, LiveAgrees, EmptyDraft
    <3> QED
      BY <2>5, <3>3, <3>4, <3>5, <3>6, <3>7, <3>8, <3>9, <3>10, <3>11 DEF DeployStep
  <2>6. CASE UNCHANGED vars
    BY <2>1, <2>6 DEF vars, DraftShape, CatchesUp, requests, deploy
  <2> QED
    BY <2>2, <2>3, <2>4, <2>5, <2>6 DEF Next
<1> QED
  BY <1>1, <1>2, TypeCorrect, PTL DEF Spec

\* A deploy that raises or is refused because edits came between its queries is followed
\* by another, for any rows and any edits.
THEOREM RefusalsAreRetried == Spec => []RefusedIsRetried
<1>1. TypeOK /\ CatchesUp => RefusedIsRetried
  BY AgreeingHasHomes, AgreeingRenders DEF CatchesUp, RefusedIsRetried
<1> QED
  BY <1>1, TypeCorrect, CatchesUpInvariant, PTL

\* A map of one header has that header's name.
LEMMA NameOfMap ==
  ASSUME NEW map, NEW x \in Nat, DOMAIN map # {},
         \A h \in DOMAIN map : map[h].header = x
  PROVE  MapHeader(map) = x
<1>1. {map[h].header : h \in DOMAIN map} = {x}
  OBVIOUS
<1> QED
  BY <1>1 DEF MapHeader

\* What the present rows would be rendered as, of one rule.
LEMMA ConfigOfTheRows ==
  ASSUME NEW r \in DOMAIN Config(Current).passes
  PROVE  /\ r \in RenderedRules(StaffedBackends)
         /\ Config(Current).passes[r] = rule[r].backend
         /\ r \in DOMAIN Config(Current).maps
         /\ Config(Current).maps[r] = [h \in RenderedRoutes(r) |-> route[h]]
<1>1. /\ DOMAIN Config(Current).passes \subseteq RenderedRules(StaffedBackends)
      /\ DOMAIN Config(Current).maps = DOMAIN Config(Current).passes
  BY DEF Config, Current
<1>2. Config(Current).passes[r] = rule[r].backend
  BY DEF Config, Current
<1>3. Config(Current).maps[r] = [h \in RenderedRoutes(r) |-> route[h]]
  BY DEF Config, Current
<1> QED
  BY <1>1, <1>2, <1>3

\* A rule that is rendered as its row says, with header routes on one header, sends each
\* request where the rows say.
LEMMA SendsAsWanted ==
  ASSUME TypeOK, LiveAgrees, ~Clashes(Config(Current)),
         NEW r \in DOMAIN live.passes, OneHeader(r), NEW x \in Headers, NEW v \in Values
  PROVE  Sends(live, r, x, v) = Wanted(r, x, v)
<1> DEFINE map       == live.maps[r]
           hits      == {h \in DOMAIN map : map[h].value = v}
           overrides == {h \in Routes : /\ route[h] # None
                                        /\ route[h] = [rule |-> r, backend |-> route[h].backend,
                                                       header |-> x, value |-> v, active |-> TRUE]
                                        /\ backend[route[h].backend] = "active"}
<1>0. /\ r \in DOMAIN Config(Current).passes
      /\ live.passes = Config(Current).passes /\ live.maps = Config(Current).maps
  BY DEF LiveAgrees
<1>1. r \in RenderedRules(StaffedBackends) /\ live.passes[r] = rule[r].backend
  BY <1>0, ConfigOfTheRows
<1>2. map = [h \in RenderedRoutes(r) |-> route[h]]
  BY <1>0, ConfigOfTheRows
<1>3. \A h1, h2 \in hits : h1 = h2
  <2>1. live.maps = Config(Current).maps /\ r \in DOMAIN Config(Current).maps
    BY <1>0, ConfigOfTheRows
  <2>2. \A h1, h2 \in DOMAIN live.maps[r] :
           h1 # h2 => live.maps[r][h1].value # live.maps[r][h2].value
    BY <2>1 DEF Clashes
  <2> QED
    BY <2>2
<1>4. \A h \in RenderedRoutes(r) : h \in Routes /\ route[h] \in RouteRows /\ route[h].header \in Nat
  BY IdentitiesAssumption DEF RenderedRoutes, TypeOK, RouteRows
<1>5. overrides \subseteq hits
  BY <1>2 DEF RenderedRoutes
<1>6. \A h \in hits : route[h].header = x => h \in overrides
  <2> SUFFICES ASSUME NEW h \in hits, route[h].header = x PROVE h \in overrides
    OBVIOUS
  <2>1. /\ h \in Routes /\ route[h] # None /\ route[h] \in RouteRows
        /\ route[h].rule = r /\ route[h].value = v /\ route[h].active
        /\ backend[route[h].backend] = "active"
    BY <1>2, <1>4 DEF RenderedRoutes
  <2>2. route[h] = [rule |-> r, backend |-> route[h].backend, header |-> x, value |-> v,
                    active |-> TRUE]
    BY <2>1 DEF RouteRows
  <2> QED
    BY <2>1, <2>2
<1>7. \A h \in overrides : route[h].header = x
  OBVIOUS
<1>8. ASSUME NEW h \in hits PROVE MapHeader(map) = route[h].header
  BY <1>2, <1>4, NameOfMap DEF OneHeader
<1>9. CASE hits # {} /\ MapHeader(map) = x
  <2>1. hits = overrides
    BY <1>5, <1>6, <1>8, <1>9
  <2>2. \A h \in hits : map[h] = route[h]
    BY <1>2
  <2>3. Sends(live, r, x, v) = map[CHOOSE h \in hits : TRUE].backend
    BY <1>9 DEF Sends
  <2>4. Wanted(r, x, v) = route[CHOOSE h \in overrides : TRUE].backend
    BY <1>9, <2>1 DEF Wanted
  <2> HIDE DEF map, hits, overrides
  <2> QED
    BY <1>9, <2>1, <2>2, <2>3, <2>4
<1>10. CASE ~(hits # {} /\ MapHeader(map) = x)
  <2>1. overrides = {}
    BY <1>5, <1>7, <1>8, <1>10
  <2> QED
    BY <1>1, <1>10, <2>1 DEF Sends, Wanted
<1> QED
  BY <1>9, <1>10

\* When no deploy runs or is owed Nginx runs what the rows say, for any domains,
\* backends, rules and header routes, and however the edits and the queries of the
\* deploys interleaved.
THEOREM NginxRunsTheRows == Spec => []LiveIsCurrent
<1>1. TypeOK /\ CatchesUp => LiveIsCurrent
  <2> SUFFICES ASSUME TypeOK, CatchesUp, Quiet, ~Clashes(Config(Current)) PROVE Served
    BY DEF LiveIsCurrent
  <2>1. LiveAgrees
    BY DEF CatchesUp, Quiet, Agrees
  <2>2. DOMAIN live.passes = {r \in Rules : Deployable(r) /\ Staffed(rule[r].backend)}
    <3>1. DOMAIN live.passes = {r \in RenderedRules(StaffedBackends) : rule[r].domain \in ActiveDomains}
      BY <2>1 DEF LiveAgrees, Config, Current
    <3>2. \A r \in Rules : Deployable(r) =>
            rule[r].domain \in ActiveDomains /\ rule[r].backend \in Backends
      BY DEF Deployable, ActiveDomains, TypeOK, RuleRows
    <3> QED
      BY <3>1, <3>2 DEF RenderedRules, StaffedBackends
  <2> QED
    BY <2>1, <2>2, SendsAsWanted DEF Served, LiveAgrees, Fresh
<1> QED
  BY <1>1, TypeCorrect, CatchesUpInvariant, PTL

=============================================================================
