------------------------------ MODULE Routing ------------------------------
(***************************************************************************)
(* Domains, backends, routing rules and header routes (apps/domains,       *)
(* apps/backends, apps/routing), the endpoints that edit their rows, and   *)
(* the rendering of the Nginx configuration from them                      *)
(* (apps/gateway/services.py).                                             *)
(*                                                                         *)
(* A deploy renders with one query after the other, and edits go on        *)
(* between them: the configuration may show some edits and not others, or  *)
(* not hold together at all.  What makes that harmless is that every edit  *)
(* asks for another deploy once it is saved.                               *)
(*                                                                         *)
(* A deploy that has been asked for is `owed` (DeployQueue says what       *)
(* becomes of a request), and putting the rendered files in place is one   *)
(* step (ConfigDeploy says why).  Each rule has a location of its own.     *)
(***************************************************************************)
EXTENDS Naturals, FiniteSets

CONSTANTS
  Domains, Backends, Rules, Routes,  \* the identities of rows
  Instances,    \* of each backend
  UpstreamOf,   \* the upstream_name of each backend
  Headers,      \* header names, numbered in alphabetical order
  Values,       \* header values
  AcceptEncoding,
  None,         \* no row, no copy of a row, no target
  Operators,    \* requests to the panel's API that may run at once
  Patches,      \* bound: the data of a PATCH of a rule
  NewRules,     \* bound: the rows a rule may be created with
  Seed,         \* bound: the tables at first
  MaxEdits      \* bound: how many edits are saved

Tables == {"limits", "blocklist"}

Existing == {"active", "inactive"}

RuleRows == [domain : Domains, backend : Backends, active : BOOLEAN,
             cached : BOOLEAN, bypass : BOOLEAN, allow : BOOLEAN,
             keys : SUBSET (Headers \cup {AcceptEncoding})]

RouteRows == [rule : Rules, backend : Backends, header : Headers, value : Values,
              active : BOOLEAN]

\* A PATCH of a rule gives any of its columns.
IsRuleData(data) == \E row \in RuleRows :
  DOMAIN data \subseteq DOMAIN row /\ \A f \in DOMAIN data : row[f] = data[f]

ASSUME IdentitiesAssumption ==
  /\ DOMAIN UpstreamOf = Backends
  /\ Headers \subseteq Nat
  /\ AcceptEncoding \notin Headers
  /\ None \notin RuleRows \cup RouteRows \cup Backends
  /\ None \notin [rule : Rules, row : RuleRows]

ASSUME BoundsAssumption ==
  /\ MaxEdits \in Nat
  /\ NewRules \subseteq RuleRows
  /\ Seed \subseteq [domain : [Domains -> Existing \cup {"none"}],
                     backend : [Backends -> Existing \cup {"none"}],
                     instances : [Backends -> SUBSET Instances],
                     rule : [Rules -> RuleRows \cup {None}],
                     route : [Routes -> RouteRows \cup {None}]]
  /\ \A data \in Patches : IsRuleData(data)

VARIABLES
  domain,     \* each domain: "active", "inactive" or "none"
  backend,    \* each backend
  instances,  \* the active instances of each backend
  rule,       \* the RoutingRule rows
  route,      \* the HeaderRoute rows
  tables,     \* the shared tables the protection settings call for
  copy,       \* the rule an operator's request has read and is about to save
  asking,     \* the operators whose edit is saved and whose deploy is not asked for
  crossed,    \* rules saved by a request that had read an older row
  rekeyed,    \* rules whose caching or key, or a header of whose routes, was edited
  edits,      \* how many edits have been saved
  owed,       \* a deploy has been asked for and has not begun
  stage,      \* what the deploy is about to do
  draft,      \* what it has read
  live        \* the configuration Nginx runs

topology == <<domain, backend, instances>>
rows     == <<rule, route>>
requests == <<copy, asking, crossed, rekeyed, edits>>
deploy   == <<owed, stage, draft, live>>
vars     == <<topology, rows, tables, requests, deploy>>

-----------------------------------------------------------------------------
(* What a render reads, and what the templates make of it.                 *)

Staffed(b) == backend[b] = "active" /\ instances[b] # {}

Deployable(r) == /\ rule[r] # None
                 /\ rule[r].active
                 /\ domain[rule[r].domain] = "active"
                 /\ backend[rule[r].backend] = "active"

\* Mutant: rules whose backend has no instance are rendered too.
RenderedRulesAll(staffed) == {r \in Rules : Deployable(r)}

\* _active_rules_by_domain: a rule whose backend had no instance is skipped.
RenderedRules(staffed) == {r \in Rules : Deployable(r) /\ rule[r].backend \in staffed}

\* Mutant: a header route to a backend that has been switched off is kept.
RenderedRoutesAll(r) == {h \in Routes : route[h] # None /\ route[h].rule = r /\ route[h].active}

\* _rule_context: the header routes of a rule that are active, to active backends.
RenderedRoutes(r) ==
  {h \in Routes : /\ route[h] # None
                  /\ route[h].rule = r
                  /\ route[h].active
                  /\ backend[route[h].backend] = "active"}

ActiveDomains == {d \in Domains : domain[d] = "active"}

StaffedBackends == {b \in Backends : Staffed(b)}

EmptyDraft == [sites |-> {}, staffed |-> {}, rules |-> [r \in {} |-> None],
               routes |-> [r \in {} |-> {}], declares |-> {}, upstreams |-> {},
               refers |-> {}]

\* The configuration of a draft.  One server block for each site, in it one
\* location for each rule of the site: it passes to the rule's backend, or where
\* the rule's map says.  A map is named by the header of its first route.
Config(d) ==
  LET shown == {r \in DOMAIN d.rules : d.rules[r].domain \in d.sites}
  IN  [sites     |-> d.sites,
       passes    |-> [r \in shown |-> d.rules[r].backend],
       maps      |-> [r \in shown |-> d.routes[r]],
       declares  |-> d.declares,
       upstreams |-> d.upstreams,
       refers    |-> d.refers]

MapHeader(map) ==
  LET names == {map[h].header : h \in DOMAIN map}
  IN  CHOOSE x \in names : \A y \in names : x <= y

\* Two upstreams of one name, or two entries of one map for one value.
Clashes(c) ==
  \/ \E b1, b2 \in c.upstreams : b1 # b2 /\ UpstreamOf[b1] = UpstreamOf[b2]
  \/ \E r \in DOMAIN c.maps : \E h1, h2 \in DOMAIN c.maps[r] :
       h1 # h2 /\ c.maps[r][h1].value = c.maps[r][h2].value

\* nginx -t: an upstream named in proxy_pass must be declared, and so must a table
\* or zone that is used.  It does not look into the values of a map.
Accepts(c) ==
  /\ ~Clashes(c)
  /\ c.refers \subseteq c.declares
  /\ \A r \in DOMAIN c.passes :
       DOMAIN c.maps[r] = {} =>
         \E b \in c.upstreams : UpstreamOf[b] = UpstreamOf[c.passes[r]]

\* Where Nginx sends a request for r's location that carries the header x: v.
Sends(c, r, x, v) ==
  IF r \notin DOMAIN c.passes THEN None
  ELSE LET map  == c.maps[r]
           hits == {h \in DOMAIN map : map[h].value = v}
       IN  IF hits # {} /\ MapHeader(map) = x
           THEN map[CHOOSE h \in hits : TRUE].backend
           ELSE c.passes[r]

\* What a render would read if nothing changed under it.
Current ==
  LET shown == RenderedRules(StaffedBackends)
  IN  [sites     |-> ActiveDomains,
       staffed   |-> StaffedBackends,
       rules     |-> [r \in shown |-> [domain |-> rule[r].domain, backend |-> rule[r].backend]],
       routes    |-> [r \in shown |-> [h \in RenderedRoutes(r) |-> route[h]]],
       declares  |-> tables,
       upstreams |-> StaffedBackends,
       refers    |-> tables]

-----------------------------------------------------------------------------

TypeOK ==
  /\ domain \in [Domains -> Existing \cup {"none"}]
  /\ backend \in [Backends -> Existing \cup {"none"}]
  /\ instances \in [Backends -> SUBSET Instances]
  /\ rule \in [Rules -> RuleRows \cup {None}]
  /\ route \in [Routes -> RouteRows \cup {None}]
  /\ \A r \in Rules : rule[r] # None =>
       domain[rule[r].domain] # "none" /\ backend[rule[r].backend] # "none"
  /\ \A h \in Routes : route[h] # None =>
       rule[route[h].rule] # None /\ backend[route[h].backend] # "none"
  /\ tables \subseteq Tables
  /\ copy \in [Operators -> {None} \cup [rule : Rules, row : RuleRows]]
  /\ asking \subseteq Operators
  /\ crossed \subseteq Rules /\ rekeyed \subseteq Rules
  /\ edits \in 0 .. MaxEdits
  /\ owed \in BOOLEAN
  /\ stage \in {"idle", "staffed", "rules", "routes", "maps", "upstreams", "servers", "test"}

\* The seed has been deployed.
Init ==
  /\ \E s \in Seed : /\ domain = s.domain /\ backend = s.backend
                     /\ instances = s.instances
                     /\ rule = s.rule /\ route = s.route
  /\ tables = {}
  /\ copy = [o \in Operators |-> None]
  /\ asking = {} /\ crossed = {} /\ rekeyed = {} /\ edits = 0
  /\ owed = FALSE /\ stage = "idle" /\ draft = EmptyDraft
  /\ live = Config(Current)

-----------------------------------------------------------------------------
(* The endpoints.  A request reads, checks and saves, then asks for a      *)
(* deploy; one that is refused does neither.  A request for a rule, or for *)
(* a header route of one, reads the rule some time before it saves.        *)

Free(o) == copy[o] = None /\ o \notin asking

\* The request of o has saved an edit.
Saves(o) ==
  /\ edits < MaxEdits
  /\ edits' = edits + 1
  /\ asking' = asking \cup {o}

AskForDeploy(o) ==
  /\ o \in asking
  /\ asking' = asking \ {o}
  /\ owed' = TRUE
  /\ UNCHANGED <<topology, rows, tables, copy, crossed, rekeyed, edits, stage, draft, live>>

\* Mutant: only the header routes that send to a deleted backend go.
LostAlone(goneRules, goneRoutes) == goneRoutes

\* on_delete=CASCADE: with a rule go its header routes.
Lost(goneRules, goneRoutes) ==
  goneRoutes \cup {h \in Routes : route[h] # None /\ route[h].rule \in goneRules}

Cascade(goneRules, goneRoutes) ==
  /\ rule' = [r \in Rules |-> IF r \in goneRules THEN None ELSE rule[r]]
  /\ route' = [h \in Routes |->
                 IF h \in Lost(goneRules, goneRoutes) THEN None ELSE route[h]]
  /\ crossed' = crossed \ goneRules
  /\ rekeyed' = rekeyed \ goneRules

\* domain_create
CreateDomain(o, d) ==
  /\ Free(o) /\ Saves(o)
  /\ domain[d] = "none"
  /\ \E to \in Existing : domain' = [domain EXCEPT ![d] = to]
  /\ UNCHANGED <<backend, instances, rows, tables, copy, crossed, rekeyed, deploy>>

\* domain_update, of is_active.
UpdateDomain(o, d) ==
  /\ Free(o) /\ Saves(o)
  /\ domain[d] # "none"
  /\ \E to \in Existing \ {domain[d]} : domain' = [domain EXCEPT ![d] = to]
  /\ UNCHANGED <<backend, instances, rows, tables, copy, crossed, rekeyed, deploy>>

\* domain_delete
DeleteDomain(o, d) ==
  /\ Free(o) /\ Saves(o)
  /\ domain[d] # "none"
  /\ domain' = [domain EXCEPT ![d] = "none"]
  /\ Cascade({r \in Rules : rule[r] # None /\ rule[r].domain = d}, {})
  /\ UNCHANGED <<backend, instances, tables, copy, deploy>>

DomainViews(o) ==
  \E d \in Domains : CreateDomain(o, d) \/ UpdateDomain(o, d) \/ DeleteDomain(o, d)

\* backend_create
CreateBackend(o, b) ==
  /\ Free(o) /\ Saves(o)
  /\ backend[b] = "none"
  /\ \E to \in Existing : backend' = [backend EXCEPT ![b] = to]
  /\ UNCHANGED <<domain, instances, rows, tables, copy, crossed, rekeyed, deploy>>

\* backend_update, of is_active.
UpdateBackend(o, b) ==
  /\ Free(o) /\ Saves(o)
  /\ backend[b] # "none"
  /\ \E to \in Existing \ {backend[b]} : backend' = [backend EXCEPT ![b] = to]
  /\ UNCHANGED <<domain, instances, rows, tables, copy, crossed, rekeyed, deploy>>

\* backend_delete
DeleteBackend(o, b) ==
  /\ Free(o) /\ Saves(o)
  /\ backend[b] # "none"
  /\ backend' = [backend EXCEPT ![b] = "none"]
  /\ instances' = [instances EXCEPT ![b] = {}]
  /\ Cascade({r \in Rules : rule[r] # None /\ rule[r].backend = b},
             {h \in Routes : route[h] # None /\ route[h].backend = b})
  /\ UNCHANGED <<domain, tables, copy, deploy>>

BackendViews(o) ==
  \E b \in Backends : CreateBackend(o, b) \/ UpdateBackend(o, b) \/ DeleteBackend(o, b)

\* instance_add, or instance_update of is_active.
StartInstance(o, b, i) ==
  /\ Free(o) /\ Saves(o)
  /\ backend[b] # "none" /\ i \notin instances[b]
  /\ instances' = [instances EXCEPT ![b] = @ \cup {i}]
  /\ UNCHANGED <<domain, backend, rows, tables, copy, crossed, rekeyed, deploy>>

\* instance_delete, or instance_update of is_active.
StopInstance(o, b, i) ==
  /\ Free(o) /\ Saves(o)
  /\ i \in instances[b]
  /\ instances' = [instances EXCEPT ![b] = @ \ {i}]
  /\ UNCHANGED <<domain, backend, rows, tables, copy, crossed, rekeyed, deploy>>

InstanceViews(o) ==
  \E b \in Backends, i \in Instances : StartInstance(o, b, i) \/ StopInstance(o, b, i)

\* _guard_cache_safety
CacheSafe(row) == row.cached => row.bypass \/ row.allow

\* The tables at first are such as the endpoints leave them.
ASSUME SeedAssumption == \A s \in Seed :
  /\ \A r \in Rules : s.rule[r] # None =>
       /\ s.domain[s.rule[r].domain] # "none" /\ s.backend[s.rule[r].backend] # "none"
       /\ CacheSafe(s.rule[r])
  /\ \A h \in Routes : s.route[h] # None =>
       LET of == s.rule[s.route[h].rule]
       IN  /\ of # None /\ s.backend[s.route[h].backend] # "none"
           /\ of.cached => s.route[h].header \in of.keys

\* _normalise_cache_key_headers
Normalised(keys) == keys \cup {AcceptEncoding}

\* rule_create
Created(row) == [row EXCEPT !.keys = IF row.cached THEN Normalised(@) ELSE {}]

CreateRule(o, r, row) ==
  /\ Free(o) /\ Saves(o)
  /\ rule[r] = None
  /\ domain[row.domain] # "none" /\ backend[row.backend] # "none"
  /\ CacheSafe(row)
  /\ rule' = [rule EXCEPT ![r] = Created(row)]
  /\ UNCHANGED <<topology, route, tables, copy, crossed, rekeyed, deploy>>

\* A GET, PATCH or DELETE of a rule reads it (rule_get), and so does a POST of a header
\* route (header_route.rule).
ReadRule(o, r) ==
  /\ Free(o)
  /\ rule[r] # None
  /\ copy' = [copy EXCEPT ![o] = [rule |-> r, row |-> rule[r]]]
  /\ UNCHANGED <<topology, rows, tables, asking, crossed, rekeyed, edits, deploy>>

Overlay(row, data) == [f \in DOMAIN row |-> IF f \in DOMAIN data THEN data[f] ELSE row[f]]

\* Mutant: what the request does not give is taken to be the default.
GivenOnly(row, data) ==
  CacheSafe(Overlay([row EXCEPT !.cached = FALSE, !.bypass = TRUE, !.allow = FALSE], data))

\* The guard of rule_update looks at the row as it was read, with the data over it.
MayPatch(row, data) == CacheSafe(Overlay(row, data))

\* What the data give for a column.
Given(data, f) == IF f = "keys" THEN Normalised(data[f]) ELSE data[f]

\* model_update: only the fields the data changes in the row that was read are saved.
Saved(now, read, data) ==
  [f \in DOMAIN now |->
     IF f \in DOMAIN data /\ Given(data, f) # read[f] THEN Given(data, f) ELSE now[f]]

\* rule_update.  The row may have changed since it was read.
PatchRule(o, data) ==
  /\ copy[o] # None
  /\ LET r    == copy[o].rule
         read == copy[o].row
         new  == Saved(rule[r], read, data)
     IN  /\ rule[r] # None
         /\ MayPatch(read, data)
         /\ domain[new.domain] # "none" /\ backend[new.backend] # "none"
         /\ Saves(o)
         /\ rule' = [rule EXCEPT ![r] = new]
         /\ crossed' = IF rule[r] # read THEN crossed \cup {r} ELSE crossed
         /\ rekeyed' = IF DOMAIN data \cap {"cached", "keys"} = {} THEN rekeyed
                       ELSE rekeyed \cup {r}
  /\ copy' = [copy EXCEPT ![o] = None]
  /\ UNCHANGED <<topology, route, tables, deploy>>

\* rule_delete
DeleteRule(o) ==
  /\ copy[o] # None
  /\ rule[copy[o].rule] # None
  /\ Saves(o)
  /\ Cascade({copy[o].rule}, {})
  /\ copy' = [copy EXCEPT ![o] = None]
  /\ UNCHANGED <<topology, tables, deploy>>

\* A GET ends so, and a request that is refused: its data are unsafe or refer to
\* what is gone, or the rule itself is gone.
EndUnsaved(o) ==
  /\ copy[o] # None
  /\ copy' = [copy EXCEPT ![o] = None]
  /\ UNCHANGED <<topology, rows, tables, asking, crossed, rekeyed, edits, deploy>>

RuleViews(o) ==
  \/ \E r \in Rules : ReadRule(o, r) \/ \E row \in NewRules : CreateRule(o, r, row)
  \/ \E data \in Patches : PatchRule(o, data)
  \/ DeleteRule(o)
  \/ EndUnsaved(o)

Unique(h, row) == \A other \in Routes \ {h} :
  route[other] # None => \/ route[other].rule # row.rule
                         \/ route[other].header # row.header
                         \/ route[other].value # row.value

\* Mutant: the header is left out.
KeptAsRead(read, header) == Normalised(read.keys)

\* The rule of a new header route, if it cached when it was read, is given the header
\* among those of its key as they were read.
Keyed(read, header) == Normalised(read.keys \cup {header})

\* header_route_create: the row and the rule's key in one transaction.
CreateRoute(o, h, row) ==
  /\ copy[o] # None /\ copy[o].rule = row.rule
  /\ route[h] = None /\ Unique(h, row)
  /\ rule[row.rule] # None /\ backend[row.backend] # "none"
  /\ Saves(o)
  /\ route' = [route EXCEPT ![h] = row]
  /\ rule' = IF copy[o].row.cached
             THEN [rule EXCEPT ![row.rule].keys = Keyed(copy[o].row, row.header)]
             ELSE rule
  /\ rekeyed' = IF rule[row.rule] = copy[o].row THEN rekeyed ELSE rekeyed \cup {row.rule}
  /\ copy' = [copy EXCEPT ![o] = None]
  /\ UNCHANGED <<topology, tables, crossed, deploy>>

\* header_route_update: the rule's key is left as it is.
PatchRoute(o, h, row) ==
  /\ Free(o) /\ Saves(o)
  /\ route[h] # None /\ route[h] # row
  /\ row.rule = route[h].rule
  /\ Unique(h, row) /\ backend[row.backend] # "none"
  /\ route' = [route EXCEPT ![h] = row]
  /\ rekeyed' = IF row.header = route[h].header THEN rekeyed ELSE rekeyed \cup {row.rule}
  /\ UNCHANGED <<topology, rule, tables, copy, crossed, deploy>>

\* header_route_delete
DeleteRoute(o, h) ==
  /\ Free(o) /\ Saves(o)
  /\ route[h] # None
  /\ route' = [route EXCEPT ![h] = None]
  /\ UNCHANGED <<topology, rule, tables, copy, crossed, rekeyed, deploy>>

HeaderRouteViews(o) ==
  \E h \in Routes : \/ DeleteRoute(o, h)
                    \/ \E row \in RouteRows : CreateRoute(o, h, row) \/ PatchRoute(o, h, row)

\* protection_update, of enabled and of denylist_enabled.
UpdateProtection(o) ==
  /\ Free(o) /\ Saves(o)
  /\ \E needed \in SUBSET Tables : tables # needed /\ tables' = needed
  /\ UNCHANGED <<topology, rows, copy, crossed, rekeyed, deploy>>

\* address_block, of a first address, while the denylist is on.
BlockAddress(o) ==
  /\ Free(o) /\ Saves(o)
  /\ "blocklist" \notin tables
  /\ tables' = tables \cup {"blocklist"}
  /\ UNCHANGED <<topology, rows, copy, crossed, rekeyed, deploy>>

\* address_unblock, of the last one.
UnblockAddress(o) ==
  /\ Free(o) /\ Saves(o)
  /\ "blocklist" \in tables
  /\ tables' = tables \ {"blocklist"}
  /\ UNCHANGED <<topology, rows, copy, crossed, rekeyed, deploy>>

ProtectionViews(o) == UpdateProtection(o) \/ BlockAddress(o) \/ UnblockAddress(o)

\* The last block that was not for good runs out: nobody asks for a deploy.
BlockExpires ==
  /\ "blocklist" \in tables
  /\ tables' = tables \ {"blocklist"}
  /\ UNCHANGED <<topology, rows, requests, deploy>>

-----------------------------------------------------------------------------
(* The deploy.                                                             *)

Goto(from, to) == stage = from /\ stage' = to

Reads(field, value) == draft' = [draft EXCEPT ![field] = value]

Unread == UNCHANGED <<topology, rows, tables, requests, owed, live>>

\* Mutant: what is owed is settled as the deploy ends.
OwedUntilEnd(moment) == owed /\ moment # "end"

\* What is owed is settled as the deploy begins: a request made while it runs is
\* for the next one.
Owed(moment) == owed /\ moment # "begin"

\* The task begins (tasks.py); config_render reads the active domains.
Begin ==
  /\ Goto("idle", "staffed")
  /\ owed
  /\ owed' = Owed("begin")
  /\ Reads("sites", ActiveDomains)
  /\ UNCHANGED <<topology, rows, tables, requests, live>>

ReadStaffed ==
  /\ Goto("staffed", "rules")
  /\ Reads("staffed", StaffedBackends)
  /\ Unread

\* One query for the rules, their domains and backends.
ReadRules ==
  /\ Goto("rules", "routes")
  /\ Reads("rules", [r \in RenderedRules(draft.staffed) |->
                       [domain |-> rule[r].domain, backend |-> rule[r].backend]])
  /\ Unread

\* The header routes of those rules, with their backends.
ReadRoutes ==
  /\ Goto("routes", "maps")
  /\ Reads("routes", [r \in DOMAIN draft.rules |-> [h \in RenderedRoutes(r) |-> route[h]]])
  /\ Unread

\* A header-routed rule whose domain was not among those read.
Homeless == \E r \in DOMAIN draft.rules :
              DOMAIN draft.routes[r] # {} /\ draft.rules[r].domain \notin draft.sites

RenderMaps ==
  /\ Goto("maps", "upstreams")
  /\ ~Homeless
  /\ Reads("declares", tables)
  /\ Unread

\* domains[domain_id] raises, and with it the task.
RenderRaises ==
  /\ Goto("maps", "idle")
  /\ Homeless
  /\ draft' = EmptyDraft
  /\ Unread

RenderUpstreams ==
  /\ Goto("upstreams", "servers")
  /\ Reads("upstreams", StaffedBackends)
  /\ Unread

RenderServers ==
  /\ Goto("servers", "test")
  /\ Reads("refers", tables)
  /\ Unread

\* The rest of config_deploy: Nginx runs the configuration, if it accepts it.
Activate ==
  /\ Goto("test", "idle")
  /\ live' = IF Accepts(Config(draft)) THEN Config(draft) ELSE live
  /\ draft' = EmptyDraft
  /\ owed' = Owed("end")
  /\ UNCHANGED <<topology, rows, tables, requests>>

DeployStep ==
  \/ Begin \/ ReadStaffed \/ ReadRules \/ ReadRoutes \/ RenderMaps \/ RenderRaises
  \/ RenderUpstreams \/ RenderServers \/ Activate

EditStep(o) ==
  \/ DomainViews(o) \/ BackendViews(o) \/ InstanceViews(o)
  \/ RuleViews(o) \/ HeaderRouteViews(o) \/ ProtectionViews(o)

Next ==
  \/ \E o \in Operators : AskForDeploy(o) \/ EditStep(o)
  \/ BlockExpires
  \/ DeployStep

Spec == Init /\ [][Next]_vars

\* A request that has saved its edit goes on to ask for the deploy; a deploy that
\* is owed is begun and runs on.
FairSpec == Spec /\ WF_vars(DeployStep) /\ \A o \in Operators : WF_vars(AskForDeploy(o))

-----------------------------------------------------------------------------

\* A deploy whose several reads do not hold together, so that it raises or that
\* Nginx refuses what it rendered, is followed by another: an edit made under it
\* has asked, or is about to ask.  Only the rows themselves can keep clashing.
RefusedIsRetried ==
  \/ stage = "maps" /\ Homeless
  \/ stage = "test" /\ ~Accepts(Config(draft))
  => owed \/ asking # {} \/ Clashes(Config(Current))

\* Where the rows send a request for r's location that carries the header x: v.
Wanted(r, x, v) ==
  LET overrides == {h \in Routes : /\ route[h] # None
                                   /\ route[h] = [rule |-> r, backend |-> route[h].backend,
                                                  header |-> x, value |-> v, active |-> TRUE]
                                   /\ backend[route[h].backend] = "active"}
  IN  IF overrides = {} THEN rule[r].backend
      ELSE route[CHOOSE h \in overrides : TRUE].backend

\* The rule's header routes switch on one header, as a map can.
OneHeader(r) == \A h1, h2 \in RenderedRoutes(r) : route[h1].header = route[h2].header

\* What Nginx runs is what the rows say: the sites, the upstreams, the protection
\* (a block that has run out may linger), and where each request goes.
Served ==
  /\ live.sites = ActiveDomains
  /\ live.upstreams = StaffedBackends
  /\ tables \subseteq live.refers
  /\ live.refers \ tables \subseteq {"blocklist"}
  /\ DOMAIN live.passes = {r \in Rules : Deployable(r) /\ Staffed(rule[r].backend)}
  /\ \A r \in DOMAIN live.passes : OneHeader(r) =>
       \A x \in Headers, v \in Values : Sends(live, r, x, v) = Wanted(r, x, v)

Quiet == stage = "idle" /\ ~owed /\ asking = {}

\* When no deploy runs or is owed, Nginx runs what the rows say, whichever edits
\* were saved between the queries of the deploys before.
LiveIsCurrent == Quiet => Served \/ Clashes(Config(Current))

\* A cached rule without a bypass for signed-in users has been allowed, on every
\* path of edits; only two requests for the rule that overlapped can undo it.
UnsafeOnlyByOverlap ==
  \A r \in Rules : rule[r] # None /\ ~CacheSafe(rule[r]) => r \in crossed

\* A rule that caches has in its key each header that it switches on, unless its
\* caching or its key was edited after the header route was added, the route was
\* given another header, or another request saved the rule while the route was added.
KeyedUntilEdited ==
  \A h \in Routes :
    route[h] # None /\ rule[route[h].rule].cached
      => \/ route[h].header \in rule[route[h].rule].keys
         \/ route[h].rule \in rekeyed

\* However the edits and the deploys interleaved, once the edits end Nginx comes to
\* run what the rows say and stays with it.
Settles == <>[](Served \/ Clashes(Config(Current)))

=============================================================================
