----------------------------- MODULE MCRouting -----------------------------
(***************************************************************************)
(* A small instance of Routing: one domain with one rule, three backends   *)
(* two of which share an upstream name, two header routes and two edits by *)
(* two requests.                                                           *)
(***************************************************************************)
EXTENDS Routing, TLC

CONSTANTS d, b1, b2, b3, r1, h1, h2, i, v, o1, o2

OneDomain == {d}

ThreeBackends == {b1, b2, b3}

OneRule == {r1}

TwoRoutes == {h1, h2}

OneInstance == {i}

TwoHeaders == {1, 2}

OneValue == {v}

TwoOperators == {o1, o2}

\* The names of b1 and b3 differ only in a dot and a hyphen.
SharedName == b1 :> "upstream_b1" @@ b2 :> "upstream_b2" @@ b3 :> "upstream_b1"

Plain == [domain |-> d, backend |-> b1, active |-> TRUE,
          cached |-> FALSE, bypass |-> TRUE, allow |-> FALSE, keys |-> {}]

Cached == [Plain EXCEPT !.cached = TRUE, !.keys = {AcceptEncoding}]

HeaderKeyed == [Cached EXCEPT !.keys = {AcceptEncoding, 1}]

Allowed == [Cached EXCEPT !.bypass = FALSE, !.allow = TRUE]

Seeded(row, routes) ==
  [domain |-> d :> "active",
   backend |-> [b \in Backends |-> IF b \in {b1, b2} THEN "active" ELSE "none"],
   instances |-> [b \in Backends |-> IF b \in {b1, b2} THEN {i} ELSE {}],
   rule |-> r1 :> row,
   route |-> [h \in Routes |-> IF h \in DOMAIN routes THEN routes[h] ELSE None]]

ToB2 == [rule |-> r1, backend |-> b2, header |-> 1, value |-> v, active |-> TRUE]

\* A site with nothing but its rule, and one whose rule has a header route.
SmallSites == {Seeded(Plain, << >>), Seeded(HeaderKeyed, h1 :> ToB2)}

NewAny == {Plain, Cached, Allowed, [Plain EXCEPT !.cached = TRUE, !.bypass = FALSE]}

CacheEdits == {[cached |-> TRUE], [bypass |-> FALSE], [allow |-> TRUE], [allow |-> FALSE],
               [bypass |-> FALSE, allow |-> TRUE, cached |-> TRUE],
               [keys |-> {}], [backend |-> b2], [active |-> FALSE]}

=============================================================================
