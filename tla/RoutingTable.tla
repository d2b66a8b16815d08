----------------------------- MODULE RoutingTable ----------------------------
(****************************************************************************)
(* A node's routing table and the choice of a route from it.  An address is *)
(* a sequence of bits, as long as the network's addresses are.  A table is  *)
(* the sequence of its routes:                                              *)
(*   route: [dest, mask, gateway, source, ad, metric]                       *)
(* gateway is None for a route to a directly connected network.             *)
(****************************************************************************)
EXTENDS Naturals, SequencesExt

CONSTANT None   \* no route, no gateway

\* The network part of an address, as an address.
ApplyMask(addr, mask) == [i \in DOMAIN addr |-> IF i <= mask THEN addr[i] ELSE 0]

Masked(route) == [route EXCEPT !.dest = ApplyMask(@, route.mask)]

Address(width) == [1 .. width -> {0, 1}]

L3Route(width) ==
  [dest : Address(width), mask : 0 .. width, gateway : Address(width) \cup {None},
   source : {"connected", "static", "rip"}, ad : Nat, metric : Nat]

SameKey(r, s) == r.dest = s.dest /\ r.mask = s.mask /\ r.source = s.source

\* The place of the first route with the key of route.
Place(routes, route) ==
  CHOOSE i \in DOMAIN routes :
    SameKey(routes[i], route) /\ \A j \in DOMAIN routes : SameKey(routes[j], route) => i <= j

Listed(routes, route) == \E i \in DOMAIN routes : SameKey(routes[i], route)

\* AddRouteWithParams: replace the route of the same source, or append.
AddRoute(routes, route) ==
  IF Listed(routes, Masked(route))
  THEN [routes EXCEPT ![Place(routes, Masked(route))] = Masked(route)]
  ELSE Append(routes, Masked(route))

\* DeleteRouteFromSource: the last route takes the place of the deleted one.
DeleteRoute(routes, route) ==
  IF Listed(routes, Masked(route))
  THEN Front([routes EXCEPT ![Place(routes, Masked(route))] = Last(routes)])
  ELSE routes

\* One edit of a table, and the table that edits make: configuration adds
\* routes, RIP adds and deletes them.
Edit(width) == [add : BOOLEAN, route : L3Route(width)]

Edited(routes, e) == IF e.add THEN AddRoute(routes, e.route) ELSE DeleteRoute(routes, e.route)

Table(steps) ==
  LET table[i \in 0 .. Len(steps)] ==
        IF i = 0 THEN << >> ELSE Edited(table[i - 1], steps[i])
  IN  table[Len(steps)]

\* What a table made by edits should hold: of the routes with one key the last
\* one added, unless it was deleted after that.
Configured(steps) ==
  {Masked(steps[i].route) : i \in {j \in DOMAIN steps :
     /\ steps[j].add
     /\ \A k \in j + 1 .. Len(steps) : ~SameKey(Masked(steps[j].route), Masked(steps[k].route))}}

Matches(route, dst) == ApplyMask(dst, route.mask) = route.dest

\* Route r is chosen over s: longer prefix, then administrative distance, then
\* metric.
DistanceFirst(r, s) ==   \* faulty variant: the source comes before the prefix
  \/ r.ad < s.ad
  \/ r.ad = s.ad /\ r.mask > s.mask
  \/ r.ad = s.ad /\ r.mask = s.mask /\ r.metric < s.metric

Preferred(r, s) ==
  \/ r.mask > s.mask
  \/ r.mask = s.mask /\ r.ad < s.ad
  \/ r.mask = s.mask /\ r.ad = s.ad /\ r.metric < s.metric

\* LookupLPM: one pass over the table.
Chosen(best, route, dst) ==
  IF Matches(route, dst) /\ (best = None \/ Preferred(route, best)) THEN route ELSE best

LookupLPM(routes, dst) ==
  LET best[i \in 0 .. Len(routes)] ==
        IF i = 0 THEN None ELSE Chosen(best[i - 1], routes[i], dst)
  IN  best[Len(routes)]
==============================================================================
