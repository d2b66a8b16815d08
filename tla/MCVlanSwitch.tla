---------------------------- MODULE MCVlanSwitch -----------------------------
(* Two switches with two trunks between them, of which the tree uses one.   *)
(* Switch core routes between VLANs 10 and 20 and has station x (VLAN 10);  *)
(* switch edge has y (VLAN 20) and z (VLAN 10), and y is a way to "net".    *)
EXTENDS VlanSwitch

CONSTANTS core, edge, x, y, z, cx, ct, cu, et, eu, ey, ez

MCOwner == [p \in Port |-> IF p \in {cx, ct, cu} THEN core ELSE edge]

MCFar == cx :> x @@ ct :> et @@ cu :> eu @@ et :> ct @@ eu :> cu @@ ey :> y @@ ez :> z

MCMode == [p \in Port |-> IF p \in {cx, ey, ez} THEN "access" ELSE "trunk"]

MCPortVlan == [p \in Port |-> IF p = ey THEN 20 ELSE 10]

MCAllowedVlans == [p \in Port |-> {10, 20}]

\* Names of one length, and names of which one begins with another.
EvenNames == cx :> <<"0">> @@ ct :> <<"1">> @@ cu :> <<"2">>
             @@ et :> <<"1">> @@ eu :> <<"2">> @@ ey :> <<"3">> @@ ez :> <<"4">>

UnevenNames == [EvenNames EXCEPT ![ct] = <<"1", "0">>, ![cu] = <<"1">>]

MCHostVlan == [s \in Station |-> IF s = y THEN 20 ELSE 10]

MCSvi == core :> {10, 20} @@ edge :> {}

MCVia == [s \in Station |-> s] @@ ("net" :> y)

MCGatewayMac == x :> {cx} @@ y :> {ct, cu} @@ z :> {ct}

Packet(kind, from, to, ttl) == [kind |-> kind, from |-> from, to |-> to, ttl |-> ttl]

\* Within VLAN 10 across the trunk; from VLAN 10 to 20 and back out of the same
\* trunk; to the remote network; from each VLAN one that dies at the router; one
\* that asks for the gateway; from VLAN 20 to 10.
Kinds ==
  {Packet("ip", z, x, 2), Packet("ip", z, y, 2), Packet("ip", x, "net", 2),
   Packet("ip", x, y, 1), Packet("ip", y, x, 1), Packet("request", y, <<core, 20>>, 0), Packet("ip", y, x, 2)}

Pairs == {<<a, b>> : a, b \in Kinds}

\* From y, whose VLAN is tagged on the trunk, one that dies at the router.
TaggedLoad == {<<Packet("request", y, <<core, 20>>, 0), Packet("ip", y, x, 1)>>}

\* What lies beyond each port when edge uses u, one of its ends of the two trunks.
MCBeyond(u) ==
  LET behindEdge == {edge, y, z}  behindCore == {core, x}
      all == behindEdge \cup behindCore IN
  [e \in Port \cup Station |->
     CASE e \in Station -> {e}
       [] e = u -> behindEdge
       [] e \in Spare \ {u} -> {}
       [] e = MCFar[u] -> behindCore
       [] OTHER -> all \ {MCFar[e]}]

\* The network is one for which VLANs are apart, and without a loop.
ASSUME MCConfigured ==
  /\ Configured /\ OneRouter
  /\ \A u \in Spare : Separates(MCBeyond(u), (Port \ Spare) \cup {u})

\* Two packets of one station, between which the tree may change.
MovingLoad == {<<Packet("ip", z, x, 2), Packet("ip", z, x, 2)>>}
==============================================================================
