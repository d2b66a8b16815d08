----------------------------- MODULE VlanSwitch ------------------------------
(****************************************************************************)
(* The switching path: learning, forwarding and flooding within VLANs, tags *)
(* on trunks, and routing between VLANs on a switch with VLAN interfaces    *)
(* (SVIs), which resolves its next hops with ARP.                           *)
(*                                                                          *)
(* Ports and stations are identified with their MAC addresses, stations     *)
(* also with their IP addresses.  A frame in flight waits at the end it     *)
(* will arrive at; a switch handles one frame at a time, together with      *)
(* everything that the handler sends.  Stations have resolved the addresses *)
(* they send to, and send no IP packet to an address of a switch itself.    *)
(*                                                                          *)
(*   frame: [kind, src, dst, tag, from, to, ttl, id, vlan, hops]            *)
(*          kind is "ip", "error" (ICMP), "request" or "reply" (ARP); a tag *)
(*          of 0 means untagged; id, vlan and hops are not in the frame but *)
(*          say which packet it carries, to which VLAN it belongs and how   *)
(*          many switches relayed it                                        *)
(****************************************************************************)
EXTENDS MacTable, FiniteSets, SequencesExt, TLC

CONSTANTS Switch,         \* switches
          Station,        \* hosts, each on an access port
          Port,           \* the switches' ports
          Owner,          \* Owner[p]: the switch of port p
          Far,            \* Far[p]: the port or station at the other end
          Mode,           \* Mode[p]: "access" or "trunk"
          PortVlan,       \* PortVlan[p]: the access VLAN, or the native VLAN
          AllowedVlans,   \* AllowedVlans[p]: the VLANs of a trunk
          Name,           \* Name[p]: the port's name, a sequence of characters
          HostVlan,       \* HostVlan[s]: the VLAN of a station
          Svi,            \* Svi[w]: the VLANs in which switch w routes
          Via,            \* Via[a]: the station that address a is reached by
          GatewayMac,     \* GatewayMac[s]: what s may have resolved its gateway to
          Workloads,      \* the sequences of packets that may be sent: [kind, from, to, ttl]
          Spare,          \* ports the spanning tree can exchange for each other
          MaxAttempts,    \* ARP_REQUEST_MAX_ATTEMPTS
          MaxChanges,     \* bound on changes of the tree
          MaxTicks,       \* bound on the passing of time
          None, Broadcast

VARIABLES wire,        \* wire[e]: frames that will arrive at port or station e
          mac,         \* mac[w]: the MAC table of switch w
          arp,         \* arp[w][s]: what switch w knows of next hop s
          state,       \* state[p]: the spanning tree state of port p
          changes, ticks,
          load,        \* the packets of this behaviour; packet i is load[i]
          sent,        \* how many of them were sent
          received,    \* received[i]: how often packet i reached its station
          reported,    \* packets whose sender got an ICMP error
          excused,     \* packets of which the tree or ARP discarded a copy
          heard        \* heard[w]: where and how long ago an address was heard

vars == <<wire, mac, arp, state, changes, ticks, load, sent, received, reported, excused, heard>>

Packets == DOMAIN load
Ports(w) == {p \in Port : Owner[p] = w}
Unknown == [at |-> None, waiting |-> << >>, asked |-> 0, by |-> None]

ASSUME SwitchAssumption ==
  /\ \A p \in Port : Far[p] \in Port => Far[Far[p]] = p
  /\ \A p, q \in Port : Owner[p] = Owner[q] /\ Name[p] = Name[q] => p = q
  /\ Spare \subseteq Port /\ MaxAttempts \in Nat \ {0}
  /\ IsFiniteSet(Port) /\ IsFiniteSet(Switch)
  /\ Port \cap Station = {} /\ None \notin Port \cup Station
  /\ Owner \in [Port -> Switch] /\ Far \in [Port -> Port \cup Station]
  /\ \A s \in Station : \E p \in Port : Far[p] = s
  /\ \A p \in Port : Mode[p] \in {"access", "trunk"}
  /\ PortVlan \in [Port -> Nat] /\ HostVlan \in [Station -> Nat]
  /\ \A p \in Port : AllowedVlans[p] \subseteq Nat
  /\ \A w \in Switch : Svi[w] \subseteq Nat
  /\ Station \subseteq DOMAIN Via /\ \A a \in DOMAIN Via : Via[a] \in Station
  /\ \A s \in Station : Via[s] = s /\ s \notin Switch \X Nat /\ GatewayMac[s] \subseteq Port
  /\ Broadcast \notin Port \cup Station /\ None \notin Nat
  /\ \A packets \in Workloads :
       /\ packets \in Seq([kind : {"ip", "request"}, from : Station,
                           to : DOMAIN Via \cup (Switch \X Nat), ttl : Nat])
       /\ \A i \in 1..Len(packets) :
            packets[i].kind = "ip" => packets[i].to \in DOMAIN Via /\ packets[i].ttl > 0

\* One of the exchangeable ports is in use; the tree holds the others down.
Init ==
  /\ wire = [e \in Port \cup Station |-> << >>]
  /\ mac = [w \in Switch |-> EmptyTable]
  /\ arp = [w \in Switch |-> [s \in Station |-> Unknown]]
  /\ \E used \in Spare :
       state = [p \in Port |-> IF p \in Spare \ {used} THEN "blocking" ELSE "forwarding"]
  /\ changes = 0 /\ ticks = 0
  /\ load \in Workloads
  /\ sent = 0 /\ reported = {} /\ excused = {}
  /\ received = [i \in Packets |-> 0]
  /\ heard = [w \in Switch |-> << >>]

Quiet == \A e \in Port \cup Station : wire[e] = << >>

\* send_frame, for each element [port, frame] of out in turn.
Transmit(wires, out) ==
  [e \in DOMAIN wires |->
    wires[e] \o FlattenSeq([i \in DOMAIN out |->
                  IF Far[out[i].port] = e THEN <<out[i].frame>> ELSE << >>])]

Sending(p, frame) == [port |-> p, frame |-> frame]

------------------------------------------------------------------------------
(* VLAN membership and tags (interface.go, l2_vlan.go).                      *)

CanForward(p) == state[p] = "forwarding"
CanLearn(p) == state[p] \in {"learning", "forwarding"}

AnyVlan(p, vlan) == TRUE   \* faulty variant: membership is not checked

IsVLANAllowed(p, vlan) ==
  IF Mode[p] = "access" THEN vlan = PortVlan[p] ELSE vlan \in AllowedVlans[p]

\* determine_frame_vlan: 0, which no port allows, for a tagged frame on an
\* access port.
FrameVlan(p, frame) ==
  CASE Mode[p] = "access" -> IF frame.tag = 0 THEN PortVlan[p] ELSE 0
    [] Mode[p] = "trunk" -> IF frame.tag = 0 THEN PortVlan[p] ELSE frame.tag

\* Faulty variant: no trunk gets a tag.
Untagged(p, frame, vlan) == [frame EXCEPT !.tag = 0, !.hops = @ + 1]

\* prepare_frame_for_interface.
Prepared(p, frame, vlan) ==
  [frame EXCEPT !.tag = IF Mode[p] = "trunk" /\ vlan # PortVlan[p] THEN vlan ELSE 0,
                !.hops = @ + 1]

------------------------------------------------------------------------------
(* Forwarding and flooding.  Each operator yields what the switch sends.     *)

\* The ports that l2_switch_flood_frame_vlan sends a frame to.
FloodsBlocked(p, vlan) ==   \* faulty variant: ignores the spanning tree
  {q \in Ports(Owner[p]) \ {p} : IsVLANAllowed(q, vlan)}

FloodPorts(p, vlan) ==
  {q \in Ports(Owner[p]) \ {p} : CanForward(q) /\ IsVLANAllowed(q, vlan)}

Flood(p, frame, vlan) ==
  LET ports == SetToSeq(FloodPorts(p, vlan))
  IN [i \in DOMAIN ports |-> Sending(ports[i], Prepared(ports[i], frame, vlan))]

\* l2_switch_forward_frame_vlan.  A routed frame may leave where it came in.
MayLeave(p, q, routed) == q # p   \* faulty variant: a routed frame may not

MayReturn(p, q, routed) == q # p \/ routed

Forward(table, p, frame, vlan, routed) ==
  LET name == Lookup(table, frame.dst, vlan)
      named == {q \in Ports(Owner[p]) : Name[q] = name} IN
  IF frame.dst = Broadcast \/ name = << >> THEN Flood(p, frame, vlan)
  ELSE SetToSeq({Sending(q, Prepared(q, frame, vlan)) :
                   q \in {r \in named : MayReturn(p, r, routed) /\ CanForward(r)
                                        /\ IsVLANAllowed(r, vlan)}})

Split == \A q \in Spare : ~CanForward(q)

\* The tree is the reason that a frame may not arrive: it holds the known port
\* down, or it is in pieces while the frame is flooded.
Withheld(table, p, frame, vlan) ==
  LET name == Lookup(table, frame.dst, vlan) IN
  IF name # << >> THEN \E q \in Ports(Owner[p]) : Name[q] = name /\ ~CanForward(q)
  ELSE Split

\* The stations that port p leads to.
Beyond(p) ==
  LET ends[n \in 0..Cardinality(Switch)] ==
        IF n = 0 THEN {Far[p]}
        ELSE ends[n - 1] \cup {Far[q] : q \in {r \in Port : CanForward(r) /\
               \E e \in ends[n - 1] \cap Port : CanForward(e) /\ r \in Ports(Owner[e]) \ {e}}}
  IN ends[Cardinality(Switch)] \cap Station

\* A routed frame is lost although the tree is whole: the table does not know its
\* next hop, so it is flooded like any other frame, everywhere except to where it
\* came from, and that is where the next hop is.
TurnsBack(table, p, frame, vlan) ==
  Lookup(table, frame.dst, vlan) = << >> /\ frame.dst \in Beyond(p)

RoutedLost(table, p, frame) ==
  Withheld(table, p, frame, frame.vlan) \/ TurnsBack(table, p, frame, frame.vlan)

------------------------------------------------------------------------------
(* Routing between VLANs.  A packet that waits for a next hop's MAC is       *)
(* [frame, port]: a routed frame with the port it came in on, or a report    *)
(* that goes out by the port the answer comes in on (port is None).          *)

\* should_route_between_vlans: the destination is in the subnet of another VLAN
\* of this switch, or it is remote and the frame was sent to this switch.
ShouldRoute(w, frame, vlan) ==
  \/ frame.to \in Station /\ HostVlan[frame.to] \in Svi[w] \ {vlan}
  \/ /\ frame.to \in DOMAIN Via /\ vlan \in Svi[w]
     /\ frame.dst \in Ports(w) /\ HostVlan[Via[frame.to]] \in Svi[w]

\* build_routed_frame and vlan_source_mac: the packet in a new, untagged frame
\* for the VLAN of the next hop (svi_egress_vlan), its TTL one less.
Routed(w, frame, table) ==
  LET hop == Via[frame.to]
      vlan == HostVlan[hop]
      egress == {q \in Ports(w) : Name[q] = Lookup(table, arp[w][hop].at, vlan)}
      source == IF egress # {} THEN egress ELSE {q \in Ports(w) : IsVLANAllowed(q, vlan)}
  IN [frame EXCEPT !.src = CHOOSE q \in source : TRUE, !.dst = arp[w][hop].at,
                   !.tag = 0, !.ttl = @ - 1, !.vlan = vlan]

Request(q, from, target, vlan) ==
  [kind |-> "request", src |-> q, dst |-> Broadcast, tag |-> 0, from |-> from,
   to |-> target, ttl |-> 0, id |-> None, vlan |-> vlan, hops |-> 0]

\* send_vlan_arp_request: a request on every port of the next hop's VLAN.
AskVlan(w, hop) ==
  LET vlan == HostVlan[hop]
      ports == SetToSeq({q \in Ports(w) : IsVLANAllowed(q, vlan) /\ CanForward(q)})
  IN [i \in DOMAIN ports |->
        Sending(ports[i], Prepared(ports[i], Request(ports[i], <<w, vlan>>, hop, vlan), vlan))]

\* send_arp_broadcast_request, from a port that has no address of its own.
AskPort(p, hop) == <<Sending(p, Request(p, None, hop, HostVlan[hop]))>>

Ask(w, hop, by) == IF by = None THEN AskVlan(w, hop) ELSE AskPort(by, hop)

\* A report goes out untagged, whatever VLAN it is about.
Mistagged(p, vlan) == Mode[p] = "trunk" /\ vlan # PortVlan[p]

\* The report of a packet whose TTL ran out on its way in by port p.
Report(p, frame, vlan) ==
  [kind |-> "error", src |-> p, dst |-> arp[Owner[p]][frame.from].at, tag |-> 0,
   from |-> <<Owner[p], vlan>>, to |-> frame.from, ttl |-> 64, id |-> frame.id,
   vlan |-> vlan, hops |-> 0]

\* The packets that arp_learn_binding releases when hop answers on port p.
Releasing(table, w, p, hop) ==
  FlattenSeq([i \in DOMAIN arp[w][hop].waiting |->
    LET e == arp[w][hop].waiting[i]
        frame == [e.frame EXCEPT !.dst = hop, !.src = p]
    IN IF e.port = None THEN <<Sending(p, frame)>>
       ELSE Forward(table, e.port, frame, frame.vlan, TRUE)])

------------------------------------------------------------------------------
(* l2_switch_recv_frame, for the frame that arrived first at port p.         *)

Arrived(p) == Head(wire[p])
VlanOf(p) == FrameVlan(p, Arrived(p))
Taken(p) == [wire EXCEPT ![p] = Tail(@)]
Excuse(b, ids) == excused' = IF b THEN excused \cup (ids \ {None}) ELSE excused

\* l2_switch_perform_mac_learning_vlan: the table once p's frame was learned.
Learned(p) == AddOrUpdate(mac[Owner[p]], Arrived(p).src, VlanOf(p), Name[p])

\* An ear that heard address and VLAN k on port p.
Noted(ear, k, p) ==
  [j \in DOMAIN ear \cup {k} |-> IF j = k THEN [port |-> p, silent |-> 0] ELSE ear[j]]

Learn(p) ==
  /\ mac' = [mac EXCEPT ![Owner[p]] = Learned(p)]
  /\ heard' = [heard EXCEPT ![Owner[p]] = Noted(@, <<Arrived(p).src, VlanOf(p)>>, p)]

Counters == <<changes, ticks, load, sent>>

\* The port is not learning, or it does not carry the frame's VLAN.
Discard(p) ==
  /\ wire[p] # << >>
  /\ ~CanLearn(p) \/ ~IsVLANAllowed(p, VlanOf(p))
  /\ wire' = Taken(p)
  /\ Excuse(~CanLearn(p), {Arrived(p).id})
  /\ UNCHANGED <<mac, arp, state, received, reported, heard, Counters>>

Admitted(p) == wire[p] # << >> /\ CanLearn(p) /\ IsVLANAllowed(p, VlanOf(p))

LearnOnly(p) ==
  /\ Admitted(p) /\ ~CanForward(p)
  /\ Learn(p)
  /\ wire' = Taken(p)
  /\ Excuse(TRUE, {Arrived(p).id})
  /\ UNCHANGED <<arp, state, received, reported, Counters>>

\* A frame that is switched: ARP that is not for this switch, or an IP packet
\* that is not to be routed.
SwitchFrame(p) ==
  LET w == Owner[p]  frame == Arrived(p)  vlan == VlanOf(p) IN
  /\ Admitted(p) /\ CanForward(p)
  /\ \/ frame.kind = "reply" /\ frame.dst \notin Ports(w)
     \/ frame.kind \in {"ip", "error"} /\ ~ShouldRoute(w, frame, vlan)
  /\ Learn(p)
  /\ wire' = Transmit(Taken(p), Forward(Learned(p), p, frame, vlan, FALSE))
  /\ Excuse(Withheld(Learned(p), p, frame, vlan), {frame.id})
  /\ UNCHANGED <<arp, state, received, reported, Counters>>

\* An ARP request is handled here and flooded; a reply to one of this switch's
\* ports is handled here.  The sender's binding is learned, unless it is new and
\* the request is not for this switch.  (All requests are broadcast and all
\* replies are not: no code sends others.)
ReceiveARP(p) ==
  LET w == Owner[p]  frame == Arrived(p)  vlan == VlanOf(p)
      forUs == frame.kind = "reply" \/ \E v \in Svi[w] : frame.to = <<w, v>>
      merge == frame.from \in Station /\ (forUs \/ arp[w][frame.from] # Unknown)
      held == IF merge THEN ToSet(arp[w][frame.from].waiting) ELSE {}
      released == IF merge THEN Releasing(Learned(p), w, p, frame.from) ELSE << >>
      answer == IF frame.kind = "request" /\ forUs
                THEN <<Sending(p, Prepared(p, [frame EXCEPT !.kind = "reply", !.src = p,
                                 !.dst = frame.src, !.from = frame.to, !.to = frame.from,
                                 !.tag = 0, !.hops = 0], frame.to[2]))>>
                ELSE << >>
      flooded == IF frame.kind = "request" THEN Flood(p, frame, vlan) ELSE << >> IN
  /\ Admitted(p) /\ CanForward(p)
  /\ frame.kind = "request" \/ (frame.kind = "reply" /\ frame.dst \in Ports(w))
  /\ Learn(p)
  /\ arp' = IF merge THEN [arp EXCEPT ![w][frame.from] = [Unknown EXCEPT !.at = frame.src]]
            ELSE arp
  /\ wire' = Transmit(Taken(p), released \o answer \o flooded)
  /\ Excuse(TRUE, {e.frame.id : e \in {h \in held : h.port # None /\
                      RoutedLost(Learned(p), h.port, [h.frame EXCEPT !.dst = frame.from])}}
                  \cup IF frame.kind = "request" /\ Split THEN {frame.id} ELSE {})
  /\ UNCHANGED <<state, received, reported, Counters>>

\* arp_table_resolve_or_queue for a packet that goes to hop: send it if the MAC
\* is known, else queue it, and ask if it is the first.
ResolveOrQueue(p, hop, entry, by, out) ==
  LET w == Owner[p]  known == arp[w][hop] IN
  \/ /\ known.at # None
     /\ wire' = Transmit(Taken(p), out)
     /\ UNCHANGED arp
  \/ /\ known.at = None
     /\ arp' = [arp EXCEPT ![w][hop] =
                  IF known = Unknown
                  THEN [at |-> None, waiting |-> <<entry>>, asked |-> 1, by |-> by]
                  ELSE [known EXCEPT !.waiting = <<entry>> \o @]]
     /\ wire' = IF known = Unknown THEN Transmit(Taken(p), Ask(w, hop, by)) ELSE Taken(p)

\* route_between_vlans.
NoTtl(frame) == frame.ttl = 0   \* faulty variant: forwards with a TTL of zero

Expires(frame) == frame.ttl <= 1

RouteFrame(p) ==
  LET w == Owner[p]  frame == Arrived(p)  vlan == VlanOf(p)
      hop == Via[frame.to]
      routed == Routed(w, frame, Learned(p))
      report == Report(p, frame, vlan) IN
  /\ Admitted(p) /\ CanForward(p)
  /\ frame.kind \in {"ip", "error"} /\ ShouldRoute(w, frame, vlan)
  /\ Learn(p)
  /\ \/ /\ ~Expires(frame)
        /\ ResolveOrQueue(p, hop, [frame |-> routed, port |-> p], None,
             Forward(Learned(p), p, routed, routed.vlan, TRUE))
        /\ Excuse(arp[w][hop].at # None /\ RoutedLost(Learned(p), p, routed), {frame.id})
     \/ /\ Expires(frame) /\ frame.kind = "ip" /\ vlan \in Svi[w]
        /\ ResolveOrQueue(p, frame.from, [frame |-> report, port |-> None], p,
             <<Sending(p, report)>>)
        /\ Excuse(Mistagged(p, vlan), {frame.id})
     \/ /\ Expires(frame) /\ (frame.kind = "error" \/ vlan \notin Svi[w])
        /\ wire' = Taken(p)
        /\ UNCHANGED <<arp, excused>>
  /\ UNCHANGED <<state, received, reported, Counters>>

------------------------------------------------------------------------------
(* Stations, the ARP maintenance goroutine, the spanning tree and time.      *)

PortOf(s) == CHOOSE p \in Port : Far[p] = s

\* A station hands a packet down: to its neighbour, to its gateway, or to
\* everyone if it asks for its gateway's MAC.
Send ==
  LET t == load[sent + 1] IN
  /\ sent < Len(load)
  /\ \E dst \in CASE t.kind = "request" -> {Broadcast}
                  [] t.kind = "ip" /\ t.to \in Station /\ HostVlan[t.to] = HostVlan[t.from]
                       -> {t.to}
                  [] OTHER -> GatewayMac[t.from] :
       wire' = [wire EXCEPT ![PortOf(t.from)] =
                  Append(@, [kind |-> t.kind, src |-> t.from, dst |-> dst, tag |-> 0,
                             from |-> t.from, to |-> t.to, ttl |-> t.ttl, id |-> sent + 1,
                             vlan |-> HostVlan[t.from], hops |-> 0])]
  /\ sent' = sent + 1
  /\ UNCHANGED <<mac, arp, state, changes, ticks, load, received, reported, excused, heard>>

\* layer_2_frame_recv on a station.  It accepts its own address and broadcasts
\* and answers requests for its address.
StationReceive(s) ==
  LET frame == Head(wire[s])
      mine == frame.dst = s
      answer == [frame EXCEPT !.kind = "reply", !.src = s, !.dst = frame.src,
                              !.tag = 0, !.from = s, !.to = frame.from, !.hops = 0]
      rest == [wire EXCEPT ![s] = Tail(@)]
      counted == mine /\ frame.kind \in {"ip", "reply"} /\ frame.id # None IN
  /\ wire[s] # << >>
  /\ wire' = IF frame.kind = "request" /\ frame.to = s
             THEN [rest EXCEPT ![PortOf(s)] = Append(@, answer)] ELSE rest
  /\ received' = IF counted /\ received[frame.id] < 2
                 THEN [received EXCEPT ![frame.id] = @ + 1] ELSE received
  /\ reported' = IF mine /\ frame.kind = "error" THEN reported \cup {frame.id} ELSE reported
  /\ UNCHANGED <<mac, arp, state, excused, heard, Counters>>

\* maintain_arp_pending_entries.  A frame takes much less time than the interval
\* between requests, so the goroutine finds the network quiet.
Retry(w, s) ==
  /\ Quiet
  /\ arp[w][s].waiting # << >> /\ arp[w][s].asked < MaxAttempts
  /\ arp' = [arp EXCEPT ![w][s].asked = @ + 1]
  /\ wire' = Transmit(wire, Ask(w, s, arp[w][s].by))
  /\ UNCHANGED <<mac, state, received, reported, excused, heard, Counters>>

GiveUp(w, s) ==
  /\ Quiet
  /\ arp[w][s].waiting # << >> /\ arp[w][s].asked = MaxAttempts
  /\ arp' = [arp EXCEPT ![w][s] = Unknown]
  /\ Excuse(TRUE, {e.frame.id : e \in ToSet(arp[w][s].waiting)})
  /\ UNCHANGED <<wire, mac, state, received, reported, heard, Counters>>

\* The tree moves from port p to port q, which listens and learns before it
\* forwards, for longer than a frame is in flight.
Reconverge(p, q) ==
  /\ changes < MaxChanges
  /\ state[p] = "forwarding" /\ state[q] = "blocking" /\ state[Far[q]] = "forwarding"
  /\ state' = [state EXCEPT ![p] = "blocking", ![q] = "listening"]
  /\ mac' = [mac EXCEPT ![Owner[p]] = FlushedFor(@, Name[p])]
  /\ heard' = [heard EXCEPT ![Owner[p]] = Restrict(@, DOMAIN mac'[Owner[p]])]
  /\ changes' = changes + 1
  /\ UNCHANGED <<wire, arp, ticks, load, sent, received, reported, excused>>

AdvancePort(q) ==
  /\ Quiet
  /\ \/ state[q] = "listening" /\ state' = [state EXCEPT ![q] = "learning"]
     \/ state[q] = "learning" /\ state' = [state EXCEPT ![q] = "forwarding"]
  /\ UNCHANGED <<wire, mac, arp, received, reported, excused, heard, Counters>>

\* SetLinkState: the link of p goes down, the tree is rebuilt over q and every
\* MAC table is flushed.  ARP tables keep their entries.  The
\* operation and the simulator's traffic exclude each other.
SetLinkState(p, q) ==
  /\ Quiet
  /\ changes < MaxChanges
  /\ state[p] = "forwarding" /\ state[q] = "blocking" /\ state[Far[q]] = "forwarding"
  /\ state' = [state EXCEPT ![p] = "blocking", ![Far[p]] = "blocking", ![q] = "forwarding"]
  /\ mac' = [w \in Switch |-> EmptyTable]
  /\ heard' = [w \in Switch |-> << >>]
  /\ changes' = changes + 1
  /\ UNCHANGED <<wire, arp, ticks, load, sent, received, reported, excused>>

\* Time passes, in which the frames in flight arrive.
Tick ==
  /\ Quiet /\ ticks < MaxTicks
  /\ ticks' = ticks + 1
  /\ mac' = [w \in Switch |-> Older(mac[w])]
  /\ heard' = [w \in Switch |-> [k \in DOMAIN heard[w] |->
                 [heard[w][k] EXCEPT !.silent = @ + 1]]]
  /\ UNCHANGED <<wire, arp, state, changes, load, sent, received, reported, excused>>

\* The cleanup goroutine of start_mac_table_cleanup.
Cleanup(w) ==
  /\ DOMAIN CleanedUp(mac[w]) # DOMAIN mac[w]
  /\ mac' = [mac EXCEPT ![w] = CleanedUp(@)]
  /\ heard' = [heard EXCEPT ![w] = Restrict(@, DOMAIN mac'[w])]
  /\ UNCHANGED <<wire, arp, state, received, reported, excused, Counters>>

\* Everything was sent and has arrived, and nothing is left to do.
Done ==
  /\ Quiet /\ sent = Len(load) /\ ticks = MaxTicks
  /\ \A w \in Switch, s \in Station : arp[w][s].waiting = << >>
  /\ UNCHANGED vars

Arrive(p) == Discard(p) \/ LearnOnly(p) \/ SwitchFrame(p) \/ ReceiveARP(p) \/ RouteFrame(p)

Next ==
  \/ \E p \in Port : Arrive(p)
  \/ \E s \in Station : StationReceive(s)
  \/ Send
  \/ \E w \in Switch, s \in Station : Retry(w, s) \/ GiveUp(w, s)
  \/ \E p, q \in Spare : Reconverge(p, q) \/ SetLinkState(p, q)
  \/ \E q \in Spare : AdvancePort(q)
  \/ Tick
  \/ \E w \in Switch : Cleanup(w)
  \/ Done

Spec == Init /\ [][Next]_vars

------------------------------------------------------------------------------
Frame ==
  [kind : {"ip", "error", "request", "reply"}, src : Port \cup Station,
   dst : Port \cup Station \cup {Broadcast}, tag : Nat, from : DOMAIN Via \cup (Switch \X Nat) \cup {None},
   to : DOMAIN Via \cup (Switch \X Nat) \cup {None}, ttl : Nat,
   id : (1..Len(load)) \cup {None}, vlan : Nat, hops : Nat]

\* What the variables hold; no packet is on the wire with its TTL used up
\* (route_between_vlans).
TypeOK ==
  /\ \A e \in Port \cup Station : \A i \in DOMAIN wire[e] :
       wire[e][i] \in Frame /\ (wire[e][i].kind = "ip" => wire[e][i].ttl > 0)
  /\ \A w \in Switch : \A k \in DOMAIN mac[w] :
       k \in (Port \cup Station) \X Nat /\ mac[w][k].age \in Nat
  /\ \A w \in Switch, s \in Station :
       /\ arp[w][s].at \in {s, None} /\ arp[w][s].asked \in 0..MaxAttempts
       /\ arp[w][s].at # None => arp[w][s].waiting = << >>
       /\ arp[w][s].asked = 0 <=> arp[w][s].waiting = << >>
  /\ state \in [Port -> {"blocking", "listening", "learning", "forwarding"}]
  /\ sent \in 0..Len(load) /\ reported \subseteq Packets /\ excused \subseteq Packets

\* No frame of one VLAN gets onto the wire of a station in another, whatever
\* trunks, tags and native VLANs it crosses (IsVLANAllowed,
\* determine_frame_vlan and prepare_frame_for_interface on every path out).
VlanIsolation ==
  \A s \in Station : \A i \in DOMAIN wire[s] : wire[s][i].vlan = HostVlan[s]

\* A report about a packet, or the ARP request for the address to report to:
\* they leave by a port without passing the switching path.
IsReport(frame) == frame.kind = "error" \/ (frame.kind = "request" /\ frame.from = None)

\* Whatever is routed, queued for ARP, flooded or answered while packets die at
\* routers, it is only reports that get onto the wire of a station in another VLAN
\* (report_inter_vlan_icmp_error beside prepare_frame_for_interface).
OnlyReportsLeave ==
  \A s \in Station : \A i \in DOMAIN wire[s] :
    wire[s][i].vlan = HostVlan[s] \/ IsReport(wire[s][i])

\* The configurations for which VLANs are apart: both ends of a link have the
\* same access or native VLAN, stations are on access ports of their VLAN, and
\* ask for gateways in their VLAN only.
Configured ==
  /\ \A p \in Port : PortVlan[p] # 0 /\ 0 \notin AllowedVlans[p]
  /\ \A p \in Port : IF Far[p] \in Port THEN PortVlan[Far[p]] = PortVlan[p]
                     ELSE Mode[p] = "access" /\ PortVlan[p] = HostVlan[Far[p]]
  /\ \A w \in Switch : \A v \in Svi[w] : <<w, v>> \notin Station
  /\ \A packets \in Workloads :
       /\ Len(packets) \in Nat
       /\ \A i \in 1..Len(packets) :
            /\ packets[i].kind \in {"ip", "request"} /\ packets[i].from \in Station
            /\ packets[i].kind = "request" =>
                 \A w \in Switch : \A v \in Svi[w] :
                   packets[i].to = <<w, v>> => v = HostVlan[packets[i].from]

\* B[e] is what lies beyond e, as seen from the other end of its link: the ports
\* F form no loop if there is such a B, in which a switch never lies beyond its
\* own ports and nothing lies beyond two of them.
Separates(B, F) ==
  /\ B \in [Port \cup Station -> SUBSET (Switch \cup Station)]
  /\ \A s \in Station : B[s] = {s}
  /\ \A p \in F : Owner[p] \in B[p] /\ Owner[p] \notin B[Far[p]]
  /\ \A p, q \in F : p # q /\ Owner[p] = Owner[q] =>
       B[Far[q]] \subseteq B[p] /\ B[Far[p]] \cap B[Far[q]] = {}

LoopFree(F) ==
  \E B \in [Port \cup Station -> SUBSET (Switch \cup Station)] : Separates(B, F)

\* At most one switch routes between VLANs.
OneRouter == \A w, v \in Switch : Svi[w] # {} /\ Svi[v] # {} => w = v

\* The port a switch would send to is the one on which it heard the address
\* last, also after the address moved (mac_table_add_or_update_vlan).
LooksWhereLastHeard ==
  \A w \in Switch : \A k \in DOMAIN mac[w] : mac[w][k].oif = Name[heard[w][k].port]

\* A station that was heard since the timeout, less the time a refresh may be
\* put off, keeps its entry when the cleanup goroutine runs.
KeepsActive ==
  [][\A w \in Switch : Cleanup(w) =>
       \A k \in DOMAIN mac[w] \ DOMAIN mac'[w] :
         heard[w][k].silent + RefreshThreshold > EntryTimeout]_vars

\* No packet arrives twice, flooded or not, through queue or table.
NoDuplicates == \A i \in Packets : received[i] <= 1

InFlight(i) ==
  \/ \E e \in Port \cup Station : \E n \in DOMAIN wire[e] : wire[e][n].id = i
  \/ \E w \in Switch, s \in Station : \E n \in DOMAIN arp[w][s].waiting :
       arp[w][s].waiting[n].frame.id = i

\* A packet that was sent and is nowhere in the network has arrived, or its
\* sender was told, or it is excused: a port that the tree holds down or that is
\* not learning yet discarded it, its next hop never answered ARP, or one of two
\* losses that the code has and nobody reports met it.  A routed packet is flooded
\* because its next hop's MAC entry is gone and must leave by the port it came in
\* on (TurnsBack: l2_switch_flood_frame_vlan skips that port), and a report about
\* a tagged packet goes into another VLAN (Mistagged, see VlanIsolation).  The
\* code has no other way to lose one.
NothingVanishes ==
  \A i \in 1..sent : InFlight(i) \/ received[i] >= 1 \/ i \in reported \/ i \in excused

\* No frame runs in circles: it passes each switch at most once on its way to
\* the router and once behind it, however the tree moves and whatever is flooded.
NoCircles ==
  \A e \in Port \cup Station : \A i \in DOMAIN wire[e] :
    wire[e][i].hops <= 2 * Cardinality(Switch) - 1
==============================================================================
