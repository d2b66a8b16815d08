# A TLA+ development of packet_tracer

packet_tracer simulates a network of hosts, switches and routers in one
process: frames travel between Go objects, protocol daemons run as goroutines,
and a user loads topologies, breaks links and traces packets from a command
line or a browser. This directory holds TLA+ models of its core, TLC
configurations for them, and TLAPS proofs. Source paths below are relative to
`src/`.

## The system

| Component | State | Operations | Talks to |
|---|---|---|---|
| In-memory transport (`transport_memory.go`, `transport.go`) | `queue`, `draining`, `closed` | `Send`, drain loop, `Close` | runs every receiver's handlers on the stack of the goroutine that drains |
| Spanning tree (`l2_stp.go`, budget in `graph.go`) | per bridge: enabled, priority, bridge and root identifier, cost, root port; per port: role, state, best BPDU, its age, state deadline; per graph: BPDU budget, depth of exchanges | `StartSTP`, `StopSTP`, `SetPriority`, `ProcessBPDU`, `SendHello`, `ageOutBPDUs`, `advancePortStates`, `Converge`, `ConvergeSpanningTree`, `resetForTopologyChange` | sends BPDUs through the transport, flushes the MAC table, gates the switch |
| Simulator (`simulation.go`) | the graph, captures | load, reset, ping, traceroute, LLDP trace, `SetSTP`, `SetSTPPriority`, `SetLinkState` | everything; holds `simulator.mu`, and `traceMu` for traces only |
| ARP (`l2_arp.go`, callers in `l2_ethernet.go`, `l2_switch.go`) | table of complete and incomplete entries, queues of waiting packets | resolve or queue, learn, retry, time out, expire | sends through the transport after unlocking |
| Event bus (`events.go`) | sequence number, pending events, `dispatching`, sink | `Emit`, `SetSink` | dispatches to the simulator's capture and to the UI |
| Switch (`l2_switch.go`, `l2_vlan.go`) | MAC table by address and VLAN | learn, age, flush, forward, flood, route between VLANs | transport, ARP, routing table |
| RIP (`rip.go`) | RIP routes, triggered-update channel | start, stop, update, process, expire | routing table, transport |
| LLDP (`l2_lldp.go`) | neighbours with time to live | start, stop, advertise, process, expire | transport |
| IP and ICMP (`l3_routing.go`, `l3_icmp.go`) | routing table | longest prefix match, forwarding, TTL and unreachable errors, IP-in-IP | ARP, transport |
| Graph lifecycle (`graph.go`) | started, closed | start, stop, close, cleanup | all goroutines |
| UDP transport, parser, command line, WebAssembly bridge | – | input and output | – |

What is hard here:

* **Who runs a handler.** A frame is handled by whichever goroutine drains the
  transport's queue. A foreground operation, a timer and the ARP maintenance
  can each find themselves running someone else's handlers, or returning from
  `Send` with their own frame still queued.
* **Locks that do not cover an operation.** Protocol timers run one at a time
  under `traceMu`; foreground operations do not take it (traces do), so they
  interleave with timers at every critical section. Critical sections collect
  what is to be sent and send it after unlocking.
* **Convergence.** The spanning tree settles through a bounded number of rounds
  of exchanges; what they leave unsettled must be repaired by hellos and ageing.
* **Timeouts.** ARP retries and gives up while answers arrive; RIP routes time
  out, stay poisoned and are collected while updates bring them back.
* **Results without identity.** A ping counts replies and takes the newest ICMP
  error; nothing says which probe an answer belongs to except that everything a
  probe causes is over when `Send` returns. The same holds for the events of a
  trace.
* **One frame, several paths.** A frame is switched, flooded, routed, or waits for
  ARP and is then routed; each path out of a switch has to check membership,
  port state and tag for itself.

## Modules

| Module | Models |
|---|---|
| `FrameDelivery` | what the transport promises: a FIFO that handles one frame at a time |
| `MemoryTransport` | the transport's `Send`, drain loop, delivery and `Close`, with any number of goroutines and links that go up and down |
| `MemoryTransport_proofs` | its theorems |
| `StpBridge` | one bridge: a record, and an operator per critical section of `STPState` |
| `SpanningTree` | a network of such bridges, their BPDUs in the transport, the foreground goroutine, the timers |
| `SpanningTree_proofs` | a lemma per operator of `StpBridge`, and its theorem |
| `MCSpanningTree` | topologies and costs for TLC |
| `ArpTable` | one node's ARP table, the goroutines that use it, and time |
| `ArpTable_proofs` | its theorems |
| `Rip` | routers with their RIP tables, daemons, receive goroutines and the command line |
| `Rip_proofs` | its theorems |
| `MCRip` | a row and a ring of routers |
| `MacTable` | the operations on a MAC table |
| `VlanSwitch` | switches with VLANs, trunks and routing between VLANs; extends `MacTable` |
| `VlanSwitch_proofs` | its theorems, about the MAC tables, the VLANs of frames, types, loops and duplicates |
| `MCVlanSwitch` | two switches with two trunks, three stations |
| `RoutingTable` | a routing table: addition, deletion, longest prefix match |
| `RoutingTable_proofs` | what these compute, for every table |
| `Simulator` | pings, traceroutes and traces over a routed network: IP, ICMP, ARP, transport, event bus, capture; extends `RoutingTable` |
| `Simulator_proofs` | theorems on the bus, the captures, lookups and answers |
| `MCSimulator` | a ring of three nodes and a fourth behind it, right and wrong routes, scripts of operations |
| `SequenceLemmas` | lemmas on sequences and loops that several proofs share |

An operator with a comment `faulty variant` is not part of the model: it is a
plausible mistake in the operator that follows it, kept to show that a property
would notice.

### MemoryTransport

`at[t]` says where goroutine `t` stands in `Send` and `depth[t]` how many drain
loops are on its stack. `BeginSend` is everything before `mu` (`send_frame`, the
peer and link checks), `SendAccepted` and `SendClosed` the first critical
section, `DrainEmpty` and `DrainPop` the one in the loop, `Deliver` the check of
the link in `deliverTransportFrame`. Between `Deliver` and `HandlerReturn` the
goroutine runs a handler, which may itself begin a `Send`. Frames are identified
by a number; their content does not matter to the transport.

`FrameDelivery` has neither goroutines nor flags. The mapping takes `queue` as
its backlog and the frame held by the drainer as the one being handled.

### StpBridge and SpanningTree

A bridge identifier is one number that orders by priority first and address
second, a port identifier is the number of the link it is attached to. (The
program numbers MAC addresses in the order interfaces are created; a bridge's
number in the model is its position in `node_list`, and its address has the same
position, as in a topology that lists each switch's host links in that order.)
Time is counted in hello intervals. All bridges use the same three timer
constants, so adopting the root's timers changes nothing. VLANs, hosts and the
encoding of BPDUs are left out, except that a receiver rejects a BPDU whose age
has reached `MaxAge`. The topology-change flag has no reader and no code sends a
topology-change notification; both are left out.

The foreground goroutine executes `todo`, the calls left of its operation: a
load calls `StartSTP` for every bridge and then `ConvergeSpanningTree`, which
unfolds into rounds of a turn per bridge (`Turn`, `Judge`), and a promotion per
bridge. Each call is the critical section of a bridge followed by the
transmission of its BPDUs, one `Send` at a time. `Deliver` is one turn of the
drain loop including the receiver's `ProcessBPDU` and the frames it appends.
`depth` is the count of exchanges under way that `beginSTPCascade` keeps for both
goroutines, and with which it decides to replenish `budget`.
Background work is one goroutine: `runBackgroundProtocol` serialises it. `Tick`
lets a hello interval pass and makes `SendHello` and `ageOutBPDUs` plus
`advancePortStates` due for every enabled bridge, in any order; exchanges take
no time on that scale. With `Overlapping`, operations start while that work is
due or under way. Operations are carried out in the wirings of `Operable`.

The transport inside `SpanningTree` is not an instance of `MemoryTransport`.
It uses what is proved there: one goroutine drains, exactly while frames are
queued, in FIFO order.

The MAC table is not part of this model; what the tree does to it is in `VlanSwitch`.

### ArpTable

Each action on the table is one critical section; what the code does after
unlocking (requests, released packets, failure callbacks) is a list of calls the
goroutine still has to make, one action each. A released packet looks the
address up again, as the callback does. Packets are identified, so the model
counts how often each was sent and reported as dropped. Time is counted in retry
intervals. Two assumptions about time stand in `Tick`: the maintenance goroutine
(a ticker of a tenth of the interval) has done what is due before the next
interval ends, and released packets leave before the entry that was just
completed expires 60 s later. Without the first a goroutine that is held up long
enough gives up after fewer requests; without the second the callback drops the
packet without a report.

### Rip

A router has two tables of RIP routes: its own (`routes`, with ages and the
expired flag) and the RIP routes of the forwarding table (`fib`). Networks do
not influence each other, so one is followed. `PeriodicUpdate`, `TakeTrigger`,
`TriggeredUpdate`, `CheckExpired` and `DaemonExit` are the cases of the daemon's
`select`; `token` is the channel of capacity one that asks for a triggered
update and `timer` the delay before it is sent. `Handle` applies a response,
entry by entry, under the lock. `ProcessRIPPacket` reads `enabled` before it
takes that lock; a response that `StopRIP` finds in between is in `rx` and is
handled later (`ReceiveLate`). `StopRIP` is four steps: the flag, the wait for
the daemon (`DaemonExit`), the forwarding table (`StopPurge`), its own table
(`StopForget`).

RIP is started from the command line only, which uses the UDP transport: packets
queue in sockets and can be lost, a full socket holds the sender up, and there is
no operation that takes a link down, so disabling RIP is the fault that others
notice. An update is one step: `SendRoutingUpdates` takes one snapshot
(`routesForAdvertisement`), from which it builds the responses of all links, and
`traceMu` keeps the daemons apart. (The snapshot itself reads RIP's table and then the
forwarding table; a response applied between the two asks for another update.) Requests
are left out: no code sends one. Time is counted in update intervals of 30 s.
Serving a tick or a packet takes no time on that scale, while a triggered update
(1 to 5 s) may be pending when an interval ends.

### MacTable and VlanSwitch

A MAC table entry stores the interface by name, in a fixed array; names are
sequences of characters because an update copies the new name over the old one
(`Overwrite`). Ages are explicit, so that the refresh threshold and the timeout
can be compared.

A switch handles the frame that arrived first at one of its ports, in one step
with everything the handler sends: `Discard`, `LearnOnly`, `SwitchFrame`,
`ReceiveARP` and `RouteFrame` are the ways through `l2_switch_recv_frame`.
`Forward`, `Flood`, `Prepared`, `FrameVlan` and `IsVLANAllowed` are its helpers.
A packet that is routed to an unknown next hop waits in the ARP entry with the
port it came in on; `ReceiveARP` releases it through the switching path, as the
callback does. Reports of an expired TTL leave by the ingress port without that
path. `ShouldRoute` has the two ways of `should_route_between_vlans`: a packet for the
subnet of another of the switch's VLANs, and one for the switch's own MAC address with a
route. `Reconverge` and `AdvancePort` are what the spanning tree does to the two
trunks, with the flush of a port that stops forwarding; `SetLinkState` is the operation
of that name with its flush of every table.

Stations have resolved their gateway (to any port of the routing switch they may
have heard) and answer ARP: requests are broadcast and replies are not, as all code
that sends them does. Packets are between stations; none is for an address of a switch. Frames in flight are much faster than timers:
maintenance, ageing, port states and link operations wait until nothing is in
flight (`Quiet`), except that the tree may be moved under frames in flight.
Complete ARP entries do not expire here; `ArpTable` has that. `id`, `vlan` and
`hops` of a frame, `heard`, `received`, `reported` and `excused` are history:
`excused` holds packets of which a copy was discarded for a reason that
`NothingVanishes` accepts. Two of these reasons are a moving tree and a failed
resolution. The other two are losses of the code, each with a predicate of its own:

* `TurnsBack`: a routed packet whose next hop is in the ARP table but not in the MAC
  table is flooded everywhere except to the port it came in on, and is lost if the next
  hop is behind that port. `l2_switch.go` 1076 says that the packet "reaches the port
  the next hop actually lives behind", and 1137 that it is flooded "exactly as it would
  for a switched frame". It heals with the next frame from that station.
* `Mistagged`: a report about a tagged packet enters another VLAN and does not reach the
  sender (see `switch_report`).

Both occur in the run `switch`: without either predicate TLC finds `NothingVanishes`
violated.

### RoutingTable and Simulator

Addresses are sequences of bits, here three: two name the link, one the end. A
table is the sequence of routes that additions and deletions leave, in the order
of the code's slice. The loops of the code, over edits and over routes, are recursive
functions of the number of elements they have passed. `LookupLPM` is one pass over
the table.

The goroutines are the user, who holds `Simulator.mu` during an operation, and an
ARP maintenance goroutine per node, which takes no lock of the simulator. Any of
them may drain the transport's queue, and so run handlers, and any may dispatch
the events of the bus. A handler is one step; the burst of events it emits is one
event, which is then taken and given to the sink in steps of its own (`TakeEvent`,
`HandleEvent`, `EndDispatch`). An operation goes through stages: `Begin` (with
`beginCapture`), then for each probe `StartProbe`, `SendProbe`, `Collect`, then
`Complete` for a traceroute and `End` (with `endCapture`). Between the stages the
user is busy until its `Send` and its `Emit` return, not until its frames are
handled.

`Retry` and `GiveUp` occur when no ARP frame of that link is in flight. `disturbed`
records that a maintenance goroutine drained, dispatched or emitted during the
operation; then little is promised of its results, see below. `underway` of an
operation are the probes of earlier ones that are in the queue, wait for ARP or are
about to be sent when a probe discards what was there before it.
`edits`, `answers`, `last`, `disturbed`, and `probe`, `of`, `underway` and `works` of
records, are history. The spanning tree, hosts behind switches, loopbacks, IP-in-IP, header
encodings and checksums are left out.

Since the end of all operations is the only state without a further step
(`Finished`), the deadlock check of this run shows that every operation returns.

## Runs

| Run | Instance | Result |
|---|---|---|
| `transport` | 3 goroutines, 2 links, 3 frames (18 thousand states) | `OneDrainLoop`, `NothingStranded`, `ImplementsFairDelivery` hold |
| `stp_heals` | 4 bridges, each of the 64 ways to connect them, timers running; in the triangle, any one operation between two ticks (1.05 million states) | `TypeOK`, `Connected`, `BackstopUnused`, `NeverWorse`, `Heals` hold |
| `stp_races` | 2 bridges, 2 parallel links, any one operation at any point of the timers' work (1.8 million states) | `PortDiscipline`, `BackstopUnused`, `Connected`, `Heals` hold |
| `stp_loop` | 4 bridges, any wiring, any two-valued priorities, no timers | `NoForwardingLoop` fails, see below |
| `arp` | 2 senders, 2 addresses, 2 packets, 3 attempts (130 thousand states) | `TypeOK`, `ExactlyOnce`, `Attended`, `GivesUpLast`, `Settled` hold |
| `rip` | 3 routers in a row, 3 commands, 1 lost update (305 thousand states) | `TypeOK`, `FibMirrorsRoutes`, `PoisonRetained`, `Converges` hold |
| `rip_ring` | 3 routers in a ring, RIP enabled on the third one later, no loss | `Converges` fails, see below |
| `switch` | 2 switches, 2 trunks, 3 stations, every pair of 7 packets, one change of the tree (594 thousand states) | `TypeOK`, `OnlyReportsLeave`, `LooksWhereLastHeard`, `NoDuplicates`, `NothingVanishes`, `NoCircles`, `KeepsActive` hold |
| `switch_names` | the same with interface names of different lengths | `LooksWhereLastHeard` fails, see below |
| `switch_report` | the same, a packet from the tagged VLAN whose TTL ends | `VlanIsolation` fails, see below |
| `simulation` | a ring of 3 nodes and a fourth behind it, 5 sets of routes, pings and traceroutes between all of them, links that go down and up; 4680 tables for the lookup (232 thousand states) | `TypeOK`, `LookupIsBest`, `TracesPath`, `NoOldAnswers`, `OneAnswer`, `FaithfulTrace`, `BusDelivers` hold |
| `simulation_late` | the same ring, a probe that waits for ARP while a link is down | `OwnAnswers` fails, see below |

Run one with `tlc -config MCSpanningTree_heals.cfg MCSpanningTree`.

What some of the properties say:

* `FibMirrorsRoutes`: outside `StopRIP`, RIP's two tables agree, whatever
  responses, timeouts, collections and restarts came before. A response that
  was admitted before `StopRIP` and handled after it breaks this; the model
  contains it and the property excuses what follows (`raced`).
* `PoisonRetained`: a route leaves RIP's table only after it was advertised as
  unreachable for the garbage-collection time. `Converges`: after the last
  command, routes become shortest, or disappear where there is no path.
* `BackstopUnused`: each exchange ends before the BPDU budget does, although
  overlapping ones (`stp_races`) share it and only the outermost replenishes it.
* `NoDuplicates`, `NoCircles`, `NothingVanishes`: what a switched network owes its
  stations, over tables, queues, trunks and a moving tree. `OnlyReportsLeave` is what is
  left of the isolation of VLANs (`VlanIsolation`, which `switch_report` refutes).
  `LooksWhereLastHeard` and `KeepsActive` tie the table to what was heard.
* `LookupIsBest` compares the pass over the slice with a definition over the set
  of configured routes. `TracesPath` compares every probe of a ping or traceroute
  with the answer read off the routing tables there and back. `OwnAnswers`: an
  answer is taken for the probe it belongs to. That is false (`simulation_late`);
  `NoOldAnswers` is what is left of it: no answer that was there before the probe is
  taken for it, only those of packets still underway when it started, and none but
  its own if it started on a network at rest with its links up. `OneAnswer`: no probe is
  answered twice. `FaithfulTrace`: a trace is ordered and holds exactly the events of its
  operation. `BusDelivers`: the event bus implements `FrameDelivery`, the
  specification of the transport.

### What the failing runs show

* **A load can end with a forwarding loop** (`stp_loop`). A bridge passes a better
  root on only if one of its ports changed role or state (`l2_stp.go` 815), and a
  round counts as settled if each bridge's mark is the same before and after its
  own turn (1107); news that came in during another's turn does not count. So a
  load can end before the bridges agree on a root. With bridges 1, 2 and 4 in a
  ring, 3 attached to 4, and 3 and 4 ahead in priority, both ends of a ring link
  end up designated; the promotion at the end of the load opens them, and a
  broadcast goes round until the next hellos. `Heals` in the run `stp_heals`, which
  has these priorities, shows that hellos do repair it.
* **RIP in a ring may never settle** (`rip_ring`). Nothing keeps a router from
  installing a RIP route to a network it is connected to. Once it has one, its
  responses list the network twice, first with metric 0, then with the RIP
  route's metric or as unreachable. The neighbour applies the second entry on top
  of the first, loses its direct route or makes it worse, tells the others, and
  so on; periodic and triggered updates keep it going. It begins when a neighbour
  hears of the network the long way round first, because RIP was enabled on it
  later or an update was lost. When all routers start together and nothing is
  lost, TLC finds that the ring converges.
* **A move to a shorter name** (`switch_names`). `copy` leaves the tail of the old
  interface name in the entry, which then names the old interface, a third one or none:
  in the run "1" is copied over "10", which stands. With names of one length, as in the
  run `switch`, the table is right.
* **Reports leave their VLAN** (`switch_report`). The ICMP error about a packet that
  arrived tagged goes back untagged and enters the trunk's native VLAN; so does
  the ARP request that precedes it. The run `switch` has such packets too, and there
  `OnlyReportsLeave` holds; the theorem `VlansApart` shows that nothing else ever leaves
  its VLAN.
* **A ping can report another operation's error** (`simulation_late`). `node.go` (121)
  and `simulation.go` (211) say that it reads only the errors its own packets provoked;
  the list is cleared only before the probe is sent. In the ring h - r - s - h, with d
  behind s, a traceroute from h to d leaves a probe at r, which waits for s while the
  link of r and s is down. The link comes up, and h pings r's address on it by way of s.
  s asks r for its address; r learns s from the request and sends the waiting probe,
  whose TTL ends at s, and the ping's result has the error about it. With a ping in
  place of the traceroute the old probe reaches d, and the reply to it, counted like any
  other, can make the second ping a success.

### Other observations

* `Send` is synchronous only for the goroutine that drains. Comments in `l2_stp.go`
  (1068), `l2_arp.go` (468) and `graph.go` (279) rely on frames being handled before
  it returns; a goroutine that calls it while another one drains gets control
  back with its frame queued (`SendAccepted` without `DrainPop` in
  `MemoryTransport`). A convergence can so be judged before anything was
  delivered, and a ping that ARP maintenance overlaps can be reported as
  unanswered, take another probe's answer, or miss the end of its trace. That is
  why `TracesPath`, the second half of `NoOldAnswers` and the completeness in
  `FaithfulTrace` exclude operations during which a maintenance goroutine was active:
  these effects are in the model, and no property counts them as violations.
* A flooded routed packet can be lost (`TurnsBack`, above).
* Entries of the MAC table survive changes of the tree. `setPortRole` (`l2_stp.go` 969)
  flushes a port that was forwarding when it blocks, not one that learned addresses in
  LEARNING; and a bridge whose own ports keep their states flushes nothing when the tree
  changes elsewhere, so its entries go on naming a link whose other end now blocks.
  `l2_switch.go` 243 says that the spanning tree flushes the whole table on a topology
  change, but only `SetLinkState` and the handler of a notification that no code sends do.
  Frames go astray until the entries age out or are corrected by traffic.
* A packet without a route is dropped in silence in `Layer3IPPacketRecvFromBottom`:
  the comment at `l3_routing.go` 601 says to tell the sender, but the call behind it
  is commented out. `TracesPath` follows the code (a timeout).
* A packet for an address of the sending node itself, also an ICMP error to
  itself, is not delivered locally: it waits for ARP, nobody asks for it
  (`l2_arp.go` 680), and it is given up.

### Bounds, and why they are enough

* Four bridges with arbitrary wiring is the smallest set with a ring and a
  bridge outside it, which the unsettled loads need; with three bridges and
  the same priorities, TLC finds none.
* `MaxAge` 4 and `ForwardDelay` 2 in place of 10 and 7.5 hello intervals. What
  matters is that a BPDU survives the longest path (three hops) and that
  ageing needs several hellos; `ForwardDelay` only has to be more than one.
  The failing run, without timers, uses 10 and 8.
* `BPDUBudget` is 11 in `stp_heals`, 19 in `stp_races`, where exchanges overlap: the
  property that the budget is never used up is tight (with 10, or 18, it fails), and
  the real budget of 10000 has ample room.
* `MaxOps` 1 in the spanning tree runs: an operation on a network that was loaded
  and that may still be unsettled. `Operable` is the triangle in `stp_heals`, where a link
  is spare. In a ring of four bridges `Connected` is false after an operation: once a
  priority has changed, the old root's vector may go round and block both sides of a
  bridge until it ages out. Sequences of operations are not explored.
* Three frames in `transport`: one held, one queued, one being sent; the proofs
  cover every number.
* Two packets and two addresses in `arp`: two packets in one queue, and two
  entries that fail in one maintenance pass. `EntryTimeout` is 4 retry intervals
  in place of 60: longer than the pending timeout of 3.
* `MaxMetric` 4 in `rip` is beyond the longest path (2), so that counting to
  infinity takes several exchanges; 5 in `rip_ring`, where the routes that
  alternate stay below it. `Timeout` 2 and `Garbage` 1 in place of 6 and 4 update
  intervals: a route survives a lost update, and poison is sent at least once.
  `MaxInbox` 1: a sender waits for the receiver, as with a full socket.
* Two packets in `switch`: one teaches, or moves, or waits while the other is
  routed; they include packets that die at the router from either VLAN, and one that is
  routed back to the trunk it came by. `EntryTimeout` 2 and `RefreshThreshold` 2, the largest that a timeout
  permits, with three ticks; `MaxAttempts` 2 of ARP has one retry.
* `InitialTtl` 5 in `simulation` stands for 64: longer than any path without a loop
  and short enough to end one. `MaxEvents` 150 is never reached, as `TypeOK` says.

### Fairness

`MemoryTransport`: a goroutine inside `Send` is scheduled and handlers return.
`SpanningTree`: goroutines proceed and tickers fire, with one condition for all
work, since time passes only when no other work is left. `ArpTable`: goroutines
make the calls they are about to make, the maintenance goroutine runs, time
passes. `Rip`: the daemon's `select` serves each case that stays ready, the receive
goroutine reads its socket, a `StopRIP` under way goes on, time passes. No fairness
is assumed of users, of hosts that send, of peers that answer, or of the network's
losses. `Heals` and `Converges` say "eventually always", so the state reached must
survive everything the timers do afterwards. `VlanSwitch` and `Simulator` need no
fairness: their properties are safety, and the absence of deadlock.

## Proofs

Each theorem holds for every value of the constants that the named assumption of
its module allows; TLC evaluates these assumptions in the runs.

| Theorem | States |
|---|---|
| `MemoryTransport_proofs!TypeCorrect`, `DrainsOnce`, `StrandsNothing` | `[]TypeOK` (in no run), `[]OneDrainLoop`, `[]NothingStranded` |
| `MemoryTransport_proofs!Refines` | `ImplementsDelivery`, the safety part of `ImplementsFairDelivery` |
| `Simulator_proofs!BusImplementsDelivery`, `BusRefines` | the event bus implements `FrameDelivery`, with any number of events, and as `BusDelivers` |
| `Simulator_proofs!TraceIsFaithful` | `[]FaithfulTrace` |
| `RoutingTable_proofs!LookupFindsBest`, `Simulator_proofs!LookupAlwaysBest` | the pass over a table finds a best match; `[]LookupIsBest` |
| `Simulator_proofs!AnsweredOnce` | `[]OneAnswer` |
| `ArpTable_proofs!TypeCorrect`, `AttendedAlways`, `SentOrFailedOnce` | `[]TypeOK`, `[]Attended`, `[]ExactlyOnce` |
| `ArpTable_proofs!GivesUpAfterAllAttempts` | the action property `GivesUpLast` |
| `Rip_proofs!TypeCorrect`, `TablesAgree` | `[]TypeOK`, `[]FibMirrorsRoutes` |
| `Rip_proofs!PoisonComesFirst` | the action property `PoisonRetained` |
| `SpanningTree_proofs!PortsAreDisciplined`, `TypeCorrect` | `[]PortDiscipline`, `[]TypeOK` |
| `SpanningTree_proofs!OnlyImproves` | the action property `NeverWorse`, if path costs do not wrap |
| `VlanSwitch_proofs!ActiveStationsStay` | the action property `KeepsActive` |
| `VlanSwitch_proofs!LooksThere` | `[]LooksWhereLastHeard`, if all names have one length |
| `VlanSwitch_proofs!VlansApart` | `[]OnlyReportsLeave`, if links and stations are `Configured` |
| `VlanSwitch_proofs!SwitchingIsolates` | `[]VlanIsolation`, if moreover no switch routes |
| `VlanSwitch_proofs!TypeCorrect` | `[]TypeOK` |
| `VlanSwitch_proofs!EndsItsWay` | `[]NoCircles`, if the tree leaves no loop and at most one switch routes |
| `VlanSwitch_proofs!ArrivesOnce` | `[]NoDuplicates`, if moreover links and stations are `Configured` |

### Assumptions

They say of the constants what the code or its inputs guarantee.
`MaxFramesAssumption`, `NoneAssumption` and the clauses on `None`: bounds are natural
numbers and `None`, Go's nil or absence, is none of the values it stands beside.
`ArpAssumption`: addresses are finite in number, the two goroutines of the program
are not senders, timeouts and the number of attempts are positive.
`RipAssumption`: a link has two ends, there are finitely many, bounds are positive.
`MacTableAssumption`, `SwitchAssumption`: the refresh interval is positive and no longer
than the timeout, wires have two ends, no two ports of a switch share a name, each
port is an access port or a trunk, each station has one, and next hops are stations;
ports and switches are finite in number, VLANs are numbers, gateways are ports, and
workloads are lists of packets from stations with a TTL of at least 1.
`TimerAssumption`: `MAX_AGE` (`l2_stp.go`) is positive, and so is the number of path costs.
`TopologyAssumption`: links join bridges, there are finitely many of both, costs are
positive and below the span that keeps path costs apart, and operations name links
and bridges of the topology. `SimulatorAssumption`: addresses have an owner and one
width, every scenario edits tables with routes of that width, up to arbitrary
prefix lengths, and operations name nodes, links and addresses.

The hypothesis of `OnlyImproves`, `NoWrap(C)`, says that `MaxAge` links of the largest
cost `C` do not overflow a path cost. The code adds costs in a `uint32` without a
check, and costs come from the topology file or are the default 19, so
this holds for every cost below 2^32 / 10; the configurations of the runs satisfy it
with 1 or 4 out of 1000. The extra hypothesis of `LooksThere` is `OneLength(Char)`; the run
`switch_names` shows that the statement is false without it. `Configured`, which the
two theorems about VLANs need and `MCVlanSwitch` evaluates, says that VLAN identifiers are
not 0 (`interface.go` 85 and 103 reject it), that both ends of a link have the same access
or native VLAN, that stations are on access ports of their VLAN and ask for gateways in
it. The code does not compare the ends of a link: an untagged frame changes its VLAN
where they differ, with this code as with any switch. The hypothesis of
`BusRefines`, `[](sequence <= MaxEvents)`, only bridges the bound that `BusDelivers` puts
on the numbers for TLC; `BusImplementsDelivery` has none.

`EndsItsWay` and `ArrivesOnce` take two more. `LoopFree`, for each port of `Spare` that
the tree may choose, says that the forwarding ports form no loop: there are sets `B[e]`,
what lies beyond `e` as seen from the other end of its link, such that a switch never
lies beyond its own ports and nothing lies beyond two of them (`Separates`). That is
what the spanning tree is for, and `MCVlanSwitch` evaluates it with such sets
(`MCBeyond`); the run `stp_loop` shows when, after a load, it is not so. `OneRouter` says
that at most one switch has VLAN interfaces. It is needed: `should_route_between_vlans`
takes a packet for the subnet of another of its VLANs whatever MAC address the frame is
sent to, so two such switches that get copies of one flooded frame would each route
it. That is an observation from the code and the proof, not a run.

### Arguments

**Transport.** The inductive invariant `IInv` is needed because a `Send` decides by the
flag alone: neither property is inductive until the flag is tied to the loops it
stands for. Its parts are `Flags` and `Shapes` (the types), `Position` (where a
goroutine stands determines what it holds and whether it drains), `Exclusion` (the
flag is set exactly while a loop runs, and at most one does) and `Attended` (a
non-empty queue implies the flag, and a closed transport's queue is empty). The
refinement goes step by step under `IInv`: `SendAccepted` is `Accept`, `DrainPop` is
`Take`, `HandlerReturn` and the dropping `Deliver` are `Finish`, the others stutter.

**Event bus.** `BusInv` ties the flag to the one goroutine in the dispatch loop
(`OneDispatcher`) and says that the pending events carry the last numbers given out,
in order (`Numbered`). Then `Emit` is `Accept`, `TakeEvent` is `Take`, `HandleEvent` is
`Finish`, and everything else leaves the bus alone.

**Traces.** `FaithfulTrace` becomes inductive with `OthersRest` (during an undisturbed
operation only the user dispatches), `UserRests` (between two stages of its
operation the user is not in the loop, so nothing is pending), `Ordered` (captured
numbers ascend and are below what is in hand or pending) and `AllCaptured` (what
this operation emitted so far is captured, in hand or pending).

**Routing table.** `TableIs` follows the edits: after any number of them the table holds,
once each, the routes added last for their key and not deleted since, with the
address bits beyond the prefix cleared. `LookupLPMIs` follows the pass: the best so
far is best among the routes passed. Both are inductions. The library's induction
theorems take an operator as a parameter, which no installed prover instantiates;
`SequenceLemmas` therefore derives, from the well-ordering of the naturals, that a
set with 0 and successors is all of them (`InductiveSet`), and from that that a
recursive function is what its loop computes (`LoopExists`). The loops are written
as recursive functions for this reason.

**Answers.** `ProbeInv` says where the packet of a probe is: in the queue, in what the user
is about to send, in one queue of waiting packets, or among the answers, in at most
one of these places and at most once (`Separate`, `Tidy`, `Distinct`). A handler takes
a packet from one place to another or drops it (`Flow`): an echo or a report takes the
place of the packet it answers. That only holds if probes are not numbered twice;
`LaunchInv` says that those in the network belong to earlier operations, or to
smaller TTLs of this one. Nothing is assumed about routes, loops among them.

**ARP.** `TableInv` has the types and, for each entry (`EntryOK`), that packets wait in
it exactly while it is incomplete and that its age follows from its requests: an
entry never times out before its last attempt. `CallsReady` ties the calls that a
goroutine still has to make to the entries. `PlaceInv` says where each packet is: in
one queue at most (`QueuedOnce`), among the calls of one goroutine at most
(`TakenOnce`), not in both (`NeverBoth`), and somewhere while it is underway
(`Accounted`). `HandsOver` is what all actions that empty a queue have in common;
`HandOver` proves it once for them. The queues that a pass flattens into calls are
gathered by `FlattenSeqGathers`.

**RIP.** `RipInv` has three parts beyond the types. `RouteOK`: a route is expired exactly
at the unreachable metric. `NotStale`: wherever RIP has a route, the forwarding table
has that route or none, even while `StopRIP` is half done. `Agree`: outside `StopRIP`,
and unless a late response was applied, both tables agree. A response is applied
entry by entry; `AppliedOK` carries the invariant through the loop.

**Spanning tree.** `PortInv` says of every bridge that at most one port is root, that
each port is `Sound`, and that its records have their shape. One lemma per operator
of `StpBridge` shows that the operator preserves this, from any table of BPDUs and
any costs; an action of `SpanningTree` applies such an operator to one bridge. `TypeInv`
adds the types, with the same lemmas: the age of a BPDU stays below `MaxAge` because
`ProcessBPDU` refuses older ones and what a bridge sends is one older than what it
holds. `NeverWorse` is an
action property of the load, when no timer runs: `LoadInv` says that nothing is due
then, that a cost is at most `C` times the age of the BPDU that carries it (so sums do
not wrap), and, as the heart of it, that the vector of a bridge is its own or the
one its root port yields (`VectorHolds`). A BPDU on the root port then only replaces what the
vector rests on if it is better, and `Elect` can only choose something at least as good.

**MAC tables.** Learning, ageing and flushing are all that happens to a table, and they
depend only on which frames arrive where; `TableInv` and `PlaceInv` therefore mention
`mac` and `heard` alone. An entry may be younger or older than the silence of its
station, because a refresh is put off, but by less than `RefreshThreshold` (`Fresh`);
that is why `KeepsActive` grants an active station the timeout less that interval.
`OverwriteEven`: with equal lengths, `copy` replaces the whole name.

**VLANs.** `VlanInv` gives every frame that is on a wire or waits for ARP its VLAN: where
it arrives, `determine_frame_vlan` yields the VLAN it belongs to, or none, unless it is a
report (`Fits`, `Waits`). `Carried` is the heart: what `prepare_frame_for_interface` sends
by a port that allows a VLAN is taken to be of that VLAN at the other end, whichever of
the two is an access port and whichever a trunk. The lemmas after it follow the frame
through flooding, forwarding, requests and the release of waiting packets, one per
operator; each operator yields a list that `Transmit` spreads over the wires. The tables
and the tree do not occur in the invariant: a wrong entry sends a frame to the wrong
port, never into another VLAN. A report needs a switch that routes (`Routing`), and so
without one there is no exception.

**Frames.** `TypeInv` says what a frame on a wire and a packet in an ARP queue are
(`FrameOf`, `Sound`, `SoundWait`) and follows them through the same operators (`Flow`).
The next two invariants take the same path.

**Loops.** `HopInv` bounds the hops of each frame together with the number of switches
that still lie beyond its wire: by the number of switches before the frame meets the
router, by twice that less one behind it (`Close`). A switch sends a frame by a port other than
the one it came in on, beyond which there are fewer switches (`LessRoom`), except when
it routes, where the second count starts; a packet in an ARP queue is just in between
(`Brief`). `B` is whatever shows that there is no loop now. When the tree moves under
frames in flight, a port stops forwarding, which `B` survives; one starts only while
nothing is in flight (`ForwardingSteps`), and then any `B` will do, since queues do not
mention it.

**Duplicates.** `TokenInv` says of each packet that it is in one place at most (`Lone`): one
frame among those whose goal, the receiver or the router, lies beyond the wire they are
on (`Claims`), or one entry of a queue; and that it is in none once it arrived or
before it is sent (`Settled`). Flooding sends many frames, but the goal lies beyond one
port only (`CopiesOnce`); the other copies claim nothing, and neither does what
becomes of them. A claim moves to the next wire, into a queue, from there to a wire, or
ends (`MoveOnce`).

### What is only model-checked, and why

* Everything under fairness (`ImplementsFairDelivery`, `Heals`, `Settled`, `Converges`)
  is beyond the prover.
* `NoForwardingLoop`, `Converges` in a ring, `VlanIsolation` of tagged packets that
  expire, `OwnAnswers`: false, as the failing runs show. In general `OnlyReportsLeave` is
  true, and that is proved, as is `VlanIsolation` where no switch routes.
* `Connected` (of loads) and `BackstopUnused` speak of all BPDUs that a topology can give
  rise to; a proof would be an induction over the topology.
* `NothingVanishes` needs more than the absence of loops: that the forwarding ports
  connect everything, that every flood therefore reaches the goal, and that each table
  entry leads there, in every state the tree can be in.
* `TracesPath` relates a probe to the walk through all tables, a recursion over the
  path. `NoOldAnswers` needs that nothing is left of a probe when the operation that sent
  it goes on, undisturbed and with every link up, an induction over the drain loop.
* `TypeOK` of `Simulator` contains bounds that depend on the instance (the number of
  events and frames); what its proofs need of the types is in their invariants.

## Not modelled

* The UDP transport (operating system sockets), the YAML parser, the command
  line, the WebAssembly bridge and logging are input and output.
* LLDP: an advertisement goes over one link and fills a table with a time to
  live; its timers start and stop like those of STP and RIP.
* The lifecycle of a graph: start and stop call the protocols' own in turn, and
  those are modelled, as is `Close` of the transport.
* Encodings and checksums, IP-in-IP and the ping with an explicit route, the
  configuration functions of interfaces and VLANs, and functions that only
  tests call.
* The check of `IsEnabled` in `ProcessBPDU`, which precedes the lock, is one step
  with what follows, the transmission after the unlock included. `Rip` has the same
  pattern in two steps.

What is left to prove: `NothingVanishes` of the switches, `TracesPath` of the simulator,
`NoOldAnswers`, and `Connected` under a condition on the topology.
