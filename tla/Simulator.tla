------------------------------ MODULE Simulator ------------------------------
(****************************************************************************)
(* A user's operations on a routed network: ping, traceroute, their traces, *)
(* and link changes, with what they run on.  Interfaces are in layer 3      *)
(* mode on point-to-point links.                                            *)
(*                                                                          *)
(* Goroutines: "user", which holds Simulator.mu during an operation, and    *)
(* one ARP maintenance goroutine for each node, named by the node, which    *)
(* takes no lock of the simulator.  Handlers run on the goroutine that      *)
(* drains the in-memory transport, the sink of the event bus on the one     *)
(* that dispatches.                                                         *)
(*                                                                          *)
(* Addresses are bit sequences; all bits but the last name the link, so an  *)
(* address also names an interface.  A handler is one step (the transport   *)
(* runs one at a time; ArpTable has the races on a table), and its burst of *)
(* events is one event.                                                     *)
(*                                                                          *)
(*   packet: [kind, src, dst, ttl, probe]; probe says, for the properties   *)
(*           only, which echo request it stems from                         *)
(*   frame:  [kind, to, pkt]; "ask" and "answer" are ARP's, to is the       *)
(*           receiving interface                                            *)
(****************************************************************************)
EXTENDS RoutingTable, FiniteSets, TLC

CONSTANTS Node,          \* the nodes
          Owner,         \* Owner[a]: the node with address a
          Scenarios,     \* [edits, up, script]: tables, links and operations
          InitialTtl,    \* 64, which is longer than any path
          MaxAttempts,   \* ARP_REQUEST_MAX_ATTEMPTS
          MaxEvents      \* events of a behaviour

Addr == DOMAIN Owner

Goroutine == Node \cup {"user"}

\* No operation is under way.
Idle == [stage |-> "idle"]

Peer(a) == [a EXCEPT ![Len(a)] = 1 - @]

LinkOf(a) == Front(a)

Width == Len(CHOOSE a \in Addr : TRUE)

Links == {LinkOf(a) : a \in Addr}

\* What the user calls.
Call ==
  [do : {"ping"}, src : Node, dst : Address(Width), trace : BOOLEAN]
  \cup [do : {"traceroute"}, src : Node, dst : Address(Width), trace : BOOLEAN, max : Nat \ {0}]
  \cup [do : {"link"}, link : Links, up : BOOLEAN]

ASSUME SimulatorAssumption ==
  /\ "user" \notin Node
  /\ Owner \in [Addr -> Node] /\ \A a \in Addr : Peer(a) \in Addr
  /\ {InitialTtl, MaxAttempts, MaxEvents} \subseteq Nat \ {0}
  /\ Width \in Nat \ {0} /\ Addr \subseteq Address(Width)
  /\ \A s \in Scenarios :
       s.up \subseteq Links /\ s.edits \in [Node -> Seq(Edit(Width))] /\ s.script \in Seq(Call)
  /\ None \notin Nat \cup Goroutine \cup L3Route(Width)

VARIABLES edits,         \* edits[n]: how the table of n was made
          fib,           \* fib[n]: routing table
          up,            \* links that are up
          known,         \* <<n, a>>: n's ARP table has a's MAC
          waiting,       \* incomplete ARP entries: [packets, requests]
          queue,         \* the transport's queue
          drainer,       \* the goroutine that drains it, or None
          outbox,        \* outbox[g]: frames g is about to send
          replies,       \* replies[n]: ping_reply_count, as the probes counted
          errors,        \* errors[n]: icmp_errors
          sequence,      \* EventBus.sequence
          pending,       \* EventBus.pending
          dispatching,   \* EventBus.dispatching
          dispatcher,    \* goroutines inside Emit's dispatch loop
          hand,          \* hand[g]: the event g is about to give to the sink
          capturing,     \* captureProtocols is set
          captured,      \* capturedEvents
          script,        \* operations the user has yet to start
          op,            \* the operation under way, or Idle
          last,          \* result of the last one, or None
          disturbed,     \* a maintenance goroutine was active during op
          answers        \* history: the probe of every answer received

ipVars == <<edits, fib, replies, errors, answers>>
arpVars == <<known, waiting>>
netVars == <<up, queue, drainer, outbox>>
busVars == <<sequence, pending, dispatching, dispatcher, hand>>
captureVars == <<capturing, captured>>
userVars == <<script, op, last>>
vars == <<ipVars, arpVars, netVars, busVars, captureVars, userVars, disturbed>>

Init ==
  /\ \E s \in Scenarios : edits = s.edits /\ up = s.up /\ script = s.script
  /\ fib = [n \in Node |-> Table(edits[n])]
  /\ known = {} /\ waiting = << >>
  /\ queue = << >> /\ drainer = None
  /\ outbox = [g \in Goroutine |-> << >>]
  /\ replies = [n \in Node |-> << >>] /\ errors = [n \in Node |-> << >>]
  /\ sequence = 0 /\ pending = << >>
  /\ dispatching = FALSE /\ dispatcher = {} /\ hand = [g \in Goroutine |-> None]
  /\ capturing = FALSE /\ captured = << >>
  /\ op = Idle /\ last = None
  /\ disturbed = FALSE /\ answers = << >>

------------------------------------------------------------------------------
(* The event bus and the capture of a trace.                                 *)

\* Emit: number the event and queue it; dispatch unless somebody does.
EveryoneDispatches(g) ==   \* faulty variant
  /\ sequence' = sequence + 1
  /\ pending' = Append(pending, sequence + 1)
  /\ dispatching' = TRUE
  /\ dispatcher' = dispatcher \cup {g}
  /\ UNCHANGED hand

Emit(g) ==
  /\ sequence' = sequence + 1
  /\ pending' = Append(pending, sequence + 1)
  /\ dispatching' = TRUE
  /\ dispatcher' = IF dispatching THEN dispatcher ELSE dispatcher \cup {g}
  /\ UNCHANGED hand

\* The dispatch loop takes the next event.
TakeEvent(g) ==
  /\ g \in dispatcher /\ hand[g] = None
  /\ pending # << >>
  /\ hand' = [hand EXCEPT ![g] = Head(pending)]
  /\ pending' = Tail(pending)
  /\ disturbed' = (disturbed \/ g # "user")
  /\ UNCHANGED <<sequence, dispatching, dispatcher, ipVars, arpVars, netVars, captureVars, userVars>>

\* The sink is Simulator.handleEvent.
HandleEvent(g) ==
  /\ hand[g] # None
  /\ captured' = IF capturing THEN Append(captured, hand[g]) ELSE captured
  /\ hand' = [hand EXCEPT ![g] = None]
  /\ UNCHANGED <<sequence, pending, dispatching, dispatcher, capturing,
                 ipVars, arpVars, netVars, userVars, disturbed>>

NeverResets(g) ==   \* faulty variant: the loop ends, the flag stays
  /\ g \in dispatcher /\ hand[g] = None
  /\ pending = << >>
  /\ dispatcher' = dispatcher \ {g}
  /\ UNCHANGED <<sequence, pending, dispatching, hand, ipVars, arpVars, netVars,
                 captureVars, userVars, disturbed>>

EndDispatch(g) ==
  /\ g \in dispatcher /\ hand[g] = None
  /\ pending = << >>
  /\ dispatching' = FALSE
  /\ dispatcher' = dispatcher \ {g}
  /\ UNCHANGED <<sequence, pending, hand, ipVars, arpVars, netVars, captureVars,
                 userVars, disturbed>>

------------------------------------------------------------------------------
(* Layers 2 and 3 of a node, as functions of the state.                      *)
FrameOf(kind, to, pkt) == [kind |-> kind, to |-> to, pkt |-> pkt]

\* What send_frame passes on of frames that leave by one interface.
Sendable(frames) ==
  IF \A i \in DOMAIN frames : LinkOf(frames[i].to) \in up THEN frames ELSE << >>

\* DemotePacketToLayer2: frames to send for packet k that n sends to address a.
\* Nobody asks for an address of his own.
Down(n, a, k) ==
  IF <<n, a>> \in known THEN <<FrameOf("ip", a, k)>>
  ELSE IF <<n, a>> \in DOMAIN waiting \/ Owner[a] = n THEN << >>
  ELSE <<FrameOf("ask", a, None)>>

\* The table then: without a MAC the packet waits, the newest in front.
Waiting(n, a, k) ==
  IF <<n, a>> \in known THEN waiting
  ELSE IF <<n, a>> \in DOMAIN waiting
  THEN [waiting EXCEPT ![<<n, a>>].packets = <<k>> \o @]
  ELSE [e \in DOMAIN waiting \cup {<<n, a>>} |->
         IF e = <<n, a>> THEN [packets |-> <<k>>, requests |-> 1] ELSE waiting[e]]

\* Where n sends a packet for dst, or None.
NextHop(n, dst) ==
  LET route == LookupLPM(fib[n], dst)
  IN IF route = None THEN None
     ELSE IF route.gateway = None THEN dst ELSE route.gateway

\* The address of n on the link of a.
OwnAddress(n, a) == IF Owner[a] = n THEN a ELSE Peer(a)

\* A packet of n's own.  src None: the address of the outgoing interface.
New(n, kind, src, dst, ttl, probe) ==
  [kind |-> kind, dst |-> dst, ttl |-> ttl, probe |-> probe,
   src |-> IF src # None \/ NextHop(n, dst) = None THEN src
           ELSE OwnAddress(n, NextHop(n, dst))]

\* demotePacketToLayer3WithOptions and Layer3IPPacketRecvFromBottom after the
\* route is known: the packet goes down, or is dropped.
Routed(n, k) ==
  IF NextHop(n, k.dst) = None THEN << >> ELSE Down(n, NextHop(n, k.dst), k)

RoutedWaiting(n, k) ==
  IF NextHop(n, k.dst) = None THEN waiting ELSE Waiting(n, NextHop(n, k.dst), k)

\* icmpErrorPermitted: no error about an error.
ErrorPermitted(k) == k.kind # "exceeded"

------------------------------------------------------------------------------
(* The transport.                                                            *)
Busy(g) == drainer = g \/ g \in dispatcher \/ outbox[g] # << >>

\* Send: a goroutine that finds nobody draining drains.
Send(g) ==
  /\ g \notin dispatcher /\ drainer # g
  /\ outbox[g] # << >>
  /\ outbox' = [outbox EXCEPT ![g] = Tail(@)]
  /\ LET frames == Sendable(<<Head(outbox[g])>>)
     IN /\ queue' = queue \o frames
        /\ drainer' = IF drainer = None /\ frames # << >> THEN g ELSE drainer
  /\ UNCHANGED <<up, ipVars, arpVars, busVars, captureVars, userVars, disturbed>>

EndDrain(g) ==
  /\ drainer = g /\ g \notin dispatcher
  /\ queue = << >>
  /\ drainer' = None
  /\ UNCHANGED <<up, queue, outbox, ipVars, arpVars, busVars, captureVars, userVars, disturbed>>

\* The frame that is delivered next, its receiver and its sender's address.
First == Head(queue)
Here == Owner[First.to]
Sender == Peer(First.to)

\* g handles it; the frames are those that the handler sends.
Handles(g, frames) ==
  /\ queue' = Tail(queue) \o Sendable(frames)
  /\ Emit(g)
  /\ disturbed' = (disturbed \/ g # "user")
  /\ UNCHANGED <<edits, fib, up, drainer, outbox, captureVars, userVars>>

Delivers(g) ==
  /\ drainer = g /\ g \notin dispatcher
  /\ queue # << >>

\* deliverTransportFrame, when the link went down meanwhile.
LoseFrame(g) ==
  /\ Delivers(g) /\ LinkOf(First.to) \notin up
  /\ queue' = Tail(queue)
  /\ disturbed' = (disturbed \/ g # "user")
  /\ UNCHANGED <<up, drainer, outbox, ipVars, arpVars, busVars, captureVars, userVars>>

Receives(g, kind) == Delivers(g) /\ LinkOf(First.to) \in up /\ First.kind = kind

\* The packets that waited for a, sent in the order of the list.
Released(n, a) ==
  IF <<n, a>> \in DOMAIN waiting
  THEN [i \in DOMAIN waiting[<<n, a>>].packets |->
          FrameOf("ip", a, waiting[<<n, a>>].packets[i])]
  ELSE << >>

\* arp_learn_binding.
Learns(n, a) ==
  /\ known' = known \cup {<<n, a>>}
  /\ waiting' = [e \in DOMAIN waiting \ {<<n, a>>} |-> waiting[e]]
  /\ UNCHANGED <<replies, errors, answers>>

\* process_arp_broadcast_request: learn the sender, then answer.
ReceiveAsk(g) ==
  /\ Receives(g, "ask")
  /\ Handles(g, Released(Here, Sender) \o <<FrameOf("answer", Sender, None)>>)
  /\ Learns(Here, Sender)

\* process_arp_reply_msg.
ReceiveAnswer(g) ==
  /\ Receives(g, "answer")
  /\ Handles(g, Released(Here, Sender))
  /\ Learns(Here, Sender)

\* IsLayer3LocalDelivery.
TtlBeforeLocal(k) ==   \* faulty variant: a packet for the node needs a hop left
  k.dst \in Addr /\ Owner[k.dst] = Here /\ k.ttl > 1

Local(k) == k.dst \in Addr /\ Owner[k.dst] = Here

\* Node n handles the frame by sending packet k.
Originates(g, k) ==
  /\ Handles(g, Routed(Here, k))
  /\ waiting' = RoutedWaiting(Here, k)
  /\ UNCHANGED <<known, replies, errors, answers>>

\* handleLocalIPPacket: an echo request is answered.
ReceiveEcho(g) ==
  /\ Receives(g, "ip") /\ Local(First.pkt) /\ First.pkt.kind = "request"
  /\ Originates(g, New(Here, "reply", None, First.pkt.src, InitialTtl, First.pkt.probe))

\* An echo reply is counted.
ReceiveReply(g) ==
  /\ Receives(g, "ip") /\ Local(First.pkt) /\ First.pkt.kind = "reply"
  /\ Handles(g, << >>)
  /\ replies' = [replies EXCEPT ![Here] = Append(@, First.pkt.probe)]
  /\ answers' = Append(answers, First.pkt.probe)
  /\ UNCHANGED <<errors, arpVars>>

\* handleICMPError: an error is recorded for the sender to take.
ReceiveError(g) ==
  /\ Receives(g, "ip") /\ Local(First.pkt) /\ First.pkt.kind = "exceeded"
  /\ Handles(g, << >>)
  /\ errors' = [errors EXCEPT ![Here] =
                  Append(@, [by |-> First.pkt.src, probe |-> First.pkt.probe])]
  /\ answers' = Append(answers, First.pkt.probe)
  /\ UNCHANGED <<replies, arpVars>>

\* A packet in transit, when there is a route for it.
Transit(g) == Receives(g, "ip") /\ ~Local(First.pkt) /\ NextHop(Here, First.pkt.dst) # None

\* Without a route it is dropped, and nobody is told.
DropUnroutable(g) ==
  /\ Receives(g, "ip") /\ ~Local(First.pkt) /\ NextHop(Here, First.pkt.dst) = None
  /\ Handles(g, << >>)
  /\ UNCHANGED <<replies, errors, answers, arpVars>>

OffByOne(k) == k.ttl = 0   \* faulty variant

LastHop(k) == k.ttl <= 1

Forward(g) ==
  /\ Transit(g) /\ ~LastHop(First.pkt)
  /\ Originates(g, [First.pkt EXCEPT !.ttl = @ - 1])

\* sendICMPErrorRouted: the error comes from the address the packet arrived at.
Exceeded == New(Here, "exceeded", First.to, First.pkt.src, InitialTtl, First.pkt.probe)

ReportsAndForwards(g) ==   \* faulty variant: the return is missing
  /\ Transit(g) /\ LastHop(First.pkt)
  /\ Handles(g, Routed(Here, Exceeded) \o Routed(Here, First.pkt))
  /\ waiting' = RoutedWaiting(Here, Exceeded)
  /\ UNCHANGED <<known, replies, errors, answers>>

Expire(g) ==
  /\ Transit(g) /\ LastHop(First.pkt)
  /\ IF ErrorPermitted(First.pkt) THEN Originates(g, Exceeded)
     ELSE Handles(g, << >>) /\ UNCHANGED <<replies, errors, answers, arpVars>>

------------------------------------------------------------------------------
(* maintain_arp_pending_entries, one entry at a time.                        *)

\* Timers last longer than a request and its answer are on their way.
Overdue(n, a) ==
  /\ ~Busy(n)
  /\ <<n, a>> \in DOMAIN waiting
  /\ \A f \in Range(queue) \cup UNION {Range(outbox[g]) : g \in Goroutine} :
       f.kind # "ip" => LinkOf(f.to) # LinkOf(a)

Retry(n, a) ==
  /\ Overdue(n, a)
  /\ waiting[<<n, a>>].requests < MaxAttempts
  /\ waiting' = [waiting EXCEPT ![<<n, a>>].requests = @ + 1]
  /\ outbox' = [outbox EXCEPT ![n] = IF Owner[a] = n THEN << >> ELSE <<FrameOf("ask", a, None)>>]
  /\ Emit(n)
  /\ disturbed' = TRUE
  /\ UNCHANGED <<known, up, queue, drainer, ipVars, captureVars, userVars>>

GiveUp(n, a) ==
  /\ Overdue(n, a)
  /\ waiting[<<n, a>>].requests = MaxAttempts
  /\ waiting' = [e \in DOMAIN waiting \ {<<n, a>>} |-> waiting[e]]
  /\ Emit(n)
  /\ disturbed' = TRUE
  /\ UNCHANGED <<known, netVars, ipVars, captureVars, userVars>>

------------------------------------------------------------------------------
(* The user's operations.  A ping is one probe with a full TTL; a traceroute *)
(* sends probes of TTL 1, 2, ... and emits an event before and after them.   *)
At(stage) == op.stage = stage /\ ~Busy("user")

\* pingLocked, tracerouteLocked, and beginCapture when a trace is wanted.
Begin ==
  /\ op = Idle /\ script # << >> /\ Head(script).do \in {"ping", "traceroute"}
  /\ LET call == Head(script)
         ping == call.do = "ping"
     IN /\ op' = [stage |-> "probe", id |-> Len(script), ping |-> ping, traced |-> call.trace,
                  src |-> call.src, dst |-> call.dst,
                  ttl |-> IF ping THEN InitialTtl ELSE 1,
                  max |-> IF ping THEN InitialTtl ELSE call.max,
                  before |-> 0, underway |-> {}, hops |-> << >>, first |-> sequence + 1,
                  works |-> up = Links /\ waiting = << >>]
        /\ capturing' = call.trace
        /\ captured' = << >>
        /\ IF ping THEN UNCHANGED busVars ELSE Emit("user")
  /\ script' = Tail(script)
  /\ disturbed' = \E n \in Node : Busy(n)
  /\ UNCHANGED <<last, ipVars, arpVars, netVars>>

\* For the properties: the probes that packets under way or waiting stem from.
Underway ==
  LET frames == Range(queue) \cup UNION {Range(outbox[g]) : g \in Goroutine}
  IN {k.probe : k \in {f.pkt : f \in {f \in frames : f.kind = "ip"}}
                      \cup UNION {Range(waiting[e].packets) : e \in DOMAIN waiting}}

\* What was left by earlier activity is discarded before a probe.
KeepsErrors ==   \* faulty variant
  /\ op' = [op EXCEPT !.stage = "send", !.before = Len(replies[op.src]), !.underway = Underway]
  /\ UNCHANGED errors

Discard ==
  /\ op' = [op EXCEPT !.stage = "send", !.before = Len(replies[op.src]), !.underway = Underway]
  /\ errors' = [errors EXCEPT ![op.src] = << >>]

StartProbe ==
  /\ At("probe")
  /\ Discard
  /\ Emit("user")
  /\ UNCHANGED <<edits, fib, replies, answers, script, last, arpVars, netVars, captureVars, disturbed>>

\* Layer5PingFunc, Layer5TracerouteProbeFunc.
Probe == <<op.id, op.ttl>>

SendProbe ==
  /\ At("send")
  /\ LET k == New(op.src, "request", None, op.dst, op.ttl, Probe)
     IN /\ outbox' = [outbox EXCEPT !["user"] = Routed(op.src, k)]
        /\ waiting' = RoutedWaiting(op.src, k)
  /\ op' = [op EXCEPT !.stage = "collect"]
  /\ Emit("user")
  /\ UNCHANGED <<known, up, queue, drainer, ipVars, script, last, captureVars, disturbed>>

\* Send returned: the probe is judged by what arrived since StartProbe.  of is
\* there for the properties: the probes that the answers belong to.
Hop ==
  LET new == SubSeq(replies[op.src], op.before + 1, Len(replies[op.src]))
      reports == errors[op.src]
  IN IF new # << >> THEN [ttl |-> op.ttl, what |-> "reached", by |-> op.dst, of |-> Range(new)]
     ELSE IF reports # << >>
     THEN [ttl |-> op.ttl, what |-> "reported", by |-> Last(reports).by,
           of |-> {Last(reports).probe}]
     ELSE [ttl |-> op.ttl, what |-> "timeout", by |-> None, of |-> {Probe}]

Collect ==
  /\ At("collect")
  /\ LET more == Hop.what # "reached" /\ op.ttl < op.max
     IN op' = [op EXCEPT !.hops = Append(@, Hop @@ [underway |-> op.underway]),
                         !.ttl = IF more THEN @ + 1 ELSE @,
                         !.stage = IF more THEN "probe" ELSE IF op.ping THEN "end" ELSE "complete"]
  /\ errors' = [errors EXCEPT ![op.src] = << >>]
  /\ Emit("user")
  /\ UNCHANGED <<edits, fib, replies, answers, script, last, arpVars, netVars, captureVars, disturbed>>

Complete ==
  /\ At("complete")
  /\ op' = [op EXCEPT !.stage = "end"]
  /\ Emit("user")
  /\ UNCHANGED <<script, last, ipVars, arpVars, netVars, captureVars, disturbed>>

\* endCapture; the caller gets the result and the captured events.
End ==
  /\ At("end")
  /\ last' = [op |-> op, events |-> captured, disturbed |-> disturbed, end |-> sequence]
  /\ op' = Idle
  /\ capturing' = FALSE /\ captured' = << >>
  /\ UNCHANGED <<script, ipVars, arpVars, netVars, busVars, disturbed>>

\* SetLinkState; there is no spanning tree here.
SetLinkState ==
  /\ op = Idle /\ script # << >> /\ Head(script).do = "link"
  /\ up' = IF Head(script).up THEN up \cup {Head(script).link} ELSE up \ {Head(script).link}
  /\ script' = Tail(script)
  /\ UNCHANGED <<op, last, queue, drainer, outbox, ipVars, arpVars, busVars, captureVars, disturbed>>

------------------------------------------------------------------------------
Step(g) ==
  \/ TakeEvent(g)
  \/ HandleEvent(g)
  \/ EndDispatch(g)
  \/ Send(g)
  \/ EndDrain(g)
  \/ LoseFrame(g)
  \/ ReceiveAsk(g)
  \/ ReceiveAnswer(g)
  \/ ReceiveEcho(g)
  \/ ReceiveReply(g)
  \/ ReceiveError(g)
  \/ DropUnroutable(g)
  \/ Forward(g)
  \/ Expire(g)

Finished ==
  /\ op = Idle /\ script = << >> /\ waiting = << >>
  /\ \A g \in Goroutine : ~Busy(g)
  /\ UNCHANGED vars

Next ==
  \/ \E g \in Goroutine : Step(g)
  \/ \E n \in Node, a \in Addr : Retry(n, a) \/ GiveUp(n, a)
  \/ Begin
  \/ StartProbe
  \/ SendProbe
  \/ Collect
  \/ Complete
  \/ End
  \/ SetLinkState
  \/ Finished

Spec == Init /\ [][Next]_vars

------------------------------------------------------------------------------
Packet ==
  [kind : {"request", "reply", "exceeded"}, src : Addr, dst : Seq({0, 1}),
   ttl : 1 .. InitialTtl, probe : Nat \X Nat]

\* Every variable has its type.  A packet in the network has a TTL left and the
\* source address of some interface, and MaxEvents is never reached: whatever
\* the routes are, a packet and the messages about it come to an end.
TypeOK ==
  /\ known \subseteq Node \X Addr
  /\ DOMAIN waiting \subseteq (Node \X Addr) \ known
  /\ \A e \in DOMAIN waiting :
       /\ waiting[e].requests \in 1 .. MaxAttempts
       /\ waiting[e].packets \in Seq(Packet) \ {<< >>}
  /\ \A i \in DOMAIN queue :
       /\ queue[i].kind \in {"ask", "answer", "ip"} /\ queue[i].to \in Addr
       /\ queue[i].kind = "ip" => queue[i].pkt \in Packet
  /\ drainer \in Goroutine \cup {None}
  /\ queue # << >> => drainer # None
  /\ sequence \in 0 .. MaxEvents
  /\ up \subseteq Links

\* The routes of n's configuration that begin as dst does.
Candidates(n, dst) ==
  {r \in Configured(edits[n]) : SubSeq(dst, 1, r.mask) = SubSeq(r.dest, 1, r.mask)}

BestAmong(routes, best) ==
  /\ best \in routes
  /\ \A r \in routes :
       \/ best.mask > r.mask
       \/ best.mask = r.mask /\ best.ad < r.ad
       \/ best.mask = r.mask /\ best.ad = r.ad /\ best.metric <= r.metric

\* LookupLPM returns a route that matches and that no other matching route of
\* the configuration beats by prefix, distance and metric in this order, and
\* none only when no route matches; adding twice, replacing and removing in the
\* middle of the table lose or keep nothing wrongly.
LookupIsBest ==
  op = Idle /\ last = None =>
    \A n \in Node, dst \in Address(Width) :
      IF Candidates(n, dst) = {} THEN LookupLPM(fib[n], dst) = None
      ELSE BestAmong(Candidates(n, dst), LookupLPM(fib[n], dst))

\* Where a packet for dst that n sends is after ttl hops, if it gets that far:
\* the last interface it arrived at, or None.
Reach(n, dst, ttl) ==
  LET at[k \in 1 .. ttl] ==
        IF k = 1 THEN NextHop(n, dst)
        ELSE IF at[k - 1] = None \/ (dst \in Addr /\ Owner[at[k - 1]] = Owner[dst]) THEN at[k - 1]
        ELSE NextHop(Owner[at[k - 1]], dst)
  IN at[ttl]

\* What n sends to src gets there; a report to itself never leaves a node.
Returns(n, src, dst) ==
  LET back == OwnAddress(src, NextHop(src, dst))
      end == Reach(n, back, InitialTtl)
  IN n # src /\ end # None /\ Owner[end] = src

\* What a probe of some TTL finds, read off the routes.
Expected(src, dst, ttl) ==
  LET a == Reach(src, dst, ttl)
  IN IF a = None THEN <<"timeout", None>>
     ELSE IF dst \in Addr /\ Owner[a] = Owner[dst]
     THEN IF Returns(Owner[a], src, dst) THEN <<"reached", dst>> ELSE <<"timeout", None>>
     ELSE IF NextHop(Owner[a], dst) # None /\ Returns(Owner[a], src, dst)
     THEN <<"reported", a>> ELSE <<"timeout", None>>

\* "each hop is named by the address facing the probe, so the printed path
\* matches the links actually traversed": a ping or traceroute on a network
\* whose links are up and where nothing waits gets, probe by probe, the answer
\* that the routing tables there and back call for, with loops, missing and
\* misdirected routes, unless ARP maintenance was at work meanwhile.
TracesPath ==
  op = Idle /\ last # None /\ last.op.works /\ ~last.disturbed =>
    \A i \in DOMAIN last.op.hops :
      LET hop == last.op.hops[i]
      IN <<hop.what, hop.by>> = Expected(last.op.src, last.op.dst, hop.ttl)

\* "each ping reads only the errors its own packets provoked" (node.go): an answer
\* is taken for the probe it answers.  ping_reply_count and icmp_errors do not say
\* which probe provoked them; the code relies on everything a probe causes being
\* over when Send returns.  A packet that an earlier operation left waiting for
\* ARP breaks that.
OwnAnswers ==
  op = Idle /\ last # None /\ ~last.disturbed =>
    \A i \in DOMAIN last.op.hops : last.op.hops[i].of = {<<last.op.id, last.op.hops[i].ttl>>}

\* What the code keeps of it.  No probe is given an answer that was there before
\* it: besides its own, only answers of packets that were still under way or
\* waiting when it started can be taken for it, whatever ARP maintenance does.  And
\* its own are the only ones when it started on a network at rest, with all links
\* up, that ARP maintenance left alone.
NoOldAnswers ==
  op = Idle /\ last # None =>
    \A i \in DOMAIN last.op.hops :
      LET hop == last.op.hops[i]  own == <<last.op.id, hop.ttl>> IN
      /\ hop.of \subseteq {own} \cup hop.underway
      /\ last.op.works /\ ~last.disturbed => hop.of = {own}

\* The fate of a probe is told once: no packet is answered twice, not by its
\* destination, not by routers that pass it around a loop, not when it waited.
OneAnswer == IsInjective(answers)

\* A trace lists events in the order of their sequence numbers, none twice; if
\* ARP maintenance was not at work it lists those of the operation, from the
\* first to the last.
FaithfulTrace ==
  op = Idle /\ last # None /\ last.op.traced =>
    /\ \A i, j \in DOMAIN last.events : i < j => last.events[i] < last.events[j]
    /\ ~last.disturbed =>
         last.events = [i \in 1 .. last.end - last.op.first + 1 |-> last.op.first + i - 1]

\* The bus promises its emitters what the transport promises its senders: the
\* sink gets every event once, one at a time and in the order of their numbers,
\* although emitters leave dispatching to each other.
Bus == INSTANCE FrameDelivery WITH
  Frame <- 1 .. MaxEvents, backlog <- pending, closed <- FALSE,
  current <- IF \E g \in Goroutine : hand[g] # None
             THEN hand[CHOOSE g \in Goroutine : hand[g] # None] ELSE None

BusDelivers == Bus!Spec
==============================================================================
