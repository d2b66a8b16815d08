-------------------------------- MODULE Rip ---------------------------------
(****************************************************************************)
(* RIP on the routers of a topology.  Three goroutines meet on each router: *)
(*   daemon   runRIPDaemon: periodic and triggered updates, expiry          *)
(*   rx       the router's receive goroutine, which handles responses       *)
(*   cli      the command line, one for all routers: enable-rip, disable-rip*)
(*                                                                          *)
(* Each router keeps RIP's own table (routes) beside the RIP routes of the  *)
(* forwarding table (fib).  Connected routes never change.  Networks do not *)
(* influence each other, so Net may be any part of the topology's networks. *)
(*                                                                          *)
(*   route: [via, metric, age, expired, dead], or None.  via is the link    *)
(*          to the next hop: it stands for NextHop and Interface            *)
(*   fib entry: [via, metric], or None                                      *)
(*   packet: [link, metrics], with the metrics listed for every network     *)
(*                                                                          *)
(* Time is counted in update intervals.                                     *)
(****************************************************************************)
EXTENDS Naturals, FiniteSets, SequencesExt

CONSTANTS Node,         \* the routers
          Link,         \* links between two routers
          Ends,         \* Ends[l]: the two routers of link l
          Net,          \* the networks whose routes are followed
          Attached,     \* Attached[d]: the routers connected to network d
          Started,      \* routers on which RIP was just enabled
          Operated,     \* routers on which it may be enabled or disabled
          MaxMetric,    \* RIP_MAX_METRIC, unreachable
          Timeout,      \* RIP_TIMEOUT
          Garbage,      \* RIP_GARBAGE_COLLECT
          MaxOps,       \* commands of a behaviour
          MaxLoss,      \* packets the network loses
          MaxInbox,     \* packets in a router's socket
          None

Route == [via : Link, metric : 1..MaxMetric, age : 0..(Timeout + 1),
          expired : BOOLEAN, dead : 0..(Garbage + 1)]
FibRoute == [via : Link, metric : 1..(MaxMetric - 1)]
Packet == [link : Link, metrics : [Net -> Seq(0..MaxMetric)]]
Stop == [node : Node, stage : {"wait", "purge", "forget"}]

ASSUME RipAssumption ==
  /\ IsFiniteSet(Link)
  /\ Ends \in [Link -> SUBSET Node] /\ \A l \in Link : Cardinality(Ends[l]) = 2
  /\ Attached \in [Net -> SUBSET Node]
  /\ Started \subseteq Node /\ Operated \subseteq Node
  /\ {MaxMetric, Timeout, Garbage, MaxInbox} \subseteq Nat \ {0}
  /\ {MaxOps, MaxLoss} \subseteq Nat
  /\ None \notin Route \cup FibRoute \cup Packet \cup Stop

VARIABLES enabled,   \* enabled[n]
          routes,    \* routes[n][d]: RIP's route to d
          fib,       \* fib[n][d]: the forwarding table's RIP route to d
          token,     \* token[n]: triggerUpdateCh holds a request
          timer,     \* timer[n]: the trigger timer runs
          due,       \* due[n]: ticks the daemon has not served
          running,   \* running[n]: the daemon goroutine runs
          inbox,     \* inbox[n]: packets that n did not receive yet
          rx,        \* rx[n]: a response admitted before StopRIP, or None
          cli,       \* [node, stage] of the disable-rip under way, or None
          ops,       \* commands so far
          losses,    \* packets lost so far
          raced      \* such a response was handled

ripVars == <<routes, fib>>
daemonVars == <<timer, due, running>>
netVars == <<inbox, rx, losses>>
cliVars == <<enabled, cli, ops>>
vars == <<ripVars, token, daemonVars, netVars, cliVars, raced>>

Links(n) == {l \in Link : n \in Ends[l]}
Peer(n, l) == CHOOSE m \in Ends[l] : m # n
Stopping(n) == cli # None /\ cli.node = n
Empty == [d \in Net |-> None]

Init ==
  /\ enabled = [n \in Node |-> n \in Started]
  /\ running = enabled
  /\ due = [n \in Node |-> IF n \in Started THEN {"update"} ELSE {}]
  /\ routes = [n \in Node |-> Empty]
  /\ fib = [n \in Node |-> Empty]
  /\ token = [n \in Node |-> FALSE]
  /\ timer = [n \in Node |-> FALSE]
  /\ inbox = [n \in Node |-> << >>]
  /\ rx = [n \in Node |-> None]
  /\ cli = None /\ ops = 0 /\ losses = 0 /\ raced = FALSE

------------------------------------------------------------------------------
(* Sending an update: SendRoutingUpdates.                                    *)
Expired(n) == {d \in Net : routes[n][d] # None /\ routes[n][d].expired}

\* buildRIPResponse: the metrics listed for d on link l.  The forwarding table
\* holds the connected route and the RIP route side by side; a poisoned route
\* is listed when it holds neither.
Metrics(n, d, l) ==
  (IF n \in Attached[d] THEN <<0>> ELSE << >>)
  \o (IF fib[n][d] # None
        THEN <<IF fib[n][d].via = l THEN MaxMetric ELSE fib[n][d].metric>> ELSE << >>)
  \o (IF n \notin Attached[d] /\ fib[n][d] = None /\ d \in Expired(n) THEN <<MaxMetric>> ELSE << >>)

Response(n, l) == [link |-> l, metrics |-> [d \in Net |-> Metrics(n, d, l)]]

\* A response on every link, all from one snapshot (routesForAdvertisement); a full
\* socket holds the sender up.
SendRoutingUpdates(n) ==
  /\ \A l \in Links(n) : Len(inbox[Peer(n, l)]) < MaxInbox
  /\ inbox' = [m \in Node |->
       inbox[m] \o SetToSeq({Response(n, l) : l \in {k \in Links(n) : Peer(n, k) = m}})]

\* The update ticker.  The update supersedes one that waits for the timer.
PeriodicUpdate(n) ==
  /\ running[n] /\ "update" \in due[n]
  /\ due' = [due EXCEPT ![n] = @ \ {"update"}]
  /\ timer' = [timer EXCEPT ![n] = FALSE]
  /\ SendRoutingUpdates(n)
  /\ UNCHANGED <<ripVars, token, running, rx, losses, cliVars, raced>>

\* A request for a triggered update starts the timer, unless it runs already.
TakeTrigger(n) ==
  /\ running[n] /\ token[n]
  /\ token' = [token EXCEPT ![n] = FALSE]
  /\ timer' = [timer EXCEPT ![n] = TRUE]
  /\ UNCHANGED <<ripVars, due, running, netVars, cliVars, raced>>

TriggeredUpdate(n) ==
  /\ running[n] /\ timer[n]
  /\ timer' = [timer EXCEPT ![n] = FALSE]
  /\ SendRoutingUpdates(n)
  /\ UNCHANGED <<ripVars, token, due, running, rx, losses, cliVars, raced>>

------------------------------------------------------------------------------
(* Receiving a response: ProcessRIPPacket.                                   *)

Lose(n) ==
  /\ inbox[n] # << >> /\ losses < MaxLoss
  /\ inbox' = [inbox EXCEPT ![n] = Tail(@)]
  /\ losses' = losses + 1
  /\ UNCHANGED <<ripVars, token, daemonVars, rx, cliVars, raced>>

\* One entry of a response received on link l.  st is what becomes of one
\* network: [route, fib, changed].
Install(l, m) ==
  [route |-> [via |-> l, metric |-> m, age |-> 0, expired |-> FALSE, dead |-> 0],
   fib |-> [via |-> l, metric |-> m],
   changed |-> TRUE]

\* The next hop reports on its own route, for better or worse.
Refreshed(r, m) ==
  [r EXCEPT !.metric = m, !.age = 0, !.expired = (m >= MaxMetric),
            !.dead = IF m >= MaxMetric /\ r.expired THEN @ ELSE 0]

Differs(r, m) == r.metric # m \/ r.expired # (m >= MaxMetric)

KeepsInFib(st, l, m) ==   \* faulty variant: the forwarding table keeps a route that is gone
  [route |-> Refreshed(st.route, m),
   fib |-> [via |-> l, metric |-> m],
   changed |-> st.changed \/ Differs(st.route, m)]

Refresh(st, l, m) ==
  [route |-> Refreshed(st.route, m),
   fib |-> IF m >= MaxMetric THEN None ELSE [via |-> l, metric |-> m],
   changed |-> st.changed \/ Differs(st.route, m)]

Entry(st, l, m) ==
  IF m < MaxMetric /\ (st.route = None \/ m < st.route.metric) THEN Install(l, m)
  ELSE IF st.route # None /\ st.route.via = l THEN Refresh(st, l, m)
  ELSE st

\* The link's cost.
NoCap(m) == m + 1   \* faulty variant: RIP_MAX_METRIC does not bound the metric

AddCost(m) == IF m < MaxMetric THEN m + 1 ELSE MaxMetric

\* All entries of packet p for network d.
Applied(n, p, d) ==
  LET st[i \in 0 .. Len(p.metrics[d])] ==
        IF i = 0 THEN [route |-> routes[n][d], fib |-> fib[n][d], changed |-> FALSE]
        ELSE Entry(st[i - 1], p.link, AddCost(p.metrics[d][i]))
  IN  st[Len(p.metrics[d])]

\* The handler proper, under the lock, and requestTriggeredUpdate.
Handle(n, p) ==
  LET new == [d \in Net |-> Applied(n, p, d)] IN
    /\ routes' = [routes EXCEPT ![n] = [d \in Net |-> new[d].route]]
    /\ fib' = [fib EXCEPT ![n] = [d \in Net |-> new[d].fib]]
    /\ token' = [token EXCEPT ![n] = @ \/ (enabled[n] /\ \E d \in Net : new[d].changed)]

\* ProcessRIPPacket.  The handler reads enabled under the lock, releases it and
\* takes it again.  Only StopRIP and StartRIP can tell: a response that StopRIP
\* finds between the two is in rx, and is handled all the same.
Receive(n) ==
  /\ rx[n] = None /\ inbox[n] # << >>
  /\ inbox' = [inbox EXCEPT ![n] = Tail(@)]
  /\ \/ enabled[n] /\ Handle(n, Head(inbox[n]))
     \/ ~enabled[n] /\ UNCHANGED <<ripVars, token>>
  /\ UNCHANGED <<daemonVars, rx, losses, cliVars, raced>>

ReceiveLate(n) ==
  /\ rx[n] # None
  /\ Handle(n, rx[n])
  /\ rx' = [rx EXCEPT ![n] = None]
  /\ raced' = (raced \/ ~(Stopping(n) /\ cli.stage \in {"wait", "purge"}))
  /\ UNCHANGED <<daemonVars, inbox, losses, cliVars>>

------------------------------------------------------------------------------
(* CheckExpiredRoutes, served at every expiration tick.                      *)
NeverAged(r) == r   \* faulty variant: routes do not time out

Aged(r) ==
  IF r # None /\ ~r.expired /\ r.age > Timeout
    THEN [r EXCEPT !.expired = TRUE, !.metric = MaxMetric, !.dead = 0]
    ELSE r

\* faulty variant: a route that times out is dropped with its poison
DropAtOnce(r) == IF r # None /\ r.age > Timeout THEN None ELSE r

Collected(r) == IF r # None /\ r.expired /\ r.dead > Garbage THEN None ELSE r

Checked(r) == Collected(Aged(r))

CheckExpired(n) ==
  /\ running[n]
  /\ "expire" \in due[n]
  /\ due' = [due EXCEPT ![n] = @ \ {"expire"}]
  /\ LET old == routes[n]
         out == {d \in Net : old[d] # None /\ ~old[d].expired /\ Aged(old[d]).expired} IN
       /\ routes' = [routes EXCEPT ![n] = [d \in Net |-> Checked(old[d])]]
       /\ fib' = [fib EXCEPT ![n] = [d \in Net |-> IF d \in out THEN None ELSE @[d]]]
       /\ token' = [token EXCEPT ![n] = @ \/ (enabled[n] /\ out # {})]
  /\ UNCHANGED <<timer, running, netVars, cliVars, raced>>

\* An update interval goes by.  Serving ticks and requests and handling packets
\* take no time by comparison; a triggered update may be waiting for its timer.
Older(r) ==
  IF r = None THEN None
  ELSE [r EXCEPT !.age = IF @ > Timeout THEN @ ELSE @ + 1,
                 !.dead = IF ~r.expired \/ @ > Garbage THEN @ ELSE @ + 1]

Tick ==
  /\ cli = None
  /\ \A n \in Node :
       due[n] = {} /\ (running[n] => ~token[n]) /\ inbox[n] = << >> /\ rx[n] = None
  /\ routes' = [n \in Node |-> [d \in Net |-> Older(routes[n][d])]]
  /\ due' = [n \in Node |-> IF running[n] THEN {"update", "expire"} ELSE {}]
  /\ UNCHANGED <<fib, token, timer, running, netVars, cliVars, raced>>

------------------------------------------------------------------------------
(* StartRIP and StopRIP.                                                     *)
StartRIP(n) ==
  /\ cli = None /\ ops < MaxOps
  /\ ~enabled[n]
  /\ ops' = ops + 1
  /\ enabled' = [enabled EXCEPT ![n] = TRUE]
  /\ running' = [running EXCEPT ![n] = TRUE]
  /\ token' = [token EXCEPT ![n] = FALSE]
  /\ due' = [due EXCEPT ![n] = {"update"}]
  /\ UNCHANGED <<ripVars, timer, netVars, cli, raced>>

StopRIP(n) ==
  /\ cli = None /\ ops < MaxOps
  /\ enabled[n]
  /\ ops' = ops + 1
  /\ enabled' = [enabled EXCEPT ![n] = FALSE]
  /\ cli' = [node |-> n, stage |-> "wait"]
  /\ \/ UNCHANGED netVars
     \/ /\ rx[n] = None /\ inbox[n] # << >>
        /\ inbox' = [inbox EXCEPT ![n] = Tail(@)]
        /\ rx' = [rx EXCEPT ![n] = Head(inbox[n])]
        /\ UNCHANGED losses
  /\ UNCHANGED <<ripVars, token, daemonVars, raced>>

\* The daemon sees the closed stop channel; what else is ready may come first.
DaemonExit(n) ==
  /\ running[n]
  /\ cli = [node |-> n, stage |-> "wait"]
  /\ running' = [running EXCEPT ![n] = FALSE]
  /\ due' = [due EXCEPT ![n] = {}]
  /\ timer' = [timer EXCEPT ![n] = FALSE]
  /\ cli' = [cli EXCEPT !.stage = "purge"]
  /\ UNCHANGED <<ripVars, token, netVars, enabled, ops, raced>>

StopPurge ==
  /\ cli # None /\ cli.stage = "purge"
  /\ fib' = [fib EXCEPT ![cli.node] = Empty]
  /\ cli' = [cli EXCEPT !.stage = "forget"]
  /\ UNCHANGED <<routes, token, daemonVars, netVars, enabled, ops, raced>>

StopForget ==
  /\ cli # None /\ cli.stage = "forget"
  /\ routes' = [routes EXCEPT ![cli.node] = Empty]
  /\ cli' = None
  /\ UNCHANGED <<fib, token, daemonVars, netVars, enabled, ops, raced>>

------------------------------------------------------------------------------
Daemon(n) ==
  \/ PeriodicUpdate(n) \/ TakeTrigger(n) \/ TriggeredUpdate(n)
  \/ CheckExpired(n) \/ DaemonExit(n)

Next ==
  \/ \E n \in Node : Daemon(n) \/ Receive(n) \/ ReceiveLate(n) \/ Lose(n)
  \/ \E n \in Operated : StartRIP(n) \/ StopRIP(n)
  \/ StopPurge \/ StopForget \/ Tick

\* The daemon's select serves every case that stays ready, the receive
\* goroutine reads its socket, StopRIP runs to its end, and time passes.
\* Nobody has to type a command.
Fairness ==
  /\ \A n \in Node :
       /\ WF_vars(PeriodicUpdate(n)) /\ WF_vars(TakeTrigger(n)) /\ WF_vars(TriggeredUpdate(n))
       /\ WF_vars(CheckExpired(n)) /\ WF_vars(DaemonExit(n))
       /\ WF_vars(Receive(n)) /\ WF_vars(ReceiveLate(n))
  /\ WF_vars(StopPurge \/ StopForget)
  /\ WF_vars(Tick)

Spec == Init /\ [][Next]_vars /\ Fairness

------------------------------------------------------------------------------
\* Every variable stays within the values the code can give it; a metric is
\* never 0 nor beyond RIP_MAX_METRIC, and an expired route has that metric.
TypeOK ==
  /\ enabled \in [Node -> BOOLEAN] /\ running \in [Node -> BOOLEAN]
  /\ \A n \in Node, d \in Net :
       /\ \/ routes[n][d] = None
          \/ /\ routes[n][d] \in Route
             /\ routes[n][d].expired <=> routes[n][d].metric = MaxMetric
       /\ fib[n][d] = None \/ fib[n][d] \in FibRoute
  /\ token \in [Node -> BOOLEAN] /\ timer \in [Node -> BOOLEAN]
  /\ due \in [Node -> SUBSET {"update", "expire"}]
  /\ \A n \in Node :
       /\ inbox[n] \in Seq(Packet)
       /\ rx[n] = None \/ rx[n] \in Packet
  /\ cli = None \/ cli \in Stop
  /\ ops \in 0..MaxOps /\ losses \in 0..MaxLoss /\ raced \in BOOLEAN

\* What the forwarding table should hold for RIP's route r.
Installed(r) == IF r = None \/ r.expired THEN None ELSE [via |-> r.via, metric |-> r.metric]

\* Outside StopRIP, the RIP routes of the forwarding table are exactly RIP's
\* own routes that have not expired, whatever responses, refreshes, timeouts,
\* collections and restarts came before; unless a response that was admitted
\* before StopRIP was applied after it (ProcessRIPPacket drops its lock between
\* the check of enabled and the handling).
FibMirrorsRoutes ==
  raced \/ \A n \in Node, d \in Net : Stopping(n) \/ fib[n][d] = Installed(routes[n][d])

\* A route that leaves the forwarding table is kept as poison: it leaves RIP's
\* own table only after it was expired, so neighbours can be told with metric 16
\* (routesForAdvertisement), or with the whole table when RIP is disabled.
PoisonRetained ==
  [][\A n \in Node, d \in Net :
       routes[n][d] # None /\ routes'[n][d] = None
         => Stopping(n) \/ (routes[n][d].expired /\ fib[n][d] = None /\ routes[n][d].dead > Garbage)]_vars

------------------------------------------------------------------------------
\* Hop counts along routers that run RIP, from a router connected to d.
Dist(n, d) ==
  LET reach[k \in Nat] ==
        IF k = 0 THEN {m \in Attached[d] : enabled[m]}
        ELSE LET near == reach[k - 1]
             IN  near \cup {m \in Node : enabled[m] /\ \E l \in Links(m) : Peer(m, l) \in near}
      hops == {k \in 0..(Cardinality(Node) - 1) : n \in reach[k]}
  IN  Min(hops \cup {MaxMetric})

Correct ==
  \A n \in Node, d \in Net :
    n \notin Attached[d] /\ enabled[n] =>
      IF Dist(n, d) >= MaxMetric THEN fib[n][d] = None
      ELSE fib[n][d] # None /\ fib[n][d].metric = Dist(n, d)

\* Once no command is typed any more, every router that runs RIP ends up with
\* shortest routes to what can be reached and no route to what cannot: lost
\* updates are made good by later ones, dead routes time out, bad news travels,
\* and counting to infinity ends at RIP_MAX_METRIC.
Converges == <>[](raced \/ Correct)

=============================================================================
