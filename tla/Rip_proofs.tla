----------------------------- MODULE Rip_proofs -----------------------------
(****************************************************************************)
(* Theorems about Rip, for any topology, networks, timeouts and bounds.     *)
(****************************************************************************)
EXTENDS Rip, SequenceLemmas

------------------------------------------------------------------------------
(* What becomes of the route to one network.                                 *)

\* RIP's table has an expired route exactly at the metric of an unreachable one.
RouteOK(r) == r = None \/ (r \in Route /\ (r.expired <=> r.metric = MaxMetric))

FibOK(f) == f = None \/ f \in FibRoute

\* The forwarding table has RIP's route or none, whatever StopRIP left behind.
NotStale(r, f) == r # None => f = None \/ f = Installed(r)

StateOK(st) ==
  RouteOK(st.route) /\ FibOK(st.fib) /\ NotStale(st.route, st.fib) /\ st.changed \in BOOLEAN

Mirrors(st) == st.fib = Installed(st.route)

LEMMA RouteFields ==
  ASSUME NEW r \in Route
  PROVE  /\ r # None
         /\ DOMAIN r = {"via", "metric", "age", "expired", "dead"}
         /\ r.via \in Link /\ r.metric \in 1 .. MaxMetric /\ r.age \in 0 .. Timeout + 1
         /\ r.expired \in BOOLEAN /\ r.dead \in 0 .. Garbage + 1
BY RipAssumption DEF Route

LEMMA RouteFrom ==
  ASSUME NEW r,
         r = [via |-> r.via, metric |-> r.metric, age |-> r.age, expired |-> r.expired,
              dead |-> r.dead],
         r.via \in Link, r.metric \in 1 .. MaxMetric, r.age \in 0 .. Timeout + 1,
         r.expired \in BOOLEAN, r.dead \in 0 .. Garbage + 1
  PROVE  r \in Route
BY DEF Route

LEMMA FibRouteType ==
  ASSUME NEW l \in Link, NEW m \in 1 .. MaxMetric - 1
  PROVE  [via |-> l, metric |-> m] \in FibRoute /\ [via |-> l, metric |-> m] # None
BY RipAssumption DEF FibRoute

LEMMA AddCostType ==
  ASSUME NEW m \in 0 .. MaxMetric
  PROVE  AddCost(m) \in 1 .. MaxMetric
BY RipAssumption DEF AddCost

LEMMA InstallOK ==
  ASSUME NEW l \in Link, NEW m \in 1 .. MaxMetric, m < MaxMetric, NEW st, st = Install(l, m)
  PROVE  StateOK(st) /\ Mirrors(st) /\ st.route # None
<1>1. /\ st.route = [via |-> l, metric |-> m, age |-> 0, expired |-> FALSE, dead |-> 0]
      /\ st.fib = [via |-> l, metric |-> m] /\ st.changed = TRUE
  BY DEF Install
<1>2. st.route \in Route
  BY <1>1, RipAssumption DEF Route
<1>3. st.route # None /\ st.route.expired = FALSE /\ st.route.metric = m /\ st.route.via = l
  <2>1. st.route # None
    BY <1>2, RouteFields
  <2>2. st.route.expired = FALSE /\ st.route.metric = m /\ st.route.via = l
    BY <1>1
  <2>3. QED
    BY <2>1, <2>2
<1>4. m # MaxMetric /\ m \in 1 .. MaxMetric - 1
  BY RipAssumption
<1>5. st.fib \in FibRoute
  BY <1>1, <1>4, FibRouteType
<1>6. st.fib = Installed(st.route)
  BY <1>1, <1>3 DEF Installed
<1>7. QED
  BY <1>1, <1>2, <1>3, <1>4, <1>5, <1>6 DEF StateOK, Mirrors, RouteOK, FibOK, NotStale

LEMMA RefreshedType ==
  ASSUME NEW r \in Route, NEW m \in 1 .. MaxMetric, NEW s, s = Refreshed(r, m)
  PROVE  s \in Route /\ s.via = r.via /\ s.metric = m /\ (s.expired <=> m >= MaxMetric)
<1>1. DOMAIN r = {"via", "metric", "age", "expired", "dead"}
  BY RouteFields
<1>2. /\ s.via = r.via /\ s.metric = m /\ s.age = 0 /\ s.expired = (m >= MaxMetric)
      /\ s.dead = (IF m >= MaxMetric /\ r.expired THEN r.dead ELSE 0)
  BY <1>1 DEF Refreshed
<1>3. s = [via |-> s.via, metric |-> s.metric, age |-> s.age, expired |-> s.expired,
           dead |-> s.dead]
  BY <1>1 DEF Refreshed
<1>4. s.dead \in 0 .. Garbage + 1 /\ s.age \in 0 .. Timeout + 1
  BY <1>2, RouteFields, RipAssumption
<1>5. s.expired \in BOOLEAN
  BY <1>2
<1>6. QED
  BY <1>2, <1>3, <1>4, <1>5, RouteFields, RouteFrom

LEMMA RefreshOK ==
  ASSUME NEW s, StateOK(s), s.route # None, NEW l \in Link, s.route.via = l,
         NEW m \in 1 .. MaxMetric, NEW st, st = Refresh(s, l, m)
  PROVE  StateOK(st) /\ Mirrors(st) /\ st.route # None
<1>1. s.route \in Route
  BY DEF StateOK, RouteOK
<1>2. /\ st.route = Refreshed(s.route, m)
      /\ st.fib = (IF m >= MaxMetric THEN None ELSE [via |-> l, metric |-> m])
      /\ st.changed = (s.changed \/ Differs(s.route, m))
  BY DEF Refresh
<1>3. /\ st.route \in Route /\ st.route.via = l /\ st.route.metric = m
      /\ (st.route.expired <=> m >= MaxMetric)
  BY <1>1, <1>2, RefreshedType
<1>4. m >= MaxMetric <=> m = MaxMetric
  BY RipAssumption
<1>5. st.changed \in BOOLEAN
  BY <1>2 DEF StateOK, Differs
<1>6. st.route # None
  BY <1>3, RouteFields
<1>7. st.fib = Installed(st.route)
  BY <1>2, <1>3, <1>6 DEF Installed
<1>8. FibOK(st.fib)
  <2>1. CASE m >= MaxMetric
    BY <1>2, <2>1 DEF FibOK
  <2>2. CASE ~(m >= MaxMetric)
    <3>1. m \in 1 .. MaxMetric - 1
      BY <2>2, RipAssumption
    <3>2. QED
      BY <1>2, <2>2, <3>1, FibRouteType DEF FibOK
  <2>3. QED
    BY <2>1, <2>2
<1>9. QED
  BY <1>3, <1>4, <1>5, <1>6, <1>7, <1>8 DEF StateOK, Mirrors, RouteOK, NotStale

\* One entry of a response: the tables agree again on the route it changes,
\* and no route leaves RIP's table by it.
LEMMA EntryOK ==
  ASSUME NEW s, StateOK(s), NEW l \in Link, NEW m \in 1 .. MaxMetric, NEW st, st = Entry(s, l, m)
  PROVE  /\ StateOK(st)
         /\ Mirrors(s) => Mirrors(st)
         /\ s.route # None => st.route # None
<1>1. CASE m < MaxMetric /\ (s.route = None \/ m < s.route.metric)
  <2>1. st = Install(l, m)
    BY <1>1 DEF Entry
  <2>2. QED
    BY <1>1, <2>1, InstallOK
<1>2. CASE ~(m < MaxMetric /\ (s.route = None \/ m < s.route.metric))
           /\ s.route # None /\ s.route.via = l
  <2>1. st = Refresh(s, l, m)
    BY <1>2 DEF Entry
  <2>2. QED
    BY <1>2, <2>1, RefreshOK
<1>3. CASE ~(m < MaxMetric /\ (s.route = None \/ m < s.route.metric))
           /\ ~(s.route # None /\ s.route.via = l)
  BY <1>3 DEF Entry
<1>4. QED
  BY <1>1, <1>2, <1>3

------------------------------------------------------------------------------
(* All entries of a response for one network.                                *)

\* The function by which Applied is defined.
Applies(f, n, p, d) ==
  f = [i \in 0 .. Len(p.metrics[d]) |->
         IF i = 0 THEN [route |-> routes[n][d], fib |-> fib[n][d], changed |-> FALSE]
         ELSE Entry(f[i - 1], p.link, AddCost(p.metrics[d][i]))]

LEMMA AppliesAt ==
  ASSUME NEW f, NEW n, NEW p, NEW d, Applies(f, n, p, d), NEW i \in 0 .. Len(p.metrics[d])
  PROVE  f[i] = IF i = 0 THEN [route |-> routes[n][d], fib |-> fib[n][d], changed |-> FALSE]
                ELSE Entry(f[i - 1], p.link, AddCost(p.metrics[d][i]))
<1> DEFINE h == [j \in 0 .. Len(p.metrics[d]) |->
                   IF j = 0 THEN [route |-> routes[n][d], fib |-> fib[n][d], changed |-> FALSE]
                   ELSE Entry(f[j - 1], p.link, AddCost(p.metrics[d][j]))]
<1>1. h[i] = IF i = 0 THEN [route |-> routes[n][d], fib |-> fib[n][d], changed |-> FALSE]
             ELSE Entry(f[i - 1], p.link, AddCost(p.metrics[d][i]))
  OBVIOUS
<1>2. f = h
  BY DEF Applies
<1> HIDE DEF h
<1>3. f[i] = h[i]
  BY <1>2
<1>4. QED
  BY <1>1, <1>3

LEMMA AppliesExists ==
  ASSUME NEW n, NEW p, NEW d, Len(p.metrics[d]) \in Nat
  PROVE  \E f : Applies(f, n, p, d)
<1> DEFINE start == [route |-> routes[n][d], fib |-> fib[n][d], changed |-> FALSE]
           Next1(s, i) == Entry(s, p.link, AddCost(p.metrics[d][i]))
           Upto(f, k) == f = [i \in 0 .. k |-> IF i = 0 THEN start ELSE Next1(f[i - 1], i)]
           T == {k \in Nat : \E f : Upto(f, k)}
<1> HIDE DEF start, Next1
<1>1. 0 \in T
  <2> DEFINE f == [i \in 0 .. 0 |-> start]
  <2>1. f = [i \in 0 .. 0 |-> IF i = 0 THEN start ELSE Next1(f[i - 1], i)]
    OBVIOUS
  <2>2. QED
    BY <2>1
<1>2. ASSUME NEW k \in T
      PROVE  k + 1 \in T
  <2>1. PICK f : Upto(f, k)
    OBVIOUS
  <2>2. k \in Nat
    OBVIOUS
  <2> DEFINE h == [i \in 0 .. k |-> IF i = 0 THEN start ELSE Next1(f[i - 1], i)]
             g == [i \in 0 .. k + 1 |-> IF i <= k THEN f[i] ELSE Next1(f[i - 1], i)]
  <2>3. f = h
    BY <2>1
  <2>4. \A i \in 0 .. k : h[i] = IF i = 0 THEN start ELSE Next1(f[i - 1], i)
    OBVIOUS
  <2> HIDE DEF h
  <2>5. \A i \in 0 .. k : f[i] = IF i = 0 THEN start ELSE Next1(f[i - 1], i)
    BY <2>3, <2>4
  <2>6. ASSUME NEW i \in 0 .. k + 1
        PROVE  g[i] = IF i = 0 THEN start ELSE Next1(g[i - 1], i)
    <3>1. CASE i <= k
      <4>1. g[i] = f[i] /\ (i # 0 => g[i - 1] = f[i - 1])
        BY <2>2, <3>1
      <4>2. QED
        BY <2>2, <2>5, <3>1, <4>1
    <3>2. CASE i = k + 1
      <4>1. i # 0 /\ g[i] = Next1(f[i - 1], i) /\ g[i - 1] = f[i - 1]
        BY <2>2, <3>2
      <4>2. QED
        BY <4>1
    <3>3. QED
      BY <2>2, <3>1, <3>2
  <2>7. g = [i \in 0 .. k + 1 |-> IF i = 0 THEN start ELSE Next1(g[i - 1], i)]
    <3>1. g = [i \in 0 .. k + 1 |-> g[i]]
      OBVIOUS
    <3> HIDE DEF g
    <3>2. QED
      BY <2>6, <3>1
  <2> HIDE DEF g
  <2>8. Upto(g, k + 1)
    BY <2>7
  <2>9. QED
    BY <2>2, <2>8
<1>3. T = Nat
  <2> HIDE DEF T
  <2>1. T \in SUBSET Nat
    BY DEF T
  <2>2. QED
    BY <1>1, <1>2, <2>1, InductiveSet
<1>4. PICK f : Upto(f, Len(p.metrics[d]))
  BY <1>3
<1>5. QED
  BY <1>4 DEF Applies, start, Next1

LEMMA AppliedIs ==
  ASSUME NEW n, NEW p, NEW d, Len(p.metrics[d]) \in Nat
  PROVE  \E f : Applies(f, n, p, d) /\ Applied(n, p, d) = f[Len(p.metrics[d])]
<1> DEFINE g == CHOOSE f : Applies(f, n, p, d)
<1>1. Applies(g, n, p, d)
  BY AppliesExists
<1>2. Applied(n, p, d) = g[Len(p.metrics[d])]
  BY DEF Applied, Applies
<1>3. QED
  BY <1>1, <1>2

\* A whole response keeps what each of its entries keeps.
LEMMA AppliedOK ==
  ASSUME NEW n, NEW p \in Packet, NEW d \in Net, NEW st, st = Applied(n, p, d),
         RouteOK(routes[n][d]), FibOK(fib[n][d]), NotStale(routes[n][d], fib[n][d])
  PROVE  /\ StateOK(st)
         /\ fib[n][d] = Installed(routes[n][d]) => Mirrors(st)
         /\ routes[n][d] # None => st.route # None
<1> DEFINE ms == p.metrics[d]
<1>1. p.link \in Link /\ ms \in Seq(0 .. MaxMetric) /\ Len(ms) \in Nat
  BY DEF Packet
<1>2. PICK f : Applies(f, n, p, d) /\ st = f[Len(ms)]
  BY <1>1, AppliedIs
<1>3. \A i \in 0 .. Len(ms) :
        f[i] = IF i = 0 THEN [route |-> routes[n][d], fib |-> fib[n][d], changed |-> FALSE]
               ELSE Entry(f[i - 1], p.link, AddCost(ms[i]))
  BY <1>2, AppliesAt
<1> DEFINE Good(s) == /\ StateOK(s)
                      /\ fib[n][d] = Installed(routes[n][d]) => Mirrors(s)
                      /\ routes[n][d] # None => s.route # None
           T == {i \in Nat : i <= Len(ms) => Good(f[i])}
<1> HIDE DEF ms
<1>4. 0 \in T
  <2>1. f[0] = [route |-> routes[n][d], fib |-> fib[n][d], changed |-> FALSE]
    <3>1. 0 \in 0 .. Len(ms)
      BY <1>1
    <3>2. QED
      BY <1>3, <3>1
  <2>2. f[0].route = routes[n][d] /\ f[0].fib = fib[n][d] /\ f[0].changed = FALSE
    BY <2>1
  <2>3. Good(f[0])
    BY <2>2 DEF StateOK, Mirrors
  <2>4. QED
    BY <2>3
<1>5. ASSUME NEW i \in T
      PROVE  i + 1 \in T
  <2> SUFFICES ASSUME i + 1 <= Len(ms)
               PROVE  Good(f[i + 1])
    OBVIOUS
  <2>1. i \in Nat /\ i <= Len(ms) /\ i + 1 \in 1 .. Len(ms)
    BY <1>1
  <2>2. Good(f[i])
    BY <2>1
  <2>3. f[i + 1] = Entry(f[(i + 1) - 1], p.link, AddCost(ms[i + 1]))
    BY <1>1, <1>3, <2>1
  <2>4. f[i + 1] = Entry(f[i], p.link, AddCost(ms[i + 1]))
    BY <2>1, <2>3
  <2>5. AddCost(ms[i + 1]) \in 1 .. MaxMetric
    BY <1>1, <2>1, ElementOfSeq, AddCostType
  <2>6. QED
    BY <1>1, <2>2, <2>4, <2>5, EntryOK
<1>6. T = Nat
  <2> HIDE DEF T
  <2>1. T \in SUBSET Nat
    BY DEF T
  <2>2. QED
    BY <1>4, <1>5, <2>1, InductiveSet
<1>7. Len(ms) \in T /\ Len(ms) <= Len(ms)
  <2>1. Len(ms) \in T
    <3> HIDE DEF T
    <3>1. QED
      BY <1>1, <1>6
  <2>2. QED
    BY <1>1, <2>1
<1>8. QED
  BY <1>2, <1>7
------------------------------------------------------------------------------
(* The invariant.                                                            *)

ControlOK ==
  /\ enabled \in [Node -> BOOLEAN] /\ running \in [Node -> BOOLEAN]
  /\ token \in [Node -> BOOLEAN] /\ timer \in [Node -> BOOLEAN]
  /\ due \in [Node -> SUBSET {"update", "expire"}]
  /\ cli = None \/ (cli \in Stop /\ ~enabled[cli.node])
  /\ ops \in 0 .. MaxOps /\ losses \in 0 .. MaxLoss /\ raced \in BOOLEAN

NetOK == inbox \in [Node -> Seq(Packet)] /\ rx \in [Node -> Packet \cup {None}]

TablesOK ==
  /\ routes \in [Node -> [Net -> Route \cup {None}]]
  /\ fib \in [Node -> [Net -> FibRoute \cup {None}]]
  /\ \A n \in Node, d \in Net : RouteOK(routes[n][d]) /\ NotStale(routes[n][d], fib[n][d])

\* Between its two critical sections StopRIP relies on nobody installing a
\* route: only a response admitted before can, and that sets raced.
Agree ==
  raced \/
    /\ FibMirrorsRoutes
    /\ cli # None /\ cli.stage = "forget" => \A d \in Net : fib[cli.node][d] = None

RipInv == ControlOK /\ NetOK /\ TablesOK /\ Agree

\* What PoisonRetained says of a step.
PoisonStep ==
  \A n \in Node, d \in Net :
    routes[n][d] # None /\ routes'[n][d] = None
      => Stopping(n) \/ (routes[n][d].expired /\ fib[n][d] = None /\ routes[n][d].dead > Garbage)

LEMMA RipTypes ==
  ASSUME RipInv
  PROVE  TypeOK
BY DEF RipInv, ControlOK, NetOK, TablesOK, TypeOK, RouteOK

LEMMA RipInit ==
  ASSUME Init
  PROVE  RipInv
<1>1. Empty \in [Net -> Route \cup {None}] /\ Empty \in [Net -> FibRoute \cup {None}]
      /\ \A d \in Net : Empty[d] = None
  BY DEF Empty
<1>2. ControlOK
  <2>1. \A n \in Node : (n \in Started) \in BOOLEAN
    OBVIOUS
  <2>2. enabled \in [Node -> BOOLEAN] /\ running \in [Node -> BOOLEAN]
    BY <2>1 DEF Init
  <2>3. token \in [Node -> BOOLEAN] /\ timer \in [Node -> BOOLEAN]
        /\ due \in [Node -> SUBSET {"update", "expire"}]
    BY DEF Init
  <2>4. cli = None /\ ops \in 0 .. MaxOps /\ losses \in 0 .. MaxLoss /\ raced \in BOOLEAN
    <3>1. cli = None /\ ops = 0 /\ losses = 0 /\ raced = FALSE
      BY DEF Init
    <3>2. 0 \in 0 .. MaxOps /\ 0 \in 0 .. MaxLoss
      BY RipAssumption
    <3>3. QED
      BY <3>1, <3>2
  <2>5. QED
    BY <2>2, <2>3, <2>4 DEF ControlOK
<1>3. NetOK
  BY DEF Init, NetOK
<1>4. TablesOK
  BY <1>1 DEF Init, TablesOK, RouteOK, NotStale
<1>5. Agree
  BY <1>1 DEF Init, Agree, FibMirrorsRoutes, Stopping, Installed
<1>6. QED
  BY <1>2, <1>3, <1>4, <1>5 DEF RipInv

\* Steps that leave both tables alone.
LEMMA TablesUntouched ==
  ASSUME RipInv, UNCHANGED <<routes, fib>>
  PROVE  TablesOK' /\ PoisonStep
BY DEF RipInv, TablesOK, PoisonStep

LEMMA AgreeUntouched ==
  ASSUME RipInv, UNCHANGED <<routes, fib, cli, raced>>
  PROVE  Agree'
BY DEF RipInv, Agree, FibMirrorsRoutes, Stopping

\* buildRIPResponse builds packets.
LEMMA ResponseType ==
  ASSUME RipInv, NEW n \in Node, NEW l \in Link
  PROVE  Response(n, l) \in Packet
<1>1. ASSUME NEW d \in Net
      PROVE  Metrics(n, d, l) \in Seq(0 .. MaxMetric)
  <2>1. 0 \in 0 .. MaxMetric /\ MaxMetric \in 0 .. MaxMetric
    BY RipAssumption
  <2>2. fib[n][d] # None => fib[n][d].metric \in 0 .. MaxMetric
    <3>1. fib[n][d] \in FibRoute \cup {None}
      BY DEF RipInv, TablesOK
    <3>2. QED
      BY <3>1, RipAssumption DEF FibRoute
  <2> DEFINE a == IF n \in Attached[d] THEN <<0>> ELSE << >>
             b == IF fib[n][d] # None
                    THEN <<IF fib[n][d].via = l THEN MaxMetric ELSE fib[n][d].metric>> ELSE << >>
             c == IF n \notin Attached[d] /\ fib[n][d] = None /\ d \in Expired(n)
                    THEN <<MaxMetric>> ELSE << >>
  <2> DEFINE S == 0 .. MaxMetric
  <2> HIDE DEF S
  <2>0. << >> \in Seq(S) /\ \A x \in S : <<x>> \in Seq(S)
    OBVIOUS
  <2>3. a \in Seq(0 .. MaxMetric)
    BY <2>0, <2>1 DEF S
  <2>4. b \in Seq(0 .. MaxMetric)
    <3>1. CASE fib[n][d] = None
      BY <2>0, <3>1 DEF S
    <3>2. CASE fib[n][d] # None
      <4>1. b = <<IF fib[n][d].via = l THEN MaxMetric ELSE fib[n][d].metric>>
        BY <3>2
      <4>2. (IF fib[n][d].via = l THEN MaxMetric ELSE fib[n][d].metric) \in S
        BY <2>1, <2>2, <3>2 DEF S
      <4> HIDE DEF b
      <4>3. b \in Seq(S)
        BY <2>0, <4>1, <4>2
      <4>4. QED
        BY <4>3 DEF S
    <3>3. QED
      BY <3>1, <3>2
  <2>5. c \in Seq(0 .. MaxMetric)
    BY <2>0, <2>1 DEF S
  <2>6. Metrics(n, d, l) = a \o b \o c
    BY DEF Metrics
  <2> HIDE DEF a, b, c
  <2>7. a \o b \in Seq(0 .. MaxMetric)
    BY <2>3, <2>4, ConcatProperties
  <2>8. (a \o b) \o c \in Seq(0 .. MaxMetric)
    BY <2>5, <2>7, ConcatProperties
  <2>9. QED
    BY <2>6, <2>8
<1>2. QED
  BY <1>1 DEF Response, Packet

LEMMA SendRoutingUpdatesType ==
  ASSUME RipInv, NEW n \in Node, SendRoutingUpdates(n)
  PROVE  inbox' \in [Node -> Seq(Packet)]
<1>1. ASSUME NEW m \in Node
      PROVE  inbox[m] \o SetToSeq({Response(n, l) : l \in {k \in Links(n) : Peer(n, k) = m}})
               \in Seq(Packet)
  <2> DEFINE ls == {k \in Links(n) : Peer(n, k) = m}
             rs == {Response(n, l) : l \in ls}
  <2>1. ls \subseteq Link /\ IsFiniteSet(ls)
    BY FS_Subset, RipAssumption DEF Links
  <2> HIDE DEF ls
  <2>2. IsFiniteSet(rs)
    <3> DEFINE f == [l \in ls |-> Response(n, l)]
    <3>1. f \in Surjection(ls, rs)
      BY DEF Surjection
    <3> HIDE DEF f, rs
    <3>2. QED
      BY <2>1, <3>1, FS_Surjection
  <2>3. rs \subseteq Packet
    BY <2>1, ResponseType
  <2> HIDE DEF rs
  <2>4. SetToSeq(rs) \in Seq(rs)
    BY <2>2, SetToSeqLists
  <2>5. SetToSeq(rs) \in Seq(Packet)
    BY <2>3, <2>4
  <2>6. inbox[m] \in Seq(Packet)
    BY DEF RipInv, NetOK
  <2>7. inbox[m] \o SetToSeq(rs) \in Seq(Packet)
    BY <2>5, <2>6, ConcatProperties
  <2>8. QED
    BY <2>7 DEF rs, ls
<1>2. QED
  BY <1>1 DEF SendRoutingUpdates

LEMMA PeriodicUpdateInv ==
  ASSUME RipInv, NEW n \in Node, PeriodicUpdate(n)
  PROVE  RipInv' /\ PoisonStep
<1>1. UNCHANGED <<routes, fib, cli, raced>>
  BY DEF PeriodicUpdate, ripVars, cliVars
<1>2. NetOK'
  <2>1. inbox' \in [Node -> Seq(Packet)]
    BY SendRoutingUpdatesType DEF PeriodicUpdate
  <2>2. QED
    BY <2>1 DEF PeriodicUpdate, RipInv, NetOK
<1>3. ControlOK'
  <2>1. due' \in [Node -> SUBSET {"update", "expire"}] /\ timer' \in [Node -> BOOLEAN]
    BY DEF PeriodicUpdate, RipInv, ControlOK
  <2>2. QED
    BY <2>1 DEF PeriodicUpdate, cliVars, RipInv, ControlOK
<1>4. QED
  BY <1>1, <1>2, <1>3, TablesUntouched, AgreeUntouched DEF RipInv

LEMMA TakeTriggerInv ==
  ASSUME RipInv, NEW n \in Node, TakeTrigger(n)
  PROVE  RipInv' /\ PoisonStep
<1>1. UNCHANGED <<routes, fib, cli, raced>>
  BY DEF TakeTrigger, ripVars, cliVars
<1>2. NetOK'
  BY DEF TakeTrigger, netVars, RipInv, NetOK
<1>3. ControlOK'
  <2>1. token' \in [Node -> BOOLEAN] /\ timer' \in [Node -> BOOLEAN]
    BY DEF TakeTrigger, RipInv, ControlOK
  <2>2. QED
    BY <2>1 DEF TakeTrigger, cliVars, netVars, RipInv, ControlOK
<1>4. QED
  BY <1>1, <1>2, <1>3, TablesUntouched, AgreeUntouched DEF RipInv

LEMMA TriggeredUpdateInv ==
  ASSUME RipInv, NEW n \in Node, TriggeredUpdate(n)
  PROVE  RipInv' /\ PoisonStep
<1>1. UNCHANGED <<routes, fib, cli, raced>>
  BY DEF TriggeredUpdate, ripVars, cliVars
<1>2. NetOK'
  <2>1. inbox' \in [Node -> Seq(Packet)]
    BY SendRoutingUpdatesType DEF TriggeredUpdate
  <2>2. QED
    BY <2>1 DEF TriggeredUpdate, RipInv, NetOK
<1>3. ControlOK'
  <2>1. timer' \in [Node -> BOOLEAN]
    BY DEF TriggeredUpdate, RipInv, ControlOK
  <2>2. QED
    BY <2>1 DEF TriggeredUpdate, cliVars, RipInv, ControlOK
<1>4. QED
  BY <1>1, <1>2, <1>3, TablesUntouched, AgreeUntouched DEF RipInv

LEMMA InboxTail ==
  ASSUME RipInv, NEW n \in Node, inbox[n] # << >>
  PROVE  Head(inbox[n]) \in Packet /\ [inbox EXCEPT ![n] = Tail(@)] \in [Node -> Seq(Packet)]
<1>1. inbox[n] \in Seq(Packet) /\ inbox \in [Node -> Seq(Packet)]
  BY DEF RipInv, NetOK
<1>2. Head(inbox[n]) \in Packet /\ Tail(inbox[n]) \in Seq(Packet)
  BY <1>1, HeadTailProperties
<1>3. QED
  BY <1>1, <1>2

LEMMA LoseInv ==
  ASSUME RipInv, NEW n \in Node, Lose(n)
  PROVE  RipInv' /\ PoisonStep
<1>1. UNCHANGED <<routes, fib, cli, raced>>
  BY DEF Lose, ripVars, cliVars
<1>2. NetOK'
  BY InboxTail DEF Lose, RipInv, NetOK
<1>3. ControlOK'
  <2>1. losses' \in 0 .. MaxLoss
    BY RipAssumption DEF Lose, RipInv, ControlOK
  <2>2. QED
    BY <2>1 DEF Lose, cliVars, daemonVars, RipInv, ControlOK
<1>4. QED
  BY <1>1, <1>2, <1>3, TablesUntouched, AgreeUntouched DEF RipInv

------------------------------------------------------------------------------
(* Responses.                                                                *)

LEMMA HandleInv ==
  ASSUME RipInv, NEW n \in Node, NEW p \in Packet, Handle(n, p)
  PROVE  /\ TablesOK' /\ PoisonStep
         /\ token' \in [Node -> BOOLEAN]
         /\ \A m \in Node : m # n => routes'[m] = routes[m] /\ fib'[m] = fib[m]
         /\ \A d \in Net : fib[n][d] = Installed(routes[n][d])
                             => fib'[n][d] = Installed(routes'[n][d])
<1> DEFINE R == [d \in Net |-> Applied(n, p, d).route]
           F == [d \in Net |-> Applied(n, p, d).fib]
<1>1. routes' = [routes EXCEPT ![n] = R] /\ fib' = [fib EXCEPT ![n] = F]
      /\ token' = [token EXCEPT ![n] = @ \/ (enabled[n] /\ \E d \in Net : Applied(n, p, d).changed)]
  BY DEF Handle
<1>2. /\ routes \in [Node -> [Net -> Route \cup {None}]]
      /\ fib \in [Node -> [Net -> FibRoute \cup {None}]]
      /\ \A m \in Node, d \in Net : RouteOK(routes[m][d]) /\ NotStale(routes[m][d], fib[m][d])
  BY DEF RipInv, TablesOK
<1>3. ASSUME NEW d \in Net
      PROVE  /\ RouteOK(R[d]) /\ FibOK(F[d]) /\ NotStale(R[d], F[d])
             /\ fib[n][d] = Installed(routes[n][d]) => F[d] = Installed(R[d])
             /\ routes[n][d] # None => R[d] # None
             /\ R[d] \in Route \cup {None} /\ F[d] \in FibRoute \cup {None}
  <2>1. RouteOK(routes[n][d]) /\ FibOK(fib[n][d]) /\ NotStale(routes[n][d], fib[n][d])
    BY <1>2 DEF FibOK
  <2>2. /\ StateOK(Applied(n, p, d))
        /\ fib[n][d] = Installed(routes[n][d]) => Mirrors(Applied(n, p, d))
        /\ routes[n][d] # None => Applied(n, p, d).route # None
    BY <2>1, AppliedOK
  <2>3. R[d] = Applied(n, p, d).route /\ F[d] = Applied(n, p, d).fib
    OBVIOUS
  <2> HIDE DEF R, F
  <2>4. QED
    BY <2>2, <2>3 DEF StateOK, Mirrors, RouteOK, FibOK
<1>4. DOMAIN R = Net /\ DOMAIN F = Net /\ R = [d \in Net |-> R[d]] /\ F = [d \in Net |-> F[d]]
  OBVIOUS
<1> HIDE DEF R, F
<1>5. R \in [Net -> Route \cup {None}] /\ F \in [Net -> FibRoute \cup {None}]
  BY <1>3, <1>4
<1>6. routes'[n] = R /\ fib'[n] = F
      /\ \A m \in Node : m # n => routes'[m] = routes[m] /\ fib'[m] = fib[m]
  BY <1>1, <1>2
<1>7. /\ routes' \in [Node -> [Net -> Route \cup {None}]]
      /\ fib' \in [Node -> [Net -> FibRoute \cup {None}]]
  BY <1>1, <1>2, <1>5
<1>8. \A m \in Node, d \in Net : RouteOK(routes'[m][d]) /\ NotStale(routes'[m][d], fib'[m][d])
  BY <1>2, <1>3, <1>6
<1>9. TablesOK'
  BY <1>7, <1>8 DEF TablesOK, RouteOK, NotStale, Installed
<1>10. PoisonStep
  BY <1>3, <1>6 DEF PoisonStep
<1>11. token' \in [Node -> BOOLEAN]
  BY <1>1 DEF RipInv, ControlOK
<1>12. QED
  BY <1>3, <1>6, <1>9, <1>10, <1>11

LEMMA ReceiveInv ==
  ASSUME RipInv, NEW n \in Node, Receive(n)
  PROVE  RipInv' /\ PoisonStep
<1>1. NetOK'
  BY InboxTail DEF Receive, RipInv, NetOK
<1>2. CASE enabled[n] /\ Handle(n, Head(inbox[n]))
  <2>1. Head(inbox[n]) \in Packet
    BY InboxTail DEF Receive
  <2>2. /\ TablesOK' /\ PoisonStep
        /\ token' \in [Node -> BOOLEAN]
        /\ \A m \in Node : m # n => routes'[m] = routes[m] /\ fib'[m] = fib[m]
        /\ \A d \in Net : fib[n][d] = Installed(routes[n][d])
                            => fib'[n][d] = Installed(routes'[n][d])
    BY <1>2, <2>1, HandleInv
  <2>3. UNCHANGED <<cli, raced>>
    BY DEF Receive, cliVars
  <2>4. cli # None => cli.node \in Node /\ cli.node # n
    BY <1>2 DEF RipInv, ControlOK, Stop
  <2>5. ASSUME ~raced, NEW m \in Node, NEW d \in Net, ~Stopping(m)
        PROVE  fib'[m][d] = Installed(routes'[m][d])
    <3>1. fib[m][d] = Installed(routes[m][d])
      BY <2>5 DEF RipInv, Agree, FibMirrorsRoutes
    <3>2. QED
      BY <2>2, <3>1
  <2>6. ASSUME ~raced, cli # None, cli.stage = "forget", NEW d \in Net
        PROVE  fib'[cli.node][d] = None
    BY <2>2, <2>4, <2>6 DEF RipInv, Agree
  <2>7. Agree'
    BY <2>3, <2>5, <2>6 DEF Agree, FibMirrorsRoutes, Stopping, Installed
  <2>8. ControlOK'
    BY <2>2 DEF Receive, daemonVars, cliVars, RipInv, ControlOK
  <2>9. QED
    BY <1>1, <2>2, <2>7, <2>8 DEF RipInv
<1>3. CASE ~enabled[n] /\ UNCHANGED <<ripVars, token>>
  <2>1. UNCHANGED <<routes, fib, cli, raced>>
    BY <1>3 DEF Receive, ripVars, cliVars
  <2>2. ControlOK'
    BY <1>3 DEF Receive, daemonVars, cliVars, RipInv, ControlOK
  <2>3. QED
    BY <1>1, <2>1, <2>2, TablesUntouched, AgreeUntouched DEF RipInv
<1>4. QED
  BY <1>2, <1>3 DEF Receive

LEMMA ReceiveLateInv ==
  ASSUME RipInv, NEW n \in Node, ReceiveLate(n)
  PROVE  RipInv' /\ PoisonStep
<1>1. NetOK'
  BY DEF ReceiveLate, RipInv, NetOK
<1>2. rx[n] \in Packet /\ Handle(n, rx[n])
  BY DEF ReceiveLate, RipInv, NetOK
<1>3. /\ TablesOK' /\ PoisonStep
      /\ token' \in [Node -> BOOLEAN]
      /\ \A m \in Node : m # n => routes'[m] = routes[m] /\ fib'[m] = fib[m]
  BY <1>2, HandleInv
<1>4. UNCHANGED cli /\ raced' = (raced \/ ~(Stopping(n) /\ cli.stage \in {"wait", "purge"}))
  BY DEF ReceiveLate, cliVars
<1>5. Agree'
  <2>1. CASE raced'
    BY <2>1 DEF Agree
  <2>2. CASE ~raced'
    <3>1. ~raced /\ Stopping(n) /\ cli.stage # "forget"
      BY <1>4, <2>2
    <3>2. ASSUME NEW m \in Node, NEW d \in Net, ~Stopping(m)
          PROVE  fib'[m][d] = Installed(routes'[m][d])
      BY <1>3, <3>1, <3>2 DEF RipInv, Agree, FibMirrorsRoutes
    <3>3. QED
      BY <1>4, <3>1, <3>2 DEF Agree, FibMirrorsRoutes, Stopping, Installed
  <2>3. QED
    BY <2>1, <2>2
<1>6. ControlOK'
  <2>1. raced' \in BOOLEAN
    BY <1>4 DEF RipInv, ControlOK
  <2>2. QED
    BY <1>3, <2>1 DEF ReceiveLate, daemonVars, cliVars, RipInv, ControlOK
<1>7. QED
  BY <1>1, <1>3, <1>5, <1>6 DEF RipInv
------------------------------------------------------------------------------
(* Time.                                                                     *)

LEMMA AgedOK ==
  ASSUME NEW r \in Route, r.expired <=> r.metric = MaxMetric, NEW s, s = Aged(r)
  PROVE  /\ s \in Route /\ (s.expired <=> s.metric = MaxMetric)
         /\ r.expired => s = r
         /\ ~s.expired => s = r
         /\ ~r.expired /\ s.expired => s.dead = 0
<1>1. CASE ~r.expired /\ r.age > Timeout
  <2>1. s = [r EXCEPT !.expired = TRUE, !.metric = MaxMetric, !.dead = 0]
    BY <1>1, RouteFields DEF Aged
  <2>2. DOMAIN r = {"via", "metric", "age", "expired", "dead"}
    BY RouteFields
  <2>3. /\ s.via = r.via /\ s.metric = MaxMetric /\ s.age = r.age /\ s.expired = TRUE
        /\ s.dead = 0
    BY <2>1, <2>2
  <2>4. s = [via |-> s.via, metric |-> s.metric, age |-> s.age, expired |-> s.expired,
             dead |-> s.dead]
    BY <2>1, <2>2
  <2>5. MaxMetric \in 1 .. MaxMetric /\ 0 \in 0 .. Garbage + 1
    BY RipAssumption
  <2>6. s \in Route
    BY <2>3, <2>4, <2>5, RouteFields, RouteFrom
  <2>7. QED
    BY <1>1, <2>3, <2>6
<1>2. CASE ~(~r.expired /\ r.age > Timeout)
  <2>1. s = r
    BY <1>2 DEF Aged
  <2>2. QED
    BY <2>1
<1>3. QED
  BY <1>1, <1>2

\* CheckExpiredRoutes drops a route only after it was poisoned for a while.
LEMMA CheckedOK ==
  ASSUME NEW r, RouteOK(r), NEW s, s = Checked(r)
  PROVE  /\ RouteOK(s)
         /\ s # None => r # None /\ s = Aged(r)
         /\ r # None /\ s = None => r.expired /\ r.dead > Garbage
<1>1. CASE r = None
  <2>1. s = None
    BY <1>1 DEF Checked, Collected, Aged
  <2>2. QED
    BY <1>1, <2>1 DEF RouteOK
<1>2. CASE r # None
  <2>1. r \in Route /\ (r.expired <=> r.metric = MaxMetric)
    BY <1>2 DEF RouteOK
  <2> DEFINE a == Aged(r)
  <2>2. /\ a \in Route /\ (a.expired <=> a.metric = MaxMetric)
        /\ r.expired => a = r
        /\ ~r.expired /\ a.expired => a.dead = 0
    BY <2>1, AgedOK
  <2>3. s = IF a # None /\ a.expired /\ a.dead > Garbage THEN None ELSE a
    BY DEF Checked, Collected
  <2> HIDE DEF a
  <2>4. a # None
    BY <2>2, RouteFields
  <2>5. CASE a.expired /\ a.dead > Garbage
    <3>1. s = None
      BY <2>3, <2>4, <2>5
    <3>2. r.expired
      BY <2>2, <2>5, RipAssumption
    <3>3. QED
      BY <2>2, <2>5, <3>1, <3>2 DEF RouteOK
  <2>6. CASE ~(a.expired /\ a.dead > Garbage)
    <3>1. s = a
      BY <2>3, <2>6
    <3>2. QED
      BY <1>2, <2>2, <2>4, <3>1 DEF RouteOK, a
  <2>7. QED
    BY <2>5, <2>6
<1>3. QED
  BY <1>1, <1>2

LEMMA CheckExpiredInv ==
  ASSUME RipInv, NEW n \in Node, CheckExpired(n)
  PROVE  RipInv' /\ PoisonStep
<1> DEFINE old == routes[n]
           out == {d \in Net : old[d] # None /\ ~old[d].expired /\ Aged(old[d]).expired}
           R == [d \in Net |-> Checked(old[d])]
           F == [d \in Net |-> IF d \in out THEN None ELSE fib[n][d]]
<1>1. /\ routes' = [routes EXCEPT ![n] = R]
      /\ fib' = [fib EXCEPT ![n] = F]
      /\ token' = [token EXCEPT ![n] = @ \/ (enabled[n] /\ out # {})]
      /\ due' = [due EXCEPT ![n] = @ \ {"expire"}]
      /\ UNCHANGED <<timer, running, netVars, cliVars, raced>>
  BY DEF CheckExpired
<1>2. /\ routes \in [Node -> [Net -> Route \cup {None}]]
      /\ fib \in [Node -> [Net -> FibRoute \cup {None}]]
      /\ \A m \in Node, d \in Net : RouteOK(routes[m][d]) /\ NotStale(routes[m][d], fib[m][d])
  BY DEF RipInv, TablesOK
<1>3. ASSUME NEW d \in Net
      PROVE  /\ RouteOK(R[d]) /\ NotStale(R[d], F[d])
             /\ fib[n][d] = Installed(old[d]) => F[d] = Installed(R[d])
             /\ old[d] # None /\ R[d] = None => old[d].expired /\ old[d].dead > Garbage
             /\ fib[n][d] = None => F[d] = None
             /\ F[d] \in FibRoute \cup {None} /\ R[d] \in Route \cup {None}
  <2> DEFINE r == old[d]
             f == fib[n][d]
             s == Checked(r)
  <2>1. /\ RouteOK(r) /\ NotStale(r, f) /\ R[d] = s
        /\ F[d] = (IF r # None /\ ~r.expired /\ Aged(r).expired THEN None ELSE f)
        /\ f \in FibRoute \cup {None}
    BY <1>2
  <2>2. /\ RouteOK(s)
        /\ s # None => r # None /\ s = Aged(r)
        /\ r # None /\ s = None => r.expired /\ r.dead > Garbage
    BY <2>1, CheckedOK
  <2>3. r # None => /\ (r.expired => Aged(r) = r)
                    /\ (~Aged(r).expired => Aged(r) = r)
                    /\ r.expired \in BOOLEAN
    BY <2>1, AgedOK, RouteFields DEF RouteOK
  <2>4. F[d] = f \/ F[d] = None
    BY <2>1
  <2>5. s \in Route \cup {None}
    BY <2>2 DEF RouteOK
  <2> HIDE DEF r, f, s, R, F
  <2>6. s # None /\ F[d] # None => s = r /\ F[d] = f /\ r # None
    BY <2>1, <2>2, <2>3
  <2>7. NotStale(s, F[d])
    BY <2>1, <2>6 DEF NotStale
  <2>8. ASSUME f = Installed(r)
        PROVE  F[d] = Installed(s)
    <3>1. CASE s = None
      <4>1. Installed(r) = None
        BY <2>2, <3>1 DEF Installed
      <4>2. QED
        BY <2>4, <2>8, <3>1, <4>1 DEF Installed
    <3>2. CASE s # None /\ s.expired
      <4>1. F[d] = None
        <5>1. CASE r.expired
          BY <2>2, <2>4, <2>8, <3>2, <5>1 DEF Installed
        <5>2. CASE ~r.expired
          BY <2>1, <2>2, <3>2, <5>2
        <5>3. QED
          BY <5>1, <5>2
      <4>2. QED
        BY <3>2, <4>1 DEF Installed
    <3>3. CASE s # None /\ ~s.expired
      <4>1. s = r /\ F[d] = f
        BY <2>1, <2>2, <2>3, <3>3
      <4>2. QED
        BY <2>8, <4>1
    <3>4. QED
      BY <3>1, <3>2, <3>3
  <2>9. QED
    BY <2>1, <2>2, <2>4, <2>5, <2>7, <2>8 DEF r, f
<1>4. DOMAIN R = Net /\ DOMAIN F = Net /\ R = [d \in Net |-> R[d]] /\ F = [d \in Net |-> F[d]]
  OBVIOUS
<1> HIDE DEF R, F, out
<1>5. R \in [Net -> Route \cup {None}] /\ F \in [Net -> FibRoute \cup {None}]
  BY <1>3, <1>4
<1>6. routes'[n] = R /\ fib'[n] = F
      /\ \A m \in Node : m # n => routes'[m] = routes[m] /\ fib'[m] = fib[m]
  BY <1>1, <1>2
<1>7. TablesOK'
  <2>1. /\ routes' \in [Node -> [Net -> Route \cup {None}]]
        /\ fib' \in [Node -> [Net -> FibRoute \cup {None}]]
    BY <1>1, <1>2, <1>5
  <2>2. \A m \in Node, d \in Net : RouteOK(routes'[m][d]) /\ NotStale(routes'[m][d], fib'[m][d])
    BY <1>2, <1>3, <1>6
  <2>3. QED
    BY <2>1, <2>2 DEF TablesOK, RouteOK, NotStale, Installed
<1>8. PoisonStep
  <2> SUFFICES ASSUME NEW m \in Node, NEW d \in Net, routes[m][d] # None, routes'[m][d] = None
               PROVE  routes[m][d].expired /\ fib[m][d] = None /\ routes[m][d].dead > Garbage
    BY DEF PoisonStep
  <2>1. m = n
    BY <1>6
  <2>2. routes[m][d].expired /\ routes[m][d].dead > Garbage
    BY <1>3, <1>6, <2>1
  <2>3. fib[m][d] = None
    BY <1>2, <2>2 DEF NotStale, Installed
  <2>4. QED
    BY <2>2, <2>3
<1>9. Agree'
  <2>1. UNCHANGED <<cli, raced>>
    BY <1>1 DEF cliVars
  <2>2. ASSUME ~raced, NEW m \in Node, NEW d \in Net, ~Stopping(m)
        PROVE  fib'[m][d] = Installed(routes'[m][d])
    <3>1. fib[m][d] = Installed(routes[m][d])
      BY <2>2 DEF RipInv, Agree, FibMirrorsRoutes
    <3>2. QED
      BY <1>3, <1>6, <3>1
  <2>3. ASSUME ~raced, cli # None, cli.stage = "forget", NEW d \in Net
        PROVE  fib'[cli.node][d] = None
    <3>1. cli.node \in Node /\ fib[cli.node][d] = None
      BY <2>3 DEF RipInv, ControlOK, Stop, Agree
    <3>2. QED
      BY <1>3, <1>6, <3>1
  <2>4. QED
    BY <2>1, <2>2, <2>3 DEF Agree, FibMirrorsRoutes, Stopping, Installed
<1>10. NetOK'
  BY <1>1 DEF netVars, RipInv, NetOK
<1>11. ControlOK'
  <2>1. token' \in [Node -> BOOLEAN] /\ due' \in [Node -> SUBSET {"update", "expire"}]
    BY <1>1 DEF RipInv, ControlOK
  <2>2. QED
    BY <1>1, <2>1 DEF cliVars, netVars, RipInv, ControlOK
<1>12. QED
  BY <1>7, <1>8, <1>9, <1>10, <1>11 DEF RipInv

LEMMA OlderOK ==
  ASSUME NEW r, RouteOK(r), NEW s, s = Older(r)
  PROVE  RouteOK(s) /\ (s = None <=> r = None) /\ Installed(s) = Installed(r)
<1>1. CASE r = None
  BY <1>1 DEF Older, RouteOK
<1>2. CASE r # None
  <2>1. r \in Route /\ (r.expired <=> r.metric = MaxMetric)
    BY <1>2 DEF RouteOK
  <2>2. DOMAIN r = {"via", "metric", "age", "expired", "dead"}
    BY <2>1, RouteFields
  <2>3. s = [r EXCEPT !.age = IF @ > Timeout THEN @ ELSE @ + 1,
                      !.dead = IF ~r.expired \/ @ > Garbage THEN @ ELSE @ + 1]
    BY <1>2 DEF Older
  <2>4. /\ s.via = r.via /\ s.metric = r.metric /\ s.expired = r.expired
        /\ s.age = (IF r.age > Timeout THEN r.age ELSE r.age + 1)
        /\ s.dead = (IF ~r.expired \/ r.dead > Garbage THEN r.dead ELSE r.dead + 1)
    BY <2>2, <2>3
  <2>5. s = [via |-> s.via, metric |-> s.metric, age |-> s.age, expired |-> s.expired,
             dead |-> s.dead]
    BY <2>2, <2>3
  <2>6. s.age \in 0 .. Timeout + 1 /\ s.dead \in 0 .. Garbage + 1
    BY <2>1, <2>4, RouteFields, RipAssumption
  <2>7. s \in Route
    BY <2>1, <2>4, <2>5, <2>6, RouteFields, RouteFrom
  <2>8. s # None
    BY <2>7, RouteFields
  <2>9. QED
    BY <1>2, <2>1, <2>4, <2>7, <2>8 DEF RouteOK, Installed
<1>3. QED
  BY <1>1, <1>2

LEMMA TickInv ==
  ASSUME RipInv, Tick
  PROVE  RipInv' /\ PoisonStep
<1>1. /\ routes' = [n \in Node |-> [d \in Net |-> Older(routes[n][d])]]
      /\ due' = [n \in Node |-> IF running[n] THEN {"update", "expire"} ELSE {}]
      /\ UNCHANGED <<fib, token, timer, running, netVars, cliVars, raced>>
  BY DEF Tick
<1>2. /\ routes \in [Node -> [Net -> Route \cup {None}]]
      /\ fib \in [Node -> [Net -> FibRoute \cup {None}]]
      /\ \A m \in Node, d \in Net : RouteOK(routes[m][d]) /\ NotStale(routes[m][d], fib[m][d])
  BY DEF RipInv, TablesOK
<1>3. ASSUME NEW n \in Node, NEW d \in Net
      PROVE  /\ routes'[n][d] = Older(routes[n][d])
             /\ RouteOK(Older(routes[n][d])) /\ (routes'[n][d] = None <=> routes[n][d] = None)
             /\ Installed(routes'[n][d]) = Installed(routes[n][d])
             /\ Older(routes[n][d]) \in Route \cup {None}
  <2>1. routes'[n][d] = Older(routes[n][d])
    BY <1>1
  <2>2. RouteOK(Older(routes[n][d])) /\ (Older(routes[n][d]) = None <=> routes[n][d] = None)
        /\ Installed(Older(routes[n][d])) = Installed(routes[n][d])
    BY <1>2, OlderOK
  <2>3. QED
    BY <2>1, <2>2 DEF RouteOK
<1>4. TablesOK'
  <2>1. routes' \in [Node -> [Net -> Route \cup {None}]]
    BY <1>1, <1>3
  <2>2. \A m \in Node, d \in Net : RouteOK(routes'[m][d])
    BY <1>3
  <2>3. \A m \in Node, d \in Net : NotStale(routes'[m][d], fib'[m][d])
    BY <1>1, <1>2, <1>3 DEF NotStale
  <2>4. QED
    BY <1>1, <1>2, <2>1, <2>2, <2>3 DEF TablesOK, RouteOK, NotStale, Installed
<1>5. PoisonStep
  BY <1>3 DEF PoisonStep
<1>6. Agree'
  <2>1. UNCHANGED <<fib, cli, raced>>
    BY <1>1 DEF cliVars
  <2>2. ASSUME ~raced, NEW m \in Node, NEW d \in Net, ~Stopping(m)
        PROVE  fib[m][d] = Installed(routes'[m][d])
    BY <1>3, <2>2 DEF RipInv, Agree, FibMirrorsRoutes
  <2>3. ~raced /\ cli # None /\ cli.stage = "forget" => \A d \in Net : fib[cli.node][d] = None
    BY DEF RipInv, Agree
  <2>4. QED
    BY <2>1, <2>2, <2>3 DEF Agree, FibMirrorsRoutes, Stopping, Installed
<1>7. NetOK'
  BY <1>1 DEF netVars, RipInv, NetOK
<1>8. ControlOK'
  BY <1>1 DEF cliVars, netVars, RipInv, ControlOK
<1>9. QED
  BY <1>4, <1>5, <1>6, <1>7, <1>8 DEF RipInv
------------------------------------------------------------------------------
(* StartRIP and StopRIP.                                                     *)

LEMMA StartRIPInv ==
  ASSUME RipInv, NEW n \in Node, StartRIP(n)
  PROVE  RipInv' /\ PoisonStep
<1>1. UNCHANGED <<routes, fib, cli, raced>> /\ cli = None
  BY DEF StartRIP, ripVars
<1>2. NetOK'
  BY DEF StartRIP, netVars, RipInv, NetOK
<1>3. ControlOK'
  <2>1. /\ enabled' \in [Node -> BOOLEAN] /\ running' \in [Node -> BOOLEAN]
        /\ token' \in [Node -> BOOLEAN] /\ due' \in [Node -> SUBSET {"update", "expire"}]
    BY DEF StartRIP, RipInv, ControlOK
  <2>2. ops' \in 0 .. MaxOps
    BY RipAssumption DEF StartRIP, RipInv, ControlOK
  <2>3. QED
    BY <1>1, <2>1, <2>2 DEF StartRIP, netVars, RipInv, ControlOK
<1>4. QED
  BY <1>1, <1>2, <1>3, TablesUntouched, AgreeUntouched DEF RipInv

LEMMA StopRIPInv ==
  ASSUME RipInv, NEW n \in Node, StopRIP(n)
  PROVE  RipInv' /\ PoisonStep
<1>1. /\ UNCHANGED <<routes, fib, raced>> /\ cli = None
      /\ cli' = [node |-> n, stage |-> "wait"] /\ enabled' = [enabled EXCEPT ![n] = FALSE]
  BY DEF StopRIP, ripVars
<1>2. cli' \in Stop /\ cli'.node = n /\ cli'.stage = "wait"
  BY <1>1 DEF Stop
<1>3. NetOK'
  <2>1. CASE UNCHANGED netVars
    BY <2>1 DEF netVars, RipInv, NetOK
  <2>2. CASE /\ inbox[n] # << >>
             /\ inbox' = [inbox EXCEPT ![n] = Tail(@)]
             /\ rx' = [rx EXCEPT ![n] = Head(inbox[n])]
    BY <2>2, InboxTail DEF RipInv, NetOK
  <2>3. QED
    BY <2>1, <2>2 DEF StopRIP
<1>4. ControlOK'
  <2>1. enabled \in [Node -> BOOLEAN]
    BY DEF RipInv, ControlOK
  <2>2. enabled' \in [Node -> BOOLEAN] /\ ~enabled'[cli'.node]
    BY <1>1, <1>2, <2>1
  <2>3. ops' \in 0 .. MaxOps
    BY RipAssumption DEF StopRIP, RipInv, ControlOK
  <2>4. UNCHANGED losses
    BY DEF StopRIP, netVars
  <2>5. QED
    BY <1>1, <1>2, <2>2, <2>3, <2>4 DEF StopRIP, daemonVars, RipInv, ControlOK
<1>5. Agree'
  <2>1. ASSUME ~raced, NEW m \in Node, NEW d \in Net
        PROVE  fib[m][d] = Installed(routes[m][d])
    BY <1>1, <2>1 DEF RipInv, Agree, FibMirrorsRoutes, Stopping
  <2>2. QED
    BY <1>1, <1>2, <2>1 DEF Agree, FibMirrorsRoutes, Installed
<1>6. QED
  BY <1>1, <1>3, <1>4, <1>5, TablesUntouched DEF RipInv

LEMMA DaemonExitInv ==
  ASSUME RipInv, NEW n \in Node, DaemonExit(n)
  PROVE  RipInv' /\ PoisonStep
<1>1. /\ UNCHANGED <<routes, fib, raced, enabled>>
      /\ cli = [node |-> n, stage |-> "wait"] /\ cli' = [cli EXCEPT !.stage = "purge"]
  BY DEF DaemonExit, ripVars
<1>2. cli \in Stop /\ ~enabled[cli.node]
  <2>1. [node |-> n, stage |-> "wait"] \in Stop
    BY DEF Stop
  <2>2. cli # None
    BY <1>1, <2>1, RipAssumption
  <2>3. QED
    BY <2>2 DEF RipInv, ControlOK
<1>3. cli' \in Stop /\ cli'.node = cli.node /\ cli'.stage = "purge"
  BY <1>1 DEF Stop
<1>4. cli # None /\ cli' # None
  BY <1>2, <1>3, RipAssumption
<1>5. NetOK'
  BY DEF DaemonExit, netVars, RipInv, NetOK
<1>6. ControlOK'
  <2>1. running' \in [Node -> BOOLEAN] /\ timer' \in [Node -> BOOLEAN]
        /\ due' \in [Node -> SUBSET {"update", "expire"}]
    BY DEF DaemonExit, RipInv, ControlOK
  <2>2. QED
    BY <1>1, <1>2, <1>3, <2>1 DEF DaemonExit, netVars, RipInv, ControlOK
<1>7. Agree'
  <2>1. ASSUME ~raced, NEW m \in Node, NEW d \in Net, ~Stopping(m)
        PROVE  fib[m][d] = Installed(routes[m][d])
    BY <2>1 DEF RipInv, Agree, FibMirrorsRoutes
  <2>2. \A m : (cli' # None /\ cli'.node = m) <=> (cli # None /\ cli.node = m)
    BY <1>3, <1>4
  <2>3. QED
    BY <1>1, <1>3, <2>1, <2>2 DEF Agree, FibMirrorsRoutes, Stopping, Installed
<1>8. QED
  BY <1>1, <1>5, <1>6, <1>7, TablesUntouched DEF RipInv

LEMMA StopPurgeInv ==
  ASSUME RipInv, StopPurge
  PROVE  RipInv' /\ PoisonStep
<1>1. /\ cli # None /\ cli.stage = "purge"
      /\ fib' = [fib EXCEPT ![cli.node] = Empty] /\ cli' = [cli EXCEPT !.stage = "forget"]
      /\ UNCHANGED <<routes, token, daemonVars, netVars, enabled, ops, raced>>
  BY DEF StopPurge
<1>2. cli \in Stop /\ cli.node \in Node /\ ~enabled[cli.node]
  BY <1>1 DEF RipInv, ControlOK, Stop
<1>3. cli' \in Stop /\ cli'.node = cli.node /\ cli'.stage = "forget"
  BY <1>1, <1>2 DEF Stop
<1>4. Empty \in [Net -> FibRoute \cup {None}] /\ \A d \in Net : Empty[d] = None
  BY DEF Empty
<1>5. /\ routes \in [Node -> [Net -> Route \cup {None}]]
      /\ fib \in [Node -> [Net -> FibRoute \cup {None}]]
      /\ \A m \in Node, d \in Net : RouteOK(routes[m][d]) /\ NotStale(routes[m][d], fib[m][d])
  BY DEF RipInv, TablesOK
<1>6. fib'[cli.node] = Empty /\ \A m \in Node : m # cli.node => fib'[m] = fib[m]
  BY <1>1, <1>2, <1>5
<1>7. TablesOK'
  <2>1. fib' \in [Node -> [Net -> FibRoute \cup {None}]]
    BY <1>1, <1>4, <1>5
  <2>2. \A m \in Node, d \in Net : NotStale(routes[m][d], fib'[m][d])
    BY <1>4, <1>5, <1>6 DEF NotStale
  <2>3. QED
    BY <1>1, <1>5, <2>1, <2>2 DEF TablesOK, RouteOK, NotStale, Installed
<1>8. Agree'
  <2>1. ASSUME ~raced, NEW m \in Node, NEW d \in Net, m # cli.node
        PROVE  fib'[m][d] = Installed(routes[m][d])
    BY <1>6, <2>1 DEF RipInv, Agree, FibMirrorsRoutes, Stopping
  <2>2. cli' # None
    BY <1>3, RipAssumption
  <2>3. QED
    BY <1>1, <1>2, <1>3, <1>4, <1>6, <2>1, <2>2 DEF Agree, FibMirrorsRoutes, Stopping, Installed
<1>9. NetOK'
  BY <1>1 DEF netVars, RipInv, NetOK
<1>10. ControlOK'
  BY <1>1, <1>2, <1>3 DEF daemonVars, netVars, RipInv, ControlOK
<1>11. PoisonStep
  BY <1>1 DEF PoisonStep
<1>12. QED
  BY <1>7, <1>8, <1>9, <1>10, <1>11 DEF RipInv

LEMMA StopForgetInv ==
  ASSUME RipInv, StopForget
  PROVE  RipInv' /\ PoisonStep
<1>1. /\ cli # None /\ cli.stage = "forget"
      /\ routes' = [routes EXCEPT ![cli.node] = Empty] /\ cli' = None
      /\ UNCHANGED <<fib, token, daemonVars, netVars, enabled, ops, raced>>
  BY DEF StopForget
<1>2. cli.node \in Node
  BY <1>1 DEF RipInv, ControlOK, Stop
<1>3. Empty \in [Net -> Route \cup {None}] /\ \A d \in Net : Empty[d] = None
  BY DEF Empty
<1>4. /\ routes \in [Node -> [Net -> Route \cup {None}]]
      /\ fib \in [Node -> [Net -> FibRoute \cup {None}]]
      /\ \A m \in Node, d \in Net : RouteOK(routes[m][d]) /\ NotStale(routes[m][d], fib[m][d])
  BY DEF RipInv, TablesOK
<1>5. routes'[cli.node] = Empty /\ \A m \in Node : m # cli.node => routes'[m] = routes[m]
  BY <1>1, <1>2, <1>4
<1>6. TablesOK'
  <2>1. routes' \in [Node -> [Net -> Route \cup {None}]]
    BY <1>1, <1>3, <1>4
  <2>2. \A m \in Node, d \in Net : RouteOK(routes'[m][d]) /\ NotStale(routes'[m][d], fib[m][d])
    BY <1>3, <1>4, <1>5 DEF NotStale, RouteOK
  <2>3. QED
    BY <1>1, <1>4, <2>1, <2>2 DEF TablesOK, RouteOK, NotStale, Installed
<1>7. Agree'
  <2>1. ASSUME ~raced, NEW m \in Node, NEW d \in Net
        PROVE  fib[m][d] = Installed(routes'[m][d])
    <3>1. CASE m = cli.node
      <4>1. fib[m][d] = None
        BY <1>1, <2>1, <3>1 DEF RipInv, Agree
      <4>2. QED
        BY <1>3, <1>5, <3>1, <4>1 DEF Installed
    <3>2. CASE m # cli.node
      BY <1>5, <2>1, <3>2 DEF RipInv, Agree, FibMirrorsRoutes, Stopping
    <3>3. QED
      BY <3>1, <3>2
  <2>2. QED
    BY <1>1, <2>1 DEF Agree, FibMirrorsRoutes, Installed
<1>8. NetOK'
  BY <1>1 DEF netVars, RipInv, NetOK
<1>9. ControlOK'
  BY <1>1 DEF daemonVars, netVars, RipInv, ControlOK
<1>10. PoisonStep
  BY <1>1, <1>5 DEF PoisonStep, Stopping
<1>11. QED
  BY <1>6, <1>7, <1>8, <1>9, <1>10 DEF RipInv

LEMMA RipNext ==
  ASSUME RipInv, [Next]_vars
  PROVE  RipInv' /\ [PoisonStep]_vars
<1>1. CASE UNCHANGED vars
  <2>1. UNCHANGED <<routes, fib, cli, raced>>
    BY <1>1 DEF vars, ripVars, cliVars
  <2>2. NetOK'
    BY <1>1 DEF vars, netVars, RipInv, NetOK
  <2>3. ControlOK'
    BY <1>1 DEF vars, daemonVars, netVars, cliVars, RipInv, ControlOK
  <2>4. QED
    BY <1>1, <2>1, <2>2, <2>3, TablesUntouched, AgreeUntouched DEF RipInv
<1>2. CASE Next
  <2>1. CASE \E n \in Node : Daemon(n)
    BY <2>1, PeriodicUpdateInv, TakeTriggerInv, TriggeredUpdateInv, CheckExpiredInv,
       DaemonExitInv DEF Daemon
  <2>2. CASE \E n \in Node : Receive(n) \/ ReceiveLate(n) \/ Lose(n)
    BY <2>2, ReceiveInv, ReceiveLateInv, LoseInv
  <2>3. CASE \E n \in Operated : StartRIP(n) \/ StopRIP(n)
    BY <2>3, StartRIPInv, StopRIPInv, RipAssumption
  <2>4. QED
    BY <1>2, <2>1, <2>2, <2>3, StopPurgeInv, StopForgetInv, TickInv DEF Next
<1>3. QED
  BY <1>1, <1>2

------------------------------------------------------------------------------
(* The theorems.                                                             *)

LEMMA RipInvHolds == Spec => []RipInv
<1>1. Init => RipInv
  BY RipInit
<1>2. RipInv /\ [Next]_vars => RipInv'
  BY RipNext
<1>3. QED
  BY <1>1, <1>2, PTL DEF Spec

\* No metric is ever 0 or beyond RIP_MAX_METRIC, and a route is expired exactly
\* at that metric: what buildRIPResponse lists and ProcessRIPPacket installs
\* stays within it.
THEOREM TypeCorrect == Spec => []TypeOK
<1>1. RipInv => TypeOK
  BY RipTypes
<1>2. QED
  BY <1>1, RipInvHolds, PTL

\* Two tables behind two locks stay in step: outside StopRIP the forwarding
\* table has exactly RIP's unexpired routes, on every topology, unless a
\* response admitted before StopRIP was applied after its first deletions.
THEOREM TablesAgree == Spec => []FibMirrorsRoutes
<1>1. RipInv => FibMirrorsRoutes
  BY DEF RipInv, Agree, FibMirrorsRoutes
<1>2. QED
  BY <1>1, RipInvHolds, PTL

\* CheckExpiredRoutes and ProcessRIPPacket never drop a route from RIP's table
\* that was not withdrawn from the forwarding table and poisoned for
\* RIP_GARBAGE_COLLECT before, with or without a raced response.
THEOREM PoisonComesFirst == Spec => PoisonRetained
<1>1. RipInv /\ [Next]_vars => [PoisonStep]_vars
  BY RipNext
<1>2. QED
  BY <1>1, RipInvHolds, PTL DEF Spec, PoisonRetained, PoisonStep
==============================================================================
