------------------------- MODULE SpanningTree_proofs -------------------------
(****************************************************************************)
(* Theorems about SpanningTree, for any bridges, links, costs, priorities,  *)
(* budget and operations: the ports of a bridge stay consistent, all state  *)
(* keeps its type, and a root vector only improves while the topology is    *)
(* being loaded.  Each needs one lemma per operator of StpBridge that a     *)
(* critical section is made of.                                             *)
(****************************************************************************)
EXTENDS SpanningTree, SequenceLemmas

------------------------------------------------------------------------------
(* One bridge.                                                               *)

PortShape(port) ==
  /\ DOMAIN port = {"role", "state", "pathCost", "best", "wait"}
  /\ port.best # NoBPDU =>
       DOMAIN port.best = {"root", "cost", "bridge", "port", "age", "idle"}

Shape(br) ==
  /\ DOMAIN br = {"on", "prio", "id", "root", "cost", "rootPort", "ports"}
  /\ \A l \in DOMAIN br.ports : PortShape(br.ports[l])

\* The part of PortDiscipline that one port can violate.
Sound(port) ==
  /\ port.state \in {"LISTENING", "LEARNING", "FORWARDING"} => port.role \in TreeRoles
  /\ port.role = "ALTERNATE" => port.best # NoBPDU

OneRootPort(br) ==
  \A l, k \in DOMAIN br.ports :
    br.ports[l].role = "ROOT" /\ br.ports[k].role = "ROOT" => l = k

Disciplined(br) ==
  Shape(br) /\ OneRootPort(br) /\ \A l \in DOMAIN br.ports : Sound(br.ports[l])

LEMMA SetRoleSound ==
  ASSUME NEW port, PortShape(port),
         NEW role \in {"ROOT", "DESIGNATED", "ALTERNATE"},
         role = "ALTERNATE" => port.best # NoBPDU
  PROVE  /\ PortShape(SetRole(port, role))
         /\ Sound(SetRole(port, role))
         /\ SetRole(port, role).role = role
<1>1. CASE role \in TreeRoles /\ port.state \in {"FORWARDING", "LEARNING"}
  <2>1. SetRole(port, role) = [port EXCEPT !.role = role]
    BY <1>1 DEF SetRole
  <2>2. QED
    BY <1>1, <2>1 DEF PortShape, Sound, TreeRoles
<1>2. CASE role \in TreeRoles /\ port.state \notin {"FORWARDING", "LEARNING"}
  <2>1. SetRole(port, role) =
          [port EXCEPT !.role = role, !.state = "LISTENING", !.wait = ForwardDelay]
    BY <1>2 DEF SetRole
  <2>2. QED
    BY <1>2, <2>1 DEF PortShape, Sound, TreeRoles
<1>3. CASE role \notin TreeRoles
  <2>1. SetRole(port, role) = [port EXCEPT !.role = role, !.state = "BLOCKING", !.wait = 0]
    BY <1>3 DEF SetRole
  <2>2. QED
    BY <1>3, <2>1 DEF PortShape, Sound, TreeRoles
<1>4. QED
  BY <1>1, <1>2, <1>3

\* The roles of step 3: one root port, and an alternate port holds a BPDU.
LEMMA RolesSound ==
  ASSUME NEW br
  PROVE  /\ DOMAIN Roles(br) = DOMAIN br.ports
         /\ \A l \in DOMAIN br.ports :
              /\ Roles(br)[l] \in {"ROOT", "DESIGNATED", "ALTERNATE"}
              /\ Roles(br)[l] = "ROOT" => l = br.rootPort
              /\ Roles(br)[l] = "ALTERNATE" => br.ports[l].best # NoBPDU
BY DEF Roles, Heard

\* recomputeLocked makes any bridge consistent.
LEMMA RecomputeSound ==
  ASSUME NEW br, Shape(br)
  PROVE  Disciplined(Recompute(br))
<1> DEFINE r == ElectedRoot(br)
           p == RootPort(br, r)
           c == IF p = None THEN 0 ELSE Through(br, p).cost
           tree == [br EXCEPT !.root = r, !.cost = c, !.rootPort = p]
           role == Roles(tree)
           ports == [l \in DOMAIN br.ports |-> SetRole(br.ports[l], role[l])]
           new == Recompute(br)
<1>1. DOMAIN tree = DOMAIN br /\ tree.ports = br.ports
  BY DEF Shape
<1>2. new = [tree EXCEPT !.ports = ports]
  BY DEF Recompute
<1> HIDE DEF tree, role, ports, new
<1>3. DOMAIN new = DOMAIN br /\ new.ports = ports
  BY <1>1, <1>2 DEF Shape
<1>4. \A l \in DOMAIN br.ports :
        /\ role[l] \in {"ROOT", "DESIGNATED", "ALTERNATE"}
        /\ role[l] = "ROOT" => l = tree.rootPort
        /\ role[l] = "ALTERNATE" => br.ports[l].best # NoBPDU
  BY <1>1, RolesSound DEF role
<1>5. /\ DOMAIN ports = DOMAIN br.ports
      /\ \A l \in DOMAIN br.ports :
           PortShape(ports[l]) /\ Sound(ports[l]) /\ ports[l].role = role[l]
  BY <1>4, SetRoleSound DEF ports, Shape
<1>6. QED
  BY <1>3, <1>4, <1>5 DEF new, Disciplined, Shape, OneRootPort

\* A critical section that gives no port the role of root port.
LEMMA PortwiseSound ==
  ASSUME NEW br, Disciplined(br), NEW new,
         DOMAIN new = DOMAIN br,
         \A l \in DOMAIN new.ports :
           /\ PortShape(new.ports[l]) /\ Sound(new.ports[l])
           /\ new.ports[l].role = "ROOT" =>
                l \in DOMAIN br.ports /\ br.ports[l].role = "ROOT"
  PROVE  Disciplined(new)
BY DEF Disciplined, Shape, OneRootPort

LEMMA RecordedSound ==
  ASSUME NEW br, Disciplined(br), NEW l, NEW m
  PROVE  Disciplined(Recorded(br, l, m))
<1> DEFINE best == [root |-> m.root, cost |-> m.cost, bridge |-> m.bridge,
                    port |-> m.port, age |-> m.age, idle |-> 0]
           ports == [br.ports EXCEPT ![l].best = best]
           new == Recorded(br, l, m)
<1>1. new = [br EXCEPT !.ports = ports]
  BY DEF Recorded
<1>2. best # NoBPDU /\ DOMAIN best = {"root", "cost", "bridge", "port", "age", "idle"}
  <2>1. DOMAIN NoBPDU = {"hasBPDU"} /\ "root" \in DOMAIN best
    BY DEF NoBPDU
  <2>2. best # NoBPDU
    BY <2>1
  <2>3. QED
    BY <2>2
<1>3. /\ DOMAIN ports = DOMAIN br.ports
      /\ \A k \in DOMAIN br.ports \ {l} : ports[k] = br.ports[k]
      /\ l \in DOMAIN br.ports => ports[l] = [br.ports[l] EXCEPT !.best = best]
  OBVIOUS
<1> HIDE DEF best, ports, new
<1>4. DOMAIN new = DOMAIN br /\ new.ports = ports
  BY <1>1 DEF Disciplined, Shape
<1>5. ASSUME l \in DOMAIN br.ports
      PROVE  PortShape(ports[l]) /\ Sound(ports[l]) /\ ports[l].role = br.ports[l].role
  BY <1>2, <1>3, <1>5 DEF Disciplined, Shape, PortShape, Sound
<1>6. Disciplined(new)
  BY <1>3, <1>4, <1>5, PortwiseSound DEF Disciplined, Shape
<1>7. QED
  BY <1>6 DEF new

LEMMA ProcessSound ==
  ASSUME NEW br, Disciplined(br), NEW l, NEW m
  PROVE  Disciplined(ProcessBPDU(br, l, m).bridge)
<1>1. Disciplined(Superior(br, l, m).bridge)
  BY RecordedSound, RecomputeSound DEF Superior, Result, Disciplined
<1>2. Disciplined(Inferior(br, l, m).bridge)
  BY RecordedSound DEF Inferior, Result
<1>3. QED
  BY <1>1, <1>2 DEF ProcessBPDU, Result

LEMMA ConvergeSound ==
  ASSUME NEW br, Shape(br)
  PROVE  Disciplined(Converge(br).bridge)
BY RecomputeSound DEF Converge, Result

LEMMA AgeOutSound ==
  ASSUME NEW br, Disciplined(br)
  PROVE  Disciplined(AgeOut(br).bridge)
<1> DEFINE ports == [l \in DOMAIN br.ports |-> IF l \in Stale(br)
                       THEN [br.ports[l] EXCEPT !.best = NoBPDU] ELSE br.ports[l]]
           forgot == [br EXCEPT !.ports = ports]
<1>1. DOMAIN forgot = DOMAIN br /\ forgot.ports = ports
  BY DEF Disciplined, Shape
<1>2. \A l \in DOMAIN br.ports : PortShape(ports[l])
  BY DEF Disciplined, Shape, PortShape
<1>3. Shape(forgot)
  <2> HIDE DEF forgot
  <2>1. QED
    BY <1>1, <1>2 DEF Disciplined, Shape
<1>4. AgeOut(br) = IF Stale(br) = {} THEN Result(br, << >>) ELSE Converge(forgot)
  BY DEF AgeOut
<1>5. QED
  BY <1>3, <1>4, ConvergeSound DEF Result

LEMMA AdvanceSound ==
  ASSUME NEW br, Disciplined(br)
  PROVE  Disciplined(AdvancePorts(br))
<1> DEFINE new == AdvancePorts(br)
<1>1. /\ DOMAIN new = DOMAIN br
      /\ new.ports = [l \in DOMAIN br.ports |-> Advance(br.ports[l])]
  BY DEF AdvancePorts, Disciplined, Shape
<1>2. ASSUME NEW port, PortShape(port), Sound(port)
      PROVE  PortShape(Advance(port)) /\ Sound(Advance(port)) /\ Advance(port).role = port.role
  <2>1. CASE port.wait = 0 /\ port.state = "LISTENING"
    <3>1. Advance(port) = [port EXCEPT !.state = "LEARNING", !.wait = ForwardDelay]
      BY <2>1 DEF Advance
    <3>2. QED
      BY <1>2, <2>1, <3>1 DEF PortShape, Sound
  <2>2. CASE port.wait = 0 /\ port.state = "LEARNING"
    <3>1. Advance(port) = [port EXCEPT !.state = "FORWARDING"]
      BY <2>2 DEF Advance
    <3>2. QED
      BY <1>2, <2>2, <3>1 DEF PortShape, Sound
  <2>3. CASE ~(port.wait = 0 /\ port.state \in {"LISTENING", "LEARNING"})
    <3>1. Advance(port) = port
      BY <2>3 DEF Advance
    <3>2. QED
      BY <1>2, <3>1
  <2>4. QED
    BY <2>1, <2>2, <2>3
<1> HIDE DEF new
<1>3. Disciplined(new)
  BY <1>1, <1>2, PortwiseSound DEF Disciplined, Shape
<1>4. QED
  BY <1>3 DEF new

LEMMA PromoteSound ==
  ASSUME NEW br, Disciplined(br)
  PROVE  Disciplined(Promote(br))
<1> DEFINE new == Promote(br)
<1>1. /\ DOMAIN new = DOMAIN br
      /\ DOMAIN new.ports = DOMAIN br.ports
      /\ \A l \in DOMAIN br.ports :
           \/ new.ports[l] = br.ports[l]
           \/ /\ br.ports[l].role \in TreeRoles
              /\ new.ports[l] = [br.ports[l] EXCEPT !.state = "FORWARDING", !.wait = 0]
  BY DEF Promote, Disciplined, Shape
<1>2. ASSUME NEW port, PortShape(port), Sound(port), port.role \in TreeRoles,
             NEW open, open = [port EXCEPT !.state = "FORWARDING", !.wait = 0]
      PROVE  PortShape(open) /\ Sound(open) /\ open.role = port.role
  BY <1>2 DEF PortShape, Sound, TreeRoles
<1> HIDE DEF new
<1>3. \A l \in DOMAIN br.ports :
        /\ PortShape(new.ports[l]) /\ Sound(new.ports[l])
        /\ new.ports[l].role = br.ports[l].role
  BY <1>1, <1>2 DEF Disciplined, Shape
<1>4. Disciplined(new)
  BY <1>1, <1>3, PortwiseSound
<1>5. QED
  BY <1>4 DEF new

------------------------------------------------------------------------------
(* Administrative changes.                                                   *)

LEMMA NewPortSound ==
  ASSUME NEW c
  PROVE  PortShape(NewPort(c)) /\ Sound(NewPort(c)) /\ NewPort(c).role = "DESIGNATED"
BY DEF NewPort, PortShape, Sound, NoBPDU

LEMMA SeededSound ==
  ASSUME NEW br, Disciplined(br)
  PROVE  Disciplined(Seeded(br))
<1>1. DOMAIN Seeded(br) = DOMAIN br /\ Seeded(br).ports = br.ports
  BY DEF Seeded, Disciplined, Shape
<1>2. QED
  BY <1>1 DEF Disciplined, Shape, OneRootPort

LEMMA SyncPortsSound ==
  ASSUME NEW br, Disciplined(br), NEW eligible, NEW costs
  PROVE  Disciplined(SyncPorts(br, eligible, costs))
<1> DEFINE new == SyncPorts(br, eligible, costs)
<1>1. /\ DOMAIN new = DOMAIN br
      /\ DOMAIN new.ports = eligible
      /\ \A l \in eligible : new.ports[l] =
           IF l \in DOMAIN br.ports THEN br.ports[l] ELSE NewPort(costs[l])
  BY DEF SyncPorts, Disciplined, Shape
<1> HIDE DEF new
<1>2. Disciplined(new)
  BY <1>1, NewPortSound, PortwiseSound DEF Disciplined, Shape
<1>3. QED
  BY <1>2 DEF new

LEMMA ResetSound ==
  ASSUME NEW br, Disciplined(br), NEW eligible, NEW costs
  PROVE  Disciplined(Reset(br, eligible, costs))
<1> DEFINE fresh == SyncPorts(Seeded(br), eligible, costs)
           ports == [l \in eligible |-> NewPort(fresh.ports[l].pathCost)]
           new == [fresh EXCEPT !.ports = ports]
<1>1. Disciplined(fresh)
  BY SeededSound, SyncPortsSound
<1>2. /\ DOMAIN ports = eligible
      /\ \A l \in eligible : PortShape(ports[l]) /\ Sound(ports[l])
                            /\ ports[l].role # "ROOT"
  BY NewPortSound
<1> HIDE DEF fresh, ports
<1>3. DOMAIN new = DOMAIN fresh /\ new.ports = ports
  BY <1>1 DEF Disciplined, Shape
<1> HIDE DEF new
<1>4. Disciplined(new)
  BY <1>1, <1>2, <1>3, PortwiseSound
<1>5. QED
  BY <1>4 DEF Reset, new, ports, fresh

LEMMA EnableSound ==
  ASSUME NEW br, Disciplined(br), NEW eligible, NEW costs
  PROVE  Disciplined(Enable(br, eligible, costs))
<1> DEFINE on == [br EXCEPT !.on = TRUE]
<1>1. DOMAIN on = DOMAIN br /\ on.ports = br.ports
  BY DEF Disciplined, Shape
<1>2. Disciplined(on)
  <2> HIDE DEF on
  <2>1. QED
    BY <1>1 DEF Disciplined, Shape, OneRootPort
<1>3. QED
  BY <1>2, SeededSound, SyncPortsSound DEF Enable

LEMMA DisableSound ==
  ASSUME NEW br, Disciplined(br)
  PROVE  Disciplined(Disable(br))
<1> DEFINE new == Disable(br)
           Down(port) == [port EXCEPT !.role = "DISABLED", !.state = "DISABLED",
                                      !.best = NoBPDU, !.wait = 0]
<1>1. /\ DOMAIN new = DOMAIN br
      /\ new.ports = [l \in DOMAIN br.ports |-> Down(br.ports[l])]
  BY DEF Disable, Disciplined, Shape
<1>2. ASSUME NEW port, PortShape(port)
      PROVE  PortShape(Down(port)) /\ Sound(Down(port)) /\ Down(port).role = "DISABLED"
  BY <1>2 DEF PortShape, Sound
<1> HIDE DEF new, Down
<1>3. Disciplined(new)
  BY <1>1, <1>2, PortwiseSound DEF Disciplined, Shape
<1>4. QED
  BY <1>3 DEF new

LEMMA ReprioritiseSound ==
  ASSUME NEW br, Disciplined(br), NEW prio, NEW id
  PROVE  Disciplined(Reprioritise(br, prio, id))
<1> DEFINE named == [br EXCEPT !.prio = prio, !.id = id]
<1>1. DOMAIN named = DOMAIN br /\ named.ports = br.ports
  BY DEF Disciplined, Shape
<1>2. Disciplined(named)
  <2> HIDE DEF named
  <2>1. QED
    BY <1>1 DEF Disciplined, Shape, OneRootPort
<1>3. QED
  BY <1>2, SeededSound DEF Reprioritise

------------------------------------------------------------------------------
(* The network.                                                              *)

PortInv == DOMAIN bridge = Bridge /\ \A b \in Bridge : Disciplined(bridge[b])

\* A step that changes no bridge but b.
LEMMA OneBridge ==
  ASSUME PortInv, NEW b, NEW br, b \in Bridge => Disciplined(br),
         bridge' = [bridge EXCEPT ![b] = br]
  PROVE  PortInv'
BY DEF PortInv

LEMMA ExchangeSound ==
  ASSUME PortInv, NEW t, NEW b, NEW r, b \in Bridge => Disciplined(r.bridge),
         Exchange(t, b, r)
  PROVE  PortInv'
BY OneBridge DEF Exchange

LEMMA PortInit == Init => PortInv
<1> SUFFICES ASSUME Init PROVE PortInv
  OBVIOUS
<1>1. PICK p \in Priorities : bridge = [b \in Bridge |-> NewBridge(b, p[b])]
  BY DEF Init
<1>2. \A b \in Bridge : Disciplined(NewBridge(b, p[b]))
  BY DEF NewBridge, Disciplined, Shape, OneRootPort
<1>3. QED
  BY <1>1, <1>2 DEF PortInv

LEMMA TickSound ==
  ASSUME PortInv, Tick
  PROVE  PortInv'
<1>1. ASSUME NEW best, best # NoBPDU => DOMAIN best = {"root", "cost", "bridge", "port", "age", "idle"}
      PROVE  /\ Older(best) # NoBPDU => DOMAIN Older(best) = {"root", "cost", "bridge", "port", "age", "idle"}
             /\ best # NoBPDU => Older(best) # NoBPDU
  <2>1. CASE best = NoBPDU
    BY <2>1 DEF Older
  <2>2. CASE best # NoBPDU
    <3>1. DOMAIN Older(best) = {"root", "cost", "bridge", "port", "age", "idle"}
      BY <1>1, <2>2 DEF Older
    <3>2. DOMAIN NoBPDU = {"hasBPDU"}
      BY DEF NoBPDU
    <3>3. QED
      BY <3>1, <3>2
  <2>3. QED
    BY <2>1, <2>2
<1>2. ASSUME NEW port, PortShape(port), Sound(port)
      PROVE  PortShape(Aged(port)) /\ Sound(Aged(port)) /\ Aged(port).role = port.role
  BY <1>1, <1>2 DEF Aged, PortShape, Sound
<1>3. /\ DOMAIN bridge' = Bridge
      /\ \A b \in Bridge : /\ DOMAIN bridge'[b] = DOMAIN bridge[b]
                           /\ bridge'[b].ports =
                                [l \in DOMAIN bridge[b].ports |-> Aged(bridge[b].ports[l])]
  BY DEF Tick, PortInv, Disciplined, Shape
<1>4. ASSUME NEW b \in Bridge
      PROVE  Disciplined(bridge'[b])
  <2>1. \A l \in DOMAIN bridge[b].ports :
          /\ PortShape(bridge'[b].ports[l]) /\ Sound(bridge'[b].ports[l])
          /\ bridge'[b].ports[l].role = bridge[b].ports[l].role
    <3>1. \A l \in DOMAIN bridge[b].ports :
            /\ PortShape(bridge[b].ports[l]) /\ Sound(bridge[b].ports[l])
            /\ bridge'[b].ports[l] = Aged(bridge[b].ports[l])
      BY <1>3 DEF PortInv, Disciplined, Shape
    <3>2. QED
      BY <1>2, <3>1
  <2>2. /\ Disciplined(bridge[b])
        /\ DOMAIN bridge'[b].ports = DOMAIN bridge[b].ports
    BY <1>3 DEF PortInv
  <2>3. QED
    BY <1>3, <2>1, <2>2, PortwiseSound
<1>5. QED
  BY <1>3, <1>4 DEF PortInv

\* The steps of the foreground goroutine.
LEMMA ForegroundSound ==
  ASSUME PortInv, Foreground
  PROVE  PortInv'
<1>1. CASE Start
  BY <1>1, EnableSound, OneBridge DEF Start, PortInv
<1>2. CASE Stop
  BY <1>2, DisableSound, OneBridge DEF Stop, PortInv
<1>3. CASE ConvergeOne
  BY <1>3, ConvergeSound, ExchangeSound DEF ConvergeOne, PortInv, Disciplined
<1>4. CASE ResetOne
  BY <1>4, ResetSound, OneBridge DEF ResetOne, PortInv
<1>5. CASE PromoteOne
  BY <1>5, PromoteSound, OneBridge DEF PromoteOne, PortInv
<1>6. CASE WaitForTimers \/ BeginRounds \/ Turn \/ Judge \/ EndRound
  BY <1>6 DEF WaitForTimers, BeginRounds, Turn, Judge, EndRound, PortInv
<1>7. QED
  BY <1>1, <1>2, <1>3, <1>4, <1>5, <1>6 DEF Foreground

LEMMA DeliverSound ==
  ASSUME PortInv, Deliver
  PROVE  PortInv'
<1> DEFINE f == Head(queue)
           b == Peer(f.from, FrameLink(f))
           r == IF up[FrameLink(f)] THEN ProcessBPDU(bridge[b], FrameLink(f), f.bpdu)
                                    ELSE Result(bridge[b], << >>)
<1>1. bridge' = [bridge EXCEPT ![b] = r.bridge]
  BY DEF Deliver
<1>2. b \in Bridge => Disciplined(r.bridge)
  BY ProcessSound DEF Result, PortInv
<1>3. QED
  BY <1>1, <1>2, OneBridge

LEMMA TimerWorkSound ==
  ASSUME PortInv, NEW b \in Bridge, TimerWork(b)
  PROVE  PortInv'
<1>1. CASE SendHello(b)
  BY <1>1, ExchangeSound DEF SendHello, Result, PortInv
<1>2. CASE HelloSent(b)
  BY <1>2 DEF HelloSent, PortInv
<1>3. CASE AgeOutBPDUs(b)
  BY <1>3, AgeOutSound, ExchangeSound DEF AgeOutBPDUs, PortInv
<1>4. CASE AdvancePortStates(b)
  <2>1. CASE bridge[b].on
    BY <1>4, <2>1, AdvanceSound, OneBridge DEF AdvancePortStates, PortInv
  <2>2. CASE ~bridge[b].on
    BY <1>4, <2>2 DEF AdvancePortStates, PortInv
  <2>3. QED
    BY <2>1, <2>2
<1>5. QED
  BY <1>1, <1>2, <1>3, <1>4 DEF TimerWork

LEMMA PortInductive == PortInv /\ [Next]_vars => PortInv'
<1> SUFFICES ASSUME PortInv, [Next]_vars
             PROVE  PortInv'
  OBVIOUS
<1>1. CASE Work
  <2>1. ASSUME NEW t \in Goroutine, Send(t)
        PROVE  PortInv'
    BY <2>1 DEF Send, PortInv
  <2>2. QED
    BY <1>1, <2>1, ForegroundSound, DeliverSound, TickSound, TimerWorkSound DEF Work
<1>2. ASSUME NEW b \in Switchable, NEW enabled \in BOOLEAN, SetSTP(b, enabled)
      PROVE  PortInv'
  BY <1>2 DEF SetSTP, PortInv
<1>3. ASSUME NEW b \in Tunable, NEW p \in NewPriorities, SetSTPPriority(b, p)
      PROVE  PortInv'
  BY <1>3, ReprioritiseSound, OneBridge DEF SetSTPPriority, PortInv
<1>4. ASSUME NEW l \in Toggled, SetLinkState(l)
      PROVE  PortInv'
  BY <1>4 DEF SetLinkState, PortInv
<1>5. CASE Rest \/ UNCHANGED vars
  BY <1>5 DEF Rest, vars, PortInv
<1>6. QED
  BY <1>1, <1>2, <1>3, <1>4, <1>5 DEF Next

\* Whatever operations, exchanges and timers interleave with each other, a
\* bridge has at most one root port, opens ports only in a role of the tree, and
\* blocks an alternate port only because of a BPDU it holds (recomputeLocked,
\* setPortRole and the critical sections that do not recompute).
THEOREM PortsAreDisciplined == Spec => []PortDiscipline
<1>1. PortInv => PortDiscipline
  BY DEF PortInv, Disciplined, OneRootPort, Sound, PortDiscipline
<1>2. QED
  BY <1>1, PortInit, PortInductive, PTL DEF Spec

------------------------------------------------------------------------------
(* The types of one bridge.                                                  *)

Typed(br, b) ==
  /\ Shape(br)
  /\ br.on \in BOOLEAN
  /\ br.prio \in Nat /\ br.id \in Nat /\ br.root \in Nat
  /\ br.cost \in 0 .. CostSpan - 1
  /\ DOMAIN br.ports \subseteq LinksOf(b)
  /\ br.rootPort \in DOMAIN br.ports \cup {None}
  /\ \A l \in DOMAIN br.ports : br.ports[l] \in PortRecord

BestRecord == [root : Nat, cost : 0 .. CostSpan - 1, bridge : Nat, port : Link,
               age : 0 .. MaxAge - 1, idle : 0 .. MaxAge + 1]

BPDURecord == [root : Nat, cost : 0 .. CostSpan - 1, bridge : Nat, port : Link,
               age : 0 .. MaxAge]

LEMMA Constants ==
  /\ Link \subseteq Nat /\ IsFiniteSet(Link) /\ None \notin Link
  /\ 0 .. CostSpan - 1 \subseteq Nat /\ 0 \in 0 .. CostSpan - 1
  /\ MaxAge \in Nat \ {0} /\ CostSpan \in Nat \ {0} /\ ForwardDelay \in Nat
BY TopologyAssumption, TimerAssumption

LEMMA Delays == ForwardDelay \in 0 .. ForwardDelay /\ 0 \in 0 .. ForwardDelay
BY TimerAssumption

LEMMA BestType ==
  ASSUME NEW br, NEW b, Typed(br, b), NEW l \in Heard(br)
  PROVE  l \in DOMAIN br.ports /\ l \in Link /\ l \in Nat /\ br.ports[l].best \in BestRecord
BY TopologyAssumption DEF Heard, Typed, PortRecord, BestRecord, LinksOf

LEMMA ThroughType ==
  ASSUME NEW br, NEW b, Typed(br, b), NEW l \in Heard(br)
  PROVE  /\ Through(br, l) \in [root : Nat, cost : 0 .. CostSpan - 1, bridge : Nat, port : Link]
         /\ Through(br, l).root = br.ports[l].best.root
         /\ Through(br, l).cost = (br.ports[l].best.cost + br.ports[l].pathCost) % CostSpan
<1>1. br.ports[l].best \in BestRecord /\ br.ports[l].pathCost \in Nat
  BY BestType DEF Typed, PortRecord
<1> DEFINE sum == br.ports[l].best.cost + br.ports[l].pathCost
<1>2. sum \in Nat /\ br.ports[l].best.bridge \in Nat /\ br.ports[l].best.port \in Link
      /\ br.ports[l].best.root \in Nat
  BY <1>1, TimerAssumption DEF BestRecord
<1>3. sum % CostSpan \in 0 .. CostSpan - 1
  BY <1>2, TimerAssumption
<1>4. QED
  BY <1>2, <1>3 DEF Through

\* The elected root is the least identifier that the bridge knows.
LEMMA ElectedIsLeast ==
  ASSUME NEW br, NEW b, Typed(br, b)
  PROVE  /\ ElectedRoot(br) \in Nat
         /\ ElectedRoot(br) <= br.id
         /\ \A l \in Heard(br) : ElectedRoot(br) <= br.ports[l].best.root
         /\ \/ ElectedRoot(br) = br.id
            \/ \E l \in Heard(br) : br.ports[l].best.root = ElectedRoot(br)
<1> DEFINE ids == {br.id} \cup {br.ports[l].best.root : l \in Heard(br)}
<1>1. ids \in SUBSET Nat /\ ids # {}
  BY BestType DEF BestRecord, Typed
<1>2. \E r \in ids : \A s \in ids : r <= s
  BY <1>1, LeastNatural
<1>3. ElectedRoot(br) \in ids /\ \A s \in ids : ElectedRoot(br) <= s
  BY <1>2 DEF ElectedRoot
<1>4. QED
  BY <1>1, <1>3

\* The root port is a port with the best path to the root.
LEMMA RootPortIsBest ==
  ASSUME NEW br, NEW b, Typed(br, b), NEW r \in Nat, r # br.id,
         \E l \in Heard(br) : br.ports[l].best.root = r
  PROVE  /\ RootPort(br, r) \in Heard(br)
         /\ br.ports[RootPort(br, r)].best.root = r
         /\ \A k \in Heard(br) : br.ports[k].best.root = r =>
              Through(br, RootPort(br, r)).cost <= Through(br, k).cost
<1> DEFINE P == {l \in Heard(br) : br.ports[l].best.root = r}
           T(l) == Through(br, l)
           Best(l) == \A k \in P : Better(T(l), T(k)) \/ (Same(T(l), T(k)) /\ l <= k)
<1>1. \A l \in P : /\ l \in Nat /\ T(l).root = r
                   /\ T(l).cost \in Nat /\ T(l).bridge \in Nat /\ T(l).port \in Nat
  <2> SUFFICES ASSUME NEW l \in P
               PROVE  /\ l \in Nat /\ T(l).root = r
                      /\ T(l).cost \in Nat /\ T(l).bridge \in Nat /\ T(l).port \in Nat
    OBVIOUS
  <2>1. l \in Nat /\ T(l).root = r
    BY BestType, ThroughType
  <2>2. T(l) \in [root : Nat, cost : 0 .. CostSpan - 1, bridge : Nat, port : Link]
    BY ThroughType
  <2>3. \A x \in [root : Nat, cost : 0 .. CostSpan - 1, bridge : Nat, port : Link] :
          x.cost \in Nat /\ x.bridge \in Nat /\ x.port \in Nat
    BY Constants
  <2> HIDE DEF T
  <2>4. QED
    BY <2>1, <2>2, <2>3
<1> HIDE DEF T
<1>2. PICK c \in {T(l).cost : l \in P} : \A d \in {T(l).cost : l \in P} : c <= d
  <2>1. {T(l).cost : l \in P} \in SUBSET Nat /\ {T(l).cost : l \in P} # {}
    BY <1>1
  <2>2. QED
    BY <2>1, LeastNatural
<1> DEFINE P1 == {l \in P : T(l).cost = c}
<1>3. PICK g \in {T(l).bridge : l \in P1} : \A d \in {T(l).bridge : l \in P1} : g <= d
  <2>1. {T(l).bridge : l \in P1} \in SUBSET Nat /\ {T(l).bridge : l \in P1} # {}
    BY <1>1, <1>2
  <2>2. QED
    BY <2>1, LeastNatural
<1> DEFINE P2 == {l \in P1 : T(l).bridge = g}
<1>4. PICK q \in {T(l).port : l \in P2} : \A d \in {T(l).port : l \in P2} : q <= d
  <2>1. {T(l).port : l \in P2} \in SUBSET Nat /\ {T(l).port : l \in P2} # {}
    BY <1>1, <1>3
  <2>2. QED
    BY <2>1, LeastNatural
<1> DEFINE P3 == {l \in P2 : T(l).port = q}
<1>5. PICK p \in P3 : \A k \in P3 : p <= k
  <2>1. P3 \in SUBSET Nat /\ P3 # {}
    BY <1>1, <1>4
  <2> HIDE DEF P3
  <2>2. QED
    BY <2>1, LeastNatural
<1>6. ASSUME NEW k \in P
      PROVE  Better(T(p), T(k)) \/ (Same(T(p), T(k)) /\ p <= k)
  <2>1. /\ p \in P /\ T(p).cost = c /\ T(p).bridge = g /\ T(p).port = q
        /\ T(p).root = r /\ T(k).root = r
    BY <1>1, <1>5
  <2>2. CASE T(k).cost # c
    <3>1. c <= T(k).cost /\ c \in Nat /\ T(k).cost \in Nat
      BY <1>1, <1>2
    <3>2. QED
      BY <2>1, <2>2, <3>1 DEF Better
  <2>3. CASE T(k).cost = c /\ T(k).bridge # g
    <3>1. g <= T(k).bridge /\ g \in Nat /\ T(k).bridge \in Nat
      BY <1>1, <1>3, <2>3
    <3>2. QED
      BY <2>1, <2>3, <3>1 DEF Better
  <2>4. CASE T(k).cost = c /\ T(k).bridge = g /\ T(k).port # q
    <3>1. q <= T(k).port /\ q \in Nat /\ T(k).port \in Nat
      BY <1>1, <1>4, <2>4
    <3>2. QED
      BY <2>1, <2>4, <3>1 DEF Better
  <2>5. CASE T(k).cost = c /\ T(k).bridge = g /\ T(k).port = q
    <3>1. p <= k
      BY <1>5, <2>5
    <3>2. /\ c \in Nat /\ g \in Nat /\ q \in Nat
      BY <1>1, <2>1
    <3>3. Same(T(p), T(k))
      BY <2>1, <2>5, <3>2 DEF Same, Better
    <3>4. QED
      BY <3>1, <3>3
  <2>6. QED
    BY <2>2, <2>3, <2>4, <2>5
<1>7. p \in P /\ Best(p)
  BY <1>5, <1>6
<1>8. RootPort(br, r) = CHOOSE l \in P : Best(l)
  BY DEF RootPort, T
<1> HIDE DEF Best
<1>9. RootPort(br, r) \in P /\ Best(RootPort(br, r))
  BY <1>7, <1>8
<1>10. \A k \in P : T(RootPort(br, r)).cost <= T(k).cost
  BY <1>1, <1>9 DEF Best, Better, Same
<1>11. QED
  BY <1>9, <1>10 DEF T

\* setPortRole keeps a port typed and does not touch what it knows.
LEMMA SetRoleType ==
  ASSUME NEW port \in PortRecord, NEW role \in {"ROOT", "DESIGNATED", "ALTERNATE"}
  PROVE  /\ SetRole(port, role) \in PortRecord
         /\ SetRole(port, role).best = port.best
         /\ SetRole(port, role).pathCost = port.pathCost
<1>1. ForwardDelay \in 0 .. ForwardDelay /\ 0 \in 0 .. ForwardDelay
  BY Delays
<1>2. CASE role \in TreeRoles /\ port.state \in {"FORWARDING", "LEARNING"}
  <2>1. SetRole(port, role) = [port EXCEPT !.role = role]
    BY <1>2 DEF SetRole
  <2>2. QED
    BY <1>2, <2>1 DEF PortRecord
<1>3. CASE role \in TreeRoles /\ port.state \notin {"FORWARDING", "LEARNING"}
  <2>1. SetRole(port, role) =
          [port EXCEPT !.role = role, !.state = "LISTENING", !.wait = ForwardDelay]
    BY <1>3 DEF SetRole
  <2>2. QED
    BY <1>1, <1>3, <2>1 DEF PortRecord
<1>4. CASE role \notin TreeRoles
  <2>1. SetRole(port, role) = [port EXCEPT !.role = role, !.state = "BLOCKING", !.wait = 0]
    BY <1>4 DEF SetRole
  <2>2. QED
    BY <1>1, <1>4, <2>1 DEF PortRecord, TreeRoles
<1>5. QED
  BY <1>2, <1>3, <1>4

\* What recomputeLocked leaves alone.
SameBasis(new, br) ==
  /\ new.on = br.on /\ new.prio = br.prio /\ new.id = br.id
  /\ DOMAIN new.ports = DOMAIN br.ports
  /\ \A l \in DOMAIN br.ports :
       new.ports[l].best = br.ports[l].best /\ new.ports[l].pathCost = br.ports[l].pathCost

LEMMA RecomputeIs ==
  ASSUME NEW br, NEW b, Typed(br, b)
  PROVE  /\ Typed(Recompute(br), b)
         /\ SameBasis(Recompute(br), br)
         /\ Recompute(br).root = ElectedRoot(br)
         /\ \/ /\ Recompute(br).root = br.id
               /\ Recompute(br).rootPort = None /\ Recompute(br).cost = 0
            \/ /\ Recompute(br).root # br.id
               /\ Recompute(br).rootPort \in Heard(br)
               /\ br.ports[Recompute(br).rootPort].best.root = Recompute(br).root
               /\ Recompute(br).cost = Through(br, Recompute(br).rootPort).cost
               /\ \A k \in Heard(br) : br.ports[k].best.root = Recompute(br).root =>
                    Recompute(br).cost <= Through(br, k).cost
<1> DEFINE r == ElectedRoot(br)
           p == RootPort(br, r)
           c == IF p = None THEN 0 ELSE Through(br, p).cost
           tree == [br EXCEPT !.root = r, !.cost = c, !.rootPort = p]
           role == Roles(tree)
           ports == [l \in DOMAIN br.ports |-> SetRole(br.ports[l], role[l])]
           new == Recompute(br)
<1>1. \/ r = br.id /\ p = None /\ c = 0
      \/ /\ r # br.id /\ p \in Heard(br) /\ br.ports[p].best.root = r
         /\ c = Through(br, p).cost
         /\ \A k \in Heard(br) : br.ports[k].best.root = r => c <= Through(br, k).cost
  <2>1. CASE r = br.id
    BY <2>1 DEF RootPort
  <2>2. CASE r # br.id
    <3>1. /\ p \in Heard(br) /\ br.ports[p].best.root = r
          /\ \A k \in Heard(br) : br.ports[k].best.root = r =>
               Through(br, p).cost <= Through(br, k).cost
      BY <2>2, ElectedIsLeast, RootPortIsBest
    <3>2. p # None
      BY <3>1, BestType, TopologyAssumption
    <3>3. QED
      BY <2>2, <3>1, <3>2
  <2>3. QED
    BY <2>1, <2>2
<1>2. r \in Nat
  BY ElectedIsLeast
<1>3. c \in 0 .. CostSpan - 1
  BY <1>1, ThroughType, TimerAssumption
<1>4. p \in DOMAIN br.ports \cup {None}
  BY <1>1, BestType
<1> HIDE DEF r, p, c
<1>5. DOMAIN tree = DOMAIN br /\ tree.ports = br.ports
  BY DEF Typed, Shape
<1>6. new = [tree EXCEPT !.ports = ports]
  BY DEF Recompute, r, p, c
<1>7. tree.root = r /\ tree.cost = c /\ tree.rootPort = p
      /\ tree.on = br.on /\ tree.prio = br.prio /\ tree.id = br.id
  BY DEF Typed, Shape
<1> HIDE DEF tree, role, ports, new
<1>8. /\ DOMAIN new = DOMAIN br /\ new.ports = ports
      /\ new.root = r /\ new.cost = c /\ new.rootPort = p
      /\ new.on = br.on /\ new.prio = br.prio /\ new.id = br.id
  BY <1>5, <1>6, <1>7 DEF Typed, Shape
<1>9. \A l \in DOMAIN br.ports : role[l] \in {"ROOT", "DESIGNATED", "ALTERNATE"}
  BY <1>5, RolesSound DEF role
<1>10. /\ DOMAIN ports = DOMAIN br.ports
       /\ \A l \in DOMAIN br.ports :
            /\ ports[l] \in PortRecord
            /\ ports[l].best = br.ports[l].best
            /\ ports[l].pathCost = br.ports[l].pathCost
  BY <1>9, SetRoleType DEF ports, Typed
<1>11. Shape(new)
  BY RecomputeSound DEF new, Disciplined, Typed
<1>12. Typed(new, b)
  BY <1>2, <1>3, <1>4, <1>8, <1>10, <1>11 DEF Typed
<1>13. SameBasis(new, br)
  BY <1>8, <1>10 DEF SameBasis
<1>14. /\ new.root = r
       /\ \/ new.root = br.id /\ new.rootPort = None /\ new.cost = 0
          \/ /\ new.root # br.id /\ new.rootPort \in Heard(br)
             /\ br.ports[new.rootPort].best.root = new.root
             /\ new.cost = Through(br, new.rootPort).cost
             /\ \A k \in Heard(br) : br.ports[k].best.root = new.root =>
                  new.cost <= Through(br, k).cost
  BY <1>1, <1>8
<1>15. QED
  BY <1>12, <1>13, <1>14 DEF new, r

\* A bridge passes on information that is at most MaxAge old.
LEMMA RelayAgeType ==
  ASSUME NEW br, NEW b, Typed(br, b)
  PROVE  RelayAge(br) \in 0 .. MaxAge
<1>1. CASE br.rootPort \in Heard(br)
  <2>1. br.ports[br.rootPort].best \in BestRecord
    BY <1>1, BestType
  <2>2. QED
    BY <1>1, <2>1, TimerAssumption DEF RelayAge, BestRecord, Hello
<1>2. CASE br.rootPort \notin Heard(br)
  BY <1>2, TimerAssumption DEF RelayAge
<1>3. QED
  BY <1>1, <1>2

LEMMA ConfigType ==
  ASSUME NEW br, NEW b, Typed(br, b), NEW l \in DOMAIN br.ports
  PROVE  ConfigBPDU(br, l) \in BPDURecord
BY RelayAgeType DEF ConfigBPDU, BPDURecord, Typed, LinksOf

\* collectDesignatedBPDUs: what a bridge sends is what it knows of the root.
LEMMA CollectIs ==
  ASSUME NEW br, NEW b, Typed(br, b)
  PROVE  /\ Collect(br) \in Seq(BPDURecord)
         /\ \A i \in DOMAIN Collect(br) : \E l \in DOMAIN br.ports :
              Collect(br)[i] = ConfigBPDU(br, l) /\ RelayAge(br) < MaxAge
<1> DEFINE talking == {l \in DOMAIN br.ports :
                         /\ br.ports[l].role = "DESIGNATED"
                         /\ br.ports[l].state # "DISABLED"
                         /\ RelayAge(br) < MaxAge}
           n == Cardinality(talking)
           Sorted(s) == /\ s \in [1 .. n -> talking]
                        /\ \A i, j \in DOMAIN s : i < j => s[i] < s[j]
           order == CHOOSE s \in [1 .. n -> talking] :
                      \A i, j \in DOMAIN s : i < j => s[i] < s[j]
<1>1. talking \in SUBSET Nat /\ IsFiniteSet(talking)
  <2>1. talking \subseteq Link
    BY DEF Typed, LinksOf
  <2>2. QED
    BY <2>1, TopologyAssumption, FS_Subset
<1>2. \E s : Sorted(s)
  BY <1>1, EnumerationExists DEF Enumerates
<1>3. order \in [1 .. n -> talking]
  BY <1>2
<1>4. n \in Nat
  BY <1>1, FS_CardinalityType
<1>5. Collect(br) = [i \in DOMAIN order |-> ConfigBPDU(br, order[i])]
  BY DEF Collect
<1> HIDE DEF order, n
<1>6. /\ DOMAIN Collect(br) = 1 .. n
      /\ \A i \in 1 .. n : /\ order[i] \in talking
                           /\ Collect(br)[i] = ConfigBPDU(br, order[i])
  BY <1>3, <1>5
<1>7. \A i \in 1 .. n : /\ order[i] \in DOMAIN br.ports /\ RelayAge(br) < MaxAge
                        /\ Collect(br)[i] \in BPDURecord
  BY <1>6, ConfigType
<1>8. Collect(br) = [i \in 1 .. n |-> Collect(br)[i]]
  BY <1>3, <1>5, <1>6
<1>9. Collect(br) \in [1 .. n -> BPDURecord]
  BY <1>7, <1>8
<1>10. Collect(br) \in Seq(BPDURecord)
  BY <1>4, <1>9
<1>11. QED
  BY <1>6, <1>7, <1>10

\* Recording a BPDU touches nothing but what its port knows.
LEMMA RecordedIs ==
  ASSUME NEW br, NEW b, Typed(br, b), Disciplined(br), NEW l \in DOMAIN br.ports,
         NEW m \in BPDURecord, m.age < MaxAge
  PROVE  LET new == Recorded(br, l, m) IN
         /\ Typed(new, b) /\ Disciplined(new)
         /\ new.on = br.on /\ new.id = br.id
         /\ new.root = br.root /\ new.cost = br.cost /\ new.rootPort = br.rootPort
         /\ DOMAIN new.ports = DOMAIN br.ports
         /\ \A k \in DOMAIN br.ports \ {l} : new.ports[k] = br.ports[k]
         /\ new.ports[l].pathCost = br.ports[l].pathCost
         /\ new.ports[l].best \in BestRecord
         /\ new.ports[l].best.root = m.root /\ new.ports[l].best.cost = m.cost
         /\ new.ports[l].best.bridge = m.bridge /\ new.ports[l].best.port = m.port
         /\ new.ports[l].best.age = m.age
<1> DEFINE best == [root |-> m.root, cost |-> m.cost, bridge |-> m.bridge,
                    port |-> m.port, age |-> m.age, idle |-> 0]
           ports == [br.ports EXCEPT ![l].best = best]
           new == Recorded(br, l, m)
<1>1. new = [br EXCEPT !.ports = ports]
  BY DEF Recorded
<1>2. best \in BestRecord
  BY Constants DEF BPDURecord, BestRecord
<1>3. /\ DOMAIN ports = DOMAIN br.ports
      /\ \A k \in DOMAIN br.ports \ {l} : ports[k] = br.ports[k]
      /\ ports[l] = [br.ports[l] EXCEPT !.best = best]
  OBVIOUS
<1>4. /\ best.root = m.root /\ best.cost = m.cost /\ best.bridge = m.bridge
      /\ best.port = m.port /\ best.age = m.age
  OBVIOUS
<1> HIDE DEF best, ports, new
<1>5. /\ DOMAIN new = DOMAIN br /\ new.ports = ports
      /\ new.on = br.on /\ new.id = br.id /\ new.prio = br.prio
      /\ new.root = br.root /\ new.cost = br.cost
      /\ new.rootPort = br.rootPort
  BY <1>1 DEF Disciplined, Shape
<1>6. br.ports[l] \in PortRecord
  BY DEF Typed
<1>7. /\ ports[l] \in PortRecord /\ ports[l].best = best
      /\ ports[l].pathCost = br.ports[l].pathCost
  BY <1>2, <1>3, <1>6 DEF PortRecord, BestRecord
<1>8. Disciplined(new)
  BY RecordedSound DEF new
<1>9. \A k \in DOMAIN ports : ports[k] \in PortRecord
  BY <1>3, <1>7 DEF Typed
<1>10. Typed(new, b)
  BY <1>3, <1>5, <1>8, <1>9 DEF Typed, Disciplined
<1>11. QED
  BY <1>2, <1>3, <1>4, <1>5, <1>7, <1>8, <1>10 DEF new

\* ProcessBPDU, from the bridge and the BPDU to the bridge and its answers.
LEMMA ProcessType ==
  ASSUME NEW br, NEW b, Typed(br, b), Disciplined(br), NEW l, NEW m \in BPDURecord
  PROVE  /\ Typed(ProcessBPDU(br, l, m).bridge, b)
         /\ ProcessBPDU(br, l, m).send \in Seq(BPDURecord)
<1>1. << >> \in Seq(BPDURecord)
  OBVIOUS
<1>2. CASE ~br.on \/ m.age >= MaxAge \/ l \notin DOMAIN br.ports \/ m.bridge = br.id
  BY <1>1, <1>2 DEF ProcessBPDU, Result
<1>3. CASE ~(~br.on \/ m.age >= MaxAge \/ l \notin DOMAIN br.ports \/ m.bridge = br.id)
  <2>1. l \in DOMAIN br.ports /\ m.age < MaxAge
    BY <1>3, Constants DEF BPDURecord
  <2>2. Typed(Recorded(br, l, m), b)
    BY <2>1, RecordedIs
  <2>3. CASE Replaces(br.ports[l], m)
    <3>1. Typed(Recompute(Recorded(br, l, m)), b)
      BY <2>2, RecomputeIs
    <3>2. Collect(Recompute(Recorded(br, l, m))) \in Seq(BPDURecord)
      BY <3>1, CollectIs
    <3>3. /\ Typed(Superior(br, l, m).bridge, b)
          /\ Superior(br, l, m).send \in Seq(BPDURecord)
      BY <1>1, <3>1, <3>2 DEF Superior, Result
    <3>4. QED
      BY <1>3, <2>3, <3>3 DEF ProcessBPDU
  <2>4. CASE ~Replaces(br.ports[l], m)
    <3>1. <<ConfigBPDU(br, l)>> \in Seq(BPDURecord)
      BY <2>1, ConfigType
    <3>2. /\ Typed(Inferior(br, l, m).bridge, b)
          /\ Inferior(br, l, m).send \in Seq(BPDURecord)
      BY <1>1, <2>2, <3>1 DEF Inferior, Result
    <3>3. QED
      BY <1>3, <2>4, <3>2 DEF ProcessBPDU
  <2>5. QED
    BY <2>3, <2>4
<1>4. QED
  BY <1>2, <1>3

LEMMA ConvergeType ==
  ASSUME NEW br, NEW b, Typed(br, b)
  PROVE  Typed(Converge(br).bridge, b) /\ Converge(br).send \in Seq(BPDURecord)
BY RecomputeIs, CollectIs DEF Converge, Result

LEMMA AgeOutType ==
  ASSUME NEW br, NEW b, Typed(br, b), Disciplined(br)
  PROVE  Typed(AgeOut(br).bridge, b) /\ AgeOut(br).send \in Seq(BPDURecord)
<1> DEFINE ports == [l \in DOMAIN br.ports |-> IF l \in Stale(br)
                       THEN [br.ports[l] EXCEPT !.best = NoBPDU] ELSE br.ports[l]]
           forgot == [br EXCEPT !.ports = ports]
<1>1. /\ DOMAIN forgot = DOMAIN br /\ forgot.ports = ports
      /\ forgot.on = br.on /\ forgot.id = br.id /\ forgot.prio = br.prio
      /\ forgot.root = br.root /\ forgot.cost = br.cost
      /\ forgot.rootPort = br.rootPort
  BY DEF Typed, Shape
<1>2. \A l \in DOMAIN br.ports : PortShape(ports[l]) /\ ports[l] \in PortRecord
  BY DEF Typed, Shape, PortShape, PortRecord
<1>3. DOMAIN ports = DOMAIN br.ports
  OBVIOUS
<1>4. AgeOut(br) = IF Stale(br) = {} THEN Result(br, << >>) ELSE Converge(forgot)
  BY DEF AgeOut
<1> HIDE DEF forgot, ports
<1>5. Typed(forgot, b)
  BY <1>1, <1>2, <1>3 DEF Typed, Shape
<1>6. << >> \in Seq(BPDURecord)
  OBVIOUS
<1>7. QED
  BY <1>4, <1>5, <1>6, ConvergeType DEF Result

\* A critical section that changes nothing but the ports' records.
LEMMA PortwiseTyped ==
  ASSUME NEW br, NEW b, Typed(br, b), NEW new, Shape(new),
         new.on \in BOOLEAN, new.prio = br.prio, new.id = br.id, new.root = br.root,
         new.cost = br.cost, new.rootPort = br.rootPort,
         DOMAIN new.ports = DOMAIN br.ports,
         \A l \in DOMAIN br.ports : new.ports[l] \in PortRecord
  PROVE  Typed(new, b)
BY DEF Typed

LEMMA AdvanceType ==
  ASSUME NEW br, NEW b, Typed(br, b), Disciplined(br)
  PROVE  Typed(AdvancePorts(br), b)
<1> DEFINE new == AdvancePorts(br)
<1>1. /\ new.ports = [l \in DOMAIN br.ports |-> Advance(br.ports[l])]
      /\ new.on = br.on /\ new.id = br.id /\ new.prio = br.prio
      /\ new.root = br.root /\ new.cost = br.cost
      /\ new.rootPort = br.rootPort
  BY DEF AdvancePorts, Typed, Shape
<1>2. ASSUME NEW port \in PortRecord
      PROVE  Advance(port) \in PortRecord
  <2>1. CASE port.wait = 0 /\ port.state = "LISTENING"
    <3>1. Advance(port) = [port EXCEPT !.state = "LEARNING", !.wait = ForwardDelay]
      BY <2>1 DEF Advance
    <3>2. QED
      BY <3>1, Delays DEF PortRecord
  <2>2. CASE port.wait = 0 /\ port.state = "LEARNING"
    <3>1. Advance(port) = [port EXCEPT !.state = "FORWARDING"]
      BY <2>2 DEF Advance
    <3>2. QED
      BY <3>1 DEF PortRecord
  <2>3. CASE ~(port.wait = 0 /\ port.state \in {"LISTENING", "LEARNING"})
    BY <2>3 DEF Advance
  <2>4. QED
    BY <2>1, <2>2, <2>3
<1>3. Shape(new)
  BY AdvanceSound DEF Disciplined
<1> HIDE DEF new
<1>4. Typed(new, b)
  BY <1>1, <1>2, <1>3, PortwiseTyped DEF Typed
<1>5. QED
  BY <1>4 DEF new

LEMMA PromoteType ==
  ASSUME NEW br, NEW b, Typed(br, b), Disciplined(br)
  PROVE  Typed(Promote(br), b)
<1> DEFINE new == Promote(br)
           Open(port) == [port EXCEPT !.state = "FORWARDING", !.wait = 0]
<1>1. /\ DOMAIN new.ports = DOMAIN br.ports
      /\ \A l \in DOMAIN br.ports :
           new.ports[l] = br.ports[l] \/ new.ports[l] = Open(br.ports[l])
      /\ new.on = br.on /\ new.id = br.id /\ new.prio = br.prio
      /\ new.root = br.root /\ new.cost = br.cost
      /\ new.rootPort = br.rootPort
  BY DEF Promote, Typed, Shape
<1>2. ASSUME NEW port \in PortRecord
      PROVE  Open(port) \in PortRecord
  BY Delays DEF PortRecord
<1>3. Shape(new)
  BY PromoteSound DEF Disciplined
<1> HIDE DEF new, Open
<1>4. Typed(new, b)
  BY <1>1, <1>2, <1>3, PortwiseTyped DEF Typed
<1>5. QED
  BY <1>4 DEF new

LEMMA NewPortType ==
  ASSUME NEW c \in Nat
  PROVE  NewPort(c) \in PortRecord
BY Delays DEF NewPort, PortRecord, TreeRoles

LEMMA SeededType ==
  ASSUME NEW br, NEW b, Typed(br, b)
  PROVE  /\ Typed(Seeded(br), b)
         /\ Seeded(br).on = br.on /\ Seeded(br).ports = br.ports /\ Seeded(br).rootPort = None
<1> DEFINE new == Seeded(br)
<1>1. /\ DOMAIN new = DOMAIN br /\ new.ports = br.ports
      /\ new.on = br.on /\ new.id = br.id /\ new.prio = br.prio
      /\ new.root = br.id /\ new.cost = 0 /\ new.rootPort = None
  BY DEF Seeded, Typed, Shape
<1> HIDE DEF new
<1>2. Typed(new, b)
  BY <1>1, Constants DEF Typed, Shape
<1>3. QED
  BY <1>1, <1>2 DEF new

\* syncPorts, once the root vector has been reset.
LEMMA SyncPortsType ==
  ASSUME NEW br, NEW b, Typed(br, b), br.rootPort = None,
         NEW eligible \in SUBSET LinksOf(b), NEW costs \in [Link -> Nat]
  PROVE  /\ Typed(SyncPorts(br, eligible, costs), b)
         /\ SyncPorts(br, eligible, costs).rootPort = None
         /\ SyncPorts(br, eligible, costs).on = br.on
         /\ DOMAIN SyncPorts(br, eligible, costs).ports = eligible
<1> DEFINE new == SyncPorts(br, eligible, costs)
<1>1. /\ DOMAIN new = DOMAIN br /\ DOMAIN new.ports = eligible
      /\ \A l \in eligible : new.ports[l] =
           IF l \in DOMAIN br.ports THEN br.ports[l] ELSE NewPort(costs[l])
      /\ new.on = br.on /\ new.id = br.id /\ new.prio = br.prio
      /\ new.root = br.root /\ new.cost = br.cost
      /\ new.rootPort = br.rootPort
  BY DEF SyncPorts, Typed, Shape
<1>2. ASSUME NEW l \in eligible
      PROVE  PortShape(new.ports[l]) /\ new.ports[l] \in PortRecord
  <2>1. CASE l \in DOMAIN br.ports
    BY <1>1, <2>1 DEF Typed, Shape
  <2>2. CASE l \notin DOMAIN br.ports
    <3>1. costs[l] \in Nat
      BY DEF LinksOf
    <3>2. new.ports[l] = NewPort(costs[l])
      BY <1>1, <2>2
    <3>3. QED
      BY <3>1, <3>2, NewPortType, NewPortSound
  <2>3. QED
    BY <2>1, <2>2
<1> HIDE DEF new
<1>3. Typed(new, b)
  BY <1>1, <1>2 DEF Typed, Shape
<1>4. QED
  BY <1>1, <1>3 DEF new

LEMMA ResetType ==
  ASSUME NEW br, NEW b, Typed(br, b),
         NEW eligible \in SUBSET LinksOf(b), NEW costs \in [Link -> Nat]
  PROVE  Typed(Reset(br, eligible, costs), b)
<1> DEFINE fresh == SyncPorts(Seeded(br), eligible, costs)
           ports == [l \in eligible |-> NewPort(fresh.ports[l].pathCost)]
           new == [fresh EXCEPT !.ports = ports]
<1>1. /\ Typed(fresh, b) /\ fresh.rootPort = None /\ DOMAIN fresh.ports = eligible
  BY SeededType, SyncPortsType
<1>2. ASSUME NEW l \in eligible
      PROVE  PortShape(ports[l]) /\ ports[l] \in PortRecord
  <2>1. fresh.ports[l].pathCost \in Nat
    BY <1>1 DEF Typed, PortRecord
  <2>2. ports[l] = NewPort(fresh.ports[l].pathCost)
    OBVIOUS
  <2>3. QED
    BY <2>1, <2>2, NewPortType, NewPortSound
<1>3. DOMAIN ports = eligible
  OBVIOUS
<1> HIDE DEF fresh, ports
<1>4. /\ DOMAIN new = DOMAIN fresh /\ new.ports = ports
      /\ new.on = fresh.on /\ new.id = fresh.id /\ new.prio = fresh.prio
      /\ new.root = fresh.root /\ new.cost = fresh.cost
      /\ new.rootPort = fresh.rootPort
  BY <1>1 DEF Typed, Shape
<1> HIDE DEF new
<1>5. Typed(new, b)
  BY <1>1, <1>2, <1>3, <1>4 DEF Typed, Shape
<1>6. QED
  BY <1>5 DEF Reset, new, ports, fresh

LEMMA EnableType ==
  ASSUME NEW br, NEW b, Typed(br, b),
         NEW eligible \in SUBSET LinksOf(b), NEW costs \in [Link -> Nat]
  PROVE  Typed(Enable(br, eligible, costs), b)
<1> DEFINE on == [br EXCEPT !.on = TRUE]
<1>1. /\ DOMAIN on = DOMAIN br /\ on.ports = br.ports
      /\ on.on = TRUE /\ on.id = br.id /\ on.prio = br.prio
      /\ on.root = br.root /\ on.cost = br.cost
      /\ on.rootPort = br.rootPort
  BY DEF Typed, Shape
<1> HIDE DEF on
<1>2. Typed(on, b)
  BY <1>1 DEF Typed, Shape
<1>3. Typed(SyncPorts(Seeded(on), eligible, costs), b)
  BY <1>2, SeededType, SyncPortsType
<1>4. QED
  BY <1>3 DEF Enable, on

LEMMA DisableType ==
  ASSUME NEW br, NEW b, Typed(br, b), Disciplined(br)
  PROVE  Typed(Disable(br), b)
<1> DEFINE new == Disable(br)
           Down(port) == [port EXCEPT !.role = "DISABLED", !.state = "DISABLED",
                                      !.best = NoBPDU, !.wait = 0]
<1>1. /\ new.ports = [l \in DOMAIN br.ports |-> Down(br.ports[l])]
      /\ new.on = FALSE /\ new.id = br.id /\ new.prio = br.prio
      /\ new.root = br.root /\ new.cost = br.cost
      /\ new.rootPort = br.rootPort
  BY DEF Disable, Typed, Shape
<1>2. ASSUME NEW port \in PortRecord
      PROVE  Down(port) \in PortRecord
  BY Delays DEF PortRecord
<1>3. Shape(new)
  BY DisableSound DEF Disciplined
<1> HIDE DEF new, Down
<1>4. Typed(new, b)
  BY <1>1, <1>2, <1>3, PortwiseTyped DEF Typed
<1>5. QED
  BY <1>4 DEF new

LEMMA ReprioritiseType ==
  ASSUME NEW br, NEW b, Typed(br, b), NEW prio \in Nat, NEW id \in Nat
  PROVE  Typed(Reprioritise(br, prio, id), b)
<1> DEFINE named == [br EXCEPT !.prio = prio, !.id = id]
<1>1. /\ DOMAIN named = DOMAIN br /\ named.ports = br.ports
      /\ named.on = br.on /\ named.id = id /\ named.prio = prio
      /\ named.root = br.root /\ named.cost = br.cost
      /\ named.rootPort = br.rootPort
  BY DEF Typed, Shape
<1> HIDE DEF named
<1>2. Typed(named, b)
  BY <1>1 DEF Typed, Shape
<1>3. QED
  BY <1>2, SeededType DEF Reprioritise, named

\* Ageing by a hello interval.
LEMMA AgedType ==
  ASSUME NEW port \in PortRecord
  PROVE  Aged(port) \in PortRecord
<1>1. Remaining(port.wait) \in 0 .. ForwardDelay
  BY TimerAssumption DEF Remaining, PortRecord
<1>2. Older(port.best) \in {NoBPDU} \cup BestRecord
  <2>1. CASE port.best = NoBPDU
    BY <2>1 DEF Older
  <2>2. CASE port.best # NoBPDU
    <3>1. port.best \in BestRecord
      BY <2>2 DEF PortRecord, BestRecord
    <3>2. Older(port.best) = [port.best EXCEPT !.idle = IF @ <= MaxAge THEN @ + 1 ELSE @]
      BY <2>2 DEF Older
    <3>3. (IF port.best.idle <= MaxAge THEN port.best.idle + 1 ELSE port.best.idle) \in 0 .. MaxAge + 1
      BY <3>1, TimerAssumption DEF BestRecord
    <3>4. QED
      BY <3>1, <3>2, <3>3 DEF BestRecord
  <2>3. QED
    BY <2>1, <2>2
<1>3. Aged(port) = [port EXCEPT !.best = Older(port.best), !.wait = Remaining(port.wait)]
  BY DEF Aged
<1>4. QED
  BY <1>1, <1>2, <1>3 DEF PortRecord, BestRecord

------------------------------------------------------------------------------
(* The types of the network.                                                 *)

PerBridgeCalls ==
  {"start", "stop", "wait", "converge", "reset", "turn", "judge", "promote"}

CallRecord == [call : PerBridgeCalls, arg : Bridge]
              \cup [call : {"beginRounds", "endRound"}, arg : Nat]

BridgesTyped == \A b \in Bridge : Typed(bridge[b], b)

Traffic ==
  /\ queue \in Seq(FrameRecord) /\ pend \in [Goroutine -> Seq(FrameRecord)]
  /\ drainer \in Goroutine \cup {None} /\ (drainer = None <=> queue = << >>)
  /\ budget \in 0 .. BPDUBudget /\ depth \in Int

Control ==
  /\ cost \in [Link -> Nat] /\ up \in [Link -> BOOLEAN]
  /\ todo \in Seq(CallRecord)
  /\ ops \in 0 .. MaxOps /\ settled \in BOOLEAN
  /\ due \subseteq {"hello", "timer", "return", "advance"} \X Bridge

TypeInv == PortInv /\ BridgesTyped /\ Traffic /\ Control

LEMMA PeerIsBridge ==
  ASSUME NEW b, NEW l \in Link
  PROVE  Peer(b, l) \in Bridge
<1>1. Cardinality(Ends[l]) = 2 /\ Ends[l] \subseteq Bridge
  BY TopologyAssumption
<1>2. \E c \in Ends[l] : c # b
  <2> SUFFICES ASSUME \A c \in Ends[l] : c = b
               PROVE  FALSE
    OBVIOUS
  <2>1. CASE Ends[l] = {}
    BY <1>1, <2>1, FS_EmptySet
  <2>2. CASE Ends[l] # {}
    <3>1. Ends[l] = {b}
      BY <2>2
    <3>2. Cardinality({b}) = 1
      BY FS_Singleton
    <3>3. QED
      BY <1>1, <3>1, <3>2
  <2>3. QED
    BY <2>1, <2>2
<1>3. QED
  BY <1>1, <1>2 DEF Peer

\* Frames are the BPDUs with their sender, and a transmit admits some of them.
LEMMA FramesType ==
  ASSUME NEW b \in Bridge, NEW bpdus \in Seq(BPDURecord)
  PROVE  Frames(b, bpdus) \in Seq(FrameRecord)
<1>1. Len(bpdus) \in Nat /\ DOMAIN bpdus = 1 .. Len(bpdus)
  OBVIOUS
<1>2. \A i \in 1 .. Len(bpdus) : [from |-> b, bpdu |-> bpdus[i]] \in FrameRecord
  <2> SUFFICES ASSUME NEW i \in 1 .. Len(bpdus)
               PROVE  [from |-> b, bpdu |-> bpdus[i]] \in FrameRecord
    OBVIOUS
  <2>1. bpdus[i] \in BPDURecord
    OBVIOUS
  <2>2. QED
    BY <2>1 DEF FrameRecord, BPDURecord
<1>3. Frames(b, bpdus) \in [1 .. Len(bpdus) -> FrameRecord]
  BY <1>1, <1>2 DEF Frames
<1>4. QED
  BY <1>1, <1>3

LEMMA AdmittedSome ==
  ASSUME NEW S, NEW frames \in Seq(S), NEW left \in Nat
  PROVE  Admitted(frames, left) \in Seq(S)
<1> DEFINE n == IF Len(frames) <= left THEN Len(frames) ELSE left
           seqs == [i \in 1 .. n |-> IF up[FrameLink(frames[i])] THEN <<frames[i]>> ELSE << >>]
<1>1. n \in Nat /\ 1 .. n \subseteq 1 .. Len(frames)
  OBVIOUS
<1>2. \A i \in 1 .. n : frames[i] \in S
  BY <1>1
<1> HIDE DEF n
<1>3. ASSUME NEW i \in 1 .. n
      PROVE  IsList(seqs[i]) /\ ToSet(seqs[i]) \subseteq S
  <2>1. IsList(<<frames[i]>>) /\ ToSet(<<frames[i]>>) \subseteq S
    BY <1>2, SingletonList
  <2>2. IsList(<< >>) /\ ToSet(<< >>) \subseteq S
    BY EmptyList
  <2>3. seqs[i] = <<frames[i]>> \/ seqs[i] = << >>
    OBVIOUS
  <2> HIDE DEF seqs
  <2>4. QED
    BY <2>1, <2>2, <2>3
<1>4. seqs = [i \in 1 .. n |-> seqs[i]]
  OBVIOUS
<1>5. Admitted(frames, left) = FlattenSeq(seqs)
  BY DEF Admitted, n
<1> HIDE DEF seqs
<1>6. /\ IsList(FlattenSeq(seqs))
      /\ \A x \in ToSet(FlattenSeq(seqs)) : \E i \in 1 .. n : x \in ToSet(seqs[i])
  BY <1>1, <1>3, <1>4, FlattenList
<1>7. ToSet(FlattenSeq(seqs)) \subseteq S
  BY <1>3, <1>6
<1>8. FlattenSeq(seqs) \in Seq(S)
  <2>1. \A t \in Seq(ToSet(FlattenSeq(seqs))) : t \in Seq(S)
    BY <1>7
  <2>2. QED
    BY <1>6, <2>1 DEF IsList
<1>9. QED
  BY <1>5, <1>8

LEMMA SpentType ==
  ASSUME NEW S, NEW frames \in Seq(S), NEW left \in 0 .. BPDUBudget
  PROVE  Spent(frames, left) \in 0 .. BPDUBudget
BY TopologyAssumption DEF Spent

LEMMA PerBridgeType ==
  ASSUME NEW name \in PerBridgeCalls
  PROVE  PerBridge(name) \in Seq(CallRecord)
<1> DEFINE n == Cardinality(Bridge)
<1>1. n \in Nat /\ Bridge = 1 .. n
  BY TopologyAssumption, FS_CardinalityType
<1>2. \A i \in 1 .. n : Call(name, i) \in CallRecord
  BY <1>1 DEF Call, CallRecord
<1>3. PerBridge(name) \in [1 .. n -> CallRecord]
  BY <1>2 DEF PerBridge
<1> HIDE DEF n
<1>4. QED
  BY <1>1, <1>3

LEMMA CallsType ==
  /\ ConvergeSpanningTree \in Seq(CallRecord)
  /\ LoadTopology \in Seq(CallRecord)
  /\ \A r \in Nat : Round(r) \in Seq(CallRecord)
<1>1. Call("beginRounds", 0) \in CallRecord /\ \A r \in Nat : Call("endRound", r) \in CallRecord
  BY DEF Call, CallRecord
<1>2. PerBridge("start") \in Seq(CallRecord) /\ PerBridge("turn") \in Seq(CallRecord)
  BY PerBridgeType DEF PerBridgeCalls
<1>3. QED
  BY <1>1, <1>2 DEF ConvergeSpanningTree, LoadTopology, Round

\* The call that the foreground goroutine is about to make.
LEMMA CallType ==
  ASSUME Control, NEW name, Calls(name)
  PROVE  /\ Tail(todo) \in Seq(CallRecord)
         /\ name \in PerBridgeCalls => Arg \in Bridge
         /\ name \notin PerBridgeCalls => Arg \in Nat
<1>1. Head(todo) \in CallRecord /\ Tail(todo) \in Seq(CallRecord)
  BY DEF Control, Calls
<1>2. QED
  BY <1>1 DEF Calls, Arg, CallRecord, PerBridgeCalls

\* A call that consists of the calls `inner'.
LEMMA ThenType ==
  ASSUME Control, NEW name, Calls(name), NEW inner \in Seq(CallRecord), Then(inner)
  PROVE  todo' \in Seq(CallRecord)
BY CallType DEF Then

\* A step that changes one bridge.
LEMMA OneTyped ==
  ASSUME TypeInv, NEW b, NEW br, b \in Bridge => Typed(br, b),
         bridge' = [bridge EXCEPT ![b] = br]
  PROVE  BridgesTyped'
BY DEF TypeInv, PortInv, BridgesTyped

LEMMA ExchangeType ==
  ASSUME TypeInv, NEW t \in Goroutine, NEW b \in Bridge, NEW r, Exchange(t, b, r),
         Typed(r.bridge, b), r.send \in Seq(BPDURecord), UNCHANGED <<queue, drainer>>
  PROVE  BridgesTyped' /\ Traffic'
<1>1. BridgesTyped'
  BY OneTyped DEF Exchange
<1>2. Frames(b, r.send) \in Seq(FrameRecord)
  BY FramesType
<1>3. budget' \in 0 .. BPDUBudget /\ depth' \in Int
  BY TopologyAssumption DEF Exchange, BeginSTPCascade, TypeInv, Traffic
<1>4. QED
  BY <1>1, <1>2, <1>3 DEF Exchange, TypeInv, Traffic

\* At the end of an exchange the counter is still a number.
LEMMA EndType ==
  ASSUME Traffic, EndSTPCascade
  PROVE  depth' \in Int
<1> DEFINE over == {t \in Goroutine : Exchanging(t) /\ ~Exchanging(t)'}
<1>1. IsFiniteSet(Goroutine)
  <2>1. Goroutine = {"fg"} \cup {"bg"}
    BY DEF Goroutine
  <2>2. QED
    BY <2>1, FS_Singleton, FS_Union
<1>2. over \subseteq Goroutine
  OBVIOUS
<1>3. depth' = depth - Cardinality(over)
  BY DEF EndSTPCascade
<1> HIDE DEF over
<1>4. Cardinality(over) \in Nat
  BY <1>1, <1>2, FS_Subset, FS_CardinalityType
<1>5. QED
  BY <1>3, <1>4 DEF Traffic

LEMMA TypeInit == Init => TypeInv
<1> SUFFICES ASSUME Init PROVE TypeInv
  OBVIOUS
<1>1. BridgesTyped
  <2>1. PICK p \in Priorities : bridge = [b \in Bridge |-> NewBridge(b, p[b])]
    BY DEF Init
  <2>2. p \in [Bridge -> Nat] /\ Cardinality(Bridge) \in Nat /\ Bridge = 1 .. Cardinality(Bridge)
    BY TopologyAssumption, FS_CardinalityType
  <2>3. ASSUME NEW b \in Bridge
        PROVE  Typed(NewBridge(b, p[b]), b)
    <3>1. b \in Nat /\ p[b] \in Nat
      BY <2>2
    <3>2. BridgeID(p[b], b) \in Nat
      BY <2>2, <3>1 DEF BridgeID
    <3>3. QED
      BY <3>1, <3>2, Constants DEF NewBridge, Typed, Shape
  <2>4. QED
    BY <2>1, <2>3 DEF BridgesTyped
<1>2. Traffic
  BY TopologyAssumption DEF Init, Traffic, Goroutine, FrameRecord
<1>3. Control
  <2>1. cost \in [Link -> Nat]
    <3>1. \A c \in 1 .. CostSpan - 1 : c \in Nat
      BY TimerAssumption
    <3>2. QED
      BY <3>1, TopologyAssumption DEF Init
  <2>2. up \in [Link -> BOOLEAN] /\ ops \in 0 .. MaxOps
    BY TopologyAssumption DEF Init
  <2>3. QED
    BY <2>1, <2>2, CallsType DEF Init, Control
<1>4. QED
  BY <1>1, <1>2, <1>3, PortInit DEF TypeInv

LEMMA EligibleType ==
  ASSUME NEW b, NEW u
  PROVE  Eligible(b, u) \in SUBSET LinksOf(b)
BY DEF Eligible

\* The calls of the foreground goroutine.
LEMMA StartType ==
  ASSUME TypeInv, Start
  PROVE  TypeInv'
<1>1. PortInv'
  BY ForegroundSound DEF TypeInv, Foreground
<1>2. Arg \in Bridge
  BY CallType DEF TypeInv, Start, PerBridgeCalls
<1>3. BridgesTyped'
  <2>1. Typed(Enable(bridge[Arg], Eligible(Arg, up), cost), Arg)
    BY <1>2, EnableType, EligibleType DEF TypeInv, BridgesTyped, Control
  <2>2. QED
    BY <2>1, OneTyped DEF Start, TypeInv, BridgesTyped
<1>4. Traffic'
  BY DEF Start, TypeInv, Traffic
<1>5. Control'
  <2>1. << >> \in Seq(CallRecord) /\ <<Call("converge", Arg)>> \in Seq(CallRecord)
    BY <1>2 DEF Call, CallRecord, PerBridgeCalls
  <2>2. todo' \in Seq(CallRecord)
    BY <2>1, ThenType DEF Start, TypeInv
  <2>3. QED
    BY <2>2 DEF Start, TypeInv, Control
<1>6. QED
  BY <1>1, <1>3, <1>4, <1>5 DEF TypeInv

LEMMA StopType ==
  ASSUME TypeInv, Stop
  PROVE  TypeInv'
<1>1. PortInv'
  BY ForegroundSound DEF TypeInv, Foreground
<1>2. Arg \in Bridge
  BY CallType DEF TypeInv, Stop, PerBridgeCalls
<1>3. BridgesTyped'
  <2>1. Typed(Disable(bridge[Arg]), Arg)
    BY <1>2, DisableType DEF TypeInv, BridgesTyped, PortInv
  <2>2. QED
    BY <2>1, OneTyped DEF Stop, TypeInv, BridgesTyped
<1>4. Traffic'
  BY DEF Stop, TypeInv, Traffic
<1>5. Control'
  <2>1. << >> \in Seq(CallRecord) /\ <<Call("wait", Arg)>> \in Seq(CallRecord)
    BY <1>2 DEF Call, CallRecord, PerBridgeCalls
  <2>2. todo' \in Seq(CallRecord)
    BY <2>1, ThenType DEF Stop, TypeInv
  <2>3. QED
    BY <2>2 DEF Stop, TypeInv, Control
<1>6. QED
  BY <1>1, <1>3, <1>4, <1>5 DEF TypeInv

\* ... those that run a critical section and send what it returns.
LEMMA ConvergeOneType ==
  ASSUME TypeInv, ConvergeOne
  PROVE  TypeInv'
<1>1. PortInv'
  BY ForegroundSound DEF TypeInv, Foreground
<1>2. Arg \in Bridge
  BY CallType DEF TypeInv, ConvergeOne, PerBridgeCalls
<1>3. BridgesTyped' /\ Traffic'
  <2>1. CASE bridge[Arg].on
    <3>1. Typed(Converge(bridge[Arg]).bridge, Arg) /\ Converge(bridge[Arg]).send \in Seq(BPDURecord)
      BY <1>2, ConvergeType DEF TypeInv, BridgesTyped
    <3>2. "fg" \in Goroutine
      BY DEF Goroutine
    <3>3. Exchange("fg", Arg, Converge(bridge[Arg])) /\ UNCHANGED <<queue, drainer>>
      BY <2>1 DEF ConvergeOne
    <3>4. QED
      BY <1>2, <3>1, <3>2, <3>3, ExchangeType
  <2>2. CASE ~bridge[Arg].on
    BY <2>2 DEF ConvergeOne, TypeInv, BridgesTyped, Traffic
  <2>3. QED
    BY <2>1, <2>2
<1>4. Control'
  <2>1. << >> \in Seq(CallRecord)
    OBVIOUS
  <2>2. todo' \in Seq(CallRecord)
    BY <2>1, ThenType DEF ConvergeOne, TypeInv
  <2>3. QED
    BY <2>2 DEF ConvergeOne, TypeInv, Control
<1>5. QED
  BY <1>1, <1>3, <1>4 DEF TypeInv

LEMMA TurnType ==
  ASSUME TypeInv, Turn
  PROVE  TypeInv'
<1>1. PortInv'
  BY ForegroundSound DEF TypeInv, Foreground
<1>2. Arg \in Bridge
  BY CallType DEF TypeInv, Turn, PerBridgeCalls
<1>3. BridgesTyped' /\ Traffic'
  BY DEF Turn, TypeInv, BridgesTyped, Traffic
<1>4. Control'
  <2>1. << >> \in Seq(CallRecord) /\ <<Call("converge", Arg), Call("judge", Arg)>> \in Seq(CallRecord)
    BY <1>2 DEF Call, CallRecord, PerBridgeCalls
  <2>2. todo' \in Seq(CallRecord)
    BY <2>1, ThenType DEF Turn, TypeInv
  <2>3. QED
    BY <2>2 DEF Turn, TypeInv, Control
<1>5. QED
  BY <1>1, <1>3, <1>4 DEF TypeInv

LEMMA ResetOneType ==
  ASSUME TypeInv, ResetOne
  PROVE  TypeInv'
<1>1. PortInv'
  BY ForegroundSound DEF TypeInv, Foreground
<1>2. Arg \in Bridge
  BY CallType DEF TypeInv, ResetOne, PerBridgeCalls
<1>3. BridgesTyped'
  BY <1>2, ResetType, EligibleType, OneTyped DEF ResetOne, TypeInv, Control, BridgesTyped
<1>4. Traffic'
  BY DEF ResetOne, TypeInv, Traffic
<1>5. Control'
  <2>1. << >> \in Seq(CallRecord)
    OBVIOUS
  <2>2. todo' \in Seq(CallRecord)
    BY <2>1, ThenType DEF ResetOne, TypeInv
  <2>3. QED
    BY <2>2 DEF ResetOne, TypeInv, Control
<1>6. QED
  BY <1>1, <1>3, <1>4, <1>5 DEF TypeInv

LEMMA PromoteOneType ==
  ASSUME TypeInv, PromoteOne
  PROVE  TypeInv'
<1>1. PortInv'
  BY ForegroundSound DEF TypeInv, Foreground
<1>2. Arg \in Bridge
  BY CallType DEF TypeInv, PromoteOne, PerBridgeCalls
<1>3. BridgesTyped'
  BY <1>2, PromoteType, OneTyped DEF PromoteOne, TypeInv, BridgesTyped, PortInv
<1>4. Traffic'
  BY DEF PromoteOne, TypeInv, Traffic
<1>5. Control'
  <2>1. << >> \in Seq(CallRecord)
    OBVIOUS
  <2>2. todo' \in Seq(CallRecord)
    BY <2>1, ThenType DEF PromoteOne, TypeInv
  <2>3. QED
    BY <2>2 DEF PromoteOne, TypeInv, Control
<1>6. QED
  BY <1>1, <1>3, <1>4, <1>5 DEF TypeInv

\* ... and those that change no bridge.
LEMMA RoundsType ==
  ASSUME TypeInv, WaitForTimers \/ BeginRounds \/ Judge \/ EndRound
  PROVE  TypeInv'
<1>1. PortInv'
  BY ForegroundSound DEF TypeInv, Foreground
<1>2. BridgesTyped'
  BY DEF WaitForTimers, BeginRounds, Judge, EndRound, TypeInv, BridgesTyped
<1>3. Traffic'
  BY TopologyAssumption DEF WaitForTimers, BeginRounds, Judge, EndRound, TypeInv, Traffic
<1>4. todo' \in Seq(CallRecord)
  <2>1. << >> \in Seq(CallRecord)
    OBVIOUS
  <2>2. CASE WaitForTimers
    BY <2>1, <2>2, ThenType DEF WaitForTimers, TypeInv
  <2>3. CASE BeginRounds
    BY <2>3, CallsType, ThenType DEF BeginRounds, TypeInv
  <2>4. CASE Judge
    BY <2>1, <2>4, ThenType DEF Judge, TypeInv
  <2>5. CASE EndRound
    <3>1. Arg \in Nat
      BY <2>5, CallType DEF TypeInv, EndRound, PerBridgeCalls
    <3>2. /\ PerBridge("promote") \in Seq(CallRecord)
          /\ Round(Arg + 1) \in Seq(CallRecord)
      BY <3>1, CallsType, PerBridgeType DEF PerBridgeCalls
    <3>3. (IF RoundsOver(Arg) THEN PerBridge("promote") ELSE Round(Arg + 1)) \in Seq(CallRecord)
      BY <3>2
    <3>4. QED
      BY <2>5, <3>3, ThenType DEF EndRound, TypeInv
  <2>6. QED
    BY <2>2, <2>3, <2>4, <2>5
<1>5. Control'
  BY <1>4 DEF WaitForTimers, BeginRounds, Judge, EndRound, TypeInv, Control
<1>6. QED
  BY <1>1, <1>2, <1>3, <1>5 DEF TypeInv

LEMMA SendType ==
  ASSUME TypeInv, NEW t \in Goroutine, Send(t)
  PROVE  TypeInv'
<1> DEFINE head == <<Head(pend[t])>>
           sent == Admitted(head, budget)
<1>1. pend[t] \in Seq(FrameRecord) /\ pend[t] # << >>
  BY DEF Send, TypeInv, Traffic
<1>2. head \in Seq(FrameRecord) /\ Tail(pend[t]) \in Seq(FrameRecord)
  BY <1>1
<1>3. budget \in Nat /\ budget \in 0 .. BPDUBudget
  BY TopologyAssumption DEF TypeInv, Traffic
<1>4. sent \in Seq(FrameRecord)
  BY <1>2, <1>3, AdmittedSome
<1>5. Spent(head, budget) \in 0 .. BPDUBudget
  BY <1>2, <1>3, SpentType
<1>6. /\ queue' = queue \o sent /\ budget' = Spent(head, budget)
      /\ drainer' = IF drainer = None /\ sent # << >> THEN t ELSE drainer
      /\ pend' = [pend EXCEPT ![t] = IF budget = 0 THEN << >> ELSE Tail(@)]
  BY DEF Send
<1> HIDE DEF head, sent
<1>7. queue' \in Seq(FrameRecord)
  BY <1>4, <1>6 DEF TypeInv, Traffic
<1>8. pend' \in [Goroutine -> Seq(FrameRecord)]
  <2>1. << >> \in Seq(FrameRecord)
    OBVIOUS
  <2>2. QED
    BY <1>2, <1>6, <2>1 DEF TypeInv, Traffic
<1>9. drainer' \in Goroutine \cup {None} /\ (drainer' = None <=> queue' = << >>)
  <2>1. t # None
    BY TopologyAssumption DEF Goroutine
  <2>2. CASE drainer = None
    <3>1. queue = << >> /\ queue' = sent
      BY <1>4, <1>6, <2>2 DEF TypeInv, Traffic
    <3>2. QED
      BY <1>6, <2>1, <2>2, <3>1
  <2>3. CASE drainer # None
    <3>1. queue # << >> /\ queue \in Seq(FrameRecord) /\ drainer' = drainer
      BY <1>6, <2>3 DEF TypeInv, Traffic
    <3>2. queue' # << >>
      BY <1>4, <1>6, <3>1
    <3>3. QED
      BY <2>3, <3>1, <3>2 DEF TypeInv, Traffic
  <2>4. QED
    BY <2>2, <2>3
<1>10. Traffic'
  <2>1. depth' \in Int
    BY EndType DEF Send, TypeInv, Traffic
  <2>2. QED
    BY <1>5, <1>6, <1>7, <1>8, <1>9, <2>1 DEF Traffic
<1>11. PortInv' /\ BridgesTyped' /\ Control'
  BY DEF Send, TypeInv, PortInv, BridgesTyped, Control
<1>12. QED
  BY <1>10, <1>11 DEF TypeInv

LEMMA DeliverType ==
  ASSUME TypeInv, Deliver
  PROVE  TypeInv'
<1> DEFINE f == Head(queue)
           l == FrameLink(f)
           b == Peer(f.from, l)
           r == IF up[l] THEN ProcessBPDU(bridge[b], l, f.bpdu) ELSE Result(bridge[b], << >>)
           frames == Frames(b, r.send)
<1>1. f \in FrameRecord /\ Tail(queue) \in Seq(FrameRecord)
  <2>1. queue \in Seq(FrameRecord) /\ queue # << >>
    BY DEF Deliver, TypeInv, Traffic
  <2> QED
    BY <2>1, HeadTailProperties
<1>2. f.bpdu \in BPDURecord /\ l \in Link
  BY <1>1 DEF FrameRecord, BPDURecord, FrameLink
<1>3. b \in Bridge
  BY <1>2, PeerIsBridge
<1>4. Typed(r.bridge, b) /\ r.send \in Seq(BPDURecord)
  <2>1. Typed(bridge[b], b) /\ Disciplined(bridge[b])
    BY <1>3 DEF TypeInv, BridgesTyped, PortInv
  <2>2. << >> \in Seq(BPDURecord)
    OBVIOUS
  <2> HIDE DEF b, f, l
  <2>3. CASE up[l]
    BY <1>2, <2>1, <2>3, ProcessType
  <2>4. CASE ~up[l]
    BY <2>1, <2>2, <2>4 DEF Result
  <2>5. QED
    BY <2>3, <2>4
<1>5. budget \in Nat /\ budget \in 0 .. BPDUBudget
  BY TopologyAssumption DEF TypeInv, Traffic
<1>6. /\ bridge' = [bridge EXCEPT ![b] = r.bridge]
      /\ queue' = Tail(queue) \o Admitted(frames, budget)
      /\ budget' = Spent(r.send, budget)
      /\ drainer' = IF queue' = << >> THEN None ELSE drainer
      /\ pend' = pend
  BY DEF Deliver
<1>7. frames \in Seq(FrameRecord)
  BY <1>3, <1>4, FramesType
<1> HIDE DEF f, l, b, r, frames
<1>8. queue' \in Seq(FrameRecord)
  BY <1>1, <1>5, <1>6, <1>7, AdmittedSome
<1>9. budget' \in 0 .. BPDUBudget
  BY <1>4, <1>5, <1>6, SpentType
<1>10. drainer' \in Goroutine \cup {None} /\ (drainer' = None <=> queue' = << >>)
  <2>1. drainer # None
    BY DEF Deliver, TypeInv, Traffic
  <2>2. QED
    BY <1>6, <2>1 DEF TypeInv, Traffic
<1>11. Traffic'
  <2>1. depth' \in Int
    BY EndType DEF Deliver, TypeInv, Traffic
  <2>2. QED
    BY <1>6, <1>8, <1>9, <1>10, <2>1 DEF TypeInv, Traffic
<1>12. BridgesTyped'
  BY <1>4, <1>6, OneTyped
<1>13. PortInv'
  BY DeliverSound DEF TypeInv
<1>14. Control'
  BY DEF Deliver, TypeInv, Control
<1>15. QED
  BY <1>11, <1>12, <1>13, <1>14 DEF TypeInv

LEMMA TickType ==
  ASSUME TypeInv, Tick
  PROVE  TypeInv'
<1>1. PortInv'
  BY TickSound DEF TypeInv
<1>2. BridgesTyped'
  <2>1. ASSUME NEW b \in Bridge
        PROVE  Typed(bridge'[b], b)
    <3> DEFINE br == bridge[b]
               new == [br EXCEPT !.ports = [l \in DOMAIN @ |-> Aged(@[l])]]
    <3>1. Typed(br, b) /\ Disciplined(br)
      BY DEF TypeInv, BridgesTyped, PortInv
    <3>2. bridge'[b] = new
      BY DEF Tick
    <3>3. /\ new.ports = [l \in DOMAIN br.ports |-> Aged(br.ports[l])]
          /\ new.on = br.on /\ new.id = br.id /\ new.prio = br.prio
          /\ new.root = br.root /\ new.cost = br.cost
          /\ new.rootPort = br.rootPort
      BY <3>1 DEF Typed, Shape
    <3>4. Shape(bridge'[b])
      BY <1>1 DEF PortInv, Disciplined
    <3> HIDE DEF br, new
    <3>5. Typed(new, b)
      BY <3>1, <3>2, <3>3, <3>4, AgedType, PortwiseTyped DEF Typed
    <3>6. QED
      BY <3>2, <3>5
  <2>2. QED
    BY <2>1 DEF BridgesTyped
<1>3. Traffic'
  BY DEF Tick, TypeInv, Traffic
<1>4. Control'
  BY DEF Tick, TypeInv, Control
<1>5. QED
  BY <1>1, <1>2, <1>3, <1>4 DEF TypeInv

LEMMA TimerWorkType ==
  ASSUME TypeInv, NEW b \in Bridge, TimerWork(b)
  PROVE  TypeInv'
<1>1. PortInv'
  BY TimerWorkSound DEF TypeInv
<1>2. Typed(bridge[b], b) /\ Disciplined(bridge[b]) /\ "bg" \in Goroutine
  BY DEF TypeInv, BridgesTyped, PortInv, Goroutine
<1>3. CASE SendHello(b)
  <2> DEFINE r == Result(bridge[b], Collect(bridge[b]))
  <2>1. Typed(r.bridge, b) /\ r.send \in Seq(BPDURecord)
    BY <1>2, CollectIs DEF Result
  <2>2. Exchange("bg", b, r) /\ UNCHANGED <<queue, drainer>>
    BY <1>3 DEF SendHello
  <2> HIDE DEF r
  <2>3. BridgesTyped' /\ Traffic'
    BY <1>2, <2>1, <2>2, ExchangeType
  <2>4. Control'
    BY <1>3 DEF SendHello, TypeInv, Control
  <2>5. QED
    BY <1>1, <2>3, <2>4 DEF TypeInv
<1>4. CASE HelloSent(b)
  BY <1>1, <1>4 DEF HelloSent, TypeInv, BridgesTyped, Traffic, Control
<1>5. CASE AgeOutBPDUs(b)
  <2>1. Typed(AgeOut(bridge[b]).bridge, b) /\ AgeOut(bridge[b]).send \in Seq(BPDURecord)
    BY <1>2, AgeOutType
  <2>2. Exchange("bg", b, AgeOut(bridge[b])) /\ UNCHANGED <<queue, drainer>>
    BY <1>5 DEF AgeOutBPDUs
  <2>3. BridgesTyped' /\ Traffic'
    BY <1>2, <2>1, <2>2, ExchangeType
  <2>4. Control'
    BY <1>5 DEF AgeOutBPDUs, TypeInv, Control
  <2>5. QED
    BY <1>1, <2>3, <2>4 DEF TypeInv
<1>6. CASE AdvancePortStates(b)
  <2>1. Typed(AdvancePorts(bridge[b]), b)
    BY <1>2, AdvanceType
  <2>2. BridgesTyped'
    BY <1>6, <2>1, OneTyped DEF AdvancePortStates, TypeInv, BridgesTyped
  <2>3. Traffic' /\ Control'
    BY <1>6 DEF AdvancePortStates, TypeInv, Traffic, Control
  <2>4. QED
    BY <1>1, <2>2, <2>3 DEF TypeInv
<1>7. QED
  BY <1>3, <1>4, <1>5, <1>6 DEF TimerWork

\* The operations of the simulator.
LEMMA OperateType ==
  ASSUME TypeInv, NEW calls \in Seq(CallRecord), Operate(calls)
  PROVE  todo' \in Seq(CallRecord) /\ ops' \in 0 .. MaxOps
BY TopologyAssumption DEF Operate, TypeInv, Control

LEMMA SetSTPType ==
  ASSUME TypeInv, NEW b \in Bridge, NEW enabled \in BOOLEAN, SetSTP(b, enabled)
  PROVE  TypeInv'
<1> DEFINE calls == <<Call(IF enabled THEN "start" ELSE "stop", b)>> \o ConvergeSpanningTree
<1>1. calls \in Seq(CallRecord)
  <2>1. Call(IF enabled THEN "start" ELSE "stop", b) \in CallRecord
    BY DEF Call, CallRecord, PerBridgeCalls
  <2>2. QED
    BY <2>1, CallsType
<1>2. Operate(calls)
  BY DEF SetSTP
<1> HIDE DEF calls
<1>3. todo' \in Seq(CallRecord) /\ ops' \in 0 .. MaxOps
  BY <1>1, <1>2, OperateType
<1>4. QED
  BY <1>3 DEF SetSTP, TypeInv, PortInv, BridgesTyped, Traffic, Control

LEMMA SetSTPPriorityType ==
  ASSUME TypeInv, NEW b \in Bridge, NEW p \in Nat, SetSTPPriority(b, p)
  PROVE  TypeInv'
<1> DEFINE calls == (IF bridge[b].on THEN <<Call("converge", b)>> ELSE << >>)
                      \o ConvergeSpanningTree
<1>1. calls \in Seq(CallRecord)
  <2>1. Call("converge", b) \in CallRecord
    BY DEF Call, CallRecord, PerBridgeCalls
  <2>2. (IF bridge[b].on THEN <<Call("converge", b)>> ELSE << >>) \in Seq(CallRecord)
    BY <2>1
  <2>3. QED
    BY <2>2, CallsType
<1>2. Operate(calls)
  BY DEF SetSTPPriority
<1> HIDE DEF calls
<1>3. todo' \in Seq(CallRecord) /\ ops' \in 0 .. MaxOps
  BY <1>1, <1>2, OperateType
<1>4. PortInv'
  BY ReprioritiseSound, OneBridge DEF SetSTPPriority, TypeInv, PortInv
<1>5. BridgesTyped'
  <2>1. BridgeID(p, b) \in Nat
    <3>1. Cardinality(Bridge) \in Nat /\ b \in 1 .. Cardinality(Bridge)
      BY TopologyAssumption, FS_CardinalityType
    <3>2. QED
      BY <3>1 DEF BridgeID
  <2>2. Typed(Reprioritise(bridge[b], p, BridgeID(p, b)), b)
    BY <2>1, ReprioritiseType DEF TypeInv, BridgesTyped
  <2>3. QED
    BY <2>2, OneTyped DEF SetSTPPriority
<1>6. QED
  BY <1>3, <1>4, <1>5 DEF SetSTPPriority, TypeInv, Traffic, Control

LEMMA SetLinkStateType ==
  ASSUME TypeInv, NEW l \in Link, SetLinkState(l)
  PROVE  TypeInv'
<1> DEFINE calls == PerBridge("reset") \o ConvergeSpanningTree
<1>1. calls \in Seq(CallRecord)
  BY PerBridgeType, CallsType DEF PerBridgeCalls
<1>2. Operate(calls)
  BY DEF SetLinkState
<1> HIDE DEF calls
<1>3. todo' \in Seq(CallRecord) /\ ops' \in 0 .. MaxOps
  BY <1>1, <1>2, OperateType
<1>4. up' \in [Link -> BOOLEAN]
  BY DEF SetLinkState, TypeInv, Control
<1>5. QED
  BY <1>3, <1>4 DEF SetLinkState, TypeInv, PortInv, BridgesTyped, Traffic, Control

LEMMA TypeInductive == TypeInv /\ [Next]_vars => TypeInv'
<1> SUFFICES ASSUME TypeInv, [Next]_vars
             PROVE  TypeInv'
  OBVIOUS
<1>1. CASE Foreground
  BY <1>1, StartType, StopType, ConvergeOneType, ResetOneType, TurnType, PromoteOneType,
     RoundsType DEF Foreground
<1>2. CASE Work
  BY <1>1, <1>2, DeliverType, SendType, TickType, TimerWorkType DEF Work
<1>3. ASSUME NEW b \in Switchable, NEW enabled \in BOOLEAN, SetSTP(b, enabled)
      PROVE  TypeInv'
  BY <1>3, SetSTPType, TopologyAssumption
<1>4. ASSUME NEW b \in Tunable, NEW p \in NewPriorities, SetSTPPriority(b, p)
      PROVE  TypeInv'
  BY <1>4, SetSTPPriorityType, TopologyAssumption
<1>5. ASSUME NEW l \in Toggled, SetLinkState(l)
      PROVE  TypeInv'
  BY <1>5, SetLinkStateType, TopologyAssumption
<1>6. CASE Rest \/ UNCHANGED vars
  BY <1>6 DEF Rest, vars, TypeInv, PortInv, BridgesTyped, Traffic, Control
<1>7. QED
  BY <1>2, <1>3, <1>4, <1>5, <1>6 DEF Next

\* Bridges, BPDUs in the transport and what the goroutines have in hand keep their
\* types: no age reaches the maximum, no path cost leaves its width, the budget does
\* not go below zero, and a goroutine drains exactly while frames are queued.
THEOREM TypeCorrect == Spec => []TypeOK
<1>1. TypeInv => TypeOK
  BY DEF TypeInv, BridgesTyped, Typed, Traffic, Control, TypeOK
<1>2. QED
  BY <1>1, TypeInit, TypeInductive, PTL DEF Spec

------------------------------------------------------------------------------
(* Priority vectors only improve during a load.  C bounds the cost of a      *)
(* link; path costs that are summed over fewer than MaxAge links do not wrap.*)

NoWrap(C) == C \in Nat /\ MaxAge * C < CostSpan

\* What a bridge knows costs no more than its age tells.
Affordable(br, C) ==
  \A l \in DOMAIN br.ports :
    /\ br.ports[l].pathCost <= C
    /\ l \in Heard(br) => br.ports[l].best.cost <= br.ports[l].best.age * C

\* The root vector of a bridge is its own, or what its root port offers.
VectorHolds(br) ==
  \/ br.rootPort = None /\ br.cost = 0 /\ br.root = br.id
  \/ /\ br.rootPort \in Heard(br)
     /\ br.root = br.ports[br.rootPort].best.root
     /\ br.cost = Through(br, br.rootPort).cost

Improves(new, br) ==
  \/ new.root < br.root
  \/ new.root = br.root /\ new.cost <= br.cost

Cheap(C) == {m \in BPDURecord : m.cost <= m.age * C}

LEMMA Products ==
  ASSUME NEW C \in Nat, NEW a \in 0 .. MaxAge - 1
  PROVE  a * C + C = (a + 1) * C /\ (a + 1) * C <= MaxAge * C
<1>1. MaxAge \in Nat /\ a \in Nat /\ a + 1 <= MaxAge
  BY Constants
<1> DEFINE d == MaxAge - (a + 1)
<1>2. d \in Nat /\ MaxAge = (a + 1) + d
  BY <1>1
<1> HIDE DEF d
<1>3. a * C + C = (a + 1) * C
  BY <1>1
<1>4. MaxAge * C = (a + 1) * C + d * C /\ d * C >= 0
  BY <1>1, <1>2
<1>5. (a + 1) * C \in Nat /\ d * C \in Nat
  BY <1>1, <1>2
<1>6. QED
  BY <1>3, <1>4, <1>5

\* Without wrapping, the cost of a path is the sum.
LEMMA PathSum ==
  ASSUME NEW C, NoWrap(C), NEW br, NEW b, Typed(br, b), Affordable(br, C), NEW l \in Heard(br)
  PROVE  /\ Through(br, l).cost = br.ports[l].best.cost + br.ports[l].pathCost
         /\ Through(br, l).cost <= (br.ports[l].best.age + 1) * C
         /\ Through(br, l).cost \in Nat
<1> DEFINE best == br.ports[l].best
           sum == best.cost + br.ports[l].pathCost
<1>1. best \in BestRecord /\ br.ports[l].pathCost \in Nat /\ l \in DOMAIN br.ports
  BY BestType DEF Typed, PortRecord
<1>2. /\ best.cost \in Nat /\ best.age \in 0 .. MaxAge - 1 /\ C \in Nat
      /\ best.cost <= best.age * C /\ br.ports[l].pathCost <= C
  BY <1>1, Constants DEF BestRecord, NoWrap, Affordable
<1>3. best.age * C + C = (best.age + 1) * C /\ (best.age + 1) * C <= MaxAge * C
  BY <1>2, Products
<1>4. best.age * C \in Nat /\ MaxAge * C \in Nat /\ (best.age + 1) * C \in Nat
  BY <1>2, Constants
<1>5. sum \in Nat /\ sum <= (best.age + 1) * C /\ sum < CostSpan
  <2> DEFINE x == best.age * C
             y == (best.age + 1) * C
             z == MaxAge * C
  <2>1. x \in Nat /\ y \in Nat /\ z \in Nat /\ x + C = y /\ y <= z /\ z < CostSpan
    BY <1>3, <1>4 DEF NoWrap
  <2>2. best.cost <= x
    BY <1>2
  <2> HIDE DEF x, y, z, best
  <2>3. sum \in Nat /\ sum <= y /\ sum < CostSpan
    BY <1>1, <1>2, <2>1, <2>2, Constants
  <2>4. QED
    BY <2>3 DEF y
<1>6. sum % CostSpan = sum
  BY <1>5, Constants
<1>7. QED
  BY <1>5, <1>6, ThroughType

\* What depends on the BPDUs and the costs alone.
LEMMA SameBasisKeeps ==
  ASSUME NEW br, NEW new, SameBasis(new, br)
  PROVE  /\ Heard(new) = Heard(br)
         /\ \A l \in Heard(br) : Through(new, l) = Through(br, l)
         /\ \A C : Affordable(br, C) => Affordable(new, C)
<1>1. Heard(new) = Heard(br)
  BY DEF SameBasis, Heard
<1>2. \A l \in Heard(br) : Through(new, l) = Through(br, l)
  BY DEF SameBasis, Heard, Through
<1>3. ASSUME NEW C, Affordable(br, C)
      PROVE  Affordable(new, C)
  BY <1>1, <1>3 DEF SameBasis, Affordable
<1>4. QED
  BY <1>1, <1>2, <1>3

\* recomputeLocked leaves a vector that holds ...
LEMMA RecomputeHolds ==
  ASSUME NEW br, NEW b, Typed(br, b)
  PROVE  VectorHolds(Recompute(br)) /\ \A C : Affordable(br, C) => Affordable(Recompute(br), C)
<1> DEFINE new == Recompute(br)
<1>1. /\ SameBasis(new, br)
      /\ \/ new.root = br.id /\ new.rootPort = None /\ new.cost = 0
         \/ /\ new.rootPort \in Heard(br)
            /\ br.ports[new.rootPort].best.root = new.root
            /\ new.cost = Through(br, new.rootPort).cost
  BY RecomputeIs
<1> HIDE DEF new
<1>2. CASE new.root = br.id /\ new.rootPort = None /\ new.cost = 0
  BY <1>1, <1>2, SameBasisKeeps DEF VectorHolds, SameBasis, new
<1>3. CASE /\ new.rootPort \in Heard(br)
           /\ br.ports[new.rootPort].best.root = new.root
           /\ new.cost = Through(br, new.rootPort).cost
  <2>1. new.rootPort \in DOMAIN br.ports
    BY <1>3 DEF Heard
  <2>2. new.ports[new.rootPort].best = br.ports[new.rootPort].best
    BY <1>1, <2>1 DEF SameBasis
  <2>3. VectorHolds(new)
    BY <1>1, <1>3, <2>2, SameBasisKeeps DEF VectorHolds
  <2>4. QED
    BY <1>1, <2>3, SameBasisKeeps DEF new
<1>4. QED
  BY <1>1, <1>2, <1>3

\* ... and is at least as good as any vector that the BPDUs at hand support.
Supported(br, r, c) ==
  \/ r = br.id
  \/ \E l \in Heard(br) : \/ br.ports[l].best.root < r
                          \/ br.ports[l].best.root = r /\ Through(br, l).cost <= c

LEMMA RecomputeImproves ==
  ASSUME NEW br, NEW b, Typed(br, b), NEW r \in Nat, NEW c \in Nat, Supported(br, r, c)
  PROVE  \/ Recompute(br).root < r
         \/ Recompute(br).root = r /\ Recompute(br).cost <= c
<1> DEFINE new == Recompute(br)
<1>1. /\ new.root = ElectedRoot(br)
      /\ \/ new.root = br.id /\ new.cost = 0
         \/ \A k \in Heard(br) : br.ports[k].best.root = new.root =>
                new.cost <= Through(br, k).cost
      /\ new.cost \in Nat
  <2>1. new.cost \in 0 .. CostSpan - 1
    BY RecomputeIs DEF Typed
  <2>2. new.cost \in Nat
    BY <2>1, Constants
  <2>3. QED
    BY <2>2, RecomputeIs
<1>2. /\ new.root \in Nat /\ new.root <= br.id /\ br.id \in Nat
      /\ \A l \in Heard(br) : new.root <= br.ports[l].best.root
  BY <1>1, ElectedIsLeast DEF Typed
<1> HIDE DEF new
<1>3. CASE r = br.id
  <2>1. CASE new.root = br.id
    <3>1. new.cost = 0
      BY <2>1, RecomputeIs DEF new
    <3>2. QED
      BY <1>3, <2>1, <3>1 DEF new
  <2>2. CASE new.root # br.id
    BY <1>2, <1>3, <2>2 DEF new
  <2>3. QED
    BY <2>1, <2>2
<1>4. ASSUME NEW l \in Heard(br), br.ports[l].best.root < r
      PROVE  new.root < r
  <2>1. br.ports[l].best.root \in Nat
    BY BestType DEF BestRecord
  <2>2. QED
    BY <1>2, <1>4, <2>1
<1>5. ASSUME NEW l \in Heard(br), br.ports[l].best.root = r, Through(br, l).cost <= c
      PROVE  new.root < r \/ (new.root = r /\ new.cost <= c)
  <2>1. new.root <= r
    BY <1>2, <1>5
  <2>2. CASE new.root = r
    <3>1. Through(br, l).cost \in Nat
      BY ThroughType, Constants
    <3>2. CASE new.cost = 0
      BY <2>2, <3>2
    <3>3. CASE new.cost <= Through(br, l).cost
      BY <1>1, <1>5, <2>2, <3>1, <3>3
    <3>4. QED
      BY <1>1, <1>5, <2>2, <3>2, <3>3
  <2>3. QED
    BY <1>2, <2>1, <2>2
<1>6. QED
  BY <1>3, <1>4, <1>5 DEF Supported, new

Sane(br, b, C) ==
  Typed(br, b) /\ Disciplined(br) /\ Affordable(br, C) /\ VectorHolds(br)

\* A vector that holds is supported: by the bridge itself or by its root port.
LEMMA HoldsSupported ==
  ASSUME NEW br, VectorHolds(br), br.cost \in Nat
  PROVE  Supported(br, br.root, br.cost)
BY DEF VectorHolds, Supported

\* What a bridge sends is as cheap as it is old.
LEMMA ConfigCheap ==
  ASSUME NEW C, NoWrap(C), NEW br, NEW b, Typed(br, b), Affordable(br, C), VectorHolds(br),
         NEW l \in DOMAIN br.ports
  PROVE  ConfigBPDU(br, l) \in Cheap(C)
<1>1. br.cost <= RelayAge(br) * C
  <2>1. CASE br.rootPort \in Heard(br)
    <3>1. RelayAge(br) = br.ports[br.rootPort].best.age + 1
      BY <2>1 DEF RelayAge, Hello
    <3>2. br.rootPort # None
      BY <2>1, BestType, Constants
    <3>3. br.cost = Through(br, br.rootPort).cost
      BY <3>2 DEF VectorHolds
    <3>4. QED
      BY <2>1, <3>1, <3>3, PathSum
  <2>2. CASE br.rootPort \notin Heard(br)
    <3>1. br.cost = 0 /\ RelayAge(br) = 0
      BY <2>2 DEF VectorHolds, RelayAge
    <3>2. QED
      BY <3>1 DEF NoWrap
  <2>3. QED
    BY <2>1, <2>2
<1>2. QED
  BY <1>1, ConfigType DEF Cheap, ConfigBPDU

LEMMA CollectCheap ==
  ASSUME NEW C, NoWrap(C), NEW br, NEW b, Typed(br, b), Affordable(br, C), VectorHolds(br)
  PROVE  Collect(br) \in Seq(Cheap(C))
<1>1. /\ Collect(br) \in Seq(BPDURecord)
      /\ \A i \in DOMAIN Collect(br) : Collect(br)[i] \in Cheap(C)
  BY CollectIs, ConfigCheap
<1>2. QED
  BY <1>1

\* Recording a cheap BPDU keeps what a bridge knows affordable.
LEMMA RecordedAffordable ==
  ASSUME NEW C, NEW br, NEW b, Typed(br, b), Disciplined(br), Affordable(br, C),
         NEW l \in DOMAIN br.ports, NEW m \in Cheap(C), m.age < MaxAge
  PROVE  /\ Affordable(Recorded(br, l, m), C)
         /\ l \in Heard(Recorded(br, l, m))
         /\ \A k \in Heard(br) \ {l} : /\ k \in Heard(Recorded(br, l, m))
                                      /\ Recorded(br, l, m).ports[k] = br.ports[k]
                                      /\ Through(Recorded(br, l, m), k) = Through(br, k)
<1> DEFINE new == Recorded(br, l, m)
<1>1. m \in BPDURecord /\ m.cost <= m.age * C
  BY DEF Cheap
<1>2. /\ DOMAIN new.ports = DOMAIN br.ports
      /\ \A k \in DOMAIN br.ports \ {l} : new.ports[k] = br.ports[k]
      /\ new.ports[l].pathCost = br.ports[l].pathCost
      /\ new.ports[l].best \in BestRecord
      /\ new.ports[l].best.cost = m.cost /\ new.ports[l].best.age = m.age
  BY <1>1, RecordedIs
<1> HIDE DEF new
<1>3. new.ports[l].best # NoBPDU
  <2>1. DOMAIN NoBPDU = {"hasBPDU"}
    BY DEF NoBPDU
  <2>2. "root" \in DOMAIN new.ports[l].best
    BY <1>2 DEF BestRecord
  <2>3. QED
    BY <2>1, <2>2
<1>4. l \in Heard(new)
  BY <1>2, <1>3 DEF Heard
<1>5. ASSUME NEW k \in Heard(br) \ {l}
      PROVE  k \in Heard(new) /\ new.ports[k] = br.ports[k] /\ Through(new, k) = Through(br, k)
  BY <1>2 DEF Heard, Through
<1>6. Affordable(new, C)
  BY <1>1, <1>2 DEF Affordable, Heard
<1>7. QED
  BY <1>4, <1>5, <1>6 DEF new

\* A superior BPDU: the recorded vectors still support the bridge's own.
LEMMA SuperiorImproves ==
  ASSUME NEW C, NoWrap(C), NEW br, NEW b, Sane(br, b, C),
         NEW l \in DOMAIN br.ports, NEW m \in Cheap(C), m.age < MaxAge, Replaces(br.ports[l], m)
  PROVE  /\ Sane(Superior(br, l, m).bridge, b, C)
         /\ Superior(br, l, m).send \in Seq(Cheap(C))
         /\ Improves(Superior(br, l, m).bridge, br)
<1> DEFINE noted == Recorded(br, l, m)
           new == Recompute(noted)
<1>1. m \in BPDURecord /\ Typed(br, b) /\ Disciplined(br) /\ Affordable(br, C)
  BY DEF Cheap, Sane
<1>2. Affordable(noted, C) /\ l \in Heard(noted)
  BY <1>1, RecordedAffordable
<1>3. /\ Typed(noted, b) /\ Disciplined(noted)
      /\ noted.id = br.id
      /\ noted.ports[l].pathCost = br.ports[l].pathCost
      /\ noted.ports[l].best.root = m.root /\ noted.ports[l].best.cost = m.cost
  BY <1>1, RecordedIs
<1>4. Sane(new, b, C)
  <2>1. Typed(new, b)
    BY <1>3, RecomputeIs
  <2>2. Disciplined(new)
    BY <1>3, RecomputeSound DEF Typed
  <2>3. VectorHolds(new) /\ Affordable(new, C)
    BY <1>2, <1>3, RecomputeHolds
  <2>4. QED
    BY <2>1, <2>2, <2>3 DEF Sane
<1>5. Collect(new) \in Seq(Cheap(C)) /\ << >> \in Seq(Cheap(C))
  BY <1>4, CollectCheap DEF Sane
<1>6. br.root \in Nat /\ br.cost \in Nat
  BY <1>1, Constants DEF Typed
<1>7. Supported(noted, br.root, br.cost)
  <2>1. CASE br.root = br.id
    BY <1>3, <2>1 DEF Supported
  <2>2. CASE br.root # br.id
    <3> DEFINE p == br.rootPort
    <3>1. p \in Heard(br) /\ br.root = br.ports[p].best.root /\ br.cost = Through(br, p).cost
      BY <2>2 DEF Sane, VectorHolds
    <3>2. CASE p # l
      <4>1. /\ p \in Heard(noted) /\ noted.ports[p] = br.ports[p]
            /\ Through(noted, p) = Through(br, p)
        BY <1>1, <3>1, <3>2, RecordedAffordable
      <4> HIDE DEF noted, p
      <4>2. noted.ports[p].best.root = br.root /\ Through(noted, p).cost <= br.cost
        BY <1>6, <3>1, <4>1
      <4>3. QED
        BY <4>1, <4>2 DEF Supported
    <3>3. CASE p = l
      <4>1. Better(m, br.ports[l].best)
        BY <3>1, <3>3 DEF Replaces, Heard
      <4>2. /\ br.ports[l].best \in BestRecord /\ l \in Heard(br) /\ m \in BPDURecord
            /\ br.ports[l].pathCost \in Nat
        BY <1>1, <3>1, <3>3, BestType DEF Typed, PortRecord
      <4>3. CASE m.root < br.ports[l].best.root
        <5>1. noted.ports[l].best.root < br.root
          BY <1>3, <3>1, <3>3, <4>3
        <5> HIDE DEF noted
        <5>2. QED
          BY <1>2, <5>1 DEF Supported
      <4>4. CASE m.root = br.ports[l].best.root /\ m.cost <= br.ports[l].best.cost
        <5>1. /\ Through(br, l).cost = br.ports[l].best.cost + br.ports[l].pathCost
              /\ Through(noted, l).cost = m.cost + br.ports[l].pathCost
          BY <1>1, <1>2, <1>3, <4>2, PathSum
        <5>2. m.cost \in Nat /\ br.ports[l].best.cost \in Nat
          BY <4>2, Constants DEF BestRecord, BPDURecord
        <5>3. Through(noted, l).cost <= br.cost /\ noted.ports[l].best.root = br.root
          BY <1>3, <3>1, <3>3, <4>2, <4>4, <5>1, <5>2
        <5> HIDE DEF noted
        <5>4. QED
          BY <1>2, <5>3 DEF Supported
      <4>5. m.cost \in Nat /\ br.ports[l].best.cost \in Nat
        BY <4>2, Constants DEF BestRecord, BPDURecord
      <4>6. QED
        BY <4>1, <4>3, <4>4, <4>5 DEF Better
    <3>4. QED
      BY <3>2, <3>3
  <2>3. QED
    BY <2>1, <2>2
<1> HIDE DEF noted
<1>8. Improves(new, br)
  BY <1>3, <1>6, <1>7, RecomputeImproves DEF Improves
<1>9. QED
  BY <1>4, <1>5, <1>8 DEF Superior, Result, noted

\* One that is not superior changes no vector.
LEMMA InferiorKeeps ==
  ASSUME NEW C, NoWrap(C), NEW br, NEW b, Sane(br, b, C),
         NEW l \in DOMAIN br.ports, NEW m \in Cheap(C), m.age < MaxAge, ~Replaces(br.ports[l], m)
  PROVE  /\ Sane(Inferior(br, l, m).bridge, b, C)
         /\ Inferior(br, l, m).send \in Seq(Cheap(C))
         /\ Improves(Inferior(br, l, m).bridge, br)
<1> DEFINE new == Recorded(br, l, m)
<1>1. /\ m \in BPDURecord /\ Typed(br, b) /\ Disciplined(br) /\ Affordable(br, C)
      /\ VectorHolds(br)
  BY DEF Cheap, Sane
<1>2. br.root \in Nat /\ br.cost \in Nat /\ Improves(br, br)
  BY <1>1, Constants DEF Typed, Improves
<1>3. <<ConfigBPDU(br, l)>> \in Seq(Cheap(C)) /\ << >> \in Seq(Cheap(C))
  BY <1>1, ConfigCheap
<1>4. ASSUME Same(m, br.ports[l].best)
      PROVE  Sane(new, b, C) /\ Improves(new, br)
  <2>1. Affordable(new, C) /\ l \in Heard(new)
    BY <1>1, RecordedAffordable
  <2>2. /\ Typed(new, b) /\ Disciplined(new)
        /\ new.id = br.id /\ new.root = br.root /\ new.cost = br.cost
        /\ new.rootPort = br.rootPort
        /\ new.ports[l].pathCost = br.ports[l].pathCost
        /\ new.ports[l].best.root = m.root /\ new.ports[l].best.cost = m.cost
        /\ new.ports[l].best.bridge = m.bridge /\ new.ports[l].best.port = m.port
    BY <1>1, RecordedIs
  <2>3. l \in Heard(br)
    BY DEF Replaces, Heard
  <2>4. m.root = br.ports[l].best.root /\ m.cost = br.ports[l].best.cost
        /\ m.bridge = br.ports[l].best.bridge /\ m.port = br.ports[l].best.port
    <3>1. br.ports[l].best \in BestRecord
      BY <1>1, <2>3, BestType
    <3>2. /\ \A x \in {m, br.ports[l].best} :
               x.root \in Nat /\ x.cost \in Nat /\ x.bridge \in Nat /\ x.port \in Nat
      BY <1>1, <3>1, Constants DEF BestRecord, BPDURecord
    <3>3. QED
      BY <1>4, <3>2 DEF Same, Better
  <2>5. Through(new, l) = Through(br, l)
    BY <2>2, <2>4 DEF Through
  <2>6. \A k \in Heard(br) : /\ k \in Heard(new) /\ Through(new, k) = Through(br, k)
                            /\ new.ports[k].best.root = br.ports[k].best.root
    BY <1>1, <2>1, <2>2, <2>4, <2>5, RecordedAffordable
  <2> HIDE DEF new
  <2>7. VectorHolds(new)
    BY <1>1, <2>2, <2>6 DEF VectorHolds
  <2>8. Improves(new, br)
    BY <1>2, <2>2 DEF Improves
  <2>9. QED
    BY <2>1, <2>2, <2>7, <2>8 DEF Sane
<1> HIDE DEF new
<1>5. QED
  BY <1>2, <1>3, <1>4 DEF Inferior, Result, new

\* ProcessBPDU never makes the vector of a bridge worse.
LEMMA ProcessImproves ==
  ASSUME NEW C, NoWrap(C), NEW br, NEW b, Sane(br, b, C), NEW l, NEW m \in Cheap(C)
  PROVE  /\ Sane(ProcessBPDU(br, l, m).bridge, b, C)
         /\ ProcessBPDU(br, l, m).send \in Seq(Cheap(C))
         /\ Improves(ProcessBPDU(br, l, m).bridge, br)
<1>1. br.root \in Nat /\ br.cost \in Nat /\ Improves(br, br) /\ << >> \in Seq(Cheap(C))
  BY Constants DEF Sane, Typed, Improves
<1>2. CASE ~br.on \/ m.age >= MaxAge \/ l \notin DOMAIN br.ports \/ m.bridge = br.id
  BY <1>1, <1>2 DEF ProcessBPDU, Result
<1>3. CASE ~(~br.on \/ m.age >= MaxAge \/ l \notin DOMAIN br.ports \/ m.bridge = br.id)
  <2>1. l \in DOMAIN br.ports /\ m.age < MaxAge
    BY <1>3, Constants DEF BPDURecord, Cheap
  <2>2. QED
    BY <1>3, <2>1, SuperiorImproves, InferiorKeeps DEF ProcessBPDU
<1>4. QED
  BY <1>2, <1>3

\* Nor does a recomputation from what the bridge knows.
LEMMA ConvergeImproves ==
  ASSUME NEW C, NoWrap(C), NEW br, NEW b, Sane(br, b, C)
  PROVE  /\ Sane(Converge(br).bridge, b, C)
         /\ Converge(br).send \in Seq(Cheap(C))
         /\ Improves(Converge(br).bridge, br)
<1> DEFINE new == Recompute(br)
<1>1. Typed(br, b) /\ Affordable(br, C) /\ br.root \in Nat /\ br.cost \in Nat
  BY Constants DEF Sane, Typed
<1>2. Typed(new, b) /\ VectorHolds(new) /\ Affordable(new, C)
  BY <1>1, RecomputeIs, RecomputeHolds
<1>3. Disciplined(new)
  BY RecomputeSound DEF Sane, Typed
<1>4. Supported(br, br.root, br.cost)
  BY <1>1, HoldsSupported DEF Sane
<1>5. Improves(new, br)
  BY <1>1, <1>4, RecomputeImproves DEF Improves
<1>6. Collect(new) \in Seq(Cheap(C))
  BY <1>2, CollectCheap
<1> HIDE DEF new
<1>7. QED
  BY <1>2, <1>3, <1>5, <1>6 DEF Converge, Result, Sane, new

LEMMA PromoteImproves ==
  ASSUME NEW C, NEW br, NEW b, Sane(br, b, C)
  PROVE  Sane(Promote(br), b, C) /\ Improves(Promote(br), br)
<1> DEFINE new == Promote(br)
<1>1. Typed(br, b) /\ Disciplined(br) /\ br.root \in Nat /\ br.cost \in Nat
  BY Constants DEF Sane, Typed
<1>2. Typed(new, b) /\ Disciplined(new)
  BY <1>1, PromoteType, PromoteSound
<1>3. /\ DOMAIN new.ports = DOMAIN br.ports
      /\ \A l \in DOMAIN br.ports :
           \/ new.ports[l] = br.ports[l]
           \/ new.ports[l] = [br.ports[l] EXCEPT !.state = "FORWARDING", !.wait = 0]
      /\ new.on = br.on /\ new.id = br.id /\ new.prio = br.prio
      /\ new.root = br.root /\ new.cost = br.cost /\ new.rootPort = br.rootPort
  BY <1>1 DEF Promote, Typed, Shape
<1> HIDE DEF new
<1>4. \A l \in DOMAIN br.ports : /\ new.ports[l].best = br.ports[l].best
                                 /\ new.ports[l].pathCost = br.ports[l].pathCost
  BY <1>1, <1>3 DEF Typed, PortRecord
<1>5. SameBasis(new, br)
  BY <1>3, <1>4 DEF SameBasis
<1>6. Affordable(new, C)
  BY <1>5, SameBasisKeeps DEF Sane
<1>7. VectorHolds(new)
  <2>1. \A l \in Heard(br) : l \in DOMAIN br.ports /\ l \in Heard(new)
                             /\ Through(new, l) = Through(br, l)
    BY <1>5, SameBasisKeeps DEF Heard
  <2>2. QED
    BY <1>3, <1>4, <2>1 DEF Sane, VectorHolds
<1>8. Improves(new, br)
  <2>1. new.root = br.root /\ new.cost = br.cost /\ br.cost \in Nat
    BY <1>1, <1>3
  <2>2. br.cost <= br.cost
    BY <2>1
  <2>3. QED
    BY <2>1, <2>2 DEF Improves
<1>9. QED
  BY <1>2, <1>6, <1>7, <1>8 DEF Sane, new

\* StartSTP seeds the vector with the bridge itself.
LEMMA EnableSane ==
  ASSUME NEW C \in Nat, NEW br, NEW b, Sane(br, b, C),
         NEW eligible \in SUBSET LinksOf(b), NEW costs \in [Link -> Nat],
         \A l \in Link : costs[l] <= C
  PROVE  Sane(Enable(br, eligible, costs), b, C)
<1> DEFINE on == [br EXCEPT !.on = TRUE]
           seeded == [on EXCEPT !.root = on.id, !.cost = 0, !.rootPort = None]
           ports == [l \in eligible |-> IF l \in DOMAIN seeded.ports THEN seeded.ports[l]
                                                                    ELSE NewPort(costs[l])]
           new == [seeded EXCEPT !.ports = ports]
<1>1. Enable(br, eligible, costs) = new
  BY DEF Enable, SyncPorts, Seeded
<1>2. Typed(Enable(br, eligible, costs), b) /\ Disciplined(Enable(br, eligible, costs))
  BY EnableType, EnableSound DEF Sane
<1>3. DOMAIN seeded = DOMAIN br /\ seeded.ports = br.ports
      /\ seeded.root = br.id /\ seeded.cost = 0 /\ seeded.rootPort = None /\ seeded.id = br.id
  BY DEF Sane, Typed, Shape
<1> HIDE DEF seeded
<1>4. /\ DOMAIN ports = eligible
      /\ \A l \in eligible : ports[l] = IF l \in DOMAIN br.ports THEN br.ports[l]
                                                               ELSE NewPort(costs[l])
  BY <1>3
<1> HIDE DEF ports
<1>5. /\ new.ports = ports /\ new.root = br.id /\ new.cost = 0 /\ new.rootPort = None
      /\ new.id = br.id
  BY <1>3 DEF Sane, Typed, Shape
<1> HIDE DEF new
<1>6. VectorHolds(new)
  BY <1>5 DEF VectorHolds
<1>7. Affordable(new, C)
  <2> SUFFICES ASSUME NEW l \in eligible
               PROVE  /\ ports[l].pathCost <= C
                      /\ ports[l].best # NoBPDU => ports[l].best.cost <= ports[l].best.age * C
    BY <1>4, <1>5 DEF Affordable, Heard
  <2>1. CASE l \in DOMAIN br.ports
    BY <1>4, <2>1 DEF Sane, Affordable, Heard
  <2>2. CASE l \notin DOMAIN br.ports
    BY <1>4, <2>2 DEF NewPort, LinksOf
  <2>3. QED
    BY <2>1, <2>2
<1>8. QED
  BY <1>1, <1>2, <1>6, <1>7 DEF Sane

------------------------------------------------------------------------------
(* The network during a load.                                                *)

Loading == todo # << >> /\ ops = 0

LoadCalls == {"start", "converge", "beginRounds", "turn", "judge", "endRound", "promote"}

LoadCall == {c \in CallRecord : c.call \in LoadCalls}

CheapFrame(C) == {f \in FrameRecord : f.bpdu \in Cheap(C)}

LoadState(C) ==
  /\ due = {}
  /\ todo \in Seq(LoadCall)
  /\ queue \in Seq(CheapFrame(C)) /\ pend \in [Goroutine -> Seq(CheapFrame(C))]
  /\ \A l \in Link : cost[l] <= C
  /\ \A b \in Bridge : Sane(bridge[b], b, C)

LoadInv(C) == TypeInv /\ (Loading => LoadState(C))

\* What a step of a load does to the bridges.
NoneWorse == \A b \in Bridge : bridge[b].on => Improves(bridge'[b], bridge[b])

LEMMA CheapFrames ==
  ASSUME NEW C, NEW b \in Bridge, NEW bpdus \in Seq(Cheap(C))
  PROVE  Frames(b, bpdus) \in Seq(CheapFrame(C))
<1>1. bpdus \in Seq(BPDURecord)
  BY DEF Cheap
<1>2. Frames(b, bpdus) \in Seq(FrameRecord)
  BY <1>1, FramesType
<1>3. \A i \in DOMAIN bpdus : bpdus[i] \in Cheap(C)
  OBVIOUS
<1>4. /\ DOMAIN Frames(b, bpdus) = DOMAIN bpdus
      /\ \A i \in DOMAIN bpdus : Frames(b, bpdus)[i].bpdu = bpdus[i]
  BY DEF Frames
<1>5. QED
  BY <1>2, <1>3, <1>4 DEF CheapFrame

LEMMA LoadPerBridge ==
  ASSUME NEW name \in PerBridgeCalls \cap LoadCalls
  PROVE  PerBridge(name) \in Seq(LoadCall)
<1>1. PerBridge(name) \in Seq(CallRecord)
  BY PerBridgeType
<1>2. \A i \in DOMAIN PerBridge(name) : PerBridge(name)[i].call = name
  BY DEF PerBridge, Call
<1>3. QED
  BY <1>1, <1>2 DEF LoadCall

LEMMA LoadCallsType ==
  /\ LoadTopology \in Seq(LoadCall)
  /\ \A r \in Nat : Round(r) \in Seq(LoadCall)
<1>1. Call("beginRounds", 0) \in LoadCall /\ \A r \in Nat : Call("endRound", r) \in LoadCall
  BY DEF Call, CallRecord, LoadCall, LoadCalls
<1>2. PerBridge("start") \in Seq(LoadCall) /\ PerBridge("turn") \in Seq(LoadCall)
  BY LoadPerBridge DEF PerBridgeCalls, LoadCalls
<1>3. QED
  BY <1>1, <1>2 DEF ConvergeSpanningTree, LoadTopology, Round

LEMMA LoadInit ==
  ASSUME NEW C, NoWrap(C), \A c \in Costs : \A l \in Link : c[l] <= C
  PROVE  Init => LoadInv(C)
<1> SUFFICES ASSUME Init PROVE LoadState(C)
  BY TypeInit DEF LoadInv
<1>1. \A b \in Bridge : Sane(bridge[b], b, C)
  <2>1. PICK p \in Priorities : bridge = [b \in Bridge |-> NewBridge(b, p[b])]
    BY DEF Init
  <2>2. \A b \in Bridge : Typed(bridge[b], b) /\ Disciplined(bridge[b])
    BY TypeInit DEF TypeInv, BridgesTyped, PortInv
  <2>3. \A b \in Bridge : Affordable(bridge[b], C) /\ VectorHolds(bridge[b])
    BY <2>1 DEF NewBridge, Affordable, VectorHolds
  <2>4. QED
    BY <2>2, <2>3 DEF Sane
<1>2. QED
  BY <1>1, LoadCallsType DEF Init, LoadState, Goroutine

\* A step that changes one bridge, for the better.
LEMMA OneImproves ==
  ASSUME NEW C, LoadInv(C), Loading, NEW b \in Bridge, NEW br,
         Sane(br, b, C), bridge[b].on => Improves(br, bridge[b]),
         bridge' = [bridge EXCEPT ![b] = br]
  PROVE  NoneWorse /\ \A c \in Bridge : Sane(bridge'[c], c, C)
<1>1. \A c \in Bridge : Improves(bridge[c], bridge[c])
  BY Constants DEF LoadInv, TypeInv, BridgesTyped, Typed, Improves
<1>2. QED
  BY <1>1 DEF LoadInv, LoadState, TypeInv, PortInv, NoneWorse

\* A step that changes none.
LEMMA NoneChanges ==
  ASSUME NEW C, LoadInv(C), Loading, UNCHANGED bridge
  PROVE  NoneWorse /\ \A c \in Bridge : Sane(bridge'[c], c, C)
<1>1. \A c \in Bridge : Improves(bridge[c], bridge[c])
  BY Constants DEF LoadInv, TypeInv, BridgesTyped, Typed, Improves
<1>2. QED
  BY <1>1 DEF LoadInv, LoadState, NoneWorse

LEMMA LoadThen ==
  ASSUME NEW C, LoadState(C), NEW name, Calls(name), NEW inner \in Seq(LoadCall), Then(inner)
  PROVE  todo' \in Seq(LoadCall) /\ name \in LoadCalls
<1>1. Head(todo) \in LoadCall /\ Tail(todo) \in Seq(LoadCall)
  BY DEF LoadState, Calls
<1>2. QED
  BY <1>1 DEF Calls, Then, LoadCall

\* Goroutine t transmits what a critical section of bridge b returned.
LEMMA LoadExchange ==
  ASSUME NEW C, LoadInv(C), Loading, NEW t \in Goroutine, NEW b \in Bridge, NEW r,
         Exchange(t, b, r), Sane(r.bridge, b, C), r.send \in Seq(Cheap(C)),
         bridge[b].on => Improves(r.bridge, bridge[b])
  PROVE  /\ NoneWorse /\ \A c \in Bridge : Sane(bridge'[c], c, C)
         /\ pend' \in [Goroutine -> Seq(CheapFrame(C))]
<1>1. Frames(b, r.send) \in Seq(CheapFrame(C))
  BY CheapFrames
<1>2. QED
  BY <1>1, OneImproves DEF Exchange, LoadInv, LoadState

\* The foreground goroutine loads.
LEMMA LoadForeground ==
  ASSUME NEW C, NoWrap(C), LoadInv(C), Loading, Foreground
  PROVE  LoadState(C)' /\ NoneWorse
<1>1. LoadState(C) /\ TypeInv /\ << >> \in Seq(LoadCall) /\ "fg" \in Goroutine
  BY DEF LoadInv, Goroutine
<1>2. \A b \in Bridge : Sane(bridge[b], b, C)
  BY <1>1 DEF LoadState
<1>3. CASE Start
  <2>1. Arg \in Bridge
    BY <1>1, <1>3, CallType DEF TypeInv, Start, PerBridgeCalls
  <2>2. todo' \in Seq(LoadCall)
    <3>1. <<Call("converge", Arg)>> \in Seq(LoadCall)
      BY <2>1 DEF Call, LoadCall, CallRecord, PerBridgeCalls, LoadCalls
    <3>2. QED
      BY <1>1, <1>3, <3>1, LoadThen DEF Start
  <2>3. NoneWorse /\ \A c \in Bridge : Sane(bridge'[c], c, C)
    <3>1. CASE bridge[Arg].on
      BY <1>3, <3>1, NoneChanges DEF Start
    <3>2. CASE ~bridge[Arg].on
      <4>1. Sane(Enable(bridge[Arg], Eligible(Arg, up), cost), Arg, C)
        BY <1>1, <1>2, <2>1, EnableSane, EligibleType DEF NoWrap, TypeInv, Control, LoadState
      <4>2. bridge' = [bridge EXCEPT ![Arg] = Enable(bridge[Arg], Eligible(Arg, up), cost)]
        BY <1>3, <3>2 DEF Start
      <4>3. QED
        BY <2>1, <3>2, <4>1, <4>2, OneImproves
    <3>3. QED
      BY <3>1, <3>2
  <2>4. QED
    BY <1>1, <1>3, <2>2, <2>3 DEF Start, LoadState
<1>4. CASE ConvergeOne
  <2>1. Arg \in Bridge
    BY <1>1, <1>4, CallType DEF TypeInv, ConvergeOne, PerBridgeCalls
  <2>2. todo' \in Seq(LoadCall)
    BY <1>1, <1>4, LoadThen DEF ConvergeOne
  <2>3. /\ NoneWorse /\ \A c \in Bridge : Sane(bridge'[c], c, C)
        /\ pend' \in [Goroutine -> Seq(CheapFrame(C))]
    <3>1. CASE bridge[Arg].on
      <4>1. /\ Sane(Converge(bridge[Arg]).bridge, Arg, C)
            /\ Converge(bridge[Arg]).send \in Seq(Cheap(C))
            /\ Improves(Converge(bridge[Arg]).bridge, bridge[Arg])
        BY <1>2, <2>1, ConvergeImproves
      <4>2. QED
        BY <1>1, <1>4, <2>1, <3>1, <4>1, LoadExchange DEF ConvergeOne
    <3>2. CASE ~bridge[Arg].on
      BY <1>1, <1>4, <3>2, NoneChanges DEF ConvergeOne, LoadState
    <3>3. QED
      BY <3>1, <3>2
  <2>4. QED
    BY <1>1, <1>4, <2>2, <2>3 DEF ConvergeOne, LoadState
<1>5. CASE Turn
  <2>1. Arg \in Bridge
    BY <1>1, <1>5, CallType DEF TypeInv, Turn, PerBridgeCalls
  <2>2. todo' \in Seq(LoadCall)
    <3>1. <<Call("converge", Arg), Call("judge", Arg)>> \in Seq(LoadCall)
      BY <2>1 DEF Call, LoadCall, CallRecord, PerBridgeCalls, LoadCalls
    <3>2. QED
      BY <1>1, <1>5, <3>1, LoadThen DEF Turn
  <2>3. NoneWorse /\ \A c \in Bridge : Sane(bridge'[c], c, C)
    BY <1>5, NoneChanges DEF Turn
  <2>4. QED
    BY <1>1, <1>5, <2>2, <2>3 DEF Turn, LoadState
<1>6. CASE PromoteOne
  <2>1. Arg \in Bridge
    BY <1>1, <1>6, CallType DEF TypeInv, PromoteOne, PerBridgeCalls
  <2>2. todo' \in Seq(LoadCall)
    BY <1>1, <1>6, LoadThen DEF PromoteOne
  <2>3. NoneWorse /\ \A c \in Bridge : Sane(bridge'[c], c, C)
    <3>1. Sane(Promote(bridge[Arg]), Arg, C) /\ Improves(Promote(bridge[Arg]), bridge[Arg])
      BY <1>2, <2>1, PromoteImproves
    <3>2. QED
      BY <1>6, <2>1, <3>1, OneImproves DEF PromoteOne
  <2>4. QED
    BY <1>1, <1>6, <2>2, <2>3 DEF PromoteOne, LoadState
<1>7. CASE BeginRounds \/ Judge \/ EndRound
  <2>1. NoneWorse /\ \A c \in Bridge : Sane(bridge'[c], c, C)
    BY <1>7, NoneChanges DEF BeginRounds, Judge, EndRound
  <2>2. todo' \in Seq(LoadCall)
    <3>1. CASE BeginRounds
      BY <1>1, <3>1, LoadCallsType, LoadThen DEF BeginRounds
    <3>2. CASE Judge
      BY <1>1, <3>2, LoadThen DEF Judge
    <3>3. CASE EndRound
      <4>1. Arg \in Nat
        BY <1>1, <3>3, CallType DEF TypeInv, EndRound, PerBridgeCalls
      <4>2. PerBridge("promote") \in Seq(LoadCall) /\ Round(Arg + 1) \in Seq(LoadCall)
        BY <4>1, LoadCallsType, LoadPerBridge DEF PerBridgeCalls, LoadCalls
      <4>3. (IF RoundsOver(Arg) THEN PerBridge("promote") ELSE Round(Arg + 1)) \in Seq(LoadCall)
        BY <4>2
      <4>4. QED
        BY <1>1, <3>3, <4>3, LoadThen DEF EndRound
    <3>4. QED
      BY <1>7, <3>1, <3>2, <3>3
  <2>3. QED
    BY <1>1, <1>7, <2>1, <2>2 DEF BeginRounds, Judge, EndRound, LoadState
<1>8. CASE Stop \/ WaitForTimers \/ ResetOne
  <2>1. Calls("stop") \/ Calls("wait") \/ Calls("reset")
    BY <1>8 DEF Stop, WaitForTimers, ResetOne
  <2>2. Head(todo) \in LoadCall
    BY <1>1, <2>1 DEF LoadState, Calls
  <2>3. QED
    BY <2>1, <2>2 DEF Calls, LoadCall, LoadCalls
<1>9. QED
  BY <1>3, <1>4, <1>5, <1>6, <1>7, <1>8 DEF Foreground

\* The transport delivers.
LEMMA LoadDeliver ==
  ASSUME NEW C, NoWrap(C), LoadInv(C), Loading, Deliver
  PROVE  LoadState(C)' /\ NoneWorse
<1> DEFINE f == Head(queue)
           l == FrameLink(f)
           b == Peer(f.from, l)
           r == IF up[l] THEN ProcessBPDU(bridge[b], l, f.bpdu) ELSE Result(bridge[b], << >>)
           frames == Frames(b, r.send)
<1>1. LoadState(C) /\ TypeInv
  BY DEF LoadInv
<1>2. f \in CheapFrame(C) /\ Tail(queue) \in Seq(CheapFrame(C))
  <2>1. queue \in Seq(CheapFrame(C)) /\ queue # << >>
    BY <1>1 DEF Deliver, LoadState
  <2> QED
    BY <2>1, HeadTailProperties
<1>3. f.bpdu \in Cheap(C) /\ l \in Link
  BY <1>2 DEF CheapFrame, Cheap, FrameRecord, BPDURecord, FrameLink
<1>4. b \in Bridge
  BY <1>3, PeerIsBridge
<1>5. Sane(bridge[b], b, C) /\ Improves(bridge[b], bridge[b])
  <2>1. Sane(bridge[b], b, C)
    BY <1>1, <1>4 DEF LoadState
  <2> HIDE DEF b
  <2>2. QED
    BY <2>1, Constants DEF Sane, Typed, Improves
<1>6. /\ Sane(r.bridge, b, C) /\ r.send \in Seq(Cheap(C))
      /\ Improves(r.bridge, bridge[b])
  <2>1. << >> \in Seq(Cheap(C))
    OBVIOUS
  <2> HIDE DEF b, f, l
  <2>2. CASE up[l]
    BY <1>3, <1>5, <2>2, ProcessImproves
  <2>3. CASE ~up[l]
    BY <1>5, <2>1, <2>3 DEF Result
  <2>4. QED
    BY <2>2, <2>3
<1>7. budget \in Nat
  BY <1>1, TopologyAssumption DEF TypeInv, Traffic
<1>8. /\ bridge' = [bridge EXCEPT ![b] = r.bridge]
      /\ queue' = Tail(queue) \o Admitted(frames, budget)
  BY DEF Deliver
<1>9. frames \in Seq(CheapFrame(C))
  BY <1>4, <1>6, CheapFrames
<1> HIDE DEF f, l, b, r, frames
<1>10. queue' \in Seq(CheapFrame(C))
  BY <1>2, <1>7, <1>8, <1>9, AdmittedSome
<1>11. NoneWorse /\ \A c \in Bridge : Sane(bridge'[c], c, C)
  BY <1>4, <1>6, <1>8, OneImproves
<1>12. QED
  BY <1>1, <1>10, <1>11 DEF Deliver, LoadState

LEMMA LoadSend ==
  ASSUME NEW C, NoWrap(C), LoadInv(C), Loading, NEW t \in Goroutine, Send(t)
  PROVE  LoadState(C)' /\ NoneWorse
<1> DEFINE head == <<Head(pend[t])>>
           sent == Admitted(head, budget)
<1>1. LoadState(C) /\ TypeInv
  BY DEF LoadInv
<1>2. pend[t] \in Seq(CheapFrame(C)) /\ pend[t] # << >>
  BY <1>1 DEF Send, LoadState
<1>3. /\ head \in Seq(CheapFrame(C)) /\ Tail(pend[t]) \in Seq(CheapFrame(C))
      /\ << >> \in Seq(CheapFrame(C))
  BY <1>2
<1>4. budget \in Nat
  BY <1>1, TopologyAssumption DEF TypeInv, Traffic
<1>5. sent \in Seq(CheapFrame(C))
  BY <1>3, <1>4, AdmittedSome
<1>6. /\ queue' = queue \o sent
      /\ pend' = [pend EXCEPT ![t] = IF budget = 0 THEN << >> ELSE Tail(@)]
  BY DEF Send
<1> HIDE DEF head, sent
<1>7. queue' \in Seq(CheapFrame(C)) /\ pend' \in [Goroutine -> Seq(CheapFrame(C))]
  BY <1>1, <1>3, <1>5, <1>6 DEF LoadState
<1>8. NoneWorse /\ \A c \in Bridge : Sane(bridge'[c], c, C)
  BY NoneChanges DEF Send
<1>9. QED
  BY <1>1, <1>7, <1>8 DEF Send, LoadState

\* No step of a load makes a bridge worse.
LEMMA LoadStep ==
  ASSUME NEW C, NoWrap(C), LoadInv(C), Loading, [Next]_vars
  PROVE  LoadState(C)' /\ NoneWorse
<1>1. todo # << >> /\ due = {} /\ ops = 0
  BY DEF Loading, LoadInv, LoadState
<1>2. ~Tick /\ ~Rest
  BY <1>1 DEF Tick, Rest, Quiet, Idle
<1>3. \A b \in Bridge : ~TimerWork(b)
  BY <1>1 DEF TimerWork, SendHello, HelloSent, AgeOutBPDUs, AdvancePortStates, Takes
<1>4. /\ \A b \in Switchable, enabled \in BOOLEAN : ~SetSTP(b, enabled)
      /\ \A b \in Tunable, p \in NewPriorities : ~SetSTPPriority(b, p)
      /\ \A l \in Toggled : ~SetLinkState(l)
  BY <1>1 DEF SetSTP, SetSTPPriority, SetLinkState, Operate
<1>5. CASE UNCHANGED vars
  <2>1. NoneWorse /\ \A c \in Bridge : Sane(bridge'[c], c, C)
    BY <1>5, NoneChanges DEF vars
  <2>2. QED
    BY <1>5, <2>1 DEF vars, LoadInv, LoadState
<1>6. CASE Work
  BY <1>2, <1>3, <1>6, LoadForeground, LoadDeliver, LoadSend DEF Work
<1>7. QED
  BY <1>2, <1>4, <1>5, <1>6 DEF Next

\* What has been loaded is not loaded again.
LEMMA LoadedStays ==
  ASSUME TypeInv, ~Loading, [Next]_vars
  PROVE  ~Loading'
<1>1. ops \in Nat
  BY TopologyAssumption DEF TypeInv, Control
<1>2. ops' = ops \/ ops' = ops + 1
  BY DEF Next, Work, Foreground, Start, Stop, WaitForTimers, ConvergeOne, ResetOne, BeginRounds,
         Turn, Judge, EndRound, PromoteOne, Deliver, Send, Tick, TimerWork, SendHello, HelloSent,
         AgeOutBPDUs, AdvancePortStates, SetSTP, SetSTPPriority, SetLinkState, Operate, Rest, vars
<1>3. CASE ops # 0
  BY <1>1, <1>2, <1>3 DEF Loading
<1>4. CASE ops = 0 /\ todo = << >>
  <2>1. ~Foreground
    BY <1>4 DEF Foreground, Start, Stop, WaitForTimers, ConvergeOne, ResetOne, BeginRounds,
                Turn, Judge, EndRound, PromoteOne, Calls
  <2>2. todo' = todo \/ ops' = ops + 1
    BY <2>1 DEF Next, Work, Deliver, Send, Tick, TimerWork, SendHello, HelloSent, AgeOutBPDUs,
                AdvancePortStates, SetSTP, SetSTPPriority, SetLinkState, Operate, Rest, vars
  <2>3. QED
    BY <1>1, <1>4, <2>2 DEF Loading
<1>5. QED
  BY <1>3, <1>4 DEF Loading

LEMMA LoadInductive ==
  ASSUME NEW C, NoWrap(C)
  PROVE  LoadInv(C) /\ [Next]_vars => LoadInv(C)'
<1> SUFFICES ASSUME LoadInv(C), [Next]_vars
             PROVE  LoadInv(C)'
  OBVIOUS
<1>1. TypeInv'
  BY TypeInductive DEF LoadInv
<1>2. CASE Loading
  BY <1>1, <1>2, LoadStep DEF LoadInv
<1>3. CASE ~Loading
  BY <1>1, <1>3, LoadedStays DEF LoadInv
<1>4. QED
  BY <1>2, <1>3

\* While a topology is loaded, no bridge goes back to a worse root or a longer path,
\* whatever order its BPDUs arrive in ("vectors only ever
\* improve", graph.go 268): as long as C bounds the costs of links and MaxAge of them do not
\* overflow the width of a path cost.
THEOREM OnlyImproves ==
  ASSUME NEW C, NoWrap(C), \A c \in Costs : \A l \in Link : c[l] <= C
  PROVE  Spec => NeverWorse
<1>1. LoadInv(C) /\ [Next]_vars =>
        [todo # << >> /\ ops = 0 =>
           \A b \in Bridge : bridge[b].on =>
             \/ bridge'[b].root < bridge[b].root
             \/ bridge'[b].root = bridge[b].root /\ bridge'[b].cost <= bridge[b].cost]_vars
  BY LoadStep DEF Loading, NoneWorse, Improves
<1>2. QED
  BY <1>1, LoadInit, LoadInductive, PTL DEF Spec, NeverWorse

==============================================================================
