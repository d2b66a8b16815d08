------------------------------ MODULE StpBridge ------------------------------
(****************************************************************************)
(* One bridge of the spanning tree: its state as a record, and what each    *)
(* critical section of STPState computes from it.  SpanningTree connects    *)
(* the bridges of a network.                                                *)
(*                                                                          *)
(* A bridge identifier is one number, priority first, and a port identifier *)
(* is the number of the link the port is attached to (interfaces are        *)
(* created in the order of the links).  Lower is better for both.  Times    *)
(* are counted in hello intervals.  All bridges run on the same three       *)
(* timer constants, so adopting the root's timers changes nothing.  The MAC *)
(* entries that setPortRole flushes belong to the switch: VlanSwitch models *)
(* what the tree does to its table.                                         *)
(*                                                                          *)
(*   bridge: [on, prio, id, root, cost, rootPort, ports]                    *)
(*   port:   [role, state, pathCost, best, wait]                            *)
(*   best:   NoBPDU, or the recorded BPDU with idle, the time since receipt *)
(*   BPDU:   [root, cost, bridge, port, age]                                *)
(****************************************************************************)
EXTENDS Naturals, SequencesExt

CONSTANTS MaxAge,         \* STP_MAX_AGE in hello intervals
          ForwardDelay,   \* STP_FORWARD_DELAY in hello intervals
          CostSpan,       \* path costs are added modulo CostSpan (2^32)
          None            \* no root port

ASSUME TimerAssumption ==
  MaxAge \in Nat \ {0} /\ ForwardDelay \in Nat /\ CostSpan \in Nat \ {0}

Hello == 1

TreeRoles == {"ROOT", "DESIGNATED"}

\* What a port holds before it received a BPDU.
NoBPDU == [hasBPDU |-> FALSE]

------------------------------------------------------------------------------
\* stpPriorityVector.Compare: v is superior to w.
Better(v, w) ==
  \/ v.root < w.root
  \/ v.root = w.root /\ v.cost < w.cost
  \/ v.root = w.root /\ v.cost = w.cost /\ v.bridge < w.bridge
  \/ v.root = w.root /\ v.cost = w.cost /\ v.bridge = w.bridge /\ v.port < w.port

Same(v, w) == ~Better(v, w) /\ ~Better(w, v)

\* The vector the bridge sends from port l.
Own(br, l) == [root |-> br.root, cost |-> br.cost, bridge |-> br.id, port |-> l]

\* Ports that hold a BPDU (hasBPDU).
Heard(br) == {l \in DOMAIN br.ports : br.ports[l].best # NoBPDU}

\* The age of the information a bridge passes on: one hello more than that of
\* its root port's, zero at the root.
RelayAge(br) ==
  IF br.rootPort \in Heard(br) THEN br.ports[br.rootPort].best.age + Hello ELSE 0

ConfigBPDU(br, l) ==
  [root |-> br.root, cost |-> br.cost, bridge |-> br.id, port |-> l, age |-> RelayAge(br)]

\* collectDesignatedBPDUs: one BPDU per designated port, by port identifier.
Collect(br) ==
  LET talking == {l \in DOMAIN br.ports :
                    /\ br.ports[l].role = "DESIGNATED"
                    /\ br.ports[l].state # "DISABLED"
                    /\ RelayAge(br) < MaxAge}
      order == CHOOSE s \in [1 .. Cardinality(talking) -> talking] :
                 \A i, j \in DOMAIN s : i < j => s[i] < s[j]
  IN [i \in DOMAIN order |-> ConfigBPDU(br, order[i])]

------------------------------------------------------------------------------
\* setPortRole: the port with its new role.
KeepsState(port, role) ==   \* faulty variant: an open port stays open
  IF port.state \in {"FORWARDING", "LEARNING"}
  THEN [port EXCEPT !.role = role]
  ELSE [port EXCEPT !.role = role,
                    !.state = IF role \in TreeRoles THEN "LISTENING" ELSE "BLOCKING",
                    !.wait = IF role \in TreeRoles THEN ForwardDelay ELSE 0]

SetRole(port, role) ==
  CASE role \in TreeRoles /\ port.state \in {"FORWARDING", "LEARNING"} ->
         [port EXCEPT !.role = role]
    [] role \in TreeRoles /\ port.state \notin {"FORWARDING", "LEARNING"} ->
         [port EXCEPT !.role = role, !.state = "LISTENING", !.wait = ForwardDelay]
    [] OTHER ->
         [port EXCEPT !.role = role, !.state = "BLOCKING", !.wait = 0]

\* Step 1 of recomputeLocked: the best bridge identifier known.
ElectedRoot(br) ==
  LET ids == {br.id} \cup {br.ports[l].best.root : l \in Heard(br)}
  IN CHOOSE r \in ids : \A s \in ids : r <= s

\* Step 2: the path to root r through port l, and the port with the best one.
Through(br, l) ==
  LET best == br.ports[l].best
  IN [root |-> best.root, cost |-> (best.cost + br.ports[l].pathCost) % CostSpan,
      bridge |-> best.bridge, port |-> best.port]

LastPort(br, r) ==   \* faulty variant: the last port that knows the root
  LET paths == {l \in Heard(br) : br.ports[l].best.root = r}
  IN IF r = br.id THEN None ELSE CHOOSE l \in paths : \A k \in paths : k <= l

RootPort(br, r) ==
  LET paths == {l \in Heard(br) : br.ports[l].best.root = r}
  IN IF r = br.id THEN None
     ELSE CHOOSE l \in paths : \A k \in paths :
            \/ Better(Through(br, l), Through(br, k))
            \/ Same(Through(br, l), Through(br, k)) /\ l <= k

\* Step 3: the role of every port, given the root vector of the bridge.
NeverBlocks(br) ==   \* faulty variant: every port but the root port talks
  [l \in DOMAIN br.ports |-> IF l = br.rootPort THEN "ROOT" ELSE "DESIGNATED"]

Roles(br) ==
  [l \in DOMAIN br.ports |->
     CASE l = br.rootPort -> "ROOT"
       [] l # br.rootPort /\ l \notin Heard(br) -> "DESIGNATED"
       [] l # br.rootPort /\ l \in Heard(br) ->
            IF Better(Own(br, l), br.ports[l].best) THEN "DESIGNATED" ELSE "ALTERNATE"]

\* recomputeLocked.
Recompute(br) ==
  LET r == ElectedRoot(br)
      p == RootPort(br, r)
      c == IF p = None THEN 0 ELSE Through(br, p).cost
      settled == [br EXCEPT !.root = r, !.cost = c, !.rootPort = p]
      role == Roles(settled)
  IN [settled EXCEPT !.ports = [l \in DOMAIN br.ports |-> SetRole(br.ports[l], role[l])]]

\* The changes recomputeLocked returns: did any port's role or state move?
Moved(old, new) ==
  \E l \in DOMAIN old.ports :
    \/ old.ports[l].role # new.ports[l].role
    \/ old.ports[l].state # new.ports[l].state

------------------------------------------------------------------------------
(* What a critical section returns: the bridge after it, and the BPDUs to    *)
(* transmit once the lock is released.                                       *)
Result(br, send) == [bridge |-> br, send |-> send]

\* Record BPDU m on port l.
Recorded(br, l, m) ==
  [br EXCEPT !.ports[l].best =
     [root |-> m.root, cost |-> m.cost, bridge |-> m.bridge, port |-> m.port,
      age |-> m.age, idle |-> 0]]

\* A BPDU that is not superior to the recorded one: a designated port answers
\* it when the bridge knows better, an identical BPDU restarts the ageing.
Inferior(br, l, m) ==
  CASE br.ports[l].role = "DESIGNATED" /\ Better(Own(br, l), m) ->
         Result(br, <<ConfigBPDU(br, l)>>)
    [] ~(br.ports[l].role = "DESIGNATED" /\ Better(Own(br, l), m))
         /\ Same(m, br.ports[l].best) -> Result(Recorded(br, l, m), << >>)
    [] OTHER -> Result(br, << >>)

\* A superior BPDU: record it, recompute, relay if a role or state moved.
Superior(br, l, m) ==
  LET new == Recompute(Recorded(br, l, m))
  IN Result(new, IF Moved(br, new) THEN Collect(new) ELSE << >>)

\* Does BPDU m replace what the port has recorded?
Replaces(port, m) == port.best = NoBPDU \/ Better(m, port.best)

\* ProcessBPDU on port l of a bridge.
AcceptsAnyAge(br, l, m) ==   \* faulty variant: MessageAge is not compared with MaxAge
  IF ~br.on \/ l \notin DOMAIN br.ports \/ m.bridge = br.id
  THEN Result(br, << >>)
  ELSE IF Replaces(br.ports[l], m)
       THEN Superior(br, l, m)
       ELSE Inferior(br, l, m)

ProcessBPDU(br, l, m) ==
  IF ~br.on \/ m.age >= MaxAge \/ l \notin DOMAIN br.ports \/ m.bridge = br.id
  THEN Result(br, << >>)
  ELSE IF Replaces(br.ports[l], m)
       THEN Superior(br, l, m)
       ELSE Inferior(br, l, m)

\* Converge: recompute and advertise.
Converge(br) ==
  LET new == Recompute(br) IN Result(new, Collect(new))

\* ageOutBPDUs: forget what was not refreshed within MaxAge, then recompute.
NeverStale(br) == {}   \* faulty variant: nothing is aged out

Stale(br) ==
  {l \in Heard(br) : br.ports[l].best.idle + br.ports[l].best.age > MaxAge}

AgeOut(br) ==
  LET forgot == [br EXCEPT !.ports = [l \in DOMAIN br.ports |->
                   IF l \in Stale(br) THEN [br.ports[l] EXCEPT !.best = NoBPDU]
                                      ELSE br.ports[l]]]
  IN IF Stale(br) = {} THEN Result(br, << >>) ELSE Converge(forgot)

\* advancePortStates: a port whose forward delay has passed moves one state on.
Advance(port) ==
  CASE port.wait = 0 /\ port.state = "LISTENING" ->
         [port EXCEPT !.state = "LEARNING", !.wait = ForwardDelay]
    [] port.wait = 0 /\ port.state = "LEARNING" -> [port EXCEPT !.state = "FORWARDING"]
    [] OTHER -> port

AdvancePorts(br) ==
  [br EXCEPT !.ports = [l \in DOMAIN br.ports |-> Advance(br.ports[l])]]

\* promoteForwardingPorts.
PromotesDesignated(br) ==   \* faulty variant: the root port is forgotten
  [br EXCEPT !.ports = [l \in DOMAIN br.ports |->
     IF br.on /\ br.ports[l].role = "DESIGNATED"
     THEN [br.ports[l] EXCEPT !.state = "FORWARDING", !.wait = 0]
     ELSE br.ports[l]]]

Promote(br) ==
  [br EXCEPT !.ports = [l \in DOMAIN br.ports |->
     IF br.on /\ br.ports[l].role \in TreeRoles
     THEN [br.ports[l] EXCEPT !.state = "FORWARDING", !.wait = 0]
     ELSE br.ports[l]]]

------------------------------------------------------------------------------
(* Administrative changes.  `eligible' are the links whose port may take     *)
(* part: up, and not in routed mode.                                         *)
NewPort(c) ==
  [role |-> "DESIGNATED", state |-> "BLOCKING", pathCost |-> c, best |-> NoBPDU, wait |-> 0]

\* syncPorts: keep known ports, create new ones, drop the others.
SyncPorts(br, eligible, cost) ==
  [br EXCEPT !.ports = [l \in eligible |->
     IF l \in DOMAIN br.ports THEN br.ports[l] ELSE NewPort(cost[l])]]

\* A bridge that believes it is the root.
Seeded(br) == [br EXCEPT !.root = br.id, !.cost = 0, !.rootPort = None]

\* resetForTopologyChange: start over with blocked ports and no BPDUs.
Reset(br, eligible, cost) ==
  LET fresh == SyncPorts(Seeded(br), eligible, cost)
  IN IF br.on
     THEN [fresh EXCEPT !.ports = [l \in eligible |-> NewPort(fresh.ports[l].pathCost)]]
     ELSE br

\* StartSTP, up to its call of Converge.
Enable(br, eligible, cost) ==
  SyncPorts(Seeded([br EXCEPT !.on = TRUE]), eligible, cost)

\* StopSTP.
Disable(br) ==
  [br EXCEPT
     !.on = FALSE,
     !.ports = [l \in DOMAIN br.ports |->
        [br.ports[l] EXCEPT !.role = "DISABLED", !.state = "DISABLED",
                            !.best = NoBPDU, !.wait = 0]]]

\* SetPriority, up to its call of Converge; id is the new bridge identifier.
Reprioritise(br, prio, id) ==
  LET named == [br EXCEPT !.prio = prio, !.id = id]
  IN IF br.on THEN Seeded(named) ELSE named

\* stp_port_can_forward, for a port whose link is up.
CanForward(br, l) ==
  br.on /\ l \in DOMAIN br.ports => br.ports[l].state = "FORWARDING"
==============================================================================
