----------------------------- MODULE SpanningTree ----------------------------
(****************************************************************************)
(* The spanning tree of a network: the bridges of StpBridge, the BPDUs in   *)
(* the in-memory transport, the foreground goroutine that executes the      *)
(* simulator's operations (load a topology, turn STP on or off, change a    *)
(* priority, take a link up or down) and the background work of the         *)
(* bridges' timers.                                                         *)
(*                                                                          *)
(* The background goroutines run one at a time, under traceMu, so together  *)
(* they are one second goroutine.  The foreground one does not take traceMu *)
(* and interleaves with it at every critical section.  What the transport   *)
(* promises is taken from MemoryTransport: one goroutine at a time drains   *)
(* the queue, and it is in its drain loop exactly while frames are queued.  *)
(****************************************************************************)
EXTENDS StpBridge, FiniteSets, Integers

CONSTANTS Bridge,       \* the bridges, numbered in the order of node_list
          Link,         \* the links, numbered in the order of the topology
          Ends,         \* Ends[l]: the two bridges link l connects
          Costs,        \* the possible assignments of costs to links
          Wirings,      \* the possible choices of the links that are up
          Priorities,   \* the possible assignments of priorities to bridges
          NewPriorities,\* the priorities SetSTPPriority is called with
          Toggled,      \* the links that SetLinkState may be asked to change
          Switchable,   \* the bridges whose STP may be turned off and on
          Tunable,      \* the bridges whose priority may be changed
          Operable,     \* the wirings in which operations are carried out
          MaxOps,       \* bound on the operations after the load
          Ticking,      \* do the timers run?
          Overlapping,  \* may an operation begin while timer work is due?
          BPDUBudget    \* STP_BPDU_BUDGET

ASSUME TopologyAssumption ==
  /\ Bridge = 1 .. Cardinality(Bridge) /\ IsFiniteSet(Bridge)
  /\ Link \subseteq Nat /\ IsFiniteSet(Link)
  /\ \A l \in Link : Ends[l] \subseteq Bridge /\ Cardinality(Ends[l]) = 2
  /\ Costs \subseteq [Link -> 1 .. CostSpan - 1]
  /\ Wirings \subseteq [Link -> BOOLEAN] /\ Operable \subseteq [Link -> BOOLEAN]
  /\ Priorities \subseteq [Bridge -> Nat]
  /\ NewPriorities \subseteq Nat
  /\ Toggled \subseteq Link /\ Switchable \subseteq Bridge /\ Tunable \subseteq Bridge
  /\ MaxOps \in Nat /\ BPDUBudget \in Nat
  /\ None \notin Link /\ None \notin {"fg", "bg"}

VARIABLES bridge,    \* bridge[b]: the record of StpBridge
          cost,      \* cost[l]: the configured link cost
          up,        \* up[l]: Link.up
          queue,     \* MemoryTransport.queue, of BPDUs with their receivers
          drainer,   \* the goroutine draining the queue, or None
          pend,      \* pend[t]: BPDUs that goroutine t has yet to send
          budget,    \* Graph.stpBudget
          depth,     \* Graph.stpCascadeDepth
          todo,      \* calls left of the foreground operation
          mark,      \* convergenceMark taken before the current Converge
          settled,   \* ConvergeSpanningTree's "converged" of this round
          due,       \* timer work that is due or unfinished: <<job, bridge>>
          ops        \* operations started after the load

vars == <<bridge, cost, up, queue, drainer, pend, budget, depth, todo, mark,
          settled, due, ops>>

Goroutine == {"fg", "bg"}

\* Bridge identifiers: the priority first, then the address.
BridgeID(p, b) == p * (Cardinality(Bridge) + 1) + b

LinksOf(b) == {l \in Link : b \in Ends[l]}
Peer(b, l) == CHOOSE c \in Ends[l] : c # b
Eligible(b, u) == {l \in LinksOf(b) : u[l]}

\* What a node that has just been created holds, with its configured priority.
NewBridge(b, p) ==
  [on |-> FALSE, prio |-> p, id |-> BridgeID(p, b), root |-> BridgeID(p, b),
   cost |-> 0, rootPort |-> None, ports |-> << >>]

\* convergenceMark.
Mark(br) ==
  [root |-> br.root, cost |-> br.cost, rootPort |-> br.rootPort,
   roles |-> [l \in DOMAIN br.ports |-> <<br.ports[l].role, br.ports[l].state>>]]

------------------------------------------------------------------------------
(* Calls of the foreground goroutine.                                        *)
Call(name, arg) == [call |-> name, arg |-> arg]

PerBridge(name) == [i \in 1 .. Cardinality(Bridge) |-> Call(name, i)]

Rounds == Cardinality(Bridge) + 1

\* One round of ConvergeSpanningTree.
Round(r) == PerBridge("turn") \o <<Call("endRound", r)>>

ConvergeSpanningTree == <<Call("beginRounds", 0)>>

LoadTopology == PerBridge("start") \o ConvergeSpanningTree

\* A topology may have any of the links, any costs and any priorities: a link
\* that is down from the start stands for one the topology does not have.
Init ==
  /\ \E p \in Priorities : bridge = [b \in Bridge |-> NewBridge(b, p[b])]
  /\ cost \in Costs
  /\ up \in Wirings
  /\ queue = << >>
  /\ drainer = None
  /\ pend = [t \in Goroutine |-> << >>]
  /\ budget = BPDUBudget
  /\ depth = 0
  /\ todo = LoadTopology
  /\ mark = None
  /\ settled = TRUE
  /\ due = {}
  /\ ops = 0

------------------------------------------------------------------------------
(* Sending and receiving.                                                    *)

\* Goroutine t is inside an exchange of BPDUs that it started.
Exchanging(t) == pend[t] # << >> \/ drainer = t

\* beginSTPCascade counts the exchanges in progress; only the outermost one
\* replenishes the budget.
BeginSTPCascade ==
  /\ depth' = depth + 1
  /\ budget' = IF depth = 0 THEN BPDUBudget ELSE budget

\* The function it returns, called when an exchange is over: when a goroutine has
\* handed over its last BPDU and is not in the drain loop (any more).
NeverEnds == UNCHANGED depth   \* faulty variant: the deferred call is missing

EndSTPCascade ==
  depth' = depth - Cardinality({t \in Goroutine : Exchanging(t) /\ ~Exchanging(t)'})

Frames(b, bpdus) == [i \in DOMAIN bpdus |-> [from |-> b, bpdu |-> bpdus[i]]]

FrameLink(f) == f.bpdu.port

\* Of the frames of one transmit, those the budget and the links let through.
Admitted(frames, left) ==
  FlattenSeq([i \in 1 .. (IF Len(frames) <= left THEN Len(frames) ELSE left) |->
                IF up[FrameLink(frames[i])] THEN <<frames[i]>> ELSE << >>])

Spent(frames, left) == IF Len(frames) <= left THEN left - Len(frames) ELSE 0

\* A goroutine outside the drain loop sends the next of its BPDUs.  When
\* nobody drains, it first delivers that frame and all that follows from it.
Send(t) ==
  /\ pend[t] # << >>
  /\ drainer # t
  /\ LET sent == Admitted(<<Head(pend[t])>>, budget)
     IN /\ queue' = queue \o sent
        /\ drainer' = IF drainer = None /\ sent # << >> THEN t ELSE drainer
  /\ budget' = Spent(<<Head(pend[t])>>, budget)
  /\ pend' = [pend EXCEPT ![t] = IF budget = 0 THEN << >> ELSE Tail(@)]
  /\ EndSTPCascade
  /\ UNCHANGED <<bridge, cost, up, todo, mark, settled, due, ops>>

\* The drainer delivers the oldest frame; ProcessBPDU runs and its BPDUs join
\* the queue.  With the last frame handled, the drain is over.
Deliver ==
  /\ queue # << >>
  /\ LET f == Head(queue)
         b == Peer(f.from, FrameLink(f))
         r == IF up[FrameLink(f)] THEN ProcessBPDU(bridge[b], FrameLink(f), f.bpdu)
                                  ELSE Result(bridge[b], << >>)
     IN /\ bridge' = [bridge EXCEPT ![b] = r.bridge]
        /\ queue' = Tail(queue) \o Admitted(Frames(b, r.send), budget)
        /\ budget' = Spent(r.send, budget)
  /\ drainer' = IF queue' = << >> THEN None ELSE drainer
  /\ UNCHANGED <<cost, up, pend, todo, mark, settled, due, ops>>
  /\ EndSTPCascade

\* Goroutine t runs a critical section of bridge b that returned r, and is
\* about to transmit its BPDUs, if there are any.
Exchange(t, b, r) ==
  /\ bridge' = [bridge EXCEPT ![b] = r.bridge]
  /\ pend' = [pend EXCEPT ![t] = Frames(b, r.send)]
  /\ IF r.send = << >>
     THEN /\ budget' = IF depth = 0 THEN BPDUBudget ELSE budget
          /\ UNCHANGED depth
     ELSE BeginSTPCascade

Ready(t) == ~Exchanging(t)

\* No operation and no exchange is in progress.
Idle == todo = << >> /\ \A t \in Goroutine : Ready(t)

\* ... and the timers have nothing left to do either.
Quiet == Idle /\ due = {}

------------------------------------------------------------------------------
(* The foreground goroutine: one action per call it makes.                   *)

\* It is about to make call `name' ...
Calls(name) == Ready("fg") /\ todo # << >> /\ Head(todo).call = name

\* ... which consists of the calls `inner'.
Then(inner) == todo' = inner \o Tail(todo)

Arg == Head(todo).arg

Start ==
  /\ Calls("start")
  /\ \/ /\ bridge[Arg].on
        /\ Then(<< >>)
        /\ UNCHANGED bridge
     \/ /\ ~bridge[Arg].on
        /\ Then(<<Call("converge", Arg)>>)
        /\ bridge' = [bridge EXCEPT ![Arg] = Enable(@, Eligible(Arg, up), cost)]
  /\ UNCHANGED <<cost, up, queue, drainer, pend, budget, depth, mark, settled, due, ops>>

\* StopSTP: the bridge's timer goroutine starts no more work ...
Stop ==
  /\ Calls("stop")
  /\ \/ /\ bridge[Arg].on
        /\ Then(<<Call("wait", Arg)>>)
        /\ bridge' = [bridge EXCEPT ![Arg] = Disable(@)]
     \/ /\ ~bridge[Arg].on
        /\ Then(<< >>)
        /\ UNCHANGED bridge
  /\ due' = due \ ({"hello", "timer"} \X {Arg})
  /\ UNCHANGED <<cost, up, queue, drainer, pend, budget, depth, mark, settled, ops>>

\* ... and StopSTP waits until it has finished what it had begun.
WaitForTimers ==
  /\ Calls("wait")
  /\ \A j \in due : j[2] # Arg
  /\ Then(<< >>)
  /\ UNCHANGED <<bridge, cost, up, queue, drainer, pend, budget, depth, mark, settled,
                 due, ops>>

ConvergeOne ==
  /\ Calls("converge")
  /\ Then(<< >>)
  /\ IF bridge[Arg].on
     THEN Exchange("fg", Arg, Converge(bridge[Arg]))
     ELSE UNCHANGED <<bridge, pend, budget, depth>>
  /\ UNCHANGED <<cost, up, queue, drainer, mark, settled, due, ops>>

\* SetLinkState, for one node: resetForTopologyChange.
ResetOne ==
  /\ Calls("reset")
  /\ Then(<< >>)
  /\ bridge' = [bridge EXCEPT ![Arg] = Reset(@, Eligible(Arg, up), cost)]
  /\ UNCHANGED <<cost, up, queue, drainer, pend, budget, depth, mark, settled, due, ops>>

\* ConvergeSpanningTree begins.
BeginRounds ==
  /\ Calls("beginRounds")
  /\ Then(Round(1))
  /\ budget' = BPDUBudget
  /\ settled' = TRUE
  /\ UNCHANGED <<bridge, cost, up, queue, drainer, pend, depth, mark, due, ops>>

\* A bridge's turn in a round: its mark is taken, it converges, and its mark is
\* compared.
Turn ==
  /\ Calls("turn")
  /\ \/ /\ bridge[Arg].on
        /\ Then(<<Call("converge", Arg), Call("judge", Arg)>>)
        /\ mark' = Mark(bridge[Arg])
     \/ /\ ~bridge[Arg].on
        /\ Then(<< >>)
        /\ UNCHANGED mark
  /\ UNCHANGED <<bridge, cost, up, queue, drainer, pend, budget, depth, settled, due, ops>>

Judge ==
  /\ Calls("judge")
  /\ Then(<< >>)
  /\ settled' = (settled /\ mark = Mark(bridge[Arg]))
  /\ mark' = None
  /\ UNCHANGED <<bridge, cost, up, queue, drainer, pend, budget, depth, due, ops>>

\* The rounds end when nothing changed in one, or when there were enough.
RoundsOver(r) == settled \/ r = Rounds

EndRound ==
  /\ Calls("endRound")
  /\ Then(IF RoundsOver(Arg) THEN PerBridge("promote") ELSE Round(Arg + 1))
  /\ settled' = TRUE
  /\ UNCHANGED <<bridge, cost, up, queue, drainer, pend, budget, depth, mark, due, ops>>

PromoteOne ==
  /\ Calls("promote")
  /\ Then(<< >>)
  /\ bridge' = [bridge EXCEPT ![Arg] = Promote(@)]
  /\ UNCHANGED <<cost, up, queue, drainer, pend, budget, depth, mark, settled, due, ops>>

Foreground ==
  \/ Start \/ Stop \/ WaitForTimers \/ ConvergeOne \/ ResetOne
  \/ BeginRounds \/ Turn \/ Judge \/ EndRound \/ PromoteOne

------------------------------------------------------------------------------
(* The operations of the simulator, which holds its mutex throughout one.    *)
Operate(calls) ==
  /\ todo = << >>
  /\ Ready("fg")
  /\ Overlapping \/ Quiet
  /\ up \in Operable
  /\ ops < MaxOps
  /\ ops' = ops + 1
  /\ todo' = calls

SetSTP(b, enabled) ==
  /\ Operate(<<Call(IF enabled THEN "start" ELSE "stop", b)>> \o ConvergeSpanningTree)
  /\ UNCHANGED <<bridge, cost, up, queue, drainer, pend, budget, depth, mark, settled, due>>

SetSTPPriority(b, p) ==
  /\ Operate((IF bridge[b].on THEN <<Call("converge", b)>> ELSE << >>)
               \o ConvergeSpanningTree)
  /\ bridge' = [bridge EXCEPT ![b] = Reprioritise(@, p, BridgeID(p, b))]
  /\ UNCHANGED <<cost, up, queue, drainer, pend, budget, depth, mark, settled, due>>

SetLinkState(l) ==
  /\ Operate(PerBridge("reset") \o ConvergeSpanningTree)
  /\ up' = [up EXCEPT ![l] = ~@]
  /\ UNCHANGED <<bridge, cost, queue, drainer, pend, budget, depth, mark, settled, due>>

------------------------------------------------------------------------------
(* The background goroutines.                                                *)

\* Ageing is only told apart up to the age at which a BPDU is stale.
Older(best) ==
  IF best = NoBPDU THEN NoBPDU
  ELSE [best EXCEPT !.idle = IF @ <= MaxAge THEN @ + 1 ELSE @]

\* What is left of a forward delay.
Remaining(wait) == IF wait > 0 THEN wait - 1 ELSE 0

Aged(port) == [port EXCEPT !.best = Older(@), !.wait = Remaining(@)]

\* A hello interval passes.  Exchanges take no time on this scale; the timer
\* work that falls due may still be waiting when the next operation starts.
Tick ==
  /\ Ticking
  /\ Quiet
  /\ bridge' = [b \in Bridge |-> [bridge[b] EXCEPT !.ports =
       [l \in DOMAIN @ |-> Aged(@[l])]]]
  /\ due' = {"hello", "timer"} \X {b \in Bridge : bridge[b].on}
  /\ UNCHANGED <<cost, up, queue, drainer, pend, budget, depth, todo, mark, settled, ops>>

\* The background goroutine takes job `name' of bridge b.  It finishes what it
\* has begun before it takes the next job.
Begun == {j \in due : j[1] \in {"return", "advance"}}

Takes(name, b) ==
  /\ Ready("bg")
  /\ <<name, b>> \in due
  /\ Begun \subseteq {<<name, b>>}

SendHello(b) ==
  /\ Takes("hello", b)
  /\ Exchange("bg", b, Result(bridge[b], Collect(bridge[b])))
  /\ due' = (due \ {<<"hello", b>>}) \cup {<<"return", b>>}
  /\ UNCHANGED <<cost, up, queue, drainer, todo, mark, settled, ops>>

\* SendHello returns, its BPDUs being sent.
HelloSent(b) ==
  /\ Takes("return", b)
  /\ due' = due \ {<<"return", b>>}
  /\ UNCHANGED <<bridge, cost, up, queue, drainer, pend, budget, depth, todo, mark, settled, ops>>

\* ageOutBPDUs; advancePortStates follows, in a critical section of its own.
AgeOutBPDUs(b) ==
  /\ Takes("timer", b)
  /\ Exchange("bg", b, AgeOut(bridge[b]))
  /\ due' = (due \ {<<"timer", b>>}) \cup {<<"advance", b>>}
  /\ UNCHANGED <<cost, up, queue, drainer, todo, mark, settled, ops>>

AdvancePortStates(b) ==
  /\ Takes("advance", b)
  /\ bridge' = IF bridge[b].on THEN [bridge EXCEPT ![b] = AdvancePorts(@)] ELSE bridge
  /\ due' = due \ {<<"advance", b>>}
  /\ UNCHANGED <<cost, up, queue, drainer, pend, budget, depth, todo, mark, settled, ops>>

TimerWork(b) ==
  SendHello(b) \/ HelloSent(b) \/ AgeOutBPDUs(b) \/ AdvancePortStates(b)

\* Nothing is left to do.
Rest == Quiet /\ UNCHANGED vars

\* What goroutines do by themselves.
Work ==
  \/ Foreground
  \/ Deliver
  \/ \E t \in Goroutine : Send(t)
  \/ Tick
  \/ \E b \in Bridge : TimerWork(b)

Next ==
  \/ Work
  \/ \E b \in Switchable, enabled \in BOOLEAN : SetSTP(b, enabled)
  \/ \E b \in Tunable, p \in NewPriorities : SetSTPPriority(b, p)
  \/ \E l \in Toggled : SetLinkState(l)
  \/ Rest

Spec == Init /\ [][Next]_vars

\* Goroutines are scheduled and timers keep firing; nobody has to operate the
\* simulator.  Time only passes when the other work is done, so one condition
\* covers it all: weak fairness of Work, with HasWork, which says when Work is
\* enabled, spelled out (ENABLED would be costly to evaluate).
HasWork == ~Quiet \/ (Ticking /\ \E b \in Bridge : bridge[b].on)

FairSpec == Spec /\ ([]<>~HasWork \/ []<><<Work>>_vars)

------------------------------------------------------------------------------
(* Properties.                                                               *)

\* The bridges that links of S connect b to.
Reach(b, S) ==
  LET R[n \in 0 .. Cardinality(Bridge)] ==
        IF n = 0 THEN {b}
        ELSE R[n-1] \cup UNION {Ends[l] : l \in {k \in S : Ends[k] \cap R[n-1] # {}}}
  IN R[Cardinality(Bridge)]

Up == {l \in Link : up[l]}

\* Links between two bridges that run the spanning tree.
TreeLinks == {l \in Up : \A b \in Ends[l] : bridge[b].on}

\* Links over which data frames pass.
DataLinks == {l \in Up : \A b \in Ends[l] : CanForward(bridge[b], l)}

\* A set of links without a cycle: every non-empty subset has a loose end.
Acyclic(S) ==
  \A C \in SUBSET S \ {{}} : \E l \in C : \E b \in Ends[l] : \A k \in C \ {l} : b \notin Ends[k]

\* Type invariant: the bridges' records, the frames in the transport and what
\* the goroutines have in hand.
PortRecord ==
  [role : TreeRoles \cup {"ALTERNATE", "DISABLED"},
   state : {"DISABLED", "BLOCKING", "LISTENING", "LEARNING", "FORWARDING"},
   pathCost : Nat, wait : 0 .. ForwardDelay,
   best : {NoBPDU} \cup [root : Nat, cost : 0 .. CostSpan - 1, bridge : Nat, port : Link,
                       age : 0 .. MaxAge - 1, idle : 0 .. MaxAge + 1]]

FrameRecord ==
  [from : Bridge, bpdu : [root : Nat, cost : 0 .. CostSpan - 1, bridge : Nat,
                          port : Link, age : 0 .. MaxAge]]

TypeOK ==
  /\ \A b \in Bridge :
       /\ bridge[b].on \in BOOLEAN
       /\ {bridge[b].prio, bridge[b].id, bridge[b].root} \subseteq Nat
       /\ bridge[b].cost \in 0 .. CostSpan - 1
       /\ DOMAIN bridge[b].ports \subseteq LinksOf(b)
       /\ bridge[b].rootPort \in DOMAIN bridge[b].ports \cup {None}
       /\ \A l \in DOMAIN bridge[b].ports : bridge[b].ports[l] \in PortRecord
  /\ cost \in [Link -> Nat] /\ up \in [Link -> BOOLEAN]
  /\ queue \in Seq(FrameRecord) /\ pend \in [Goroutine -> Seq(FrameRecord)]
  /\ drainer \in Goroutine \cup {None} /\ (drainer = None <=> queue = << >>)
  /\ budget \in 0 .. BPDUBudget /\ depth \in Int /\ ops \in 0 .. MaxOps /\ settled \in BOOLEAN
  /\ due \subseteq {"hello", "timer", "return", "advance"} \X Bridge

\* The ports of a bridge are consistent whatever interleaves: at most one is
\* the root port, a port is on its way to forwarding only in a role of the
\* tree, and it is blocked as an alternate only because of a BPDU it holds (so
\* ageing can free it).
PortDiscipline ==
  \A b \in Bridge : \A l \in DOMAIN bridge[b].ports :
    LET port == bridge[b].ports[l] IN
    /\ port.role = "ROOT" =>
         \A k \in DOMAIN bridge[b].ports \ {l} : bridge[b].ports[k].role # "ROOT"
    /\ port.state \in {"LISTENING", "LEARNING", "FORWARDING"} => port.role \in TreeRoles
    /\ port.role = "ALTERNATE" => port.best # NoBPDU

\* The tree reaches everyone: whenever no exchange is in progress, data frames
\* can pass between all bridges that links connect.  No sequence of BPDUs, in
\* a load, after an operation or after ageing, blocks both ends of the only
\* path or leaves a port of the tree short of forwarding.  This holds of loads, of
\* timers and of operations in a triangle or on parallel links.  In a ring of four
\* it does not: after a SetSTPPriority the old root's vector may go round and
\* block both sides of a bridge until it ages out.
Connected ==
  Quiet => \A b \in Bridge : Reach(b, DataLinks) = Reach(b, Up)

\* The bridges that links connect agree on a root, the best of them.  This is
\* what ConvergeSpanningTree's comment says of the state it leaves behind.
OneRoot ==
  Quiet => \A b \in Bridge : bridge[b].on =>
    LET ids == {bridge[c].id : c \in Reach(b, TreeLinks)}
    IN bridge[b].root \in ids /\ \A i \in ids : bridge[b].root <= i

\* Data frames cannot go round in a circle of bridges that run the spanning
\* tree: a broadcast into a looped fabric terminates.
NoForwardingLoop == Quiet => Acyclic(DataLinks \cap TreeLinks)

\* Whatever a load, an operation, or timers that interleave with either leave
\* behind (no root in common, the root of a bridge that is gone, a loop), the
\* hello and ageing timers repair it, and the tree stays repaired.
Heals == <>[](OneRoot /\ NoForwardingLoop /\ Connected)

\* While a topology is loaded, no bridge ever goes back to a worse root or to
\* a longer path to the same root: "priority vectors only ever improve", on
\* which the termination of the exchange rests.
NeverWorse ==
  [][todo # << >> /\ ops = 0 =>
       \A b \in Bridge : bridge[b].on =>
         \/ bridge'[b].root < bridge[b].root
         \/ bridge'[b].root = bridge[b].root /\ bridge'[b].cost <= bridge[b].cost]_vars

\* The BPDU budget is a backstop: every exchange ends by itself before the
\* budget suppresses a transmission.
BackstopUnused == budget > 0
==============================================================================
