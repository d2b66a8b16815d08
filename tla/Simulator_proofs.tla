--------------------------- MODULE Simulator_proofs --------------------------
(****************************************************************************)
(* Proofs about the event bus, the captures, the routing tables and the     *)
(* answers to probes of Simulator, for every network, every script of       *)
(* operations and any number of events.                                     *)
(****************************************************************************)
EXTENDS Simulator, RoutingTable_proofs

(* The bus.                                                                  *)

BusType ==
  /\ sequence \in Nat
  /\ pending \in Seq(Nat)
  /\ dispatcher \subseteq Goroutine
  /\ hand \in [Goroutine -> Nat \cup {None}]

\* The flag stands for a dispatch loop, of which there is one at most; only its
\* goroutine has an event in hand, and events are left to nobody else.
OneDispatcher ==
  /\ \A g, u \in dispatcher : g = u
  /\ dispatching <=> dispatcher # {}
  /\ pending # << >> => dispatching
  /\ \A g \in Goroutine : hand[g] # None => g \in dispatcher

\* What is pending are the last numbers given out; the event in hand has the
\* number before them.
Numbered ==
  /\ Len(pending) <= sequence
  /\ \A i \in 1 .. Len(pending) : pending[i] = sequence - Len(pending) + i
  /\ \A g \in Goroutine : hand[g] # None =>
       hand[g] = sequence - Len(pending) /\ Len(pending) < sequence

BusInv == BusType /\ OneDispatcher /\ Numbered

LEMMA InitBus == Init => BusInv
  BY SimulatorAssumption DEF Init, BusInv, BusType, OneDispatcher, Numbered, Goroutine

\* To the bus, a step is an emission, a step of a dispatch loop, or nothing.
LEMMA BusSteps ==
  [Next]_vars =>
    \/ UNCHANGED busVars
    \/ \E g \in Goroutine : Emit(g) \/ TakeEvent(g) \/ HandleEvent(g) \/ EndDispatch(g)
<1> SUFFICES ASSUME [Next]_vars
             PROVE  \/ UNCHANGED busVars
                    \/ \E g \in Goroutine :
                         Emit(g) \/ TakeEvent(g) \/ HandleEvent(g) \/ EndDispatch(g)
  OBVIOUS
<1> USE DEF Goroutine
<1>1. CASE UNCHANGED vars
  BY <1>1 DEF vars, busVars
<1>2. ASSUME NEW g \in Goroutine, Step(g)
      PROVE  \/ UNCHANGED busVars
             \/ Emit(g) \/ TakeEvent(g) \/ HandleEvent(g) \/ EndDispatch(g)
  BY <1>2 DEF Step, Send, EndDrain, LoseFrame, ReceiveAsk, ReceiveAnswer, ReceiveEcho,
       ReceiveReply, ReceiveError, DropUnroutable, Forward, Expire, Originates, Handles
<1>3. ASSUME NEW n \in Node, NEW a \in Addr, Retry(n, a) \/ GiveUp(n, a)
      PROVE  Emit(n)
  BY <1>3 DEF Retry, GiveUp
<1>4. CASE Begin \/ StartProbe \/ SendProbe \/ Collect \/ Complete
  BY <1>4 DEF Begin, StartProbe, SendProbe, Collect, Complete
<1>5. CASE End \/ SetLinkState \/ Finished
  BY <1>5 DEF End, SetLinkState, Finished, vars, busVars
<1>6. QED
  BY <1>1, <1>2, <1>3, <1>4, <1>5 DEF Next

LEMMA EmitBus ==
  ASSUME BusInv, NEW g \in Goroutine, Emit(g)
  PROVE  BusInv'
<1> USE DEF BusInv, Emit
<1>1. BusType'
  BY DEF BusType
<1>2. OneDispatcher'
  BY DEF OneDispatcher
<1>3. Numbered'
  <2>1. /\ Len(pending') = Len(pending) + 1
        /\ \A i \in 1 .. Len(pending) : pending'[i] = pending[i]
        /\ pending'[Len(pending) + 1] = sequence + 1
    BY AppendProperties DEF BusType
  <2>2. Len(pending) \in Nat
    BY DEF BusType
  <2>3. QED
    BY <2>1, <2>2 DEF Numbered, BusType
<1>4. QED
  BY <1>1, <1>2, <1>3

LEMMA TakeBus ==
  ASSUME BusInv, NEW g \in Goroutine, TakeEvent(g)
  PROVE  BusInv'
<1> USE DEF BusInv, TakeEvent
<1>1. /\ Head(pending) = sequence - Len(pending) + 1
      /\ Head(pending) \in Nat
      /\ Tail(pending) \in Seq(Nat)
      /\ Len(Tail(pending)) = Len(pending) - 1
      /\ \A i \in 1 .. Len(pending) - 1 : Tail(pending)[i] = pending[i + 1]
  BY DEF BusType, Numbered
<1>2. BusType'
  BY <1>1 DEF BusType
<1>3. OneDispatcher'
  BY <1>1 DEF OneDispatcher, BusType
<1>4. Numbered'
  <2>1. \A u \in Goroutine : hand'[u] # None => u = g
    BY DEF OneDispatcher, BusType
  <2>2. QED
    BY <1>1, <2>1 DEF Numbered, BusType
<1>5. QED
  BY <1>2, <1>3, <1>4

LEMMA HandleBus ==
  ASSUME BusInv, NEW g \in Goroutine, HandleEvent(g)
  PROVE  BusInv'
  BY DEF BusInv, BusType, OneDispatcher, Numbered, HandleEvent

LEMMA EndDispatchBus ==
  ASSUME BusInv, NEW g \in Goroutine, EndDispatch(g)
  PROVE  BusInv'
<1> USE DEF BusInv, EndDispatch
<1>1. dispatcher' = {}
  BY DEF OneDispatcher
<1>2. BusType'
  BY DEF BusType
<1>3. OneDispatcher'
  BY <1>1 DEF OneDispatcher, BusType
<1>4. Numbered'
  BY DEF Numbered
<1>5. QED
  BY <1>2, <1>3, <1>4

LEMMA BusInductive == Spec => []BusInv
<1>1. BusInv /\ [Next]_vars => BusInv'
  <2> SUFFICES ASSUME BusInv, [Next]_vars
               PROVE  BusInv'
    OBVIOUS
  <2>1. CASE UNCHANGED busVars
    BY <2>1 DEF BusInv, BusType, OneDispatcher, Numbered, busVars
  <2>2. QED
    BY <2>1, BusSteps, EmitBus, TakeBus, HandleBus, EndDispatchBus
<1>2. QED
  BY <1>1, InitBus, PTL DEF Spec

------------------------------------------------------------------------------
(* The bus implements FrameDelivery.                                         *)

\* The event the sink is given.
InHand ==
  IF \E g \in Goroutine : hand[g] # None
  THEN hand[CHOOSE g \in Goroutine : hand[g] # None] ELSE None

\* Like Bus, without a bound on the events.
AnyBus == INSTANCE FrameDelivery WITH
  Frame <- Nat, backlog <- pending, closed <- FALSE, current <- InHand

LEMMA InHandIs ==
  ASSUME BusInv, NEW g \in Goroutine, hand[g] # None
  PROVE  InHand = hand[g] /\ \A u \in Goroutine : hand[u] # None => u = g
  BY DEF BusInv, OneDispatcher, InHand

LEMMA NothingInHand ==
  ASSUME \A g \in Goroutine : hand[g] = None
  PROVE  InHand = None
  BY DEF InHand

\* Each step of the bus, for what the sink sees.
LEMMA DeliverySteps ==
  ASSUME BusInv, [Next]_vars
  PROVE  \/ UNCHANGED <<pending, InHand>>
         \/ pending' = Append(pending, sequence + 1) /\ UNCHANGED InHand
         \/ /\ pending # << >> /\ InHand = None
            /\ InHand' = Head(pending) /\ pending' = Tail(pending)
         \/ InHand # None /\ InHand' = None /\ UNCHANGED pending
<1>1. CASE UNCHANGED busVars
  BY <1>1 DEF busVars, InHand
<1>2. ASSUME NEW g \in Goroutine, Emit(g)
      PROVE  pending' = Append(pending, sequence + 1) /\ UNCHANGED InHand
  BY <1>2 DEF Emit, InHand
<1>3. ASSUME NEW g \in Goroutine, TakeEvent(g)
      PROVE  /\ pending # << >> /\ InHand = None
             /\ InHand' = Head(pending) /\ pending' = Tail(pending)
  <2>1. \A u \in Goroutine : hand[u] = None
    BY <1>3 DEF TakeEvent, BusInv, OneDispatcher
  <2>2. Head(pending) \in Nat /\ Head(pending) # None
    BY <1>3, SimulatorAssumption DEF TakeEvent, BusInv, BusType
  <2>3. hand'[g] = Head(pending) /\ BusInv'
    BY <1>3, TakeBus DEF TakeEvent, BusInv, BusType
  <2>4. InHand' = Head(pending)
    BY <2>2, <2>3 DEF BusInv, OneDispatcher, InHand
  <2>5. QED
    BY <1>3, <2>1, <2>4, NothingInHand DEF TakeEvent
<1>4. ASSUME NEW g \in Goroutine, HandleEvent(g)
      PROVE  InHand # None /\ InHand' = None /\ UNCHANGED pending
  <2>1. InHand = hand[g] /\ \A u \in Goroutine : hand'[u] = None
    BY <1>4, InHandIs DEF HandleEvent, BusInv, BusType
  <2>2. QED
    BY <1>4, <2>1 DEF HandleEvent, InHand
<1>5. ASSUME NEW g \in Goroutine, EndDispatch(g)
      PROVE  UNCHANGED <<pending, InHand>>
  BY <1>5 DEF EndDispatch, InHand
<1>6. QED
  BY <1>1, <1>2, <1>3, <1>4, <1>5, BusSteps

\* The sink gets every event once, one at a time and in the order of their
\* numbers, whoever emits and whoever dispatches (EventBus.Emit).
THEOREM BusImplementsDelivery == Spec => AnyBus!Spec
<1>1. Init => AnyBus!Init
  BY DEF Init, InHand, AnyBus!Init
<1>2. BusInv /\ [Next]_vars => [AnyBus!Next]_AnyBus!vars
  <2> SUFFICES ASSUME BusInv, [Next]_vars
               PROVE  [AnyBus!Next]_AnyBus!vars
    OBVIOUS
  <2>1. sequence + 1 \in Nat
    BY DEF BusInv, BusType
  <2>2. QED
    BY <2>1, DeliverySteps
       DEF InHand, AnyBus!Next, AnyBus!vars, AnyBus!Accept, AnyBus!Take, AnyBus!Finish
<1>3. QED
  BY <1>1, <1>2, BusInductive, PTL DEF Spec, AnyBus!Spec

\* The same with the bound that the run puts on the events of a behaviour, and
\* that the run's TypeOK shows is not reached there.
THEOREM BusRefines == Spec /\ [](sequence <= MaxEvents) => BusDelivers
<1>1. Init => Bus!Init
  BY DEF Init, Bus!Init
<1>2. BusInv /\ (sequence <= MaxEvents)' /\ [Next]_vars => [Bus!Next]_Bus!vars
  <2> SUFFICES ASSUME BusInv, (sequence <= MaxEvents)', [Next]_vars
               PROVE  [Bus!Next]_Bus!vars
    OBVIOUS
  <2>1. ASSUME NEW g \in Goroutine, Emit(g)
        PROVE  sequence + 1 \in 1 .. MaxEvents
    BY <2>1, SimulatorAssumption DEF Emit, BusInv, BusType
  <2>2. ASSUME pending' = Append(pending, sequence + 1)
        PROVE  sequence + 1 \in 1 .. MaxEvents
    <3>1. pending' # pending
      BY <2>2 DEF BusInv, BusType
    <3>2. Len(pending') = Len(pending) + 1
      BY <2>2 DEF BusInv, BusType
    <3>3. ASSUME NEW g \in Goroutine, TakeEvent(g) \/ HandleEvent(g) \/ EndDispatch(g)
          PROVE  FALSE
      BY <3>2, <3>3 DEF TakeEvent, HandleEvent, EndDispatch, BusInv, BusType
    <3>4. QED
      BY <2>1, <3>1, <3>3, BusSteps DEF busVars
  <2>3. QED
    BY <2>2, DeliverySteps
       DEF InHand, Bus!Next, Bus!vars, Bus!Accept, Bus!Take, Bus!Finish
<1>3. QED
  BY <1>1, <1>2, BusInductive, PTL DEF Spec, BusDelivers, Bus!Spec

------------------------------------------------------------------------------
(* Captures.                                                                 *)

\* How many events the sink has got.
Sunk ==
  sequence - Len(pending) - IF \E g \in Goroutine : hand[g] # None THEN 1 ELSE 0

\* An operation has the fields that the argument needs.
OpShape ==
  /\ DOMAIN outbox = Goroutine
  /\ op # Idle =>
       /\ {"stage", "traced", "first", "hops", "ttl", "before"} \subseteq DOMAIN op
       /\ op.stage # "idle"
       /\ op.first \in Nat

\* Between operations the user's goroutine has nothing to do ...
UserRests ==
  op = Idle => drainer # "user" /\ "user" \notin dispatcher /\ outbox["user"] = << >>

\* ... and no other one dispatches during an operation that is undisturbed.
OthersRest == op # Idle /\ ~disturbed => dispatcher \subseteq {"user"}

\* What was captured are events that the sink got, in the order of their numbers.
Ordered ==
  /\ captured \in Seq(Nat)
  /\ \A i \in 1 .. Len(captured) : captured[i] <= Sunk
  /\ \A i, j \in 1 .. Len(captured) : i < j => captured[i] < captured[j]

\* During an undisturbed operation that is traced they are all since its first.
AllCaptured ==
  op # Idle /\ op.traced =>
    /\ capturing
    /\ ~disturbed =>
         /\ op.first <= Sunk + 1
         /\ Len(captured) = Sunk + 1 - op.first
         /\ \A i \in 1 .. Len(captured) : captured[i] = op.first + i - 1

TraceInv == OpShape /\ UserRests /\ OthersRest /\ Ordered /\ AllCaptured /\ FaithfulTrace

\* The operation goes on, or there is none.
SameOp ==
  /\ op = Idle <=> op' = Idle
  /\ op # Idle => op'.first = op.first /\ op'.traced = op.traced

\* Steps that leave the captures alone: g may emit, and a step of another
\* goroutine than the user's that does is a disturbance.
Aside(g) ==
  /\ Emit(g) \/ UNCHANGED busVars
  /\ g # "user" /\ ~UNCHANGED busVars => disturbed'
  /\ disturbed => disturbed'
  /\ SameOp
  /\ UNCHANGED <<captureVars, last>>

LEMMA UserEmits ==
  ASSUME OpShape, StartProbe \/ SendProbe \/ Collect \/ Complete
  PROVE  OpShape' /\ op # Idle /\ Aside("user")
<1>1. op # Idle
  BY DEF StartProbe, SendProbe, Collect, Complete, At, Idle
<1>2. DOMAIN outbox' = Goroutine
  BY DEF OpShape, StartProbe, SendProbe, Collect, Complete, netVars
<1> DEFINE Kept ==
      /\ DOMAIN op' = DOMAIN op
      /\ op'.first = op.first /\ op'.traced = op.traced
      /\ op'.stage # "idle"
<1>3. {"stage", "traced", "first"} \subseteq DOMAIN op
  BY <1>1 DEF OpShape
<1>4. CASE StartProbe
  <2>1. \E b, u : op' = [op EXCEPT !.stage = "send", !.before = b, !.underway = u]
    BY <1>4 DEF StartProbe, Discard
  <2>2. Kept
    BY <2>1, <1>3
  <2>3. QED
    BY <1>1, <1>2, <1>4, <2>2 DEF OpShape, Aside, SameOp, StartProbe, Idle
<1>5. CASE SendProbe
  <2>1. op' = [op EXCEPT !.stage = "collect"]
    BY <1>5 DEF SendProbe
  <2>2. Kept
    BY <2>1, <1>3
  <2>3. QED
    BY <1>1, <1>2, <1>5, <2>2 DEF OpShape, Aside, SameOp, SendProbe, Idle
<1>6. CASE Collect
  <2>1. \E hops, ttl, stage :
          /\ op' = [op EXCEPT !.hops = hops, !.ttl = ttl, !.stage = stage]
          /\ stage \in {"probe", "end", "complete"}
    BY <1>6, Zenon DEF Collect
  <2>2. Kept
    BY <2>1, <1>3
  <2>3. QED
    BY <1>1, <1>2, <1>6, <2>2 DEF OpShape, Aside, SameOp, Collect, Idle
<1>7. CASE Complete
  <2>1. op' = [op EXCEPT !.stage = "end"]
    BY <1>7 DEF Complete
  <2>2. Kept
    BY <2>1, <1>3
  <2>3. QED
    BY <1>1, <1>2, <1>7, <2>2 DEF OpShape, Aside, SameOp, Complete, Idle
<1>8. QED
  BY <1>4, <1>5, <1>6, <1>7

\* What the transport, the handlers and ARP maintenance do.
LEMMA NetworkAside ==
  ASSUME OpShape, UserRests, NEW g \in Goroutine,
         \/ Send(g) \/ EndDrain(g) \/ LoseFrame(g)
         \/ \E frames : Handles(g, frames) /\ Delivers(g)
  PROVE  Aside(g) /\ OpShape' /\ UserRests'
<1> USE SimulatorAssumption DEF Goroutine
<1>1. CASE Send(g)
  <2>1. Aside(g)
    BY <1>1 DEF Aside, SameOp, Send, userVars
  <2>2. OpShape'
    BY <1>1 DEF OpShape, Send, userVars
  <2>3. UserRests'
    BY <1>1 DEF UserRests, OpShape, Send, userVars, busVars
  <2>4. QED
    BY <2>1, <2>2, <2>3
<1>2. CASE EndDrain(g)
  BY <1>2 DEF Aside, SameOp, OpShape, UserRests, EndDrain, userVars, busVars
<1>3. CASE LoseFrame(g)
  BY <1>3 DEF Aside, SameOp, OpShape, UserRests, LoseFrame, userVars, busVars
<1>4. ASSUME NEW frames, Handles(g, frames), Delivers(g)
      PROVE  Aside(g) /\ OpShape' /\ UserRests'
  <2>1. Emit(g) /\ UNCHANGED <<op, drainer, outbox, captureVars, last>>
        /\ (disturbed' <=> (disturbed \/ g # "user"))
    BY <1>4 DEF Handles, userVars
  <2>2. Aside(g) /\ OpShape'
    BY <2>1 DEF Aside, SameOp, OpShape
  <2>3. UserRests'
    BY <2>1, <1>4 DEF UserRests, Delivers, Emit
  <2>4. QED
    BY <2>2, <2>3
<1>5. QED
  BY <1>1, <1>2, <1>3, <1>4

LEMMA MaintenanceAside ==
  ASSUME OpShape, UserRests, NEW n \in Node, NEW a \in Addr, Retry(n, a) \/ GiveUp(n, a)
  PROVE  Aside(n) /\ OpShape' /\ UserRests'
<1> USE SimulatorAssumption DEF Goroutine
<1>1. /\ Emit(n) /\ UNCHANGED <<op, drainer, captureVars, last>> /\ disturbed'
      /\ \E o : outbox' = [outbox EXCEPT ![n] = o] \/ outbox' = outbox
  BY DEF Retry, GiveUp, userVars, netVars
<1>2. Aside(n) /\ OpShape'
  BY <1>1 DEF Aside, SameOp, OpShape
<1>3. UserRests'
  BY <1>1 DEF UserRests, OpShape, Emit
<1>4. QED
  BY <1>2, <1>3

LEMMA OtherAside ==
  ASSUME OpShape, UserRests, SetLinkState \/ Finished \/ UNCHANGED vars
  PROVE  Aside("user") /\ OpShape' /\ UserRests'
<1>1. UNCHANGED <<busVars, op, drainer, outbox, captureVars, last, disturbed>>
  BY DEF SetLinkState, Finished, vars, netVars, userVars
<1>2. QED
  BY <1>1 DEF Aside, SameOp, OpShape, UserRests, busVars

------------------------------------------------------------------------------
\* What the steps aside leave true.
LEMMA SunkSame ==
  ASSUME BusInv, NEW g \in Goroutine, Emit(g) \/ UNCHANGED busVars
  PROVE  Sunk' = Sunk
<1>1. CASE Emit(g)
  <2>1. Len(pending') = Len(pending) + 1 /\ Len(pending) \in Nat
    BY <1>1 DEF Emit, BusInv, BusType
  <2>2. QED
    BY <1>1, <2>1 DEF Emit, Sunk, BusInv, BusType
<1>2. CASE UNCHANGED busVars
  BY <1>2 DEF busVars, Sunk
<1>3. QED
  BY <1>1, <1>2

LEMMA AsideStep ==
  ASSUME BusInv, TraceInv, NEW g \in Goroutine, Aside(g)
  PROVE  OthersRest' /\ Ordered' /\ AllCaptured' /\ FaithfulTrace'
<1> USE DEF TraceInv
<1>1. Sunk' = Sunk /\ UNCHANGED <<captured, capturing, last>>
  BY SunkSame DEF Aside, captureVars
<1>2. OthersRest'
  <2>1. CASE UNCHANGED busVars
    BY <2>1 DEF OthersRest, Aside, SameOp, busVars
  <2>2. CASE Emit(g) /\ ~UNCHANGED busVars
    BY <2>2 DEF OthersRest, Aside, SameOp, Emit
  <2>3. QED
    BY <2>1, <2>2 DEF Aside
<1>3. Ordered'
  BY <1>1 DEF Ordered
<1>4. AllCaptured'
  BY <1>1 DEF AllCaptured, Aside, SameOp
<1>5. FaithfulTrace'
  BY <1>1 DEF FaithfulTrace, Aside, SameOp
<1>6. QED
  BY <1>2, <1>3, <1>4, <1>5

LEMMA TakeTrace ==
  ASSUME BusInv, TraceInv, NEW g \in Goroutine, TakeEvent(g)
  PROVE  TraceInv'
<1> USE DEF TraceInv
<1>1. /\ UNCHANGED <<op, drainer, outbox, dispatcher, captured, capturing, last>>
      /\ disturbed => disturbed'
  BY DEF TakeEvent, netVars, captureVars, userVars
<1>2. Sunk' = Sunk
  <2>1. \A u \in Goroutine : hand[u] = None
    BY DEF TakeEvent, BusInv, OneDispatcher
  <2>2. hand'[g] = Head(pending) /\ Head(pending) # None
    BY SimulatorAssumption DEF TakeEvent, BusInv, BusType
  <2>3. Len(pending') = Len(pending) - 1 /\ sequence' = sequence /\ Len(pending) \in Nat
    BY DEF TakeEvent, BusInv, BusType
  <2>4. QED
    BY <2>1, <2>2, <2>3 DEF Sunk, BusInv, BusType
<1>3. OpShape' /\ UserRests' /\ OthersRest'
  BY <1>1 DEF OpShape, UserRests, OthersRest
<1>4. Ordered' /\ AllCaptured'
  BY <1>1, <1>2 DEF Ordered, AllCaptured
<1>5. FaithfulTrace'
  BY <1>1 DEF FaithfulTrace
<1>6. QED
  BY <1>3, <1>4, <1>5

\* One more number at the end of an ordered sequence, and of a run from a.
LEMMA AppendOrdered ==
  ASSUME NEW s \in Seq(Nat), NEW n \in Nat,
         \A i \in 1 .. Len(s) : s[i] <= n,
         \A i, j \in 1 .. Len(s) : i < j => s[i] < s[j]
  PROVE  LET t == Append(s, n + 1) IN
         /\ t \in Seq(Nat)
         /\ \A i \in 1 .. Len(t) : t[i] <= n + 1
         /\ \A i, j \in 1 .. Len(t) : i < j => t[i] < t[j]
<1> DEFINE t == Append(s, n + 1)
<1>1. /\ t \in Seq(Nat) /\ Len(t) = Len(s) + 1 /\ Len(s) \in Nat
      /\ \A i \in 1 .. Len(s) : t[i] = s[i] /\ s[i] \in Nat
      /\ t[Len(s) + 1] = n + 1
  BY AppendProperties, LenProperties, ElementOfSeq
<1>2. \A i \in 1 .. Len(t) : t[i] \in Nat /\ t[i] <= n + 1
  BY <1>1
<1>3. ASSUME NEW i \in 1 .. Len(t), NEW j \in 1 .. Len(t), i < j
      PROVE  t[i] < t[j]
  <2>1. i \in 1 .. Len(s)
    BY <1>1, <1>3
  <2>2. CASE j = Len(s) + 1
    BY <1>1, <2>1, <2>2
  <2>3. CASE j # Len(s) + 1
    BY <1>1, <1>3, <2>1, <2>3
  <2>4. QED
    BY <2>2, <2>3
<1>4. QED
  BY <1>1, <1>2, <1>3

LEMMA AppendRun ==
  ASSUME NEW s \in Seq(Nat), NEW n \in Nat, NEW a \in Nat,
         a <= n + 1, Len(s) = n + 1 - a,
         \A i \in 1 .. Len(s) : s[i] = a + i - 1
  PROVE  LET t == Append(s, n + 1) IN
         /\ a <= n + 2
         /\ Len(t) = n + 2 - a
         /\ \A i \in 1 .. Len(t) : t[i] = a + i - 1
<1> DEFINE t == Append(s, n + 1)
<1>1. /\ Len(t) = Len(s) + 1 /\ Len(s) \in Nat
      /\ \A i \in 1 .. Len(s) : t[i] = s[i]
      /\ t[Len(s) + 1] = n + 1
  BY AppendProperties, LenProperties
<1>2. QED
  BY <1>1

LEMMA HandleTrace ==
  ASSUME BusInv, TraceInv, NEW g \in Goroutine, HandleEvent(g)
  PROVE  TraceInv'
<1> USE DEF TraceInv
<1>1. UNCHANGED <<op, drainer, outbox, dispatcher, capturing, last, disturbed>>
  BY DEF HandleEvent, netVars, userVars
<1>2. Sunk' = Sunk + 1 /\ hand[g] = Sunk + 1 /\ Sunk \in Nat
  <2>1. /\ hand[g] # None /\ hand[g] = sequence - Len(pending)
        /\ Len(pending) \in Nat /\ sequence \in Nat /\ Len(pending) < sequence
    BY DEF HandleEvent, BusInv, BusType, Numbered
  <2>2. \A u \in Goroutine : hand'[u] = None
    BY DEF HandleEvent, BusInv, BusType, OneDispatcher
  <2>3. QED
    BY <2>1, <2>2 DEF Sunk, HandleEvent
<1>3. \/ capturing /\ captured' = Append(captured, Sunk + 1)
      \/ ~capturing /\ captured' = captured
  BY <1>2 DEF HandleEvent
<1>4. OpShape' /\ UserRests' /\ OthersRest'
  BY <1>1 DEF OpShape, UserRests, OthersRest
<1>5. ASSUME captured' = Append(captured, Sunk + 1)
      PROVE  Ordered' /\ AllCaptured'
  <2>1. Ordered'
    BY <1>2, <1>5, AppendOrdered DEF Ordered
  <2>2. ASSUME op # Idle, op.traced, ~disturbed
        PROVE  /\ op.first <= Sunk + 2
               /\ Len(captured') = Sunk + 2 - op.first
               /\ \A i \in 1 .. Len(captured') : captured'[i] = op.first + i - 1
    <3>1. op.first \in Nat
      BY <2>2 DEF OpShape
    <3>2. QED
      BY <1>2, <1>5, <2>2, <3>1, AppendRun DEF AllCaptured, Ordered
  <2>3. Sunk' + 1 = Sunk + 2
    BY <1>2
  <2>4. ASSUME op # Idle, op.traced, ~disturbed
        PROVE  /\ op.first <= Sunk' + 1
               /\ Len(captured') = Sunk' + 1 - op.first
               /\ \A i \in 1 .. Len(captured') : captured'[i] = op.first + i - 1
    <3>1. /\ op.first <= Sunk + 2
          /\ Len(captured') = Sunk + 2 - op.first
          /\ \A i \in 1 .. Len(captured') : captured'[i] = op.first + i - 1
      BY <2>2, <2>4, Zenon
    <3>2. op.first \in Nat
      BY <2>4 DEF OpShape
    <3>3. /\ op.first <= Sunk' + 1
          /\ Len(captured') = Sunk' + 1 - op.first
      BY <1>2, <3>1, <3>2
    <3>4. QED
      BY <3>1, <3>3, Zenon
  <2>5. AllCaptured'
    BY <1>1, <2>4 DEF AllCaptured
  <2>6. QED
    BY <2>1, <2>5
<1>6. ASSUME ~capturing, captured' = captured
      PROVE  Ordered' /\ AllCaptured'
  <2>1. Ordered'
    <3>1. \A i \in 1 .. Len(captured) : captured[i] \in Nat
      BY ElementOfSeq DEF Ordered
    <3>2. QED
      BY <1>2, <1>6, <3>1 DEF Ordered
  <2>2. AllCaptured'
    BY <1>1, <1>6 DEF AllCaptured
  <2>3. QED
    BY <2>1, <2>2
<1>7. FaithfulTrace'
  BY <1>1 DEF FaithfulTrace
<1>8. QED
  BY <1>3, <1>4, <1>5, <1>6, <1>7

LEMMA EndDispatchTrace ==
  ASSUME BusInv, TraceInv, NEW g \in Goroutine, EndDispatch(g)
  PROVE  TraceInv'
<1> USE DEF TraceInv
<1>1. /\ UNCHANGED <<op, drainer, outbox, captured, capturing, last, disturbed,
                     sequence, pending, hand>>
      /\ dispatcher' = dispatcher \ {g}
  BY DEF EndDispatch, netVars, captureVars, userVars
<1>2. Sunk' = Sunk
  BY <1>1 DEF Sunk
<1>3. OpShape' /\ UserRests' /\ OthersRest'
  BY <1>1 DEF OpShape, UserRests, OthersRest
<1>4. Ordered' /\ AllCaptured' /\ FaithfulTrace'
  BY <1>1, <1>2 DEF Ordered, AllCaptured, FaithfulTrace
<1>5. QED
  BY <1>3, <1>4

\* When nobody dispatches, the sink has got everything.
LEMMA AllSunk ==
  ASSUME BusInv, dispatcher = {}
  PROVE  pending = << >> /\ Sunk = sequence
<1>1. pending = << >> /\ \A u \in Goroutine : hand[u] = None
  BY DEF BusInv, OneDispatcher
<1>2. QED
  BY <1>1 DEF Sunk, BusInv, BusType

LEMMA BeginTrace ==
  ASSUME BusInv, TraceInv, Begin
  PROVE  TraceInv'
<1> USE DEF TraceInv
<1>1. /\ op = Idle /\ captured' = << >> /\ capturing' = op'.traced
      /\ DOMAIN op' = {"stage", "id", "ping", "traced", "src", "dst", "ttl", "max",
                       "before", "underway", "hops", "first", "works"}
      /\ op'.stage = "probe" /\ op'.first = sequence + 1
      /\ disturbed' <=> \E n \in Node : Busy(n)
      /\ UNCHANGED <<last, drainer, outbox>>
      /\ Emit("user") \/ UNCHANGED busVars
  BY DEF Begin, netVars
<1>2. op' # Idle
  BY <1>1 DEF Idle
<1>3. "user" \in Goroutine
  BY DEF Goroutine
<1>4. Sunk' = Sunk
  BY <1>1, <1>3, SunkSame
<1>5. ~disturbed' => dispatcher = {}
  BY <1>1, <1>3 DEF Busy, UserRests, BusInv, BusType, Goroutine
<1>6. OpShape' /\ UserRests'
  BY <1>1, <1>2 DEF OpShape, UserRests, BusInv, BusType
<1>7. OthersRest'
  BY <1>1, <1>5 DEF OthersRest, Emit, busVars
<1>8. Ordered'
  BY <1>1 DEF Ordered
<1>9. AllCaptured'
  BY <1>1, <1>4, <1>5, AllSunk DEF AllCaptured, BusInv, BusType
<1>10. FaithfulTrace'
  BY <1>2 DEF FaithfulTrace
<1>11. QED
  BY <1>6, <1>7, <1>8, <1>9, <1>10

LEMMA EndTrace ==
  ASSUME BusInv, TraceInv, End
  PROVE  TraceInv'
<1> USE DEF TraceInv
<1>1. /\ op.stage = "end" /\ op' = Idle /\ captured' = << >>
      /\ drainer # "user" /\ "user" \notin dispatcher /\ outbox["user"] = << >>
      /\ UNCHANGED <<drainer, outbox, dispatcher, busVars, disturbed>>
      /\ last' = [op |-> op, events |-> captured, disturbed |-> disturbed, end |-> sequence]
  BY DEF End, At, Busy, netVars, busVars
<1>2. op # Idle
  BY <1>1 DEF Idle
<1>3. OpShape' /\ UserRests' /\ OthersRest'
  BY <1>1 DEF OpShape, UserRests, OthersRest
<1>4. Ordered' /\ AllCaptured'
  BY <1>1 DEF Ordered, AllCaptured
<1>5. FaithfulTrace'
  <2>1. SUFFICES ASSUME op.traced
                 PROVE  /\ \A i, j \in DOMAIN captured : i < j => captured[i] < captured[j]
                        /\ ~disturbed => captured = [i \in 1 .. sequence - op.first + 1 |->
                                                      op.first + i - 1]
    BY <1>1 DEF FaithfulTrace
  <2>2. DOMAIN captured = 1 .. Len(captured)
    BY DEF Ordered
  <2>3. ASSUME ~disturbed
        PROVE  captured = [i \in 1 .. sequence - op.first + 1 |-> op.first + i - 1]
    <3>1. dispatcher = {}
      BY <1>1, <1>2, <2>3 DEF OthersRest
    <3>2. Len(captured) = sequence - op.first + 1
      BY <1>2, <2>1, <2>3, <3>1, AllSunk DEF AllCaptured, OpShape, BusInv, BusType
    <3>3. \A i \in 1 .. Len(captured) : captured[i] = op.first + i - 1
      BY <1>2, <2>1, <2>3 DEF AllCaptured
    <3>4. captured = [i \in 1 .. Len(captured) |-> captured[i]]
      BY DEF Ordered
    <3>5. QED
      BY <3>2, <3>3, <3>4
  <2>4. QED
    BY <2>2, <2>3 DEF Ordered
<1>6. QED
  BY <1>3, <1>4, <1>5

LEMMA InitTrace == Init => TraceInv
<1> SUFFICES ASSUME Init
             PROVE  TraceInv
  OBVIOUS
<1>1. OpShape /\ UserRests /\ OthersRest /\ AllCaptured
  BY SimulatorAssumption DEF Init, OpShape, UserRests, OthersRest, AllCaptured, Goroutine
<1>2. Ordered /\ FaithfulTrace
  BY DEF Init, Ordered, FaithfulTrace
<1>3. QED
  BY <1>1, <1>2 DEF TraceInv

LEMMA TraceStep ==
  ASSUME BusInv, TraceInv, [Next]_vars
  PROVE  TraceInv'
<1>1. ASSUME NEW g \in Goroutine, Aside(g), OpShape', UserRests'
      PROVE  TraceInv'
  BY <1>1, AsideStep DEF TraceInv
<1>2. "user" \in Goroutine /\ Node \subseteq Goroutine
  BY DEF Goroutine
<1>3. ASSUME NEW g \in Goroutine, Step(g)
      PROVE  TraceInv'
  <2>1. CASE TakeEvent(g) \/ HandleEvent(g) \/ EndDispatch(g)
    BY <2>1, TakeTrace, HandleTrace, EndDispatchTrace
  <2>2. CASE Send(g) \/ EndDrain(g) \/ LoseFrame(g)
    BY <1>1, <2>2, NetworkAside DEF TraceInv
  <2>3. CASE \/ ReceiveAsk(g) \/ ReceiveAnswer(g) \/ ReceiveEcho(g) \/ ReceiveReply(g)
             \/ ReceiveError(g) \/ DropUnroutable(g) \/ Forward(g) \/ Expire(g)
    <3>1. \E frames : Handles(g, frames) /\ Delivers(g)
      BY <2>3 DEF ReceiveAsk, ReceiveAnswer, ReceiveEcho, ReceiveReply, ReceiveError,
           DropUnroutable, Forward, Expire, Originates, Receives, Transit
    <3>2. QED
      BY <1>1, <3>1, NetworkAside DEF TraceInv
  <2>4. QED
    BY <1>3, <2>1, <2>2, <2>3 DEF Step
<1>4. ASSUME NEW n \in Node, NEW a \in Addr, Retry(n, a) \/ GiveUp(n, a)
      PROVE  TraceInv'
  BY <1>1, <1>2, <1>4, MaintenanceAside DEF TraceInv
<1>5. CASE StartProbe \/ SendProbe \/ Collect \/ Complete
  <2>1. OpShape' /\ op # Idle /\ Aside("user")
    BY <1>5, UserEmits DEF TraceInv
  <2>2. UserRests'
    BY <2>1 DEF UserRests, Aside, SameOp
  <2>3. QED
    BY <1>1, <1>2, <2>1, <2>2
<1>6. CASE SetLinkState \/ Finished \/ UNCHANGED vars
  BY <1>1, <1>2, <1>6, OtherAside DEF TraceInv
<1>7. QED
  BY <1>3, <1>4, <1>5, <1>6, BeginTrace, EndTrace DEF Next

\* A trace lists events in the order of their numbers, none twice, and all of
\* the operation's when ARP maintenance was not at work (beginCapture,
\* handleEvent and endCapture, over EventBus.Emit).
THEOREM TraceIsFaithful == Spec => []FaithfulTrace
<1>1. TraceInv => FaithfulTrace
  BY DEF TraceInv
<1>2. QED
  BY <1>1, InitTrace, TraceStep, BusInductive, PTL DEF Spec

------------------------------------------------------------------------------
(* The routing tables.                                                       *)

\* The tables are those that the edits made.
FibInv ==
  /\ edits \in [Node -> Seq(Edit(Width))]
  /\ fib = [n \in Node |-> Table(edits[n])]

LEMMA TablesStay == [Next]_vars => UNCHANGED <<edits, fib>>
<1> SUFFICES ASSUME [Next]_vars
             PROVE  UNCHANGED <<edits, fib>>
  OBVIOUS
<1>1. CASE UNCHANGED vars
  BY <1>1 DEF vars, ipVars
<1>2. ASSUME NEW g \in Goroutine, Step(g)
      PROVE  UNCHANGED <<edits, fib>>
  BY <1>2 DEF Step, TakeEvent, HandleEvent, EndDispatch, Send, EndDrain, LoseFrame, ReceiveAsk,
       ReceiveAnswer, ReceiveEcho, ReceiveReply, ReceiveError, DropUnroutable, Forward, Expire,
       Originates, Handles, ipVars
<1>3. ASSUME NEW n \in Node, NEW a \in Addr, Retry(n, a) \/ GiveUp(n, a)
      PROVE  UNCHANGED <<edits, fib>>
  BY <1>3 DEF Retry, GiveUp, ipVars
<1>4. CASE Begin \/ StartProbe \/ SendProbe \/ Collect \/ Complete
  BY <1>4 DEF Begin, StartProbe, SendProbe, Collect, Complete, ipVars
<1>5. CASE End \/ SetLinkState \/ Finished
  BY <1>5 DEF End, SetLinkState, Finished, vars, ipVars
<1>6. QED
  BY <1>1, <1>2, <1>3, <1>4, <1>5 DEF Next

LEMMA FibInvLookup == FibInv => LookupIsBest
<1> SUFFICES ASSUME FibInv, NEW n \in Node, NEW dst \in Address(Width)
             PROVE  IF Candidates(n, dst) = {} THEN LookupLPM(fib[n], dst) = None
                    ELSE BestAmong(Candidates(n, dst), LookupLPM(fib[n], dst))
  BY DEF LookupIsBest
<1> DEFINE all == Configured(edits[n])
           best == LookupLPM(fib[n], dst)
           routes == Candidates(n, dst)
<1>1. Width \in Nat /\ None \notin L3Route(Width)
  BY SimulatorAssumption
<1>2. edits[n] \in Seq(Edit(Width)) /\ fib[n] = Table(edits[n])
  BY DEF FibInv
<1>3. /\ IsBest(LookupLPM(Table(edits[n]), dst), all, dst)
      /\ \A r \in all :
           /\ r \in L3Route(Width)
           /\ Matches(r, dst) <=> SubSeq(dst, 1, r.mask) = SubSeq(r.dest, 1, r.mask)
  BY <1>1, <1>2, LookupFindsBest
<1>4. IsBest(best, all, dst) /\ \A r : r \in routes <=> r \in all /\ Matches(r, dst)
  BY <1>2, <1>3 DEF Candidates
<1>5. \A r \in all : r # None /\ r.mask \in Nat /\ r.ad \in Nat /\ r.metric \in Nat
  BY <1>1, <1>3 DEF L3Route
<1> HIDE DEF all, best, routes
<1>6. CASE routes = {}
  <2>1. best = None
    BY <1>4, <1>6 DEF IsBest
  <2>2. QED
    BY <1>6, <2>1 DEF best, routes
<1>7. CASE routes # {}
  <2>1. best \in routes /\ \A r \in routes : ~Preferred(r, best)
    BY <1>4, <1>7 DEF IsBest
  <2>2. BestAmong(routes, best)
    BY <1>4, <1>5, <2>1 DEF Preferred, BestAmong
  <2>3. QED
    BY <1>7, <2>2 DEF best, routes
<1>8. QED
  BY <1>6, <1>7

\* Whatever AddRouteWithParams and DeleteRouteFromSource did to a table, one
\* pass of LookupLPM finds the route with the longest prefix, then the smallest
\* administrative distance, then the smallest metric, or that there is none.
THEOREM LookupAlwaysBest == Spec => []LookupIsBest
<1>1. Init => FibInv
  BY SimulatorAssumption DEF Init, FibInv
<1>2. FibInv /\ [Next]_vars => FibInv'
  BY TablesStay DEF FibInv
<1>3. QED
  BY <1>1, <1>2, FibInvLookup, PTL DEF Spec

------------------------------------------------------------------------------
(* Answers: a packet of a probe is in one place at a time.                   *)

IsSeq(s) == \E S : s \in Seq(S)

Carries(f, p) == f.kind = "ip" /\ f.pkt.probe = p

\* Frames of which no two carry a packet of the same probe.
Tidy(s) ==
  /\ IsSeq(s)
  /\ \A i \in 1 .. Len(s) : s[i].kind = "ip" => "probe" \in DOMAIN s[i].pkt
  /\ \A i, j \in 1 .. Len(s) : \A p : Carries(s[i], p) /\ Carries(s[j], p) => i = j

\* The same for packets.
Distinct(s) ==
  /\ IsSeq(s)
  /\ \A i \in 1 .. Len(s) : "probe" \in DOMAIN s[i]
  /\ \A i, j \in 1 .. Len(s) : s[i].probe = s[j].probe => i = j

\* A frame carries p, a packet has it.
InFrames(s, p) == \E i \in 1 .. Len(s) : Carries(s[i], p)
InPackets(s, p) == \E i \in 1 .. Len(s) : s[i].probe = p

LEMMA SeqFacts ==
  ASSUME NEW s, IsSeq(s)
  PROVE  Len(s) \in Nat /\ DOMAIN s = 1 .. Len(s)
<1>1. PICK S : s \in Seq(S)
  BY DEF IsSeq
<1>2. QED
  BY <1>1, LenProperties

LEMMA SeqMono ==
  ASSUME NEW S, NEW T, S \subseteq T, NEW s \in Seq(S)
  PROVE  s \in Seq(T)
  BY SeqDef

LEMMA ConcatFacts ==
  ASSUME NEW s, NEW t, IsSeq(s), IsSeq(t)
  PROVE  /\ IsSeq(s \o t) /\ Len(s \o t) = Len(s) + Len(t)
         /\ \A i \in 1 .. Len(s) : (s \o t)[i] = s[i]
         /\ \A i \in 1 .. Len(t) : (s \o t)[Len(s) + i] = t[i]
         /\ \A k \in 1 .. Len(s \o t) :
              \/ k \in 1 .. Len(s) /\ (s \o t)[k] = s[k]
              \/ k - Len(s) \in 1 .. Len(t) /\ (s \o t)[k] = t[k - Len(s)] /\ k > Len(s)
<1>1. PICK S : s \in Seq(S)
  BY DEF IsSeq
<1>2. PICK T : t \in Seq(T)
  BY DEF IsSeq
<1>3. s \in Seq(S \cup T) /\ t \in Seq(S \cup T)
  BY <1>1, <1>2, SeqMono
<1>4. Len(s) \in Nat /\ Len(t) \in Nat
  BY <1>1, <1>2, LenProperties
<1>5. /\ s \o t \in Seq(S \cup T) /\ Len(s \o t) = Len(s) + Len(t)
      /\ \A i \in 1 .. Len(s) + Len(t) : (s \o t)[i] = IF i <= Len(s) THEN s[i] ELSE t[i - Len(s)]
  BY <1>3, ConcatProperties
<1>6. QED
  BY <1>4, <1>5 DEF IsSeq

LEMMA TailFacts ==
  ASSUME NEW s, IsSeq(s), s # << >>
  PROVE  /\ Len(s) \in Nat \ {0} /\ Head(s) = s[1]
         /\ IsSeq(Tail(s)) /\ Len(Tail(s)) = Len(s) - 1
         /\ \A i \in 1 .. Len(s) - 1 : Tail(s)[i] = s[i + 1]
<1>1. PICK S : s \in Seq(S)
  BY DEF IsSeq
<1>2. /\ Tail(s) \in Seq(S) /\ Len(Tail(s)) = Len(s) - 1 /\ Head(s) = s[1]
      /\ \A i \in 1 .. Len(s) - 1 : Tail(s)[i] = s[i + 1]
  BY <1>1, HeadTailProperties
<1>3. Len(s) \in Nat /\ Len(s) # 0
  BY <1>1, LenProperties, EmptySeq
<1>4. QED
  BY <1>2, <1>3 DEF IsSeq

\* Two sequences of frames with different probes.
LEMMA TidyConcat ==
  ASSUME NEW s, NEW t, Tidy(s), Tidy(t), \A p : ~(InFrames(s, p) /\ InFrames(t, p))
  PROVE  Tidy(s \o t) /\ \A p : InFrames(s \o t, p) <=> InFrames(s, p) \/ InFrames(t, p)
<1> DEFINE u == s \o t
<1>1. Len(s) \in Nat /\ Len(t) \in Nat
  BY SeqFacts DEF Tidy
<1>2. /\ IsSeq(u) /\ Len(u) = Len(s) + Len(t)
      /\ \A i \in 1 .. Len(s) : u[i] = s[i]
      /\ \A i \in 1 .. Len(t) : u[Len(s) + i] = t[i]
      /\ \A k \in 1 .. Len(u) :
              \/ k \in 1 .. Len(s) /\ u[k] = s[k]
              \/ k - Len(s) \in 1 .. Len(t) /\ u[k] = t[k - Len(s)] /\ k > Len(s)
  BY ConcatFacts DEF Tidy
<1> HIDE DEF u
<1>3. \A i \in 1 .. Len(u) : u[i].kind = "ip" => "probe" \in DOMAIN u[i].pkt
  BY <1>2 DEF Tidy
<1>4. ASSUME NEW i \in 1 .. Len(u), NEW j \in 1 .. Len(u), NEW p, Carries(u[i], p), Carries(u[j], p)
      PROVE  i = j
  <2>1. CASE i \in 1 .. Len(s) /\ u[i] = s[i] /\ j \in 1 .. Len(s) /\ u[j] = s[j]
    BY <1>4, <2>1 DEF Tidy
  <2>2. CASE /\ i - Len(s) \in 1 .. Len(t) /\ u[i] = t[i - Len(s)]
             /\ j - Len(s) \in 1 .. Len(t) /\ u[j] = t[j - Len(s)]
    <3>1. i - Len(s) = j - Len(s)
      BY <1>4, <2>2 DEF Tidy
    <3>2. QED
      BY <1>1, <3>1
  <2>3. CASE /\ i \in 1 .. Len(s) /\ u[i] = s[i]
             /\ j - Len(s) \in 1 .. Len(t) /\ u[j] = t[j - Len(s)]
    BY <1>4, <2>3 DEF InFrames
  <2>4. CASE /\ j \in 1 .. Len(s) /\ u[j] = s[j]
             /\ i - Len(s) \in 1 .. Len(t) /\ u[i] = t[i - Len(s)]
    BY <1>4, <2>4 DEF InFrames
  <2>5. QED
    BY <1>2, <2>1, <2>2, <2>3, <2>4
<1>5. ASSUME NEW p
      PROVE  InFrames(u, p) <=> InFrames(s, p) \/ InFrames(t, p)
  <2>1. InFrames(u, p) => InFrames(s, p) \/ InFrames(t, p)
    BY <1>2 DEF InFrames
  <2>2. ASSUME InFrames(s, p)
        PROVE  InFrames(u, p)
    <3>1. PICK i \in 1 .. Len(s) : Carries(s[i], p)
      BY <2>2 DEF InFrames
    <3>2. i \in 1 .. Len(u) /\ u[i] = s[i]
      BY <1>1, <1>2
    <3>3. QED
      BY <3>1, <3>2 DEF InFrames
  <2>3. ASSUME InFrames(t, p)
        PROVE  InFrames(u, p)
    <3>1. PICK i \in 1 .. Len(t) : Carries(t[i], p)
      BY <2>3 DEF InFrames
    <3>2. Len(s) + i \in 1 .. Len(u) /\ u[Len(s) + i] = t[i]
      BY <1>1, <1>2
    <3>3. QED
      BY <3>1, <3>2 DEF InFrames
  <2>4. QED
    BY <2>1, <2>2, <2>3
<1>6. QED
  BY <1>2, <1>3, <1>4, <1>5 DEF Tidy, u

LEMMA TidyTail ==
  ASSUME NEW s, Tidy(s), s # << >>
  PROVE  /\ Tidy(Tail(s))
         /\ \A p : InFrames(Tail(s), p) <=> InFrames(s, p) /\ ~Carries(Head(s), p)
         /\ \A p : Carries(Head(s), p) => InFrames(s, p)
         /\ Head(s).kind = "ip" => "probe" \in DOMAIN Head(s).pkt
<1> DEFINE t == Tail(s)
<1>1. /\ Len(s) \in Nat \ {0} /\ Head(s) = s[1]
      /\ IsSeq(t) /\ Len(t) = Len(s) - 1
      /\ \A i \in 1 .. Len(s) - 1 : t[i] = s[i + 1]
  BY TailFacts DEF Tidy
<1> HIDE DEF t
<1>2. \A i \in 1 .. Len(t) : i + 1 \in 1 .. Len(s) /\ t[i] = s[i + 1] /\ i + 1 # 1
  BY <1>1
<1>3. Tidy(t)
  <2>1. ASSUME NEW i \in 1 .. Len(t), NEW j \in 1 .. Len(t), NEW p, Carries(t[i], p), Carries(t[j], p)
        PROVE  i = j
    <3>1. i + 1 = j + 1
      BY <1>2, <2>1 DEF Tidy
    <3>2. QED
      BY <1>1, <3>1
  <2>2. QED
    BY <1>1, <1>2, <2>1 DEF Tidy
<1>4. ASSUME NEW p
      PROVE  InFrames(t, p) <=> InFrames(s, p) /\ ~Carries(Head(s), p)
  <2>1. ASSUME InFrames(t, p)
        PROVE  InFrames(s, p) /\ ~Carries(Head(s), p)
    <3>1. PICK i \in 1 .. Len(t) : Carries(t[i], p)
      BY <2>1 DEF InFrames
    <3>2. i + 1 \in 1 .. Len(s) /\ Carries(s[i + 1], p) /\ i + 1 # 1 /\ 1 \in 1 .. Len(s)
      BY <1>1, <1>2, <3>1
    <3>3. QED
      BY <1>1, <3>2 DEF Tidy, InFrames
  <2>2. ASSUME InFrames(s, p), ~Carries(Head(s), p)
        PROVE  InFrames(t, p)
    <3>1. PICK i \in 1 .. Len(s) : Carries(s[i], p)
      BY <2>2 DEF InFrames
    <3>2. i # 1
      BY <1>1, <2>2, <3>1
    <3>3. i - 1 \in 1 .. Len(t) /\ t[i - 1] = s[(i - 1) + 1] /\ (i - 1) + 1 = i
      BY <1>1, <3>2
    <3>4. QED
      BY <3>1, <3>3 DEF InFrames
  <2>3. QED
    BY <2>1, <2>2
<1>5. 1 \in 1 .. Len(s)
  BY <1>1
<1>6. QED
  BY <1>1, <1>3, <1>4, <1>5 DEF Tidy, InFrames, t

\* Packets that start with one of another probe, and that are put into frames.
LEMMA DistinctConcat ==
  ASSUME NEW k, "probe" \in DOMAIN k, NEW s, Distinct(s), ~InPackets(s, k.probe)
  PROVE  /\ Distinct(<<k>> \o s)
         /\ \A p : InPackets(<<k>> \o s, p) <=> p = k.probe \/ InPackets(s, p)
<1> DEFINE u == <<k>> \o s
<1>1. IsSeq(<<k>>) /\ Len(<<k>>) = 1 /\ <<k>>[1] = k
  <2>1. <<k>> \in Seq({k})
    OBVIOUS
  <2>2. QED
    BY <2>1 DEF IsSeq
<1>2. Len(s) \in Nat
  BY SeqFacts DEF Distinct
<1>3. /\ IsSeq(u) /\ Len(u) = 1 + Len(s)
      /\ \A i \in 1 .. Len(<<k>>) : u[i] = <<k>>[i]
      /\ \A i \in 1 .. Len(s) : u[Len(<<k>>) + i] = s[i]
  BY <1>1, ConcatFacts DEF Distinct
<1>4. u[1] = k /\ \A i \in 1 .. Len(s) : u[i + 1] = s[i]
  BY <1>1, <1>2, <1>3
<1>5. \A i \in 1 .. Len(u) : i = 1 \/ (i - 1 \in 1 .. Len(s) /\ u[i] = s[i - 1])
  BY <1>2, <1>3, <1>4
<1>6. 1 \in 1 .. Len(u) /\ \A i \in 1 .. Len(s) : i + 1 \in 1 .. Len(u)
  BY <1>2, <1>3
<1> HIDE DEF u
<1>7. ASSUME NEW i \in 1 .. Len(u), NEW j \in 1 .. Len(u), u[i].probe = u[j].probe
      PROVE  i = j
  <2>1. CASE i = 1 /\ j = 1
    BY <2>1
  <2>2. CASE i = 1 /\ j # 1
    BY <1>4, <1>5, <1>7, <2>2 DEF InPackets
  <2>3. CASE i # 1 /\ j = 1
    BY <1>4, <1>5, <1>7, <2>3 DEF InPackets
  <2>4. CASE i # 1 /\ j # 1
    <3>1. i - 1 = j - 1
      BY <1>5, <1>7, <2>4 DEF Distinct
    <3>2. QED
      BY <1>2, <1>3, <3>1
  <2>5. QED
    BY <2>1, <2>2, <2>3, <2>4
<1>8. \A i \in 1 .. Len(u) : "probe" \in DOMAIN u[i]
  BY <1>4, <1>5 DEF Distinct
<1>9. ASSUME NEW p
      PROVE  InPackets(u, p) <=> p = k.probe \/ InPackets(s, p)
  <2>1. InPackets(u, p) => p = k.probe \/ InPackets(s, p)
    BY <1>4, <1>5 DEF InPackets
  <2>2. p = k.probe => InPackets(u, p)
    BY <1>4, <1>6 DEF InPackets
  <2>3. ASSUME InPackets(s, p)
        PROVE  InPackets(u, p)
    <3>1. PICK i \in 1 .. Len(s) : s[i].probe = p
      BY <2>3 DEF InPackets
    <3>2. i + 1 \in 1 .. Len(u) /\ u[i + 1] = s[i]
      BY <1>4, <1>6
    <3>3. QED
      BY <3>1, <3>2 DEF InPackets
  <2>4. QED
    BY <2>1, <2>2, <2>3
<1>10. QED
  BY <1>3, <1>7, <1>8, <1>9 DEF Distinct, u

LEMMA TidyFrames ==
  ASSUME NEW s, Distinct(s), NEW a
  PROVE  /\ Tidy([i \in DOMAIN s |-> FrameOf("ip", a, s[i])])
         /\ \A p : InFrames([i \in DOMAIN s |-> FrameOf("ip", a, s[i])], p) <=> InPackets(s, p)
<1> DEFINE u == [i \in DOMAIN s |-> FrameOf("ip", a, s[i])]
<1>1. Len(s) \in Nat /\ DOMAIN s = 1 .. Len(s)
  BY SeqFacts DEF Distinct
<1>2. u \in Seq({FrameOf("ip", a, s[i]) : i \in 1 .. Len(s)}) /\ Len(u) = Len(s)
  BY <1>1
<1>3. \A i \in 1 .. Len(s) : u[i].kind = "ip" /\ u[i].pkt = s[i]
  BY <1>1 DEF FrameOf
<1>4. IsSeq(u)
  BY <1>2 DEF IsSeq
<1> HIDE DEF u
<1>5. \A i \in 1 .. Len(s) : \A p : Carries(u[i], p) <=> s[i].probe = p
  BY <1>3 DEF Carries
<1>6. Tidy(u)
  <2>1. \A i \in 1 .. Len(u) : u[i].kind = "ip" => "probe" \in DOMAIN u[i].pkt
    BY <1>2, <1>3 DEF Distinct
  <2>2. ASSUME NEW i \in 1 .. Len(u), NEW j \in 1 .. Len(u), NEW p,
               Carries(u[i], p), Carries(u[j], p)
        PROVE  i = j
    <3>1. i \in 1 .. Len(s) /\ j \in 1 .. Len(s)
      BY <1>2
    <3>2. s[i].probe = p /\ s[j].probe = p
      BY <1>5, <2>2, <3>1
    <3>3. QED
      BY <3>1, <3>2 DEF Distinct
  <2>3. QED
    BY <1>4, <2>1, <2>2 DEF Tidy
<1>7. \A p : InFrames(u, p) <=> InPackets(s, p)
  BY <1>2, <1>5 DEF InFrames, InPackets
<1>8. QED
  BY <1>6, <1>7 DEF u

LEMMA TidySingle ==
  ASSUME NEW f, f.kind = "ip" => "probe" \in DOMAIN f.pkt
  PROVE  Tidy(<<f>>) /\ \A p : InFrames(<<f>>, p) <=> Carries(f, p)
<1>1. <<f>> \in Seq({f}) /\ Len(<<f>>) = 1 /\ <<f>>[1] = f
  OBVIOUS
<1>2. \A i \in 1 .. Len(<<f>>) : i = 1
  BY <1>1
<1>3. 1 \in 1 .. Len(<<f>>)
  BY <1>1
<1>4. QED
  BY <1>1, <1>2, <1>3 DEF Tidy, IsSeq, InFrames

LEMMA TidyOne ==
  ASSUME NEW kind, NEW to, NEW k, kind = "ip" => "probe" \in DOMAIN k
  PROVE  /\ Tidy(<<FrameOf(kind, to, k)>>)
         /\ \A p : InFrames(<<FrameOf(kind, to, k)>>, p) <=> kind = "ip" /\ p = k.probe
<1> DEFINE f == FrameOf(kind, to, k)
<1>1. f.kind = kind /\ f.pkt = k
  BY DEF FrameOf
<1> HIDE DEF f
<1>2. Tidy(<<f>>) /\ \A p : InFrames(<<f>>, p) <=> Carries(f, p)
  BY <1>1, TidySingle
<1>3. QED
  BY <1>1, <1>2 DEF Carries, f

LEMMA TidyNone == Tidy(<< >>) /\ \A p : ~InFrames(<< >>, p)
<1>1. << >> \in Seq({}) /\ Len(<< >>) = 0
  OBVIOUS
<1>2. QED
  BY <1>1 DEF Tidy, IsSeq, InFrames

\* Down with a packet: it leaves, or it waits, or is not needed.
InWait(w, e, p) == e \in DOMAIN w /\ InPackets(w[e].packets, p)

WaitOK(w) ==
  \A e \in DOMAIN w : DOMAIN w[e] = {"packets", "requests"} /\ Distinct(w[e].packets)

Leaves(frames, w, p) == (\A q : InFrames(frames, q) => q = p) /\ w = waiting

Parks(frames, w, p) ==
  /\ \A q : ~InFrames(frames, q)
  /\ \E x : \A e, q : InWait(w, e, q) => InWait(waiting, e, q) \/ (e = x /\ q = p)

LEMMA DownPlaces ==
  ASSUME NEW n, NEW a, NEW k, "probe" \in DOMAIN k, WaitOK(waiting),
         \A e : ~InWait(waiting, e, k.probe)
  PROVE  /\ Tidy(Down(n, a, k)) /\ WaitOK(Waiting(n, a, k))
         /\ \/ Leaves(Down(n, a, k), Waiting(n, a, k), k.probe)
            \/ Parks(Down(n, a, k), Waiting(n, a, k), k.probe)
<1> DEFINE x == <<n, a>>
           d == Down(n, a, k)
           w == Waiting(n, a, k)
<1>1. CASE x \in known
  <2>1. d = <<FrameOf("ip", a, k)>> /\ w = waiting
    BY <1>1 DEF Down, Waiting
  <2>2. QED
    BY <2>1, TidyOne DEF Leaves
<1>2. CASE x \notin known
  <2>1. Tidy(d) /\ \A q : ~InFrames(d, q)
    <3>1. d = << >> \/ d = <<FrameOf("ask", a, None)>>
      BY <1>2 DEF Down
    <3>2. QED
      BY <3>1, TidyNone, TidyOne
  <2>2. CASE x \in DOMAIN waiting
    <3>1. w = [waiting EXCEPT ![x].packets = <<k>> \o @]
      BY <1>2, <2>2 DEF Waiting
    <3>2. /\ DOMAIN w = DOMAIN waiting
          /\ \A e \in DOMAIN waiting : e # x => w[e] = waiting[e]
          /\ DOMAIN w[x] = DOMAIN waiting[x]
          /\ "packets" \in DOMAIN waiting[x] => w[x].packets = <<k>> \o waiting[x].packets
      BY <2>2, <3>1
    <3>3. DOMAIN waiting[x] = {"packets", "requests"} /\ Distinct(waiting[x].packets)
      BY <2>2 DEF WaitOK
    <3>4. ~InPackets(waiting[x].packets, k.probe)
      BY <2>2 DEF InWait
    <3>5. /\ Distinct(<<k>> \o waiting[x].packets)
          /\ \A p : InPackets(<<k>> \o waiting[x].packets, p)
                   <=> p = k.probe \/ InPackets(waiting[x].packets, p)
      BY <3>3, <3>4, DistinctConcat
    <3>6. w[x].packets = <<k>> \o waiting[x].packets
      BY <3>2, <3>3
    <3> HIDE DEF x, w, d
    <3>7. WaitOK(w)
      BY <3>2, <3>3, <3>5, <3>6 DEF WaitOK
    <3>8. \A e, q : InWait(w, e, q) => InWait(waiting, e, q) \/ (e = x /\ q = k.probe)
      BY <3>2, <3>5, <3>6 DEF InWait
    <3>9. Parks(d, w, k.probe)
      BY <2>1, <3>8 DEF Parks
    <3>10. QED
      BY <2>1, <3>7, <3>9 DEF w, d
  <2>3. CASE x \notin DOMAIN waiting
    <3>1. w = [e \in DOMAIN waiting \cup {x} |->
                IF e = x THEN [packets |-> <<k>>, requests |-> 1] ELSE waiting[e]]
      BY <1>2, <2>3 DEF Waiting
    <3>2. /\ DOMAIN w = DOMAIN waiting \cup {x}
          /\ \A e \in DOMAIN waiting : w[e] = waiting[e]
          /\ DOMAIN w[x] = {"packets", "requests"} /\ w[x].packets = <<k>>
      BY <2>3, <3>1
    <3>3. Distinct(<<k>>) /\ \A p : InPackets(<<k>>, p) => p = k.probe
      <4>1. <<k>> \in Seq({k}) /\ Len(<<k>>) = 1 /\ <<k>>[1] = k
        OBVIOUS
      <4>2. IsSeq(<<k>>)
        BY <4>1 DEF IsSeq
      <4>3. \A i \in 1 .. Len(<<k>>) : i = 1 /\ <<k>>[i] = k
        BY <4>1
      <4>4. Distinct(<<k>>)
        BY <4>2, <4>3 DEF Distinct
      <4>5. ASSUME NEW p, InPackets(<<k>>, p)
            PROVE  p = k.probe
        <5>1. PICK i \in 1 .. Len(<<k>>) : <<k>>[i].probe = p
          BY <4>5 DEF InPackets
        <5>2. QED
          BY <4>3, <5>1
      <4>6. QED
        BY <4>4, <4>5
    <3> HIDE DEF x, w, d
    <3>4. WaitOK(w)
      BY <3>2, <3>3 DEF WaitOK
    <3>5. \A e, q : InWait(w, e, q) => InWait(waiting, e, q) \/ (e = x /\ q = k.probe)
      BY <3>2, <3>3 DEF InWait
    <3>6. Parks(d, w, k.probe)
      BY <2>1, <3>5 DEF Parks
    <3>7. QED
      BY <2>1, <3>4, <3>6 DEF w, d
  <2>4. QED
    BY <2>2, <2>3
<1>3. QED
  BY <1>1, <1>2

LEMMA RoutedPlaces ==
  ASSUME NEW n, NEW k, "probe" \in DOMAIN k, WaitOK(waiting),
         \A e : ~InWait(waiting, e, k.probe)
  PROVE  /\ Tidy(Routed(n, k)) /\ WaitOK(RoutedWaiting(n, k))
         /\ \/ Leaves(Routed(n, k), RoutedWaiting(n, k), k.probe)
            \/ Parks(Routed(n, k), RoutedWaiting(n, k), k.probe)
<1>1. CASE NextHop(n, k.dst) = None
  BY <1>1, TidyNone DEF Routed, RoutedWaiting, Leaves
<1>2. CASE NextHop(n, k.dst) # None
  BY <1>2, DownPlaces DEF Routed, RoutedWaiting
<1>3. QED
  BY <1>1, <1>2

------------------------------------------------------------------------------
Answered(p) == \E i \in 1 .. Len(answers) : answers[i] = p

\* A packet of a probe is in one place only; answers are a place too.
Separate(p) ==
  /\ \A e, f : InWait(waiting, e, p) /\ InWait(waiting, f, p) => e = f
  /\ \A e : InWait(waiting, e, p) =>
       ~InFrames(queue, p) /\ ~InFrames(outbox["user"], p) /\ ~Answered(p)
  /\ InFrames(queue, p) => ~InFrames(outbox["user"], p) /\ ~Answered(p)
  /\ InFrames(outbox["user"], p) => ~Answered(p)

\* Maintenance sends requests only.
OutboxOK ==
  /\ DOMAIN outbox = Goroutine
  /\ \A g \in Goroutine : Tidy(outbox[g])
  /\ \A n \in Node : \A p : ~InFrames(outbox[n], p)

ProbeInv ==
  /\ Tidy(queue) /\ WaitOK(waiting) /\ OutboxOK
  /\ IsSeq(answers) /\ OneAnswer
  /\ \A p : Separate(p)

Used(p) ==
  \/ InFrames(queue, p)
  \/ InFrames(outbox["user"], p)
  \/ \E e : InWait(waiting, e, p)
  \/ Answered(p)

\* A step after which the packets are of probes that were there before.
Flow == ProbeInv' /\ \A p : Used(p)' => Used(p)

\* The frame that is handled, and those that the handler sends.
LEMMA HandledFrame ==
  ASSUME ProbeInv, queue # << >>
  PROVE  /\ Tidy(Tail(queue))
         /\ \A p : InFrames(Tail(queue), p) <=> InFrames(queue, p) /\ ~Carries(First, p)
         /\ First.kind = "ip" =>
              /\ "probe" \in DOMAIN First.pkt
              /\ Carries(First, First.pkt.probe) /\ InFrames(queue, First.pkt.probe)
BY TidyTail DEF ProbeInv, First, Carries

LEMMA SentOn ==
  ASSUME ProbeInv, queue # << >>, NEW frames, Tidy(frames),
         \A p : InFrames(frames, p) => ~InFrames(Tail(queue), p),
         queue' = Tail(queue) \o Sendable(frames)
  PROVE  /\ Tidy(queue')
         /\ \A p : InFrames(queue', p) => InFrames(Tail(queue), p) \/ InFrames(frames, p)
<1>1. Tidy(Tail(queue))
  BY HandledFrame
<1>2. Tidy(Sendable(frames)) /\ \A p : InFrames(Sendable(frames), p) => InFrames(frames, p)
  <2>1. Sendable(frames) = frames \/ Sendable(frames) = << >>
    BY DEF Sendable
  <2>2. QED
    BY <2>1, TidyNone
<1> DEFINE t == Tail(queue)
           u == Sendable(frames)
<1> HIDE DEF t, u
<1>3. Tidy(t \o u) /\ \A p : InFrames(t \o u, p) <=> InFrames(t, p) \/ InFrames(u, p)
  <2>1. Tidy(t) /\ Tidy(u) /\ \A p : ~(InFrames(t, p) /\ InFrames(u, p))
    BY <1>1, <1>2 DEF t, u
  <2>2. QED
    BY <2>1, TidyConcat
<1>4. QED
  BY <1>2, <1>3 DEF t, u

\* Packets move between the queue and the table, or get lost.
LEMMA FlowWithin ==
  ASSUME ProbeInv, Tidy(queue'), WaitOK(waiting)', UNCHANGED <<outbox, answers>>,
         \A e, p : InWait(waiting', e, p) => InWait(waiting, e, p) \/ InFrames(queue, p),
         \A p : InFrames(queue', p) => InFrames(queue, p) \/ \E e : InWait(waiting, e, p),
         \A e, f, p : InWait(waiting', e, p) /\ InWait(waiting', f, p) => e = f,
         \A e, p : ~(InWait(waiting', e, p) /\ InFrames(queue', p))
  PROVE  Flow
<1>1. \A p : Answered(p)' <=> Answered(p)
  BY DEF Answered
<1>2. ASSUME NEW p
      PROVE  Separate(p)' /\ (Used(p)' => Used(p))
  <2>1. Separate(p)
    BY DEF ProbeInv
  <2>2. QED
    BY <1>1, <2>1 DEF Separate, Used
<1>3. OutboxOK' /\ IsSeq(answers)' /\ OneAnswer'
  BY DEF ProbeInv, OutboxOK, OneAnswer
<1>4. QED
  BY <1>2, <1>3 DEF Flow, ProbeInv

LEMMA OriginatesFlow ==
  ASSUME ProbeInv, NEW g, Receives(g, "ip"), NEW k, "probe" \in DOMAIN k,
         k.probe = First.pkt.probe, Originates(g, k)
  PROVE  Flow
<1> DEFINE p0 == First.pkt.probe
           n == Here
<1>1. queue # << >> /\ First.kind = "ip"
  BY DEF Receives, Delivers
<1>2. /\ Tidy(Tail(queue))
      /\ \A p : InFrames(Tail(queue), p) <=> InFrames(queue, p) /\ ~Carries(First, p)
      /\ InFrames(queue, p0) /\ Carries(First, p0)
  BY <1>1, HandledFrame
<1>3. \A e : ~InWait(waiting, e, p0)
  BY <1>2 DEF ProbeInv, Separate
<1>4. /\ queue' = Tail(queue) \o Sendable(Routed(n, k))
      /\ waiting' = RoutedWaiting(n, k)
      /\ UNCHANGED <<outbox, answers>>
  BY DEF Originates, Handles
<1>5. /\ Tidy(Routed(n, k)) /\ WaitOK(RoutedWaiting(n, k))
      /\ \/ Leaves(Routed(n, k), RoutedWaiting(n, k), p0)
         \/ Parks(Routed(n, k), RoutedWaiting(n, k), p0)
  BY <1>3, RoutedPlaces DEF ProbeInv
<1> DEFINE frames == Routed(n, k)
<1> HIDE DEF frames, n, p0
<1>6. \A p : InFrames(frames, p) => p = p0
  BY <1>5 DEF Leaves, Parks, frames
<1>7. /\ Tidy(queue')
      /\ \A p : InFrames(queue', p) => InFrames(Tail(queue), p) \/ InFrames(frames, p)
  <2>1. Tidy(frames) /\ \A p : InFrames(frames, p) => ~InFrames(Tail(queue), p)
    BY <1>2, <1>5, <1>6 DEF frames
  <2>2. queue' = Tail(queue) \o Sendable(frames)
    BY <1>4 DEF frames
  <2>3. QED
    BY <1>1, <2>1, <2>2, SentOn
<1>8. WaitOK(waiting')
  BY <1>4, <1>5
<1>9. \A p : InFrames(queue', p) => InFrames(queue, p)
  BY <1>2, <1>6, <1>7
<1>10. \A p : Separate(p)
  BY DEF ProbeInv
<1>11. CASE Leaves(frames, waiting', p0)
  <2>1. waiting' = waiting
    BY <1>11 DEF Leaves
  <2>2. \A e, f, p : InWait(waiting', e, p) /\ InWait(waiting', f, p) => e = f
    BY <1>10, <2>1 DEF Separate
  <2>3. \A e, p : ~(InWait(waiting', e, p) /\ InFrames(queue', p))
    BY <1>9, <1>10, <2>1 DEF Separate
  <2>4. QED
    BY <1>4, <1>7, <1>8, <1>9, <2>1, <2>2, <2>3, FlowWithin
<1>12. CASE Parks(frames, waiting', p0)
  <2>1. PICK x : \A e, p : InWait(waiting', e, p) => InWait(waiting, e, p) \/ (e = x /\ p = p0)
    BY <1>12 DEF Parks
  <2>2. \A p : InFrames(queue', p) => InFrames(queue, p) /\ p # p0
    BY <1>2, <1>7, <1>12 DEF Parks
  <2>3. \A e, f, p : InWait(waiting', e, p) /\ InWait(waiting', f, p) => e = f
    BY <1>3, <1>10, <2>1 DEF Separate
  <2>4. \A e, p : ~(InWait(waiting', e, p) /\ InFrames(queue', p))
    BY <1>10, <2>1, <2>2 DEF Separate
  <2>5. \A e, p : InWait(waiting', e, p) => InWait(waiting, e, p) \/ InFrames(queue, p)
    BY <1>2, <2>1
  <2>6. QED
    BY <1>4, <1>7, <1>8, <1>9, <2>3, <2>4, <2>5, FlowWithin
<1>13. QED
  BY <1>4, <1>5, <1>11, <1>12 DEF frames

\* The packets that waited leave together, ahead of an answer.
LEMMA LearnsFlow ==
  ASSUME ProbeInv, NEW g, ReceiveAsk(g) \/ ReceiveAnswer(g)
  PROVE  Flow
<1> DEFINE x == <<Here, Sender>>
           frames == Released(Here, Sender)
           others == IF First.kind = "ask" THEN <<FrameOf("answer", Sender, None)>> ELSE << >>
<1>1. queue # << >> /\ First.kind # "ip"
  BY DEF ReceiveAsk, ReceiveAnswer, Receives, Delivers
<1>2. /\ Tidy(Tail(queue))
      /\ \A p : InFrames(Tail(queue), p) => InFrames(queue, p)
  BY <1>1, HandledFrame
<1>3. /\ waiting' = [e \in DOMAIN waiting \ {x} |-> waiting[e]]
      /\ UNCHANGED <<outbox, answers>>
  BY DEF ReceiveAsk, ReceiveAnswer, Learns, Handles
<1>4. /\ Tidy(frames) /\ \A p : InFrames(frames, p) => InWait(waiting, x, p)
  <2>1. CASE x \in DOMAIN waiting
    <3>1. Distinct(waiting[x].packets)
      BY <2>1 DEF ProbeInv, WaitOK
    <3>2. frames = [i \in DOMAIN waiting[x].packets |->
                      FrameOf("ip", Sender, waiting[x].packets[i])]
      BY <2>1 DEF Released
    <3> HIDE DEF frames, x
    <3>3. QED
      BY <2>1, <3>1, <3>2, TidyFrames DEF InWait
  <2>2. CASE x \notin DOMAIN waiting
    BY <2>2, TidyNone DEF Released
  <2>3. QED
    BY <2>1, <2>2
<1>5. Tidy(others) /\ \A p : ~InFrames(others, p)
  BY TidyOne, TidyNone
<1>6. \E all : /\ Tidy(all) /\ \A p : InFrames(all, p) => InFrames(frames, p)
               /\ queue' = Tail(queue) \o Sendable(all)
  <2>1. CASE ReceiveAsk(g)
    <3>1. others = <<FrameOf("answer", Sender, None)>>
      BY <2>1 DEF ReceiveAsk, Receives
    <3>2. queue' = Tail(queue) \o Sendable(frames \o others)
      BY <2>1, <3>1 DEF ReceiveAsk, Handles
    <3> HIDE DEF frames, others
    <3>3. Tidy(frames \o others) /\ \A p : InFrames(frames \o others, p) => InFrames(frames, p)
      BY <1>4, <1>5, TidyConcat
    <3>4. QED
      BY <3>2, <3>3
  <2>2. CASE ReceiveAnswer(g)
    <3>1. queue' = Tail(queue) \o Sendable(frames)
      BY <2>2 DEF ReceiveAnswer, Handles
    <3> HIDE DEF frames, others
    <3>2. QED
      BY <1>4, <3>1
  <2>3. QED
    BY <2>1, <2>2
<1> HIDE DEF frames, others, x
<1>7. PICK all : /\ Tidy(all) /\ \A p : InFrames(all, p) => InFrames(frames, p)
                 /\ queue' = Tail(queue) \o Sendable(all)
  BY <1>6
<1>8. \A p : Separate(p)
  BY DEF ProbeInv
<1>9. \A p : InFrames(all, p) => ~InFrames(Tail(queue), p)
  BY <1>2, <1>4, <1>7, <1>8 DEF Separate
<1>10. /\ Tidy(queue')
       /\ \A p : InFrames(queue', p) => InFrames(Tail(queue), p) \/ InFrames(all, p)
  BY <1>1, <1>7, <1>9, SentOn
<1>11. \A p : InFrames(queue', p) => InFrames(queue, p) \/ InWait(waiting, x, p)
  BY <1>2, <1>4, <1>7, <1>10
<1>12. \A e, p : InWait(waiting', e, p) => InWait(waiting, e, p) /\ e # x
  BY <1>3 DEF InWait
<1>13. WaitOK(waiting')
  BY <1>3 DEF ProbeInv, WaitOK
<1>14. \A e, f, p : InWait(waiting', e, p) /\ InWait(waiting', f, p) => e = f
  BY <1>8, <1>12 DEF Separate
<1>15. \A e, p : ~(InWait(waiting', e, p) /\ InFrames(queue', p))
  BY <1>8, <1>11, <1>12 DEF Separate
<1>16. QED
  BY <1>3, <1>10, <1>11, <1>12, <1>13, <1>14, <1>15, FlowWithin

\* A frame is handled without sending one.
LEMMA SinkFlow ==
  ASSUME ProbeInv, queue # << >>, queue' = Tail(queue), UNCHANGED <<waiting, outbox, answers>>
  PROVE  Flow
<1>1. Tidy(queue') /\ \A p : InFrames(queue', p) => InFrames(queue, p)
  BY HandledFrame
<1>2. \A p : Separate(p)
  BY DEF ProbeInv
<1>3. WaitOK(waiting)'
  BY DEF ProbeInv
<1>4. \A e, f, p : InWait(waiting', e, p) /\ InWait(waiting', f, p) => e = f
  BY <1>2 DEF Separate
<1>5. \A e, p : ~(InWait(waiting', e, p) /\ InFrames(queue', p))
  BY <1>1, <1>2 DEF Separate
<1>6. QED
  BY <1>1, <1>3, <1>4, <1>5, FlowWithin

LEMMA NothingSent ==
  ASSUME ProbeInv, queue # << >>, NEW g, Handles(g, << >>)
  PROVE  queue' = Tail(queue) /\ outbox' = outbox
<1>1. queue' = Tail(queue) \o Sendable(<< >>) /\ outbox' = outbox
  BY DEF Handles
<1>2. Sendable(<< >>) = << >>
  BY DEF Sendable
<1>3. IsSeq(Tail(queue))
  BY HandledFrame DEF Tidy
<1>4. PICK S : Tail(queue) \in Seq(S)
  BY <1>3 DEF IsSeq
<1>5. Tail(queue) \o << >> = Tail(queue)
  BY <1>4
<1>6. QED
  BY <1>1, <1>2, <1>5

\* The one way to become an answer.
LEMMA AnswerFlow ==
  ASSUME ProbeInv, queue # << >>, First.kind = "ip",
         queue' = Tail(queue), UNCHANGED <<waiting, outbox>>,
         answers' = Append(answers, First.pkt.probe)
  PROVE  Flow
<1> DEFINE p0 == First.pkt.probe
<1>1. /\ Tidy(queue')
      /\ \A p : InFrames(queue', p) <=> InFrames(queue, p) /\ ~Carries(First, p)
      /\ InFrames(queue, p0) /\ Carries(First, p0)
  BY HandledFrame
<1>2. \A p : Separate(p)
  BY DEF ProbeInv
<1>3. PICK S : answers \in Seq(S)
  BY DEF ProbeInv, IsSeq
<1> HIDE DEF p0
<1>4. answers \in Seq(S \cup {p0})
  BY <1>3, SeqMono
<1>5. /\ answers' \in Seq(S \cup {p0}) /\ Len(answers) \in Nat /\ Len(answers') = Len(answers) + 1
      /\ \A i \in 1 .. Len(answers) : answers'[i] = answers[i]
      /\ answers'[Len(answers) + 1] = p0
      /\ DOMAIN answers' = 1 .. Len(answers) + 1 /\ DOMAIN answers = 1 .. Len(answers)
  <2>1. answers' = Append(answers, p0)
    BY DEF p0
  <2>2. QED
    BY <1>4, <2>1, AppendProperties, LenProperties
<1>6. ASSUME NEW p
      PROVE  Answered(p)' <=> Answered(p) \/ p = p0
  <2>1. Answered(p)' => Answered(p) \/ p = p0
    <3>1. \A i \in 1 .. Len(answers') : i \in 1 .. Len(answers) \/ i = Len(answers) + 1
      BY <1>5
    <3>2. QED
      BY <1>5, <3>1 DEF Answered
  <2>2. Answered(p) => Answered(p)'
    <3>1. \A i \in 1 .. Len(answers) : i \in 1 .. Len(answers')
      BY <1>5
    <3>2. QED
      BY <1>5, <3>1 DEF Answered
  <2>3. p = p0 => Answered(p)'
    <3>1. Len(answers) + 1 \in 1 .. Len(answers')
      BY <1>5
    <3>2. QED
      BY <1>5, <3>1 DEF Answered
  <2>4. QED
    BY <2>1, <2>2, <2>3
<1>7. ~Answered(p0)
  BY <1>1, <1>2 DEF Separate
<1>8. OneAnswer'
  <2>1. ASSUME NEW i \in DOMAIN answers', NEW j \in DOMAIN answers', answers'[i] = answers'[j]
        PROVE  i = j
    <3>1. \A k \in 1 .. Len(answers) : answers[k] # p0
      BY <1>7 DEF Answered
    <3>2. CASE i \in 1 .. Len(answers) /\ j \in 1 .. Len(answers)
      BY <1>5, <2>1, <3>2 DEF ProbeInv, OneAnswer, IsInjective
    <3>3. i \in 1 .. Len(answers) \/ i = Len(answers) + 1
      BY <1>5
    <3>4. j \in 1 .. Len(answers) \/ j = Len(answers) + 1
      BY <1>5
    <3>5. QED
      BY <1>5, <2>1, <3>1, <3>2, <3>3, <3>4
  <2>2. QED
    BY <2>1 DEF OneAnswer, IsInjective
<1>9. ASSUME NEW p
      PROVE  Separate(p)' /\ (Used(p)' => Used(p))
  <2>1. CASE p = p0
    <3>1. ~InFrames(queue', p) /\ ~InFrames(outbox["user"], p) /\ \A e : ~InWait(waiting, e, p)
      BY <1>1, <1>2, <2>1 DEF Separate
    <3>2. QED
      BY <1>1, <2>1, <3>1 DEF Separate, Used
  <2>2. CASE p # p0
    <3>1. Separate(p) /\ (Answered(p)' <=> Answered(p)) /\ (InFrames(queue', p) => InFrames(queue, p))
      BY <1>1, <1>2, <1>6, <2>2
    <3>2. QED
      BY <3>1 DEF Separate, Used
  <2>3. QED
    BY <2>1, <2>2
<1>10. OutboxOK' /\ IsSeq(answers)' /\ WaitOK(waiting)'
  BY <1>5 DEF ProbeInv, OutboxOK, IsSeq
<1>11. QED
  BY <1>1, <1>8, <1>9, <1>10 DEF Flow, ProbeInv

LEMMA HandlersFlow ==
  ASSUME ProbeInv, NEW g,
         \/ LoseFrame(g) \/ ReceiveAsk(g) \/ ReceiveAnswer(g) \/ ReceiveEcho(g) \/ ReceiveReply(g)
         \/ ReceiveError(g) \/ DropUnroutable(g) \/ Forward(g) \/ Expire(g)
  PROVE  Flow
<1>1. queue # << >>
  BY DEF LoseFrame, ReceiveAsk, ReceiveAnswer, ReceiveEcho, ReceiveReply, ReceiveError,
       DropUnroutable, Forward, Expire, Transit, Receives, Delivers
<1>2. CASE LoseFrame(g)
  BY <1>1, <1>2, SinkFlow DEF LoseFrame, arpVars, ipVars
<1>3. CASE ReceiveAsk(g) \/ ReceiveAnswer(g)
  BY <1>3, LearnsFlow
<1>4. CASE ReceiveEcho(g)
  <2> DEFINE k == New(Here, "reply", None, First.pkt.src, InitialTtl, First.pkt.probe)
  <2>1. "probe" \in DOMAIN k /\ k.probe = First.pkt.probe
    BY DEF New
  <2>2. Receives(g, "ip") /\ Originates(g, k)
    BY <1>4 DEF ReceiveEcho
  <2> HIDE DEF k
  <2>3. QED
    BY <2>1, <2>2, OriginatesFlow
<1>5. CASE ReceiveReply(g) \/ ReceiveError(g)
  <2>1. /\ Handles(g, << >>) /\ First.kind = "ip" /\ waiting' = waiting
        /\ answers' = Append(answers, First.pkt.probe)
    BY <1>5 DEF ReceiveReply, ReceiveError, Receives, arpVars
  <2>2. QED
    BY <1>1, <2>1, NothingSent, AnswerFlow
<1>6. ASSUME Handles(g, << >>), UNCHANGED <<waiting, answers>>
      PROVE  Flow
  BY <1>1, <1>6, NothingSent, SinkFlow
<1>7. CASE DropUnroutable(g)
  BY <1>6, <1>7 DEF DropUnroutable, arpVars
<1>8. CASE Forward(g)
  <2> DEFINE k == [First.pkt EXCEPT !.ttl = @ - 1]
  <2>1. Receives(g, "ip") /\ First.kind = "ip" /\ Originates(g, k)
    BY <1>8 DEF Forward, Transit, Receives
  <2>2. "probe" \in DOMAIN First.pkt
    BY <1>1, <2>1, HandledFrame
  <2>3. "probe" \in DOMAIN k /\ k.probe = First.pkt.probe
    BY <2>2
  <2> HIDE DEF k
  <2>4. QED
    BY <2>1, <2>3, OriginatesFlow
<1>9. CASE Expire(g)
  <2>1. CASE ErrorPermitted(First.pkt)
    <3>1. "probe" \in DOMAIN Exceeded /\ Exceeded.probe = First.pkt.probe
      BY DEF Exceeded, New
    <3>2. Receives(g, "ip") /\ Originates(g, Exceeded)
      BY <1>9, <2>1 DEF Expire, Transit
    <3>3. QED
      BY <3>1, <3>2, OriginatesFlow
  <2>2. CASE ~ErrorPermitted(First.pkt)
    BY <1>6, <1>9, <2>2 DEF Expire, arpVars
  <2>3. QED
    BY <2>1, <2>2
<1>10. QED
  BY <1>2, <1>3, <1>4, <1>5, <1>7, <1>8, <1>9

\* Send passes on a frame or loses it.
LEMMA SendFlow ==
  ASSUME ProbeInv, NEW g \in Goroutine, Send(g)
  PROVE  Flow
<1> DEFINE h == Head(outbox[g])
           frames == Sendable(<<h>>)
<1>1. /\ outbox[g] # << >> /\ outbox' = [outbox EXCEPT ![g] = Tail(outbox[g])]
      /\ queue' = queue \o frames /\ UNCHANGED <<waiting, answers>>
  BY DEF Send, ipVars, arpVars
<1>2. /\ Tidy(outbox[g]) /\ DOMAIN outbox = Goroutine
  BY DEF ProbeInv, OutboxOK
<1>3. /\ Tidy(Tail(outbox[g]))
      /\ \A p : InFrames(Tail(outbox[g]), p) <=> InFrames(outbox[g], p) /\ ~Carries(h, p)
      /\ \A p : Carries(h, p) => InFrames(outbox[g], p)
      /\ h.kind = "ip" => "probe" \in DOMAIN h.pkt
  BY <1>1, <1>2, TidyTail
<1>4. /\ outbox'[g] = Tail(outbox[g])
      /\ \A u \in Goroutine : u # g => outbox'[u] = outbox[u]
      /\ DOMAIN outbox' = Goroutine
  BY <1>1, <1>2
<1> HIDE DEF h
<1>5. Tidy(frames) /\ \A p : InFrames(frames, p) => Carries(h, p)
  <2>1. Tidy(<<h>>) /\ \A p : InFrames(<<h>>, p) <=> Carries(h, p)
    BY <1>3, TidySingle
  <2>2. frames = <<h>> \/ frames = << >>
    BY DEF Sendable
  <2>3. QED
    BY <2>1, <2>2, TidyNone
<1> HIDE DEF frames
<1>6. "user" \in Goroutine /\ Node \subseteq Goroutine /\ "user" \notin Node
      /\ (g # "user" => g \in Node)
  BY SimulatorAssumption DEF Goroutine
<1>7. /\ \A p : Carries(h, p) => g = "user" /\ InFrames(outbox["user"], p)
      /\ \A p : InFrames(outbox'["user"], p) => InFrames(outbox["user"], p)
      /\ \A p : Carries(h, p) => ~InFrames(outbox'["user"], p)
  BY <1>3, <1>4, <1>6 DEF ProbeInv, OutboxOK
<1>8. OutboxOK'
  BY <1>3, <1>4, <1>6 DEF ProbeInv, OutboxOK
<1>9. \A p : Separate(p)
  BY DEF ProbeInv
<1>10. Tidy(queue) /\ \A p : ~(InFrames(queue, p) /\ InFrames(frames, p))
  BY <1>5, <1>7, <1>9 DEF ProbeInv, Separate
<1>11. Tidy(queue') /\ \A p : InFrames(queue', p) <=> InFrames(queue, p) \/ InFrames(frames, p)
  BY <1>1, <1>5, <1>10, TidyConcat
<1>12. \A p : Answered(p)' <=> Answered(p)
  BY <1>1 DEF Answered
<1>13. ASSUME NEW p
       PROVE  Separate(p)' /\ (Used(p)' => Used(p))
  <2>1. CASE Carries(h, p)
    <3>1. ~InFrames(outbox'["user"], p) /\ InFrames(outbox["user"], p)
      BY <1>7, <2>1
    <3>2. (\A e : ~InWait(waiting, e, p)) /\ ~Answered(p)
      BY <1>9, <3>1 DEF Separate
    <3>3. QED
      BY <1>1, <1>12, <3>1, <3>2 DEF Separate, Used
  <2>2. CASE ~Carries(h, p)
    <3>1. InFrames(queue', p) <=> InFrames(queue, p)
      BY <1>5, <1>11, <2>2
    <3>2. QED
      BY <1>1, <1>7, <1>9, <1>12, <3>1 DEF Separate, Used
  <2>3. QED
    BY <2>1, <2>2
<1>14. WaitOK(waiting)' /\ IsSeq(answers)' /\ OneAnswer'
  BY <1>1 DEF ProbeInv, OneAnswer
<1>15. QED
  BY <1>8, <1>11, <1>13, <1>14 DEF Flow, ProbeInv

LEMMA UntouchedFlow ==
  ASSUME ProbeInv, UNCHANGED <<queue, outbox, waiting, answers>>
  PROVE  Flow
<1>1. Tidy(queue)' /\ WaitOK(waiting)' /\ OutboxOK' /\ IsSeq(answers)' /\ OneAnswer'
  BY DEF ProbeInv, OutboxOK, OneAnswer
<1>2. \A p : Answered(p)' <=> Answered(p)
  BY DEF Answered
<1>3. \A p : Separate(p)
  BY DEF ProbeInv
<1>4. ASSUME NEW p
      PROVE  Separate(p)' /\ (Used(p)' => Used(p))
  BY <1>2, <1>3 DEF Separate, Used
<1>5. QED
  BY <1>1, <1>4 DEF Flow, ProbeInv

LEMMA MaintenanceFlow ==
  ASSUME ProbeInv, NEW n \in Node, NEW a \in Addr, Retry(n, a) \/ GiveUp(n, a)
  PROVE  Flow
<1> DEFINE x == <<n, a>>
<1>1. n \in Goroutine /\ n # "user" /\ "user" \in Goroutine
  BY SimulatorAssumption DEF Goroutine
<1>2. \A p : Separate(p)
  BY DEF ProbeInv
<1>3. CASE Retry(n, a)
  <2>1. /\ x \in DOMAIN waiting
        /\ waiting' = [waiting EXCEPT ![x].requests = @ + 1]
        /\ UNCHANGED <<queue, answers>>
    BY <1>3 DEF Retry, Overdue, ipVars
  <2>2. DOMAIN waiting[x] = {"packets", "requests"}
    BY <2>1 DEF ProbeInv, WaitOK
  <2>3. /\ DOMAIN waiting' = DOMAIN waiting
        /\ \A e \in DOMAIN waiting : e # x => waiting'[e] = waiting[e]
        /\ DOMAIN waiting'[x] = DOMAIN waiting[x]
        /\ waiting'[x].packets = waiting[x].packets
    BY <2>1, <2>2
  <2> DEFINE o == IF Owner[a] = n THEN << >> ELSE <<FrameOf("ask", a, None)>>
  <2>4. Tidy(o) /\ \A p : ~InFrames(o, p)
    BY TidyNone, TidyOne
  <2>5. outbox' = [outbox EXCEPT ![n] = o]
    BY <1>3 DEF Retry
  <2> HIDE DEF o, x
  <2>6. /\ DOMAIN outbox' = Goroutine /\ outbox'[n] = o
        /\ \A g \in Goroutine : g # n => outbox'[g] = outbox[g]
    BY <1>1, <2>5 DEF ProbeInv, OutboxOK
  <2>7. OutboxOK' /\ outbox'["user"] = outbox["user"]
    <3>1. Node \subseteq Goroutine
      BY DEF Goroutine
    <3>2. QED
      BY <1>1, <2>4, <2>6, <3>1 DEF ProbeInv, OutboxOK
  <2>8. WaitOK(waiting)' /\ \A e, p : InWait(waiting', e, p) <=> InWait(waiting, e, p)
    BY <2>3 DEF ProbeInv, WaitOK, InWait
  <2>9. \A p : Answered(p)' <=> Answered(p)
    BY <2>1 DEF Answered
  <2>10. ASSUME NEW p
         PROVE  Separate(p)' /\ (Used(p)' => Used(p))
    BY <1>2, <2>1, <2>7, <2>8, <2>9 DEF Separate, Used
  <2>11. Tidy(queue)' /\ IsSeq(answers)' /\ OneAnswer'
    BY <2>1 DEF ProbeInv, OneAnswer
  <2>12. QED
    BY <2>7, <2>8, <2>10, <2>11 DEF Flow, ProbeInv
<1>4. CASE GiveUp(n, a)
  <2>1. /\ waiting' = [e \in DOMAIN waiting \ {x} |-> waiting[e]]
        /\ UNCHANGED <<queue, outbox, answers>>
    BY <1>4 DEF GiveUp, ipVars, netVars
  <2>2. \A e, p : InWait(waiting', e, p) => InWait(waiting, e, p)
    BY <2>1 DEF InWait
  <2>3. WaitOK(waiting)'
    BY <2>1 DEF ProbeInv, WaitOK
  <2>4. \A e, f, p : InWait(waiting', e, p) /\ InWait(waiting', f, p) => e = f
    BY <1>2, <2>2 DEF Separate
  <2>5. \A e, p : ~(InWait(waiting', e, p) /\ InFrames(queue', p))
    BY <1>2, <2>1, <2>2 DEF Separate
  <2>6. Tidy(queue')
    BY <2>1 DEF ProbeInv
  <2>7. QED
    BY <2>1, <2>2, <2>3, <2>4, <2>5, <2>6, FlowWithin
<1>5. QED
  BY <1>3, <1>4

\* A probe that was not used before.
LEMMA ProbeFlow ==
  ASSUME ProbeInv, SendProbe, ~Used(Probe)
  PROVE  ProbeInv' /\ \A p : Used(p)' => Used(p) \/ p = Probe
<1> DEFINE n == op.src
           k == New(n, "request", None, op.dst, op.ttl, Probe)
           p0 == Probe
           frames == Routed(n, k)
<1>1. "probe" \in DOMAIN k /\ k.probe = p0
  BY DEF New
<1>2. /\ outbox' = [outbox EXCEPT !["user"] = frames] /\ waiting' = RoutedWaiting(n, k)
      /\ UNCHANGED <<queue, answers>>
  BY DEF SendProbe, ipVars
<1>3. outbox["user"] = << >>
  BY DEF SendProbe, At, Busy
<1>4. /\ ~InFrames(queue, p0) /\ ~Answered(p0)
      /\ \A e : ~InWait(waiting, e, p0)
  BY DEF Used
<1> HIDE DEF n, k, p0
<1>5. /\ Tidy(frames) /\ WaitOK(waiting')
      /\ Leaves(frames, waiting', p0) \/ Parks(frames, waiting', p0)
  BY <1>1, <1>2, <1>4, RoutedPlaces DEF ProbeInv
<1> HIDE DEF frames
<1>6. "user" \in Goroutine /\ Node \subseteq Goroutine /\ "user" \notin Node
  BY SimulatorAssumption DEF Goroutine
<1>7. /\ outbox'["user"] = frames /\ DOMAIN outbox' = Goroutine
      /\ \A g \in Goroutine : g # "user" => outbox'[g] = outbox[g]
  BY <1>2, <1>6 DEF ProbeInv, OutboxOK
<1>8. OutboxOK'
  BY <1>5, <1>6, <1>7 DEF ProbeInv, OutboxOK
<1>9. \A p : Answered(p)' <=> Answered(p)
  BY <1>2 DEF Answered
<1>10. \A p : Separate(p)
  BY DEF ProbeInv
<1>11. \A p : InFrames(outbox'["user"], p) => p = p0
  BY <1>5, <1>7 DEF Leaves, Parks
<1>12. ASSUME NEW p
       PROVE  Separate(p)' /\ (Used(p)' => Used(p) \/ p = p0)
  <2>1. CASE Leaves(frames, waiting', p0)
    <3>1. waiting' = waiting
      BY <2>1 DEF Leaves
    <3>2. CASE p = p0
      BY <1>2, <1>4, <1>9, <3>1, <3>2 DEF Separate
    <3>3. CASE p # p0
      BY <1>2, <1>9, <1>10, <1>11, <3>1, <3>3 DEF Separate, Used
    <3>4. QED
      BY <3>2, <3>3
  <2>2. CASE Parks(frames, waiting', p0)
    <3>1. PICK x : \A e, q : InWait(waiting', e, q) => InWait(waiting, e, q) \/ (e = x /\ q = p0)
      BY <2>2 DEF Parks
    <3>2. ~InFrames(outbox'["user"], p)
      BY <1>7, <2>2 DEF Parks
    <3>3. CASE p = p0
      <4>1. \A e : InWait(waiting', e, p) => e = x
        BY <1>4, <3>1, <3>3
      <4>2. QED
        BY <1>2, <1>4, <1>9, <3>2, <3>3, <4>1 DEF Separate
    <3>4. CASE p # p0
      <4>1. \A e : InWait(waiting', e, p) => InWait(waiting, e, p)
        BY <3>1, <3>4
      <4>2. QED
        BY <1>2, <1>9, <1>10, <3>2, <4>1 DEF Separate, Used
    <3>5. QED
      BY <3>3, <3>4
  <2>3. QED
    BY <1>5, <2>1, <2>2
<1>13. Tidy(queue)' /\ IsSeq(answers)' /\ OneAnswer'
  BY <1>2 DEF ProbeInv, OneAnswer
<1>14. QED
  BY <1>5, <1>8, <1>12, <1>13 DEF ProbeInv, p0

------------------------------------------------------------------------------
(* The probes that were sent.                                                *)

OpFields ==
  op # Idle =>
    /\ {"stage", "id", "ttl", "hops", "before"} \subseteq DOMAIN op /\ op.stage # "idle"
    /\ op.id \in Nat /\ op.ttl \in Nat /\ op.id > Len(script)

\* The operation under way has used smaller TTLs, earlier ones larger numbers.
Launched(p) ==
  /\ p[1] \in Nat /\ p[1] > Len(script)
  /\ op # Idle /\ p[1] = op.id =>
       /\ p[2] \in Nat /\ p[2] <= op.ttl
       /\ p[2] = op.ttl => op.stage \in {"collect", "complete", "end"}

LaunchInv ==
  /\ script \in Seq(Call) /\ OpFields
  /\ \A p : Used(p) => Launched(p)

LEMMA LaunchInit == Init => ProbeInv /\ LaunchInv
<1> SUFFICES ASSUME Init
             PROVE  ProbeInv /\ LaunchInv
  OBVIOUS
<1>1. queue = << >> /\ answers = << >> /\ waiting = << >> /\ outbox = [g \in Goroutine |-> << >>]
  BY DEF Init
<1>2. "user" \in Goroutine /\ Node \subseteq Goroutine
  BY DEF Goroutine
<1>3. IsSeq(answers) /\ Len(answers) = 0 /\ DOMAIN answers = {} /\ DOMAIN waiting = {}
  <2>1. << >> \in Seq({}) /\ Len(<< >>) = 0 /\ DOMAIN << >> = {}
    OBVIOUS
  <2>2. QED
    BY <1>1, <2>1 DEF IsSeq
<1>4. \A p : ~Answered(p)
  BY <1>3 DEF Answered
<1>5. OneAnswer
  BY <1>3 DEF OneAnswer, IsInjective
<1>6. OutboxOK /\ \A p : ~InFrames(outbox["user"], p)
  BY <1>1, <1>2, TidyNone DEF OutboxOK
<1>7. WaitOK(waiting) /\ \A e, p : ~InWait(waiting, e, p)
  BY <1>3 DEF WaitOK, InWait
<1>8. Tidy(queue) /\ \A p : ~InFrames(queue, p)
  BY <1>1, TidyNone
<1>9. \A p : Separate(p) /\ ~Used(p)
  BY <1>4, <1>6, <1>7, <1>8 DEF Separate, Used
<1>10. ProbeInv
  BY <1>3, <1>5, <1>6, <1>7, <1>8, <1>9 DEF ProbeInv
<1>11. script \in Seq(Call) /\ OpFields
  BY SimulatorAssumption DEF Init, OpFields
<1>12. QED
  BY <1>9, <1>10, <1>11 DEF LaunchInv

\* What leaves operations alone.
LEMMA LaunchSame ==
  ASSUME LaunchInv, Flow, UNCHANGED <<op, script>>
  PROVE  LaunchInv'
<1>1. ASSUME NEW p, Used(p)'
      PROVE  Launched(p)'
  <2>1. Launched(p)
    BY <1>1 DEF Flow, LaunchInv
  <2>2. QED
    BY <2>1 DEF Launched
<1>2. QED
  BY <1>1 DEF LaunchInv, OpFields

LEMMA FreshProbe ==
  ASSUME LaunchInv, At("send")
  PROVE  ~Used(Probe)
<1>1. op # Idle /\ op.stage = "send"
  BY DEF At, Idle
<1>2. Probe[1] = op.id /\ Probe[2] = op.ttl
  BY DEF Probe
<1>3. ~Launched(Probe)
  BY <1>1, <1>2 DEF Launched
<1>4. QED
  BY <1>3 DEF LaunchInv

\* The operation goes on to a stage and a TTL.
LEMMA LaunchOn ==
  ASSUME LaunchInv, op # Idle, NEW stage, NEW ttl \in Nat,
         {"stage", "id", "ttl", "hops", "before"} \subseteq DOMAIN op',
         op'.id = op.id, op'.stage = stage, op'.ttl = ttl,
         stage \in {"probe", "send", "collect", "complete", "end"},
         \/ ttl = op.ttl /\ (op.stage \in {"collect", "complete", "end"} =>
                                stage \in {"collect", "complete", "end"})
         \/ ttl > op.ttl,
         \A p : Used(p)' => Used(p) \/ (p = Probe /\ ttl = op.ttl /\ stage = "collect"),
         script' = script
  PROVE  LaunchInv'
<1>1. OpFields /\ op.id \in Nat /\ op.ttl \in Nat /\ op.id > Len(script)
  BY DEF LaunchInv, OpFields
<1>2. op' # Idle
  BY DEF Idle
<1>3. OpFields' /\ (script \in Seq(Call))'
  BY <1>1 DEF LaunchInv, OpFields
<1>4. ASSUME NEW p, Used(p)'
      PROVE  Launched(p)'
  <2>1. CASE Used(p)
    <3>1. Launched(p)
      BY <2>1 DEF LaunchInv
    <3>2. p[1] \in Nat /\ p[1] > Len(script')
      BY <3>1 DEF Launched
    <3>3. ASSUME p[1] = op'.id
          PROVE  /\ p[2] \in Nat /\ p[2] <= ttl
                 /\ p[2] = ttl => stage \in {"collect", "complete", "end"}
      BY <1>1, <3>1, <3>3 DEF Launched
    <3>4. QED
      BY <3>2, <3>3 DEF Launched
  <2>2. CASE p = Probe /\ ttl = op.ttl /\ stage = "collect"
    <3>1. p[1] = op.id /\ p[2] = op.ttl
      BY <2>2 DEF Probe
    <3>2. QED
      BY <1>1, <2>2, <3>1 DEF Launched
  <2>3. QED
    BY <1>4, <2>1, <2>2
<1>5. QED
  BY <1>3, <1>4 DEF LaunchInv

LEMMA OperationLaunch ==
  ASSUME LaunchInv, ProbeInv, StartProbe \/ SendProbe \/ Collect \/ Complete
  PROVE  ProbeInv' /\ LaunchInv'
<1>1. op # Idle
  BY DEF StartProbe, SendProbe, Collect, Complete, At, Idle
<1>2. {"stage", "id", "ttl", "hops", "before"} \subseteq DOMAIN op /\ op.ttl \in Nat
  BY <1>1 DEF LaunchInv, OpFields
<1>3. script' = script
  BY DEF StartProbe, SendProbe, Collect, Complete
<1>4. CASE SendProbe
  <2>1. op.stage = "send" /\ op' = [op EXCEPT !.stage = "collect"] /\ At("send")
    BY <1>4 DEF SendProbe, At
  <2>2. ProbeInv' /\ \A p : Used(p)' => Used(p) \/ p = Probe
    BY <1>4, <2>1, FreshProbe, ProbeFlow
  <2>3. /\ DOMAIN op' = DOMAIN op /\ op'.id = op.id /\ op'.stage = "collect" /\ op'.ttl = op.ttl
    BY <1>2, <2>1
  <2>4. QED
    BY <1>1, <1>2, <1>3, <2>2, <2>3, LaunchOn
<1>5. CASE StartProbe \/ Collect \/ Complete
  <2>1. Flow
    <3>1. UNCHANGED <<queue, outbox, waiting, answers>>
      BY <1>5 DEF StartProbe, Collect, Complete, ipVars, arpVars, netVars
    <3>2. QED
      BY <3>1, UntouchedFlow
  <2>2. ProbeInv' /\ \A p : Used(p)' => Used(p)
    BY <2>1 DEF Flow
  <2>3. CASE StartProbe
    <3>1. op.stage = "probe" /\ \E b, u : op' = [op EXCEPT !.stage = "send", !.before = b, !.underway = u]
      BY <2>3 DEF StartProbe, Discard, At
    <3>2. /\ DOMAIN op' = DOMAIN op /\ op'.id = op.id /\ op'.stage = "send" /\ op'.ttl = op.ttl
      BY <1>2, <3>1
    <3>3. QED
      BY <1>1, <1>2, <1>3, <2>2, <3>1, <3>2, LaunchOn
  <2>4. CASE Complete
    <3>1. op' = [op EXCEPT !.stage = "end"]
      BY <2>4 DEF Complete
    <3>2. /\ DOMAIN op' = DOMAIN op /\ op'.id = op.id /\ op'.stage = "end" /\ op'.ttl = op.ttl
      BY <1>2, <3>1
    <3>3. QED
      BY <1>1, <1>2, <1>3, <2>2, <3>2, LaunchOn
  <2>5. CASE Collect
    <3>1. \E hops, ttl, stage :
            /\ op' = [op EXCEPT !.hops = hops, !.ttl = ttl, !.stage = stage]
            /\ \/ ttl = op.ttl + 1 /\ stage = "probe"
               \/ ttl = op.ttl /\ stage \in {"end", "complete"}
      BY <2>5, Zenon DEF Collect
    <3>2. PICK hops, ttl, stage :
            /\ op' = [op EXCEPT !.hops = hops, !.ttl = ttl, !.stage = stage]
            /\ \/ ttl = op.ttl + 1 /\ stage = "probe"
               \/ ttl = op.ttl /\ stage \in {"end", "complete"}
      BY <3>1
    <3>3. /\ DOMAIN op' = DOMAIN op /\ op'.id = op.id /\ op'.stage = stage /\ op'.ttl = ttl
      BY <1>2, <3>2
    <3>4. ttl \in Nat /\ (ttl = op.ttl \/ ttl > op.ttl)
      BY <1>2, <3>2
    <3>5. CASE ttl = op.ttl
      <4>1. stage \in {"end", "complete"}
        BY <1>2, <3>2, <3>5
      <4>2. QED
        BY <1>1, <1>2, <1>3, <2>2, <3>3, <3>5, <4>1, LaunchOn
    <3>6. CASE ttl > op.ttl
      <4>1. stage \in {"probe", "end", "complete"}
        BY <3>2
      <4>2. QED
        BY <1>1, <1>2, <1>3, <2>2, <3>3, <3>4, <3>6, <4>1, LaunchOn
    <3>7. QED
      BY <3>4, <3>5, <3>6
  <2>6. QED
    BY <1>5, <2>3, <2>4, <2>5
<1>6. QED
  BY <1>4, <1>5

LEMMA OtherLaunch ==
  ASSUME LaunchInv, ProbeInv, Begin \/ End \/ SetLinkState
  PROVE  ProbeInv' /\ LaunchInv'
<1>1. Flow
  <2>1. UNCHANGED <<queue, outbox, waiting, answers>>
    BY DEF Begin, End, SetLinkState, ipVars, arpVars, netVars
  <2>2. QED
    BY <2>1, UntouchedFlow
<1>2. ProbeInv' /\ \A p : Used(p)' => Used(p)
  BY <1>1 DEF Flow
<1>3. \A p : Used(p)' => Launched(p)
  BY <1>2 DEF LaunchInv
<1>4. script \in Seq(Call)
  BY DEF LaunchInv
<1>5. CASE End
  <2>1. op' = Idle /\ script' = script
    BY <1>5 DEF End
  <2>2. QED
    BY <1>2, <1>3, <1>4, <2>1 DEF LaunchInv, OpFields, Launched
<1>6. CASE Begin \/ SetLinkState
  <2>1. script' = Tail(script) /\ script # << >>
    BY <1>6 DEF Begin, SetLinkState
  <2>2. /\ script' \in Seq(Call) /\ Len(script) \in Nat /\ Len(script') = Len(script) - 1
    BY <1>4, <2>1, HeadTailProperties, LenProperties
  <2>3. CASE SetLinkState
    <3>1. op = Idle /\ op' = Idle
      BY <2>3 DEF SetLinkState
    <3>2. \A p : Used(p)' => Launched(p)'
      BY <1>3, <2>2, <3>1 DEF Launched
    <3>3. QED
      BY <1>2, <2>2, <3>1, <3>2 DEF LaunchInv, OpFields
  <2>4. CASE Begin
    <3>1. PICK call, ping :
            op' = [stage |-> "probe", id |-> Len(script), ping |-> ping, traced |-> call.trace,
                   src |-> call.src, dst |-> call.dst,
                   ttl |-> IF ping THEN InitialTtl ELSE 1,
                   max |-> IF ping THEN InitialTtl ELSE call.max,
                   before |-> 0, underway |-> {}, hops |-> << >>, first |-> sequence + 1,
                   works |-> up = Links /\ waiting = << >>]
      BY <2>4, Zenon DEF Begin
    <3>2. /\ {"stage", "id", "ttl", "hops", "before"} \subseteq DOMAIN op'
          /\ op'.stage = "probe" /\ op'.id = Len(script) /\ op'.ttl \in Nat
      <4>1. (IF ping THEN InitialTtl ELSE 1) \in Nat
        BY SimulatorAssumption
      <4>2. QED
        BY <3>1, <4>1
    <3>3. OpFields'
      BY <2>2, <3>2 DEF OpFields
    <3>4. \A p : Used(p)' => Launched(p)'
      BY <1>3, <2>2, <3>2 DEF Launched
    <3>5. QED
      BY <1>2, <2>2, <3>3, <3>4 DEF LaunchInv
  <2>5. QED
    BY <1>6, <2>3, <2>4
<1>7. QED
  BY <1>5, <1>6

LEMMA LaunchNext == ProbeInv /\ LaunchInv /\ [Next]_vars => ProbeInv' /\ LaunchInv'
<1> SUFFICES ASSUME ProbeInv, LaunchInv, [Next]_vars
             PROVE  ProbeInv' /\ LaunchInv'
  OBVIOUS
<1>1. ASSUME Flow, UNCHANGED <<op, script>>
      PROVE  ProbeInv' /\ LaunchInv'
  BY <1>1, LaunchSame DEF Flow
<1>2. ASSUME NEW g \in Goroutine, Step(g)
      PROVE  ProbeInv' /\ LaunchInv'
  <2>1. UNCHANGED <<op, script>>
    BY <1>2 DEF Step, TakeEvent, HandleEvent, EndDispatch, Send, EndDrain, LoseFrame, ReceiveAsk,
         ReceiveAnswer, ReceiveEcho, ReceiveReply, ReceiveError, DropUnroutable, Forward, Expire,
         Originates, Handles, userVars
  <2>2. CASE TakeEvent(g) \/ HandleEvent(g) \/ EndDispatch(g) \/ EndDrain(g)
    <3>1. UNCHANGED <<queue, outbox, waiting, answers>>
      BY <2>2 DEF TakeEvent, HandleEvent, EndDispatch, EndDrain, ipVars, arpVars, netVars
    <3>2. QED
      BY <1>1, <2>1, <3>1, UntouchedFlow
  <2>3. CASE Send(g)
    BY <1>1, <2>1, <2>3, SendFlow
  <2>4. CASE \/ LoseFrame(g) \/ ReceiveAsk(g) \/ ReceiveAnswer(g) \/ ReceiveEcho(g)
             \/ ReceiveReply(g) \/ ReceiveError(g) \/ DropUnroutable(g) \/ Forward(g) \/ Expire(g)
    BY <1>1, <2>1, <2>4, HandlersFlow
  <2>5. QED
    BY <1>2, <2>2, <2>3, <2>4 DEF Step
<1>3. ASSUME NEW n \in Node, NEW a \in Addr, Retry(n, a) \/ GiveUp(n, a)
      PROVE  ProbeInv' /\ LaunchInv'
  <2>1. UNCHANGED <<op, script>>
    BY <1>3 DEF Retry, GiveUp, userVars
  <2>2. QED
    BY <1>1, <1>3, <2>1, MaintenanceFlow
<1>4. CASE StartProbe \/ SendProbe \/ Collect \/ Complete
  BY <1>4, OperationLaunch
<1>5. CASE Begin \/ End \/ SetLinkState
  BY <1>5, OtherLaunch
<1>6. CASE Finished \/ UNCHANGED vars
  <2>1. UNCHANGED <<queue, outbox, waiting, answers, op, script>>
    BY <1>6 DEF Finished, vars, ipVars, arpVars, netVars, userVars
  <2>2. QED
    BY <1>1, <2>1, UntouchedFlow
<1>7. QED
  BY <1>2, <1>3, <1>4, <1>5, <1>6 DEF Next

\* No probe is answered twice: not by its destination, nor by routers that pass
\* it around a loop, nor after it waited for ARP (handleLocalIPPacket,
\* sendICMPErrorRouted, arp_learn_binding), on any network and for every script
\* of operations.
THEOREM AnsweredOnce == Spec => []OneAnswer
<1>1. ProbeInv => OneAnswer
  BY DEF ProbeInv
<1>2. QED
  BY <1>1, LaunchInit, LaunchNext, PTL DEF Spec

==============================================================================
