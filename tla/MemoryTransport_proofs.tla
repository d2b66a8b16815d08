------------------------ MODULE MemoryTransport_proofs -----------------------
(****************************************************************************)
(* Proofs about MemoryTransport, for every set of goroutines and links and  *)
(* every number of frames.                                                  *)
(****************************************************************************)
EXTENDS MemoryTransport, TLAPS

\* The flags are kept apart from the other variables: each half of TypeOK is
\* proved by a different prover.
Flags ==
  /\ draining \in BOOLEAN
  /\ closed \in BOOLEAN

Shapes ==
  /\ queue \in Seq(Frame)
  /\ up \in [Link -> BOOLEAN]
  /\ at \in [Thread -> {"run", "send", "loop", "popped"}]
  /\ depth \in [Thread -> Nat]
  /\ out \in [Thread -> Frame \cup {None}]
  /\ held \in [Thread -> Frame \cup {None}]
  /\ issued \in 0 .. MaxFrames

\* Where a goroutine stands determines what it holds and whether it drains.
Position ==
  \A t \in Thread :
    /\ depth[t] \in {0, 1}
    /\ at[t] = "send" <=> out[t] # None
    /\ at[t] \in {"loop", "popped"} => depth[t] = 1
    /\ held[t] # None <=> (depth[t] = 1 /\ at[t] # "loop")

\* The draining flag is set exactly while a drain loop runs, and one runs.
Exclusion ==
  /\ draining <=> \E t \in Thread : Draining(t)
  /\ \A t, u \in Thread : Draining(t) /\ Draining(u) => t = u

\* The queue is only left non-empty to a drainer, and Close empties it for good.
Attended ==
  /\ queue # << >> => draining
  /\ closed => queue = << >>

\* The inductive invariant.  Neither OneDrainLoop nor NothingStranded is
\* inductive alone: a Send decides by the flag, so the flag must be tied to
\* the loops it stands for.
IInv == Flags /\ Shapes /\ Position /\ Exclusion /\ Attended

LEMMA InitIInv == Init => IInv
<1> SUFFICES ASSUME Init
             PROVE  IInv
  OBVIOUS
<1> USE MaxFramesAssumption DEF Init
<1>1. Flags
  BY Zenon DEF Flags
<1>2. Shapes
  BY DEF Shapes
<1>3. Position /\ Exclusion /\ Attended
  BY DEF Position, Exclusion, Attended, Draining
<1>4. QED
  BY <1>1, <1>2, <1>3 DEF IInv

LEMMA FlagsStep == Flags /\ [Next]_vars => Flags'
<1> SUFFICES ASSUME Flags, [Next]_vars
             PROVE  Flags'
  OBVIOUS
<1> USE DEF Flags
<1>1. CASE UNCHANGED vars
  BY <1>1 DEF vars
<1>2. ASSUME NEW t \in Thread, NEW l \in Link, BeginSend(t, l)
      PROVE  Flags'
  BY <1>2 DEF BeginSend
<1>3. ASSUME NEW t \in Thread, Step(t)
      PROVE  Flags'
  BY <1>3, Zenon
     DEF Step, SendClosed, SendAccepted, DrainEmpty, DrainPop, Deliver, HandlerReturn
<1>4. CASE Close
  BY <1>4, Zenon DEF Close
<1>5. ASSUME NEW l \in Link, SetUp(l)
      PROVE  Flags'
  BY <1>5 DEF SetUp
<1>6. QED
  BY <1>1, <1>2, <1>3, <1>4, <1>5 DEF Next

\* The four parts of the invariant that a step of a goroutine may disturb.
Rest == Shapes /\ Position /\ Exclusion /\ Attended

LEMMA BeginSendStep ==
  ASSUME IInv, NEW t \in Thread, NEW l \in Link, BeginSend(t, l)
  PROVE  Rest'
<1> USE DEF IInv, BeginSend
<1>1. /\ [id |-> issued + 1, link |-> l] \in Frame
      /\ issued' \in 0 .. MaxFrames
  BY MaxFramesAssumption DEF Frame, Shapes
<1>2. [id |-> issued + 1, link |-> l] # None
  BY <1>1, NoneAssumption
<1>3. Shapes'
  BY <1>1 DEF Shapes
<1>4. Position'
  BY <1>2 DEF Position, Shapes
<1>5. Exclusion'
  BY DEF Exclusion, Draining
<1>6. Attended'
  BY DEF Attended
<1>7. QED
  BY <1>3, <1>4, <1>5, <1>6 DEF Rest

LEMMA SendClosedStep ==
  ASSUME IInv, NEW t \in Thread, SendClosed(t)
  PROVE  Rest'
<1> USE DEF IInv, SendClosed
<1>1. Shapes'
  BY DEF Shapes
<1>2. Position'
  BY DEF Position, Shapes
<1>3. Exclusion'
  BY DEF Exclusion, Draining
<1>4. Attended'
  BY DEF Attended
<1>5. QED
  BY <1>1, <1>2, <1>3, <1>4 DEF Rest

LEMMA SendAcceptedStep ==
  ASSUME IInv, NEW t \in Thread, SendAccepted(t)
  PROVE  Rest'
<1> USE DEF IInv, SendAccepted, Enqueue, SeesDrain
<1>1. out[t] \in Frame
  BY DEF Position, Shapes
<1>2. Append(queue, out[t]) \in Seq(Frame)
  BY <1>1 DEF Shapes
<1>3. Shapes'
  <2>1. queue' \in Seq(Frame)
    BY <1>2
  <2>2. /\ at' \in [Thread -> {"run", "send", "loop", "popped"}]
        /\ depth' \in [Thread -> Nat]
    <3>1. CASE draining
      BY <3>1 DEF Shapes
    <3>2. CASE ~draining
      <4>1. /\ at' = [at EXCEPT ![t] = "loop"]
            /\ depth' = [depth EXCEPT ![t] = @ + 1]
        BY <3>2
      <4>2. at' \in [Thread -> {"run", "send", "loop", "popped"}]
        BY <4>1 DEF Shapes
      <4>3. depth[t] + 1 \in Nat
        BY DEF Shapes
      <4>4. depth' \in [Thread -> Nat]
        BY <4>1, <4>3 DEF Shapes
      <4>5. QED
        BY <4>2, <4>4
    <3>3. QED
      BY <3>1, <3>2
  <2>3. /\ out' \in [Thread -> Frame \cup {None}]
        /\ UNCHANGED <<up, held, issued>>
    BY DEF Shapes
  <2>4. QED
    BY <2>1, <2>2, <2>3 DEF Shapes
<1>4. ~draining => depth[t] = 0 /\ \A u \in Thread : ~Draining(u)
  BY DEF Exclusion, Position, Shapes, Draining
<1>6. Position'
  BY <1>4 DEF Position, Shapes
<1>7. Exclusion'
  <2>1. CASE draining
    BY <2>1 DEF Exclusion, Draining
  <2>2. CASE ~draining
    BY <2>2, <1>4 DEF Exclusion, Draining, Shapes
  <2>3. QED
    BY <2>1, <2>2
<1>8. Attended'
  BY DEF Attended
<1>9. QED
  BY <1>3, <1>6, <1>7, <1>8 DEF Rest

LEMMA DrainEmptyStep ==
  ASSUME IInv, NEW t \in Thread, DrainEmpty(t)
  PROVE  Rest'
<1> USE DEF IInv, DrainEmpty, DrainDone
<1>1. depth[t] = 1 /\ \A u \in Thread : Draining(u) => u = t
  BY DEF Position, Exclusion, Draining
<1>2. Shapes'
  BY <1>1 DEF Shapes
<1>3. Position'
  BY <1>1 DEF Position, Shapes
<1>4. Exclusion'
  BY <1>1 DEF Exclusion, Draining, Shapes
<1>5. Attended'
  BY DEF Attended
<1>6. QED
  BY <1>2, <1>3, <1>4, <1>5 DEF Rest

LEMMA DrainPopStep ==
  ASSUME IInv, NEW t \in Thread, DrainPop(t)
  PROVE  Rest'
<1> USE DEF IInv, DrainPop, DrainDone
<1>1. Head(queue) \in Frame /\ Tail(queue) \in Seq(Frame)
  BY DEF Shapes
<1>2. Head(queue) # None
  BY <1>1, NoneAssumption
<1>3. Shapes'
  BY <1>1 DEF Shapes
<1>4. Position'
  BY <1>2 DEF Position, Shapes
<1>5. Exclusion'
  BY DEF Exclusion, Draining
<1>6. Attended'
  BY DEF Attended
<1>7. QED
  BY <1>3, <1>4, <1>5, <1>6 DEF Rest

LEMMA DeliverStep ==
  ASSUME IInv, NEW t \in Thread, Deliver(t)
  PROVE  Rest'
<1> USE DEF IInv, Deliver
<1>1. Shapes'
  BY DEF Shapes
<1>2. Position'
  BY DEF Position, Shapes
<1>3. Exclusion'
  BY DEF Exclusion, Draining
<1>4. Attended'
  BY DEF Attended
<1>5. QED
  BY <1>1, <1>2, <1>3, <1>4 DEF Rest

LEMMA HandlerReturnStep ==
  ASSUME IInv, NEW t \in Thread, HandlerReturn(t)
  PROVE  Rest'
<1> USE DEF IInv, HandlerReturn, InHandler
<1>1. Shapes'
  BY DEF Shapes
<1>2. Position'
  BY DEF Position, Shapes
<1>3. Exclusion'
  BY DEF Exclusion, Draining
<1>4. Attended'
  BY DEF Attended
<1>5. QED
  BY <1>1, <1>2, <1>3, <1>4 DEF Rest

LEMMA OtherSteps ==
  ASSUME IInv, UNCHANGED vars \/ Close \/ \E l \in Link : SetUp(l)
  PROVE  Rest'
<1> USE DEF IInv, Rest
<1>1. CASE UNCHANGED vars
  BY <1>1 DEF vars, Shapes, Position, Exclusion, Attended, Draining
<1>2. CASE Close
  BY <1>2 DEF Close, Shapes, Position, Exclusion, Attended, Draining
<1>3. ASSUME NEW l \in Link, SetUp(l)
      PROVE  Rest'
  BY <1>3 DEF SetUp, Shapes, Position, Exclusion, Attended, Draining
<1>4. QED
  BY <1>1, <1>2, <1>3

LEMMA StepIInv == IInv /\ [Next]_vars => IInv'
<1> SUFFICES ASSUME IInv, [Next]_vars
             PROVE  IInv'
  OBVIOUS
<1>1. Flags'
  BY FlagsStep DEF IInv
<1>2. Rest'
  BY BeginSendStep, SendClosedStep, SendAcceptedStep, DrainEmptyStep, DrainPopStep,
     DeliverStep, HandlerReturnStep, OtherSteps
     DEF Next, Step
<1>3. QED
  BY <1>1, <1>2 DEF IInv, Rest

LEMMA Inductive == Spec => []IInv
BY InitIInv, StepIInv, PTL DEF Spec

\* The transport's variables and the goroutines' positions keep their types.
THEOREM TypeCorrect == Spec => []TypeOK
<1>1. IInv => TypeOK
  BY DEF IInv, Flags, Shapes, TypeOK
<1>2. QED
  BY <1>1, Inductive, PTL

\* However many goroutines send, and whatever handlers send, there is never a
\* second drain loop: neither beside the first nor on top of it.
THEOREM DrainsOnce == Spec => []OneDrainLoop
<1>1. IInv => OneDrainLoop
  BY DEF IInv, Position, Exclusion, OneDrainLoop, Draining
<1>2. QED
  BY <1>1, Inductive, PTL

\* Whenever a frame is queued, some goroutine is committed to delivering it.
THEOREM StrandsNothing == Spec => []NothingStranded
<1>1. IInv => NothingStranded
  BY DEF IInv, Attended, Exclusion, NothingStranded
<1>2. QED
  BY <1>1, Inductive, PTL

------------------------------------------------------------------------------
\* The frame being handled, seen from its only holder.
LEMMA HandledIs ==
  ASSUME IInv, NEW t \in Thread, held[t] # None
  PROVE  Handled = held[t]
<1>1. \A u \in Thread : held[u] # None => u = t
  BY DEF IInv, Position, Exclusion, Draining
<1>2. t \in Holding /\ \A u \in Holding : u = t
  BY <1>1 DEF Holding
<1>3. QED
  BY <1>2 DEF Handled

LEMMA NothingHandled ==
  ASSUME \A t \in Thread : held[t] = None
  PROVE  Handled = None
BY DEF Handled, Holding

\* A goroutine at the top of its drain loop: nobody handles a frame.
LEMMA IdleAtLoop ==
  ASSUME IInv, NEW t \in Thread, at[t] = "loop"
  PROVE  \A u \in Thread : held[u] = None
BY DEF IInv, Position, Exclusion, Draining

LEMMA RefinesStep ==
  ASSUME IInv, IInv', [Next]_vars
  PROVE  [Delivery!Next]_(Delivery!vars)
<1> USE DEF Delivery!vars, Delivery!Next
<1>0. held' = held => Handled' = Handled
  BY DEF Handled, Holding
<1>1. CASE UNCHANGED vars
  BY <1>0, <1>1 DEF vars
<1>2. ASSUME NEW t \in Thread, NEW l \in Link, BeginSend(t, l)
      PROVE  UNCHANGED Delivery!vars
  BY <1>0, <1>2 DEF BeginSend
<1>3. ASSUME NEW t \in Thread, SendClosed(t)
      PROVE  UNCHANGED Delivery!vars
  BY <1>0, <1>3 DEF SendClosed
<1>4. ASSUME NEW t \in Thread, SendAccepted(t)
      PROVE  \E f \in Frame : Delivery!Accept(f)
  <2>1. out[t] \in Frame
    BY <1>4 DEF IInv, Position, Shapes, SendAccepted
  <2>2. Delivery!Accept(out[t])
    BY <1>0, <1>4 DEF Delivery!Accept, SendAccepted, Enqueue
  <2>3. QED
    BY <2>1, <2>2
<1>5. ASSUME NEW t \in Thread, DrainEmpty(t)
      PROVE  UNCHANGED Delivery!vars
  BY <1>0, <1>5 DEF DrainEmpty
<1>6. ASSUME NEW t \in Thread, DrainPop(t)
      PROVE  Delivery!Take
  <2>1. Handled = None
    BY <1>6, IdleAtLoop, NothingHandled DEF DrainPop
  <2>2. held'[t] = Head(queue) /\ Head(queue) \in Frame
    BY <1>6 DEF DrainPop, DrainDone, IInv, Shapes
  <2>3. held'[t] # None
    BY <2>2, NoneAssumption
  <2>4. Handled' = Head(queue)
    <3>1. \A u \in Thread : held'[u] # None => u = t
      BY <2>3 DEF IInv, Position, Exclusion, Draining
    <3>2. t \in Holding' /\ \A u \in Holding' : u = t
      BY <3>1, <2>3 DEF Holding
    <3>3. QED
      BY <3>2, <2>2 DEF Handled
  <2>5. QED
    BY <1>6, <2>1, <2>4 DEF Delivery!Take, DrainPop, DrainDone
<1>7. ASSUME NEW t \in Thread, Deliver(t)
      PROVE  Delivery!Finish \/ UNCHANGED Delivery!vars
  <2>1. CASE up[held[t].link]
    BY <1>0, <1>7, <2>1 DEF Deliver
  <2>2. CASE ~up[held[t].link]
    <3>1. held[t] # None /\ Handled = held[t]
      BY <1>7, HandledIs DEF Deliver, IInv, Position
    <3>2. \A u \in Thread : held'[u] = None
      <4>1. held' = [held EXCEPT ![t] = None]
        BY <1>7, <2>2 DEF Deliver
      <4>2. \A u \in Thread : u # t => held[u] = None
        BY <3>1 DEF IInv, Position, Exclusion, Draining
      <4>3. QED
        BY <4>1, <4>2 DEF IInv, Shapes
    <3>3. Handled' = None
      BY <3>2 DEF Handled, Holding
    <3>4. QED
      BY <1>7, <3>1, <3>3 DEF Delivery!Finish, Deliver
  <2>3. QED
    BY <2>1, <2>2
<1>8. ASSUME NEW t \in Thread, HandlerReturn(t)
      PROVE  Delivery!Finish
  <2>1. held[t] # None /\ Handled = held[t]
    BY <1>8, HandledIs DEF HandlerReturn, InHandler, IInv, Position, Shapes
  <2>2. \A u \in Thread : held'[u] = None
    BY <1>8 DEF HandlerReturn, IInv, Position, Exclusion, Draining, Shapes
  <2>3. Handled' = None
    BY <2>2 DEF Handled, Holding
  <2>4. QED
    BY <1>8, <2>1, <2>3 DEF Delivery!Finish, HandlerReturn
<1>9. CASE Close
  BY <1>0, <1>9 DEF Close, Delivery!Close
<1>10. ASSUME NEW l \in Link, SetUp(l)
       PROVE  UNCHANGED Delivery!vars
  BY <1>0, <1>10 DEF SetUp
<1>11. QED
  BY <1>1, <1>2, <1>3, <1>4, <1>5, <1>6, <1>7, <1>8, <1>9, <1>10 DEF Next, Step

\* The transport delivers like the FIFO of FrameDelivery: accepted frames are
\* handled in the order of acceptance, one at a time, at most once, and only
\* Close discards any.
THEOREM Refines == Spec => ImplementsDelivery
<1>1. Init => Delivery!Init
  BY NothingHandled DEF Init, Delivery!Init
<1>2. QED
  BY <1>1, RefinesStep, Inductive, PTL DEF Spec, ImplementsDelivery, Delivery!Spec
==============================================================================
