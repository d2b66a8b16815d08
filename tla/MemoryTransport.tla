--------------------------- MODULE MemoryTransport ---------------------------
(****************************************************************************)
(* The in-memory frame transport.  One FIFO queue is shared by every        *)
(* interface of the network.  The first goroutine whose Send finds nobody   *)
(* draining becomes the drainer: it delivers frames, running the receiving  *)
(* node's handlers on its own stack, until the queue is empty.  Handlers    *)
(* send frames too; such a nested Send, and the Send of any other           *)
(* goroutine, only appends to the queue.                                    *)
(*                                                                          *)
(* A goroutine is described by where it stands and by how many drain loops  *)
(* are on its stack:                                                        *)
(*   at = "run"    running its caller's code (depth 0) or a handler         *)
(*   at = "send"   inside Send, past the peer and link checks, before mu    *)
(*   at = "loop"   at the top of the drain loop of Send                     *)
(*   at = "popped" holding a frame it popped, before the delivery check     *)
(****************************************************************************)
EXTENDS Naturals, Sequences

CONSTANTS Thread,      \* goroutines that may call Send
          Link,        \* the point-to-point links
          MaxFrames,   \* bound on the frames sent in a behaviour
          None         \* "holds no frame"

ASSUME MaxFramesAssumption == MaxFrames \in Nat

\* A queued frame: which one it is, and the link of its receiving interface.
Frame == [id : 1 .. MaxFrames, link : Link]

ASSUME NoneAssumption == None \notin Frame

VARIABLES queue,      \* MemoryTransport.queue
          draining,   \* MemoryTransport.draining
          closed,     \* MemoryTransport.closed
          up,         \* up[l]: Link.up, the administrative state of a link
          at,         \* at[t]: where goroutine t stands
          depth,      \* depth[t]: drain loops on the stack of t
          out,        \* out[t]: the frame t is sending, or None
          held,       \* held[t]: the frame t is delivering, or None
          issued      \* number of frames sent so far; names the frames

vars == <<queue, draining, closed, up, at, depth, out, held, issued>>

Init ==
  /\ queue = << >>
  /\ draining = FALSE
  /\ closed = FALSE
  /\ up = [l \in Link |-> TRUE]
  /\ at = [t \in Thread |-> "run"]
  /\ depth = [t \in Thread |-> 0]
  /\ out = [t \in Thread |-> None]
  /\ held = [t \in Thread |-> None]
  /\ issued = 0

------------------------------------------------------------------------------
\* Goroutine t runs a handler called from its drain loop.
InHandler(t) == at[t] = "run" /\ depth[t] > 0

\* Send sees a drain in progress.
NeverSeesDrain == FALSE   \* faulty variant: the flag is not looked at

SeesDrain == draining

\* The queue with one more frame.
JumpQueue(f) == <<f>> \o queue   \* faulty variant: newest first

Enqueue(f) == Append(queue, f)

\* The drain loop's exit condition.
LastOneIsDone == Len(queue) <= 1   \* faulty variant: off by one

DrainDone == queue = << >>

\* Send passes the peer and link checks, which it makes without the lock.  A
\* Send that fails one of them returns an error and changes nothing.
BeginSend(t, l) ==
  /\ at[t] = "run"
  /\ up[l]
  /\ issued < MaxFrames
  /\ issued' = issued + 1
  /\ out' = [out EXCEPT ![t] = [id |-> issued + 1, link |-> l]]
  /\ at' = [at EXCEPT ![t] = "send"]
  /\ UNCHANGED <<queue, draining, closed, up, depth, held>>

\* Send finds the transport closed and returns an error.
SendClosed(t) ==
  /\ at[t] = "send"
  /\ closed
  /\ out' = [out EXCEPT ![t] = None]
  /\ at' = [at EXCEPT ![t] = "run"]
  /\ UNCHANGED <<queue, draining, closed, up, depth, held, issued>>

\* Send appends its frame.  If a drain is running it returns nil at once,
\* otherwise it becomes the drainer.
SendAccepted(t) ==
  /\ at[t] = "send"
  /\ ~closed
  /\ queue' = Enqueue(out[t])
  /\ out' = [out EXCEPT ![t] = None]
  /\ \/ /\ SeesDrain
        /\ at' = [at EXCEPT ![t] = "run"]
        /\ UNCHANGED <<draining, depth>>
     \/ /\ ~SeesDrain
        /\ draining' = TRUE
        /\ at' = [at EXCEPT ![t] = "loop"]
        /\ depth' = [depth EXCEPT ![t] = @ + 1]
  /\ UNCHANGED <<closed, up, held, issued>>

\* The drainer finds the queue empty: the drain is over and Send returns nil.
DrainEmpty(t) ==
  /\ at[t] = "loop"
  /\ DrainDone
  /\ draining' = FALSE
  /\ at' = [at EXCEPT ![t] = "run"]
  /\ depth' = [depth EXCEPT ![t] = @ - 1]
  /\ UNCHANGED <<queue, closed, up, out, held, issued>>

\* The drainer pops the oldest frame and releases the lock.
DrainPop(t) ==
  /\ at[t] = "loop"
  /\ ~DrainDone
  /\ held' = [held EXCEPT ![t] = Head(queue)]
  /\ queue' = Tail(queue)
  /\ at' = [at EXCEPT ![t] = "popped"]
  /\ UNCHANGED <<draining, closed, up, depth, out, issued>>

\* deliverTransportFrame: a frame whose link went down meanwhile is dropped,
\* any other is handed to the receiving node, whose handlers run.
Deliver(t) ==
  /\ at[t] = "popped"
  /\ \/ /\ up[held[t].link]
        /\ at' = [at EXCEPT ![t] = "run"]
        /\ UNCHANGED held
     \/ /\ ~up[held[t].link]
        /\ at' = [at EXCEPT ![t] = "loop"]
        /\ held' = [held EXCEPT ![t] = None]
  /\ UNCHANGED <<queue, draining, closed, up, depth, out, issued>>

\* The handlers return to the drain loop.
HandlerReturn(t) ==
  /\ InHandler(t)
  /\ at' = [at EXCEPT ![t] = "loop"]
  /\ held' = [held EXCEPT ![t] = None]
  /\ UNCHANGED <<queue, draining, closed, up, depth, out, issued>>

\* Close, by whichever goroutine tears the network down.
Close ==
  /\ closed' = TRUE
  /\ queue' = << >>
  /\ UNCHANGED <<draining, up, at, depth, out, held, issued>>

\* Link.SetUp, by a foreground operation.
SetUp(l) ==
  /\ up' = [up EXCEPT ![l] = ~@]
  /\ UNCHANGED <<queue, draining, closed, at, depth, out, held, issued>>

\* What a goroutine inside Send does next, whatever the other ones do.
Step(t) ==
  \/ SendClosed(t)
  \/ SendAccepted(t)
  \/ DrainEmpty(t)
  \/ DrainPop(t)
  \/ Deliver(t)
  \/ HandlerReturn(t)

Next ==
  \/ \E t \in Thread, l \in Link : BeginSend(t, l)
  \/ \E t \in Thread : Step(t)
  \/ Close
  \/ \E l \in Link : SetUp(l)

Spec == Init /\ [][Next]_vars

\* Goroutines inside Send are scheduled, and handlers return.  Nobody has to
\* send, to close the transport or to change a link.
FairSpec == Spec /\ \A t \in Thread : WF_vars(Step(t))

------------------------------------------------------------------------------
\* Type invariant of the transport's state and of the goroutines' positions.
TypeOK ==
  /\ queue \in Seq(Frame)
  /\ draining \in BOOLEAN
  /\ closed \in BOOLEAN
  /\ up \in [Link -> BOOLEAN]
  /\ at \in [Thread -> {"run", "send", "loop", "popped"}]
  /\ depth \in [Thread -> Nat]
  /\ out \in [Thread -> Frame \cup {None}]
  /\ held \in [Thread -> Frame \cup {None}]
  /\ issued \in 0 .. MaxFrames

Draining(t) == depth[t] > 0

\* At most one goroutine drains, and it runs a single drain loop: a Send made
\* by a handler, or by another goroutine, never starts a second drain on top
\* of or beside the first, so handlers of two frames never run at once and
\* the depth of the stack does not grow with the length of an exchange.
OneDrainLoop ==
  /\ \A t \in Thread : depth[t] <= 1
  /\ \A t, u \in Thread : Draining(t) /\ Draining(u) => t = u

\* A queued frame always has a goroutine that will deliver it.  The drainer
\* clears draining and leaves in the same critical section in which it sees
\* the queue empty, so no Send can enqueue behind its back and go away.
NothingStranded ==
  queue # << >> => \E t \in Thread : Draining(t)

\* The two facts about one frame that make the transport a point-to-point
\* FIFO: see FrameDelivery.
Holding == {t \in Thread : held[t] # None}

Handled == IF Holding = {} THEN None ELSE held[CHOOSE t \in Holding : TRUE]

Delivery == INSTANCE FrameDelivery WITH backlog <- queue, current <- Handled

\* MemoryTransport implements FrameDelivery: frames are taken in the order in
\* which Send accepted them, one at a time, never twice, and none is lost
\* except by Close.
ImplementsDelivery == Delivery!Spec

\* ... and, the goroutines being scheduled, each of them is taken eventually.
ImplementsFairDelivery == Delivery!FairSpec
==============================================================================
