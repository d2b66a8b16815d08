---------------------------- MODULE FrameDelivery ----------------------------
(****************************************************************************)
(* What the in-memory frame transport promises its callers, without its     *)
(* threads, its lock or its draining flag: accepted frames are taken in the *)
(* order they were accepted, one at a time, each at most once, and the only *)
(* way to lose an accepted frame is to close the transport.                 *)
(* MemoryTransport implements this specification.                           *)
(****************************************************************************)
EXTENDS Naturals, Sequences

CONSTANTS Frame,   \* the frames that may be sent
          None     \* "no frame is being handled"

VARIABLES backlog,   \* frames accepted and not yet taken, oldest first
          current,   \* the frame being handled, or None
          closed     \* the transport accepts nothing any more

vars == <<backlog, current, closed>>

Init ==
  /\ backlog = << >>
  /\ current = None
  /\ closed = FALSE

Accept(f) ==
  /\ ~closed
  /\ backlog' = Append(backlog, f)
  /\ UNCHANGED <<current, closed>>

Take ==
  /\ backlog # << >>
  /\ current = None
  /\ current' = Head(backlog)
  /\ backlog' = Tail(backlog)
  /\ UNCHANGED closed

Finish ==
  /\ current # None
  /\ current' = None
  /\ UNCHANGED <<backlog, closed>>

Close ==
  /\ closed' = TRUE
  /\ backlog' = << >>
  /\ UNCHANGED current

Next ==
  \/ \E f \in Frame : Accept(f)
  \/ Take
  \/ Finish
  \/ Close

Spec == Init /\ [][Next]_vars

\* Every accepted frame is eventually taken or thrown away by Close.
FairSpec == Spec /\ WF_vars(Take) /\ WF_vars(Finish)
==============================================================================
