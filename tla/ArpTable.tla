------------------------------ MODULE ArpTable -------------------------------
(****************************************************************************)
(* The ARP table of one node and the packets that wait in it for a next     *)
(* hop's MAC address.  Goroutines change the table under its lock and do    *)
(* what follows from the change (send a request, release or fail packets)   *)
(* after unlocking, one call at a time:                                     *)
(*   senders   hand packets down to layer 2, by the host's own traffic or   *)
(*             by forwarding                                                *)
(*   "rx"      handles received ARP messages; the transport's drain loop    *)
(*             runs one handler at a time.  It may run on the stack of a    *)
(*             goroutine that is sending a request, which then waits: one   *)
(*             of the interleavings below                                   *)
(*   "maint"   the node's ARP maintenance goroutine                         *)
(*                                                                          *)
(* A table has at most one entry per address, so it is a function.  Times   *)
(* are counted in retry intervals.                                          *)
(*                                                                          *)
(*   entry: [complete, mac, pending, requests, age, idle], or None          *)
(*   call:  [do, ip, pkt, mac], what a goroutine still has to do            *)
(****************************************************************************)
EXTENDS Naturals, SequencesExt, FiniteSets

CONSTANTS Sender,         \* goroutines that hand packets down
          Ip,             \* next-hop addresses
          Mac,            \* MAC addresses
          Packet,         \* the packets of a behaviour
          MaxAttempts,    \* ARP_REQUEST_MAX_ATTEMPTS
          EntryTimeout,   \* ARP_ENTRY_TIMEOUT in retry intervals
          None            \* no entry, no MAC, no packet

\* ARP_PENDING_TIMEOUT, in retry intervals.
PendingTimeout == MaxAttempts

EntryWith(complete, macs) ==
  [complete : {complete}, mac : macs, pending : Seq(Packet), requests : 0 .. MaxAttempts,
   age : 0 .. PendingTimeout, idle : 0 .. EntryTimeout + 1]

Entry == EntryWith(TRUE, Mac) \cup EntryWith(FALSE, {None})

ASSUME ArpAssumption ==
  /\ IsFiniteSet(Ip)
  /\ {"rx", "maint"} \cap Sender = {}
  /\ MaxAttempts \in Nat \ {0} /\ EntryTimeout \in Nat \ {0}
  /\ None \notin Mac \cup Packet \cup Entry

VARIABLES table,    \* table[ip]: the entry for ip, or None
          fresh,    \* packets that were not handed down yet
          todo,     \* todo[g]: the calls goroutine g has yet to make
          sent,     \* sent[p]: how often packet p was given to send_frame
          failed    \* failed[p]: how often p was reported as dropped

vars == <<table, fresh, todo, sent, failed>>

Goroutine == Sender \cup {"rx", "maint"}

Init ==
  /\ table = [ip \in Ip |-> None]
  /\ fresh = Packet
  /\ todo = [g \in Goroutine |-> << >>]
  /\ sent = [p \in Packet |-> 0]
  /\ failed = [p \in Packet |-> 0]

------------------------------------------------------------------------------
Known == {ip \in Ip : table[ip] # None}
Complete == {ip \in Known : table[ip].complete}
Incomplete == Known \ Complete

Call(do, ip, pkt, mac) == [do |-> do, ip |-> ip, pkt |-> pkt, mac |-> mac]

Incompletely(p) ==
  [complete |-> FALSE, mac |-> None, pending |-> <<p>>, requests |-> 1, age |-> 0, idle |-> 0]

Learned(mac) ==
  [complete |-> TRUE, mac |-> mac, pending |-> << >>, requests |-> 0, age |-> 0, idle |-> 0]

\* arp_table_resolve_or_queue, called when packet p is to go to ip.  A complete
\* entry yields a MAC to send to; otherwise the packet waits in the entry, and
\* the caller that created the entry sends the first request.
ResolveOrQueue(g, p, ip) ==
  /\ todo[g] = << >>
  /\ p \in fresh
  /\ fresh' = fresh \ {p}
  /\ \/ /\ ip \in Complete
        /\ todo' = [todo EXCEPT ![g] = <<Call("send", ip, p, table[ip].mac)>>]
        /\ UNCHANGED table
     \/ /\ ip \in Incomplete
        /\ table' = [table EXCEPT ![ip].pending = <<p>> \o @]
        /\ UNCHANGED todo
     \/ /\ ip \notin Known
        /\ table' = [table EXCEPT ![ip] = Incompletely(p)]
        /\ todo' = [todo EXCEPT ![g] = <<Call("request", ip, None, None)>>]
  /\ UNCHANGED <<sent, failed>>

\* The entry after a binding was learned; its packets are the caller's now.
KeepsQueue(entry, mac) ==   \* faulty variant: the packets also stay queued
  [entry EXCEPT !.complete = TRUE, !.mac = mac, !.idle = 0]

ForgetsMac(entry, mac) ==   \* faulty variant: the entry keeps its old MAC
  [entry EXCEPT !.complete = TRUE, !.idle = 0, !.pending = << >>]

Resolved(entry, mac) ==
  [entry EXCEPT !.complete = TRUE, !.mac = mac, !.idle = 0, !.pending = << >>]

Releases(ip) ==
  [i \in DOMAIN table[ip].pending |-> Call("release", ip, table[ip].pending[i], None)]

\* arp_learn_binding: the sender of an ARP message is at mac.  A message that
\* was not for this node (existingOnly) adds no entry.
LearnBinding(ip, mac, existingOnly) ==
  /\ todo["rx"] = << >>
  /\ \/ /\ ip \in Known
        /\ table' = [table EXCEPT ![ip] = Resolved(@, mac)]
        /\ todo' = [todo EXCEPT !["rx"] = Releases(ip)]
     \/ /\ ip \notin Known
        /\ ~existingOnly
        /\ table' = [table EXCEPT ![ip] = Learned(mac)]
        /\ UNCHANGED todo
  /\ UNCHANGED <<fresh, sent, failed>>

------------------------------------------------------------------------------
(* collect_arp_pending_actions and arp_table_cleanup_expired.                *)
TimedOut == {ip \in Incomplete : table[ip].age >= PendingTimeout}

\* Entries whose request is to be repeated.
RetryDue ==
  {ip \in Incomplete \ TimedOut : table[ip].requests < MaxAttempts /\ table[ip].idle >= 1}

Retries(ips) ==
  LET order == SetToSeq(ips) IN [i \in DOMAIN order |-> Call("request", order[i], None, None)]

Failures(ips) ==
  FlattenSeq([i \in 1 .. Cardinality(ips) |->
     LET ip == SetToSeq(ips)[i]
     IN [j \in DOMAIN table[ip].pending |-> Call("fail", ip, table[ip].pending[j], None)]])

\* maintain_arp_pending_entries: repeat requests, give up on old entries.
MaintainPending ==
  /\ todo["maint"] = << >>
  /\ TimedOut \cup RetryDue # {}
  /\ table' = [ip \in Ip |->
       CASE ip \in TimedOut -> None
         [] ip \in RetryDue -> [table[ip] EXCEPT !.requests = @ + 1, !.idle = 0]
         [] OTHER -> table[ip]]
  /\ todo' = [todo EXCEPT !["maint"] = Retries(RetryDue) \o Failures(TimedOut)]
  /\ UNCHANGED <<fresh, sent, failed>>

\* The entries arp_table_cleanup_expired removes.
AnyOldEntry == {ip \in Known : table[ip].idle >= 1}   \* faulty variant

Expired == {ip \in Complete : table[ip].idle > EntryTimeout}

CleanupExpired ==
  /\ todo["maint"] = << >>
  /\ Expired # {}
  /\ table' = [ip \in Ip |-> IF ip \in Expired THEN None ELSE table[ip]]
  /\ UNCHANGED <<fresh, todo, sent, failed>>

------------------------------------------------------------------------------
(* The calls made after unlocking.                                           *)
Calls(g, do) == todo[g] # << >> /\ Head(todo[g]).do = do

Made(g) == todo' = [todo EXCEPT ![g] = Tail(@)]

\* send_arp_broadcast_request.
Request(g) ==
  /\ Calls(g, "request")
  /\ Made(g)
  /\ UNCHANGED <<table, fresh, sent, failed>>

\* The packet is sent to the MAC the table had for it.
SendResolved(g) ==
  /\ Calls(g, "send")
  /\ Made(g)
  /\ sent' = [sent EXCEPT ![Head(todo[g]).pkt] = @ + 1]
  /\ UNCHANGED <<table, fresh, failed>>

\* The callback of a queued packet looks the address up again, and quietly
\* returns when the table does not have it any more.
Release(g) ==
  /\ Calls(g, "release")
  /\ Made(g)
  /\ sent' = IF Head(todo[g]).ip \in Complete
             THEN [sent EXCEPT ![Head(todo[g]).pkt] = @ + 1]
             ELSE sent
  /\ UNCHANGED <<table, fresh, failed>>

\* The failure callback reports the packet as dropped.
Fail(g) ==
  /\ Calls(g, "fail")
  /\ Made(g)
  /\ failed' = [failed EXCEPT ![Head(todo[g]).pkt] = @ + 1]
  /\ UNCHANGED <<table, fresh, sent>>

Step(g) == Request(g) \/ SendResolved(g) \/ Release(g) \/ Fail(g)

------------------------------------------------------------------------------
Older(entry) ==
  [entry EXCEPT !.age = IF @ < PendingTimeout THEN @ + 1 ELSE @,
                !.idle = IF @ <= EntryTimeout THEN @ + 1 ELSE @]

\* A retry interval passes.  The maintenance ticker fires ten times in one, so
\* nothing is left for it to do; and packets are released well before the
\* entry they belong to, which was just completed, can expire.
Tick ==
  /\ todo["maint"] = << >>
  /\ TimedOut \cup RetryDue = {}
  /\ \A i \in DOMAIN todo["rx"] :
       todo["rx"][i].ip \in Known => table[todo["rx"][i].ip].idle < EntryTimeout
  /\ table' = [ip \in Ip |-> IF ip \in Known THEN Older(table[ip]) ELSE None]
  /\ UNCHANGED <<fresh, todo, sent, failed>>

Next ==
  \/ \E g \in Sender, p \in Packet, ip \in Ip : ResolveOrQueue(g, p, ip)
  \/ \E ip \in Ip, mac \in Mac, existingOnly \in BOOLEAN : LearnBinding(ip, mac, existingOnly)
  \/ MaintainPending
  \/ CleanupExpired
  \/ \E g \in Goroutine : Step(g)
  \/ Tick

Spec == Init /\ [][Next]_vars

\* Goroutines make the calls they are about to make, the maintenance goroutine
\* runs and time passes.  Nobody has to send packets or to answer requests.
FairSpec ==
  /\ Spec
  /\ \A g \in Goroutine : WF_vars(Step(g))
  /\ WF_vars(MaintainPending)
  /\ WF_vars(Tick)
------------------------------------------------------------------------------
CallRecord ==
  [do : {"send", "request", "release", "fail"}, ip : Ip,
   pkt : Packet \cup {None}, mac : Mac \cup {None}]

\* Every variable has its type: a complete entry has a MAC, and no entry counts
\* more requests than ARP_REQUEST_MAX_ATTEMPTS.
TypeOK ==
  /\ table \in [Ip -> Entry \cup {None}]
  /\ fresh \subseteq Packet
  /\ todo \in [Goroutine -> Seq(CallRecord)]
  /\ sent \in [Packet -> Nat]
  /\ failed \in [Packet -> Nat]

Queued(p) ==
  Cardinality(UNION {{<<ip, i>> : i \in {j \in DOMAIN table[ip].pending :
                                          table[ip].pending[j] = p}} : ip \in Known})

Taken(p) ==
  Cardinality(UNION {{<<g, i>> : i \in {j \in DOMAIN todo[g] : todo[g][j].pkt = p}}
                       : g \in Goroutine})

\* A packet handed down is in exactly one place: waiting in one entry, taken by
\* one goroutine that will release or fail it, sent, or reported as dropped.
\* arp_learn_binding takes "the queued packets before unlocking so they are
\* sent exactly once", and collect_arp_pending_actions unlinks what it fails;
\* no interleaving of the two, of senders and of time loses or repeats one.
ExactlyOnce ==
  \A p \in Packet :
    (IF p \in fresh THEN 1 ELSE 0) + Queued(p) + Taken(p) + sent[p] + failed[p] = 1

\* An entry without a MAC is there because packets wait in it and a request
\* was counted for it; an entry with a MAC has no packet waiting.  A packet in
\* a complete entry would wait for ever, as maintenance passes it over.
Attended ==
  /\ \A ip \in Incomplete : table[ip].pending # << >> /\ table[ip].requests >= 1
  /\ \A ip \in Complete : table[ip].pending = << >>

\* "Send one request immediately, retry twice, and then fail the queued
\* packets": an incomplete entry is only given up, or dropped for any other
\* reason, after every attempt was made, and its packets are then failed by
\* the goroutine that removed it.
GivesUpLast ==
  [][\A ip \in Incomplete : table'[ip] = None =>
       /\ table[ip].requests = MaxAttempts
       /\ \A i \in DOMAIN table[ip].pending :
            \E j \in DOMAIN todo'["maint"] :
              todo'["maint"][j] = Call("fail", ip, table[ip].pending[i], None)]_vars

\* Every packet handed down is sent or reported as dropped in the end, whether
\* or not anybody answers, and whatever else is learned or expires meanwhile.
Settled ==
  \A p \in Packet : p \notin fresh ~> sent[p] + failed[p] > 0
==============================================================================
