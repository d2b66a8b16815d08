--------------------------- MODULE ArpTable_proofs ---------------------------
(****************************************************************************)
(* Theorems about ArpTable, for any senders, addresses, packets, number of  *)
(* attempts and timeout.                                                    *)
(****************************************************************************)
EXTENDS ArpTable, SequenceLemmas

------------------------------------------------------------------------------
(* Types.                                                                    *)

LEMMA EntryFields ==
  ASSUME NEW e \in Entry
  PROVE  /\ e # None
         /\ DOMAIN e = {"complete", "mac", "pending", "requests", "age", "idle"}
         /\ e.complete \in BOOLEAN /\ e.mac \in Mac \cup {None} /\ e.pending \in Seq(Packet)
         /\ e.requests \in 0 .. MaxAttempts /\ e.age \in 0 .. PendingTimeout
         /\ e.idle \in 0 .. EntryTimeout + 1
         /\ e.complete => e.mac \in Mac
         /\ ~e.complete => e.mac = None
BY ArpAssumption DEF Entry, EntryWith

\* Two ways to become an entry again.
LEMMA EntryFrom ==
  ASSUME NEW e,
         DOMAIN e = {"complete", "mac", "pending", "requests", "age", "idle"},
         e = [complete |-> e.complete, mac |-> e.mac, pending |-> e.pending,
              requests |-> e.requests, age |-> e.age, idle |-> e.idle],
         e.complete \in BOOLEAN, e.pending \in Seq(Packet),
         e.requests \in 0 .. MaxAttempts, e.age \in 0 .. PendingTimeout,
         e.idle \in 0 .. EntryTimeout + 1,
         e.complete => e.mac \in Mac,
         ~e.complete => e.mac = None
  PROVE  e \in Entry
BY DEF Entry, EntryWith

\* What the actions do to an entry.
LEMMA IncompletelyType ==
  ASSUME NEW p \in Packet
  PROVE  Incompletely(p) \in Entry
<1>1. <<p>> \in Seq(Packet) /\ 1 \in 0 .. MaxAttempts /\ 0 \in 0 .. PendingTimeout
      /\ 0 \in 0 .. EntryTimeout + 1
  BY ArpAssumption DEF PendingTimeout
<1>2. QED
  BY <1>1 DEF Incompletely, Entry, EntryWith

LEMMA LearnedType ==
  ASSUME NEW mac \in Mac
  PROVE  Learned(mac) \in Entry
<1>1. << >> \in Seq(Packet) /\ 0 \in 0 .. MaxAttempts /\ 0 \in 0 .. PendingTimeout
      /\ 0 \in 0 .. EntryTimeout + 1
  BY ArpAssumption DEF PendingTimeout
<1>2. QED
  BY <1>1 DEF Learned, Entry, EntryWith

LEMMA QueuedType ==
  ASSUME NEW e \in Entry, NEW p \in Packet, NEW f, f = [e EXCEPT !.pending = <<p>> \o @]
  PROVE  /\ f \in Entry /\ f.pending = <<p>> \o e.pending
         /\ f.complete = e.complete /\ f.requests = e.requests
         /\ f.age = e.age /\ f.idle = e.idle
<1>1. DOMAIN e = {"complete", "mac", "pending", "requests", "age", "idle"}
  BY EntryFields
<1>2. f.pending = <<p>> \o e.pending /\ f.complete = e.complete /\ f.mac = e.mac
      /\ f.requests = e.requests /\ f.age = e.age /\ f.idle = e.idle
  BY <1>1
<1>3. <<p>> \o e.pending \in Seq(Packet)
  BY EntryFields, ConcatProperties
<1>4. f = [complete |-> f.complete, mac |-> f.mac, pending |-> f.pending,
           requests |-> f.requests, age |-> f.age, idle |-> f.idle]
  BY <1>1
<1>5. QED
  BY <1>1, <1>2, <1>3, <1>4, EntryFields, EntryFrom

LEMMA ResolvedType ==
  ASSUME NEW e \in Entry, NEW mac \in Mac, NEW f, f = Resolved(e, mac)
  PROVE  f \in Entry /\ f.complete /\ f.pending = << >> /\ f.idle = 0
<1>1. DOMAIN e = {"complete", "mac", "pending", "requests", "age", "idle"}
  BY EntryFields
<1>2. f.pending = << >> /\ f.complete = TRUE /\ f.mac = mac
      /\ f.requests = e.requests /\ f.age = e.age /\ f.idle = 0
  BY <1>1 DEF Resolved
<1>3. << >> \in Seq(Packet) /\ 0 \in 0 .. EntryTimeout + 1
  BY ArpAssumption
<1>4. f = [complete |-> f.complete, mac |-> f.mac, pending |-> f.pending,
           requests |-> f.requests, age |-> f.age, idle |-> f.idle]
  BY <1>1 DEF Resolved
<1>5. QED
  BY <1>1, <1>2, <1>3, <1>4, EntryFields, EntryFrom

LEMMA RetriedType ==
  ASSUME NEW e \in Entry, e.requests < MaxAttempts,
         NEW f, f = [e EXCEPT !.requests = @ + 1, !.idle = 0]
  PROVE  /\ f \in Entry /\ f.pending = e.pending /\ f.complete = e.complete
         /\ f.requests = e.requests + 1 /\ f.age = e.age /\ f.idle = 0
<1>1. DOMAIN e = {"complete", "mac", "pending", "requests", "age", "idle"}
  BY EntryFields
<1>2. f.pending = e.pending /\ f.complete = e.complete /\ f.mac = e.mac
      /\ f.requests = e.requests + 1 /\ f.age = e.age /\ f.idle = 0
  BY <1>1
<1>3. e.requests + 1 \in 0 .. MaxAttempts /\ 0 \in 0 .. EntryTimeout + 1
  BY ArpAssumption, EntryFields
<1>4. f = [complete |-> f.complete, mac |-> f.mac, pending |-> f.pending,
           requests |-> f.requests, age |-> f.age, idle |-> f.idle]
  BY <1>1
<1>5. QED
  BY <1>1, <1>2, <1>3, <1>4, EntryFields, EntryFrom

LEMMA OlderType ==
  ASSUME NEW e \in Entry, NEW f, f = Older(e)
  PROVE  /\ f \in Entry /\ f.pending = e.pending /\ f.complete = e.complete
         /\ f.requests = e.requests
         /\ f.age = IF e.age < PendingTimeout THEN e.age + 1 ELSE e.age
         /\ f.idle = IF e.idle <= EntryTimeout THEN e.idle + 1 ELSE e.idle
<1>1. DOMAIN e = {"complete", "mac", "pending", "requests", "age", "idle"}
  BY EntryFields
<1>2. f.pending = e.pending /\ f.complete = e.complete /\ f.mac = e.mac
      /\ f.requests = e.requests
      /\ f.age = (IF e.age < PendingTimeout THEN e.age + 1 ELSE e.age)
      /\ f.idle = IF e.idle <= EntryTimeout THEN e.idle + 1 ELSE e.idle
  BY <1>1 DEF Older
<1>3. f.age \in 0 .. PendingTimeout /\ f.idle \in 0 .. EntryTimeout + 1
  BY <1>2, ArpAssumption, EntryFields DEF PendingTimeout
<1>4. f = [complete |-> f.complete, mac |-> f.mac, pending |-> f.pending,
           requests |-> f.requests, age |-> f.age, idle |-> f.idle]
  BY <1>1 DEF Older
<1>5. QED
  BY <1>1, <1>2, <1>3, <1>4, EntryFields, EntryFrom
------------------------------------------------------------------------------
(* The table: its types, and the pace of retries.                            *)

\* A complete entry has no packets waiting.  An incomplete one has, and a
\* request is counted for it as soon as one retry interval passed: it is never
\* older than its requests allow, and times out after the last.
EntryOK(e) ==
  /\ e \in Entry
  /\ e.complete => e.pending = << >>
  /\ ~e.complete =>
       /\ e.pending # << >> /\ e.requests >= 1
       /\ \/ e.requests = MaxAttempts
          \/ e.idle \in {0, 1} /\ e.age = e.requests - 1 + e.idle

EntriesOK == \A ip \in Ip : table[ip] # None => EntryOK(table[ip])

\* Only requests are about no packet.  Packets are released by the handler of
\* received messages, while the entry they belong to is complete and in use.
CallsReady ==
  \A g \in Goroutine : \A i \in 1 .. Len(todo[g]) :
    /\ todo[g][i].do = "request" <=> todo[g][i].pkt = None
    /\ todo[g][i].do = "release" =>
         /\ g = "rx"
         /\ todo[g][i].ip \in Complete
         /\ table[todo[g][i].ip].idle <= EntryTimeout

TableInv == TypeOK /\ EntriesOK /\ CallsReady

------------------------------------------------------------------------------
(* The packets: ExactlyOnce in terms of the places a packet can be at.       *)

Pending(ip) == IF ip \in Known THEN table[ip].pending ELSE << >>

\* Handed down, and neither sent nor reported as dropped.
Underway(p) == p \notin fresh /\ sent[p] = 0 /\ failed[p] = 0

QueuedOnce ==
  \A a, b \in Ip : \A i \in 1 .. Len(Pending(a)), j \in 1 .. Len(Pending(b)) :
    Pending(a)[i] = Pending(b)[j] => a = b /\ i = j

TakenOnce ==
  \A g, h \in Goroutine : \A i \in 1 .. Len(todo[g]), j \in 1 .. Len(todo[h]) :
    todo[g][i].pkt = todo[h][j].pkt /\ todo[g][i].pkt # None => g = h /\ i = j

NeverBoth ==
  \A ip \in Ip, g \in Goroutine : \A i \in 1 .. Len(Pending(ip)), j \in 1 .. Len(todo[g]) :
    Pending(ip)[i] # todo[g][j].pkt

AllUnderway ==
  /\ \A ip \in Ip : \A i \in 1 .. Len(Pending(ip)) : Underway(Pending(ip)[i])
  /\ \A g \in Goroutine : \A i \in 1 .. Len(todo[g]) :
       todo[g][i].pkt # None => Underway(todo[g][i].pkt)

Waits(p) == \E ip \in Ip : \E i \in 1 .. Len(Pending(ip)) : Pending(ip)[i] = p

Held(p) == \E g \in Goroutine : \E i \in 1 .. Len(todo[g]) : todo[g][i].pkt = p

Accounted ==
  \A p \in Packet :
    /\ p \in fresh => sent[p] = 0 /\ failed[p] = 0
    /\ p \in fresh \/ Waits(p) \/ Held(p) \/ sent[p] + failed[p] = 1

PlaceInv == QueuedOnce /\ TakenOnce /\ NeverBoth /\ AllUnderway /\ Accounted
------------------------------------------------------------------------------
(* The calls a goroutine takes over.                                         *)

LEMMA CallType ==
  ASSUME NEW do \in {"send", "request", "release", "fail"}, NEW ip \in Ip,
         NEW pkt \in Packet \cup {None}, NEW mac \in Mac \cup {None}
  PROVE  /\ Call(do, ip, pkt, mac) \in CallRecord
         /\ Call(do, ip, pkt, mac).do = do /\ Call(do, ip, pkt, mac).ip = ip
         /\ Call(do, ip, pkt, mac).pkt = pkt
BY DEF Call, CallRecord

LEMMA PendingType ==
  ASSUME TypeOK, NEW ip \in Ip
  PROVE  /\ Pending(ip) \in Seq(Packet) /\ Len(Pending(ip)) \in Nat
         /\ DOMAIN Pending(ip) = 1 .. Len(Pending(ip))
         /\ \A i \in 1 .. Len(Pending(ip)) : Pending(ip)[i] \in Packet /\ Pending(ip)[i] # None
         /\ ip \in Known => table[ip] \in Entry /\ Pending(ip) = table[ip].pending
<1>1. ip \in Known => table[ip] \in Entry /\ table[ip].pending \in Seq(Packet)
  BY EntryFields DEF TypeOK, Known
<1>2. Pending(ip) \in Seq(Packet)
  BY <1>1 DEF Pending
<1>3. \A i \in 1 .. Len(Pending(ip)) : Pending(ip)[i] \in Packet
  BY <1>2, ElementOfSeq
<1>4. QED
  BY <1>1, <1>2, <1>3, LenProperties, ArpAssumption DEF Pending

\* arp_learn_binding releases the packets that waited.
LEMMA ReleasesAre ==
  ASSUME TypeOK, NEW ip \in Known
  PROVE  /\ Releases(ip) \in Seq(CallRecord)
         /\ Len(Releases(ip)) = Len(Pending(ip))
         /\ \A i \in 1 .. Len(Releases(ip)) :
              /\ Releases(ip)[i].do = "release" /\ Releases(ip)[i].ip = ip
              /\ Releases(ip)[i].pkt = Pending(ip)[i]
<1>1. ip \in Ip
  BY DEF Known
<1>2. Releases(ip) = [i \in 1 .. Len(Pending(ip)) |-> Call("release", ip, Pending(ip)[i], None)]
  BY <1>1, PendingType DEF Releases
<1>3. \A i \in 1 .. Len(Pending(ip)) : Pending(ip)[i] \in Packet \cup {None}
  BY <1>1, PendingType
<1>4. ASSUME NEW i \in 1 .. Len(Pending(ip))
      PROVE  /\ Releases(ip)[i] \in CallRecord
             /\ Releases(ip)[i].do = "release" /\ Releases(ip)[i].ip = ip
             /\ Releases(ip)[i].pkt = Pending(ip)[i]
  BY <1>1, <1>2, <1>3, CallType
<1>5. Len(Pending(ip)) \in Nat
  BY <1>1, PendingType
<1>6. Releases(ip) \in Seq(CallRecord) /\ Len(Releases(ip)) = Len(Pending(ip))
  BY <1>2, <1>4, <1>5
<1>7. QED
  BY <1>4, <1>6

\* collect_arp_pending_actions repeats one request for each address.
LEMMA RetriesAre ==
  ASSUME NEW ips \in SUBSET Ip
  PROVE  /\ Retries(ips) \in Seq(CallRecord)
         /\ \A i \in 1 .. Len(Retries(ips)) :
              Retries(ips)[i].do = "request" /\ Retries(ips)[i].pkt = None
<1> DEFINE order == SetToSeq(ips)
<1>1. IsFiniteSet(ips)
  BY FS_Subset, ArpAssumption
<1>2. order \in Seq(ips) /\ Len(order) \in Nat /\ DOMAIN order = 1 .. Len(order)
  BY <1>1, SetToSeqLists, LenProperties
<1>3. Retries(ips) = [i \in 1 .. Len(order) |-> Call("request", order[i], None, None)]
  BY <1>2 DEF Retries
<1> HIDE DEF order
<1>4. ASSUME NEW i \in 1 .. Len(order)
      PROVE  /\ Retries(ips)[i] \in CallRecord
             /\ Retries(ips)[i].do = "request" /\ Retries(ips)[i].pkt = None
  <2>1. order[i] \in Ip
    BY <1>2, ElementOfSeq
  <2>2. Call("request", order[i], None, None) \in CallRecord
        /\ Call("request", order[i], None, None).do = "request"
        /\ Call("request", order[i], None, None).pkt = None
    BY <2>1, CallType
  <2>3. Retries(ips)[i] = Call("request", order[i], None, None)
    BY <1>3
  <2>4. QED
    BY <2>2, <2>3
<1>5. QED
  BY <1>2, <1>3, <1>4

\* It fails every packet of the entries given up, and each of them once.
LEMMA FailuresAre ==
  ASSUME TypeOK, NEW ips \in SUBSET Known
  PROVE  /\ Failures(ips) \in Seq(CallRecord)
         /\ \A k \in 1 .. Len(Failures(ips)) :
              \E ip \in ips : \E j \in 1 .. Len(Pending(ip)) :
                Failures(ips)[k] = Call("fail", ip, Pending(ip)[j], None)
         /\ \A ip \in ips : \A j \in 1 .. Len(Pending(ip)) :
              \E k \in 1 .. Len(Failures(ips)) :
                Failures(ips)[k] = Call("fail", ip, Pending(ip)[j], None)
         /\ QueuedOnce =>
              \A k, l \in 1 .. Len(Failures(ips)) :
                Failures(ips)[k].pkt = Failures(ips)[l].pkt => k = l
<1> DEFINE order == SetToSeq(ips)
           n == Cardinality(ips)
           calls == [i \in 1 .. n |->
                       [j \in 1 .. Len(Pending(order[i])) |->
                          Call("fail", order[i], Pending(order[i])[j], None)]]
<1>1. ips \subseteq Ip /\ IsFiniteSet(ips)
  BY FS_Subset, ArpAssumption DEF Known
<1>2. order \in Seq(ips) /\ Len(order) = n /\ n \in Nat
      /\ (\A ip \in ips : \E i \in 1 .. Len(order) : order[i] = ip)
      /\ (\A i, j \in 1 .. Len(order) : order[i] = order[j] => i = j)
  BY <1>1, SetToSeqLists, FS_CardinalityType
<1>3. ASSUME NEW i \in 1 .. n
      PROVE  order[i] \in ips
  BY <1>2, ElementOfSeq
<1>4. Failures(ips) = FlattenSeq(calls)
  <2>1. \A i \in 1 .. n : /\ Pending(order[i]) = table[order[i]].pending
                          /\ DOMAIN table[order[i]].pending = 1 .. Len(Pending(order[i]))
    BY <1>1, <1>3, PendingType
  <2>2. calls = [i \in 1 .. n |->
                   [j \in DOMAIN table[order[i]].pending |->
                      Call("fail", order[i], table[order[i]].pending[j], None)]]
    BY <2>1
  <2>3. QED
    BY <2>2 DEF Failures
<1> HIDE DEF order, n
<1>5. ASSUME NEW i \in 1 .. n
      PROVE  /\ calls[i] \in Seq(CallRecord) /\ Len(calls[i]) = Len(Pending(order[i]))
             /\ \A j \in 1 .. Len(Pending(order[i])) :
                  calls[i][j] = Call("fail", order[i], Pending(order[i])[j], None)
  <2>1. order[i] \in Ip /\ Len(Pending(order[i])) \in Nat
    BY <1>1, <1>3, PendingType
  <2>2. ASSUME NEW j \in 1 .. Len(Pending(order[i]))
        PROVE  Call("fail", order[i], Pending(order[i])[j], None) \in CallRecord
    BY <2>1, PendingType, CallType
  <2>3. calls[i] = [j \in 1 .. Len(Pending(order[i])) |->
                      Call("fail", order[i], Pending(order[i])[j], None)]
    OBVIOUS
  <2> HIDE DEF calls
  <2>4. QED
    BY <2>1, <2>2, <2>3
<1>6. calls \in Seq(Seq(CallRecord)) /\ Len(calls) = n
  <2>1. DOMAIN calls = 1 .. n /\ calls = [i \in 1 .. n |-> calls[i]]
    OBVIOUS
  <2> HIDE DEF calls
  <2>2. \A i \in 1 .. n : calls[i] \in Seq(CallRecord)
    BY <1>5
  <2>3. calls \in [1 .. n -> Seq(CallRecord)]
    BY <2>1, <2>2
  <2>4. n \in Nat
    BY <1>2
  <2>5. QED
    BY <2>3, <2>4
<1> HIDE DEF calls
<1>7. Gathers(Failures(ips), calls, n, CallRecord)
  BY <1>4, <1>6, FlattenSeqGathers
<1>8. ASSUME NEW k \in 1 .. Len(Failures(ips))
      PROVE  \E i \in 1 .. n : \E j \in 1 .. Len(Pending(order[i])) :
               Failures(ips)[k] = Call("fail", order[i], Pending(order[i])[j], None)
  <2>1. PICK i \in 1 .. n : \E j \in 1 .. Len(calls[i]) : Failures(ips)[k] = calls[i][j]
    BY <1>7 DEF Gathers
  <2>2. QED
    BY <1>5, <2>1
<1>9. ASSUME NEW ip \in ips, NEW j \in 1 .. Len(Pending(ip))
      PROVE  \E k \in 1 .. Len(Failures(ips)) :
               Failures(ips)[k] = Call("fail", ip, Pending(ip)[j], None)
  <2>1. PICK i \in 1 .. n : order[i] = ip
    BY <1>2
  <2>2. j \in 1 .. Len(calls[i]) /\ calls[i][j] = Call("fail", ip, Pending(ip)[j], None)
    BY <1>5, <2>1
  <2>3. QED
    BY <1>7, <2>2 DEF Gathers
<1>10. ASSUME QueuedOnce, NEW k \in 1 .. Len(Failures(ips)), NEW l \in 1 .. Len(Failures(ips)),
              Failures(ips)[k].pkt = Failures(ips)[l].pkt
       PROVE  k = l
  <2>1. PICK i \in 1 .. n : \E j \in 1 .. Len(Pending(order[i])) :
               Failures(ips)[k] = Call("fail", order[i], Pending(order[i])[j], None)
    BY <1>8
  <2>2. PICK j \in 1 .. Len(Pending(order[i])) :
               Failures(ips)[k] = Call("fail", order[i], Pending(order[i])[j], None)
    BY <2>1
  <2>3. PICK a \in 1 .. n : \E b \in 1 .. Len(Pending(order[a])) :
               Failures(ips)[l] = Call("fail", order[a], Pending(order[a])[b], None)
    BY <1>8
  <2>4. PICK b \in 1 .. Len(Pending(order[a])) :
               Failures(ips)[l] = Call("fail", order[a], Pending(order[a])[b], None)
    BY <2>3
  <2>5. order[i] \in Ip /\ order[a] \in Ip
    BY <1>1, <1>3
  <2>6. Pending(order[i])[j] = Pending(order[a])[b]
    BY <1>10, <2>2, <2>4 DEF Call
  <2>7. order[i] = order[a] /\ j = b
    BY <1>10, <2>5, <2>6 DEF QueuedOnce
  <2>8. Failures(ips)[k] = Failures(ips)[l]
    BY <2>2, <2>4, <2>7
  <2>9. QED
    <3>1. Apart(calls, n)
      <4> SUFFICES ASSUME NEW c \in 1 .. n, NEW d \in 1 .. n,
                          NEW e \in 1 .. Len(calls[c]), NEW f \in 1 .. Len(calls[d]),
                          calls[c][e] = calls[d][f]
                   PROVE  c = d /\ e = f
        BY DEF Apart
      <4>1. order[c] \in Ip /\ order[d] \in Ip
        BY <1>1, <1>3
      <4>2. /\ e \in 1 .. Len(Pending(order[c])) /\ f \in 1 .. Len(Pending(order[d]))
            /\ Call("fail", order[c], Pending(order[c])[e], None)
                 = Call("fail", order[d], Pending(order[d])[f], None)
        BY <1>5
      <4>3. Pending(order[c])[e] = Pending(order[d])[f]
        BY <4>2 DEF Call
      <4>4. order[c] = order[d] /\ e = f
        <5>1. \A x \in 1 .. Len(Pending(order[c])), y \in 1 .. Len(Pending(order[d])) :
                Pending(order[c])[x] = Pending(order[d])[y] => order[c] = order[d] /\ x = y
          BY <1>10, <4>1 DEF QueuedOnce
        <5>2. QED
          BY <4>2, <4>3, <5>1
      <4>5. QED
        BY <1>2, <4>4
    <3>2. QED
      BY <1>7, <2>8, <3>1 DEF Gathers
<1>11. Failures(ips) \in Seq(CallRecord)
  BY <1>7 DEF Gathers
<1>12. ASSUME NEW k \in 1 .. Len(Failures(ips))
       PROVE  \E ip \in ips : \E j \in 1 .. Len(Pending(ip)) :
                Failures(ips)[k] = Call("fail", ip, Pending(ip)[j], None)
  BY <1>3, <1>8
<1>13. QED
  BY <1>9, <1>10, <1>11, <1>12
------------------------------------------------------------------------------
(* TableInv is inductive.                                                    *)

LEMMA IncompletelyOK ==
  ASSUME NEW p \in Packet
  PROVE  EntryOK(Incompletely(p)) /\ Incompletely(p) # None
<1>1. Incompletely(p) \in Entry
  BY IncompletelyType
<1>2. ~Incompletely(p).complete /\ Incompletely(p).pending # << >>
      /\ Incompletely(p).requests = 1 /\ Incompletely(p).idle = 0 /\ Incompletely(p).age = 0
  BY DEF Incompletely
<1>3. QED
  BY <1>1, <1>2, EntryFields DEF EntryOK

LEMMA LearnedOK ==
  ASSUME NEW mac \in Mac
  PROVE  EntryOK(Learned(mac)) /\ Learned(mac) # None
<1>1. Learned(mac) \in Entry
  BY LearnedType
<1>2. Learned(mac).complete /\ Learned(mac).pending = << >>
  BY DEF Learned
<1>3. QED
  BY <1>1, <1>2, EntryFields DEF EntryOK

LEMMA QueuedOK ==
  ASSUME NEW e, EntryOK(e), ~e.complete, NEW p \in Packet,
         NEW f, f = [e EXCEPT !.pending = <<p>> \o @]
  PROVE  EntryOK(f) /\ f # None
<1>1. e \in Entry
  BY DEF EntryOK
<1>2. /\ f \in Entry /\ f.pending = <<p>> \o e.pending
      /\ f.complete = e.complete /\ f.requests = e.requests
      /\ f.age = e.age /\ f.idle = e.idle
  BY <1>1, QueuedType
<1>3. <<p>> \o e.pending # << >>
  BY <1>1, EntryFields
<1>4. QED
  BY <1>2, <1>3, EntryFields DEF EntryOK

LEMMA RetriedOK ==
  ASSUME NEW e, EntryOK(e), ~e.complete, e.requests < MaxAttempts, e.idle >= 1,
         NEW f, f = [e EXCEPT !.requests = @ + 1, !.idle = 0]
  PROVE  EntryOK(f) /\ f # None
<1>1. e \in Entry
  BY DEF EntryOK
<1>2. /\ f \in Entry /\ f.pending = e.pending /\ f.complete = e.complete
      /\ f.requests = e.requests + 1 /\ f.age = e.age /\ f.idle = 0
  BY <1>1, RetriedType
<1>3. e.requests \in Nat /\ e.age \in Nat /\ e.idle \in Nat
  BY <1>1, EntryFields
<1>4. e.idle = 1 /\ e.age = e.requests /\ e.pending # << >>
  BY <1>3, ArpAssumption DEF EntryOK
<1>5. QED
  BY <1>2, <1>3, <1>4, EntryFields DEF EntryOK

LEMMA OlderOK ==
  ASSUME NEW e, EntryOK(e),
         ~e.complete => e.age < PendingTimeout /\ ~(e.requests < MaxAttempts /\ e.idle >= 1),
         NEW f, f = Older(e)
  PROVE  EntryOK(f) /\ f # None
<1>1. e \in Entry
  BY DEF EntryOK
<1>2. /\ f \in Entry /\ f.pending = e.pending /\ f.complete = e.complete
      /\ f.requests = e.requests
      /\ f.age = (IF e.age < PendingTimeout THEN e.age + 1 ELSE e.age)
      /\ f.idle = IF e.idle <= EntryTimeout THEN e.idle + 1 ELSE e.idle
  BY <1>1, OlderType
<1>3. e.requests \in 0 .. MaxAttempts /\ e.age \in Nat /\ e.idle \in Nat
  BY <1>1, EntryFields DEF PendingTimeout
<1>4. CASE e.complete
  BY <1>2, <1>4, EntryFields DEF EntryOK
<1>5. CASE ~e.complete
  <2>1. e.pending # << >> /\ e.requests >= 1
    BY <1>5 DEF EntryOK
  <2>2. CASE e.requests = MaxAttempts
    BY <1>2, <1>5, <2>1, <2>2, EntryFields DEF EntryOK
  <2>3. CASE e.requests # MaxAttempts
    <3>1. e.requests < MaxAttempts
      BY <1>3, <2>3, ArpAssumption
    <3>2. e.idle = 0 /\ e.age = e.requests - 1 /\ e.age < PendingTimeout
      BY <1>3, <1>5, <2>3, <3>1 DEF EntryOK
    <3>3. f.idle = 1 /\ f.age = e.requests
      BY <1>2, <1>3, <3>2, ArpAssumption
    <3>4. QED
      BY <1>2, <1>3, <1>5, <2>1, <3>3, EntryFields DEF EntryOK
  <2>4. QED
    BY <2>2, <2>3
<1>6. QED
  BY <1>4, <1>5

LEMMA ResolvedOK ==
  ASSUME NEW e, EntryOK(e), NEW mac \in Mac, NEW f, f = Resolved(e, mac)
  PROVE  EntryOK(f) /\ f # None
<1>1. e \in Entry
  BY DEF EntryOK
<1>2. f \in Entry /\ f.complete /\ f.pending = << >>
  BY <1>1, ResolvedType
<1>3. QED
  BY <1>2, EntryFields DEF EntryOK

\* A goroutine takes over calls or makes one, while complete entries stay.
LEMMA CallsStayReady ==
  ASSUME TableInv, NEW g \in Goroutine,
         NEW s \in Seq(CallRecord), todo' = [todo EXCEPT ![g] = s],
         \A i \in 1 .. Len(s) :
           /\ s[i].do = "request" <=> s[i].pkt = None
           /\ s[i].do = "release" =>
                g = "rx" /\ s[i].ip \in Complete' /\ table'[s[i].ip].idle <= EntryTimeout,
         \A i \in 1 .. Len(todo["rx"]) :
           todo["rx"][i].do = "release" /\ g # "rx" =>
             /\ todo["rx"][i].ip \in Complete'
             /\ table'[todo["rx"][i].ip].idle <= EntryTimeout
  PROVE  CallsReady' /\ todo' \in [Goroutine -> Seq(CallRecord)]
<1>1. todo \in [Goroutine -> Seq(CallRecord)]
  BY DEF TableInv, TypeOK
<1>2. ASSUME NEW h \in Goroutine, NEW i \in 1 .. Len(todo'[h])
      PROVE  /\ todo'[h][i].do = "request" <=> todo'[h][i].pkt = None
             /\ todo'[h][i].do = "release" =>
                  /\ h = "rx"
                  /\ todo'[h][i].ip \in Complete'
                  /\ table'[todo'[h][i].ip].idle <= EntryTimeout
  <2>1. CASE h = g
    <3>1. todo'[h] = s
      BY <1>1, <2>1
    <3>2. QED
      BY <1>2, <2>1, <3>1
  <2>2. CASE h # g
    <3>1. todo'[h] = todo[h] /\ i \in 1 .. Len(todo[h])
      BY <1>1, <1>2, <2>2
    <3>2. /\ todo[h][i].do = "request" <=> todo[h][i].pkt = None
          /\ todo[h][i].do = "release" => h = "rx"
      BY <3>1 DEF TableInv, CallsReady
    <3>3. QED
      BY <2>2, <3>1, <3>2
  <2>3. QED
    BY <2>1, <2>2
<1>3. QED
  BY <1>1, <1>2 DEF CallsReady

LEMMA CallsUntouched ==
  ASSUME TableInv, UNCHANGED todo,
         \A i \in 1 .. Len(todo["rx"]) : todo["rx"][i].do = "release" =>
           /\ todo["rx"][i].ip \in Complete'
           /\ table'[todo["rx"][i].ip].idle <= EntryTimeout
  PROVE  CallsReady' /\ todo' \in [Goroutine -> Seq(CallRecord)]
<1>1. todo \in [Goroutine -> Seq(CallRecord)]
  BY DEF TableInv, TypeOK
<1>2. ASSUME NEW h \in Goroutine, NEW i \in 1 .. Len(todo[h])
      PROVE  /\ todo[h][i].do = "request" <=> todo[h][i].pkt = None
             /\ todo[h][i].do = "release" =>
                  /\ h = "rx"
                  /\ todo[h][i].ip \in Complete'
                  /\ table'[todo[h][i].ip].idle <= EntryTimeout
  BY <1>2 DEF TableInv, CallsReady
<1>3. CallsReady'
  BY <1>2 DEF CallsReady
<1>4. QED
  BY <1>1, <1>3

LEMMA TableInit ==
  ASSUME Init
  PROVE  TableInv
<1>1. TypeOK
  BY DEF Init, TypeOK
<1>2. EntriesOK
  BY DEF Init, EntriesOK
<1>3. CallsReady
  BY DEF Init, CallsReady
<1>4. QED
  BY <1>1, <1>2, <1>3 DEF TableInv

\* What is left to show when the table has its type again.
LEMMA TableInvFrom ==
  ASSUME TypeOK, NEW g \in Goroutine,
         table' \in [Ip -> Entry \cup {None}],
         \A ip \in Ip : table'[ip] # None => EntryOK(table'[ip]),
         fresh' \subseteq Packet, sent' \in [Packet -> Nat], failed' \in [Packet -> Nat],
         CallsReady' /\ todo' \in [Goroutine -> Seq(CallRecord)]
  PROVE  TableInv'
BY DEF TableInv, TypeOK, EntriesOK

\* One entry changes.
LEMMA OneEntry ==
  ASSUME TableInv, NEW ip \in Ip, NEW e, EntryOK(e), e # None,
         table' = [table EXCEPT ![ip] = e]
  PROVE  /\ table' \in [Ip -> Entry \cup {None}]
         /\ \A a \in Ip : table'[a] # None => EntryOK(table'[a])
         /\ table'[ip] = e
         /\ \A a \in Ip : a # ip => table'[a] = table[a]
<1>1. table \in [Ip -> Entry \cup {None}]
  BY DEF TableInv, TypeOK
<1>2. e \in Entry
  BY DEF EntryOK
<1>3. table'[ip] = e /\ \A a \in Ip : a # ip => table'[a] = table[a]
  BY <1>1
<1>4. \A a \in Ip : table[a] # None => EntryOK(table[a])
  BY DEF TableInv, EntriesOK
<1>5. \A a \in Ip : table'[a] # None => EntryOK(table'[a])
  BY <1>3, <1>4
<1>6. QED
  BY <1>1, <1>2, <1>3, <1>5

LEMMA ResolveOrQueueTable ==
  ASSUME TableInv, NEW g \in Sender, NEW p \in Packet, NEW ip \in Ip, ResolveOrQueue(g, p, ip)
  PROVE  TableInv'
<1>1. /\ g \in Goroutine /\ g # "rx" /\ TypeOK
      /\ fresh' \subseteq Packet /\ sent' \in [Packet -> Nat] /\ failed' \in [Packet -> Nat]
  BY ArpAssumption DEF Goroutine, TableInv, TypeOK, ResolveOrQueue
<1>2. p # None /\ None \in Packet \cup {None} /\ None \in Mac \cup {None}
  BY ArpAssumption
<1>3. \A i \in 1 .. Len(todo["rx"]) : todo["rx"][i].do = "release" =>
        /\ todo["rx"][i].ip \in Complete /\ table[todo["rx"][i].ip].idle <= EntryTimeout
  BY DEF TableInv, CallsReady, Goroutine
<1>4. todo \in [Goroutine -> Seq(CallRecord)]
  BY DEF TableInv, TypeOK
<1>5. CASE /\ ip \in Complete
           /\ todo' = [todo EXCEPT ![g] = <<Call("send", ip, p, table[ip].mac)>>]
           /\ UNCHANGED table
  <2>1. table[ip].mac \in Mac \cup {None}
    BY <1>1, <1>5, EntryFields DEF Complete, Known, TypeOK
  <2> DEFINE c == Call("send", ip, p, table[ip].mac)
  <2>2. c \in CallRecord /\ c.do = "send" /\ c.pkt = p
    BY <2>1, CallType
  <2> HIDE DEF c
  <2>3. <<c>> \in Seq(CallRecord) /\ Len(<<c>>) = 1 /\ <<c>>[1] = c
    BY <2>2
  <2>4. \A i \in 1 .. Len(<<c>>) : <<c>>[i].do = "send" /\ <<c>>[i].pkt # None
    BY <1>2, <2>2, <2>3
  <2>5. todo' = [todo EXCEPT ![g] = <<c>>]
    BY <1>5 DEF c
  <2>6. Complete' = Complete
    BY <1>5 DEF Complete, Known
  <2>7. CallsReady' /\ todo' \in [Goroutine -> Seq(CallRecord)]
    BY <1>1, <1>3, <1>5, <2>3, <2>4, <2>5, <2>6, CallsStayReady
  <2>8. /\ table' \in [Ip -> Entry \cup {None}]
        /\ \A a \in Ip : table'[a] # None => EntryOK(table'[a])
    BY <1>5 DEF TableInv, TypeOK, EntriesOK
  <2>9. QED
    BY <1>1, <2>7, <2>8, TableInvFrom
<1>6. CASE /\ ip \in Incomplete
           /\ table' = [table EXCEPT ![ip].pending = <<p>> \o @]
           /\ UNCHANGED todo
  <2> DEFINE e == [table[ip] EXCEPT !.pending = <<p>> \o @]
  <2>1. table' = [table EXCEPT ![ip] = e]
    BY <1>6
  <2>2. EntryOK(table[ip]) /\ ~table[ip].complete /\ ip \notin Complete
    BY <1>6 DEF TableInv, EntriesOK, Incomplete, Complete, Known
  <2>3. EntryOK(e) /\ e # None
    BY <2>2, QueuedOK
  <2> HIDE DEF e
  <2>4. /\ table' \in [Ip -> Entry \cup {None}]
        /\ \A a \in Ip : table'[a] # None => EntryOK(table'[a])
        /\ \A a \in Ip : a # ip => table'[a] = table[a]
    BY <2>1, <2>3, OneEntry
  <2>5. \A a \in Complete : a \in Complete' /\ table'[a] = table[a]
    BY <2>2, <2>4 DEF Complete, Known
  <2>6. CallsReady' /\ todo' \in [Goroutine -> Seq(CallRecord)]
    BY <1>3, <1>6, <2>5, CallsUntouched
  <2>7. QED
    BY <1>1, <2>4, <2>6, TableInvFrom
<1>7. CASE /\ ip \notin Known
           /\ table' = [table EXCEPT ![ip] = Incompletely(p)]
           /\ todo' = [todo EXCEPT ![g] = <<Call("request", ip, None, None)>>]
  <2> DEFINE c == Call("request", ip, None, None)
  <2>1. c \in CallRecord /\ c.do = "request" /\ c.pkt = None
    BY <1>2, CallType
  <2>2. todo' = [todo EXCEPT ![g] = <<c>>]
    BY <1>7
  <2> HIDE DEF c
  <2>3. <<c>> \in Seq(CallRecord) /\ Len(<<c>>) = 1 /\ <<c>>[1] = c
    BY <2>1
  <2>4. \A i \in 1 .. Len(<<c>>) : <<c>>[i].do = "request" /\ <<c>>[i].pkt = None
    BY <2>1, <2>3
  <2>5. EntryOK(Incompletely(p)) /\ Incompletely(p) # None
    BY IncompletelyOK
  <2>6. /\ table' \in [Ip -> Entry \cup {None}]
        /\ \A a \in Ip : table'[a] # None => EntryOK(table'[a])
        /\ \A a \in Ip : a # ip => table'[a] = table[a]
    BY <1>7, <2>5, OneEntry
  <2>7. \A a \in Complete : a \in Complete' /\ table'[a] = table[a]
    BY <1>7, <2>6 DEF Complete, Known
  <2>8. CallsReady' /\ todo' \in [Goroutine -> Seq(CallRecord)]
    BY <1>1, <1>3, <2>2, <2>3, <2>4, <2>7, CallsStayReady
  <2>9. QED
    BY <1>1, <2>6, <2>8, TableInvFrom
<1>8. QED
  BY <1>5, <1>6, <1>7 DEF ResolveOrQueue

LEMMA LearnBindingTable ==
  ASSUME TableInv, NEW ip \in Ip, NEW mac \in Mac, NEW existingOnly \in BOOLEAN,
         LearnBinding(ip, mac, existingOnly)
  PROVE  TableInv'
<1>1. /\ "rx" \in Goroutine /\ TypeOK
      /\ fresh' \subseteq Packet /\ sent' \in [Packet -> Nat] /\ failed' \in [Packet -> Nat]
  BY DEF Goroutine, TableInv, TypeOK, LearnBinding
<1>2. todo \in [Goroutine -> Seq(CallRecord)]
  BY DEF TableInv, TypeOK
<1>3. CASE /\ ip \in Known
           /\ table' = [table EXCEPT ![ip] = Resolved(@, mac)]
           /\ todo' = [todo EXCEPT !["rx"] = Releases(ip)]
  <2> DEFINE e == Resolved(table[ip], mac)
  <2>1. table' = [table EXCEPT ![ip] = e]
    BY <1>3
  <2>2. EntryOK(table[ip]) /\ table[ip] \in Entry
    BY <1>3 DEF TableInv, EntriesOK, Known, EntryOK
  <2>3. EntryOK(e) /\ e # None /\ e.complete /\ e.idle = 0
    BY <2>2, ResolvedOK, ResolvedType
  <2> HIDE DEF e
  <2>4. /\ table' \in [Ip -> Entry \cup {None}]
        /\ \A a \in Ip : table'[a] # None => EntryOK(table'[a])
        /\ table'[ip] = e
    BY <2>1, <2>3, OneEntry
  <2>5. ip \in Complete' /\ table'[ip].idle <= EntryTimeout
    BY <2>3, <2>4, ArpAssumption DEF Complete, Known
  <2>6. /\ Releases(ip) \in Seq(CallRecord)
        /\ Len(Releases(ip)) = Len(Pending(ip))
        /\ \A i \in 1 .. Len(Releases(ip)) :
             /\ Releases(ip)[i].do = "release" /\ Releases(ip)[i].ip = ip
             /\ Releases(ip)[i].pkt = Pending(ip)[i]
    BY <1>1, <1>3, ReleasesAre
  <2>7. \A i \in 1 .. Len(Pending(ip)) : Pending(ip)[i] # None
    BY <1>1, PendingType
  <2>8. CallsReady' /\ todo' \in [Goroutine -> Seq(CallRecord)]
    BY <1>1, <1>3, <2>5, <2>6, <2>7, CallsStayReady
  <2>9. QED
    BY <1>1, <2>4, <2>8, TableInvFrom
<1>4. CASE /\ ip \notin Known
           /\ table' = [table EXCEPT ![ip] = Learned(mac)]
           /\ UNCHANGED todo
  <2>1. EntryOK(Learned(mac)) /\ Learned(mac) # None
    BY LearnedOK
  <2>2. /\ table' \in [Ip -> Entry \cup {None}]
        /\ \A a \in Ip : table'[a] # None => EntryOK(table'[a])
    BY <1>4, <2>1, OneEntry
  <2>3. Len(todo["rx"]) = 0
    BY <1>2, <1>1 DEF LearnBinding
  <2>4. CallsReady' /\ todo' \in [Goroutine -> Seq(CallRecord)]
    BY <1>4, <2>3, CallsUntouched
  <2>5. QED
    BY <1>1, <2>2, <2>4, TableInvFrom
<1>5. QED
  BY <1>3, <1>4 DEF LearnBinding

LEMMA MaintainPendingTable ==
  ASSUME TableInv, MaintainPending
  PROVE  TableInv'
<1>1. /\ "maint" \in Goroutine /\ "rx" \in Goroutine /\ TypeOK
      /\ table \in [Ip -> Entry \cup {None}]
      /\ fresh' \subseteq Packet /\ sent' \in [Packet -> Nat] /\ failed' \in [Packet -> Nat]
  BY DEF Goroutine, TableInv, TypeOK, MaintainPending
<1>2. \A i \in 1 .. Len(todo["rx"]) : todo["rx"][i].do = "release" =>
        /\ todo["rx"][i].ip \in Complete /\ table[todo["rx"][i].ip].idle <= EntryTimeout
  BY <1>1 DEF TableInv, CallsReady
<1>3. /\ TimedOut \subseteq Ip /\ RetryDue \subseteq Ip /\ TimedOut \subseteq Known
      /\ TimedOut \cap RetryDue = {} /\ TimedOut \cap Complete = {} /\ RetryDue \cap Complete = {}
  BY DEF TimedOut, RetryDue, Incomplete, Complete, Known
<1>4. ASSUME NEW ip \in Ip
      PROVE  /\ ip \in TimedOut => table'[ip] = None
             /\ ip \in RetryDue => table'[ip] = [table[ip] EXCEPT !.requests = @ + 1, !.idle = 0]
             /\ ip \notin TimedOut /\ ip \notin RetryDue => table'[ip] = table[ip]
  BY <1>3 DEF MaintainPending
<1>5. ASSUME NEW ip \in Ip
      PROVE  table'[ip] = None \/ EntryOK(table'[ip])
  <2>1. CASE ip \in RetryDue
    <3>1. EntryOK(table[ip]) /\ ~table[ip].complete
          /\ table[ip].requests < MaxAttempts /\ table[ip].idle >= 1
      BY <2>1 DEF TableInv, EntriesOK, RetryDue, Incomplete, Complete, Known
    <3>2. QED
      BY <1>4, <2>1, <3>1, RetriedOK
  <2>2. CASE ip \notin RetryDue
    BY <1>4, <2>2 DEF TableInv, EntriesOK
  <2>3. QED
    BY <2>1, <2>2
<1>6. table' \in [Ip -> Entry \cup {None}]
  <2>1. \A ip \in Ip : table'[ip] \in Entry \cup {None}
    BY <1>5 DEF EntryOK
  <2> DEFINE F(ip) ==
        CASE ip \in TimedOut -> None
          [] ip \in RetryDue -> [table[ip] EXCEPT !.requests = @ + 1, !.idle = 0]
          [] OTHER -> table[ip]
  <2>2. table' = [ip \in Ip |-> F(ip)]
    BY DEF MaintainPending
  <2> HIDE DEF F
  <2>3. QED
    BY <2>1, <2>2
<1>7. \A ip \in Complete : ip \in Complete' /\ table'[ip] = table[ip]
  BY <1>3, <1>4 DEF Complete, Known
<1>8. CallsReady' /\ todo' \in [Goroutine -> Seq(CallRecord)]
  <2> DEFINE r == Retries(RetryDue)
             f == Failures(TimedOut)
  <2>1. r \in Seq(CallRecord)
        /\ \A i \in 1 .. Len(r) : r[i].do = "request" /\ r[i].pkt = None
    BY <1>3, RetriesAre
  <2>2. f \in Seq(CallRecord)
        /\ \A k \in 1 .. Len(f) :
             \E ip \in TimedOut : \E j \in 1 .. Len(Pending(ip)) :
               f[k] = Call("fail", ip, Pending(ip)[j], None)
    BY <1>1, <1>3, FailuresAre
  <2> HIDE DEF r, f
  <2>3. ASSUME NEW k \in 1 .. Len(f)
        PROVE  f[k].do = "fail" /\ f[k].pkt # None
    <3>1. PICK ip \in TimedOut : \E j \in 1 .. Len(Pending(ip)) :
                 f[k] = Call("fail", ip, Pending(ip)[j], None)
      BY <2>2
    <3>2. PICK j \in 1 .. Len(Pending(ip)) : f[k] = Call("fail", ip, Pending(ip)[j], None)
      BY <3>1
    <3>3. Pending(ip)[j] # None
      BY <1>1, <1>3, PendingType
    <3>4. QED
      BY <3>2, <3>3 DEF Call
  <2>4. /\ r \o f \in Seq(CallRecord)
        /\ \A i \in 1 .. Len(r \o f) :
             /\ (r \o f)[i].do = "request" <=> (r \o f)[i].pkt = None
             /\ (r \o f)[i].do # "release"
    <3>1. /\ r \o f \in Seq(CallRecord) /\ Len(r \o f) = Len(r) + Len(f)
          /\ Len(r) \in Nat /\ Len(f) \in Nat
          /\ \A k \in 1 .. Len(r) : (r \o f)[k] = r[k]
          /\ \A k \in 1 .. Len(r \o f) : k > Len(r) =>
               k - Len(r) \in 1 .. Len(f) /\ (r \o f)[k] = f[k - Len(r)]
      BY <2>1, <2>2, ConcatProperties, LenProperties
    <3>2. ASSUME NEW i \in 1 .. Len(r \o f)
          PROVE  /\ (r \o f)[i].do = "request" <=> (r \o f)[i].pkt = None
                 /\ (r \o f)[i].do # "release"
      <4>1. CASE i <= Len(r)
        BY <2>1, <3>1, <4>1
      <4>2. CASE i > Len(r)
        BY <2>3, <3>1, <4>2
      <4>3. QED
        BY <3>1, <4>1, <4>2
    <3>3. QED
      BY <3>1, <3>2
  <2>5. todo' = [todo EXCEPT !["maint"] = r \o f]
    BY DEF MaintainPending, r, f
  <2>6. QED
    BY <1>1, <1>2, <1>7, <2>4, <2>5, CallsStayReady
<1>9. QED
  BY <1>1, <1>5, <1>6, <1>8, TableInvFrom

LEMMA CleanupExpiredTable ==
  ASSUME TableInv, CleanupExpired
  PROVE  TableInv'
<1>1. /\ "rx" \in Goroutine /\ TypeOK
      /\ fresh' \subseteq Packet /\ sent' \in [Packet -> Nat] /\ failed' \in [Packet -> Nat]
  BY DEF Goroutine, TableInv, TypeOK, CleanupExpired
<1>2. /\ table' \in [Ip -> Entry \cup {None}]
      /\ \A ip \in Ip : table'[ip] # None => EntryOK(table'[ip])
  BY DEF TableInv, TypeOK, EntriesOK, CleanupExpired
<1>3. \A i \in 1 .. Len(todo["rx"]) : todo["rx"][i].do = "release" =>
        /\ todo["rx"][i].ip \in Complete /\ table[todo["rx"][i].ip].idle <= EntryTimeout
  BY <1>1 DEF TableInv, CallsReady
<1>4. ASSUME NEW ip \in Complete, table[ip].idle <= EntryTimeout
      PROVE  ip \in Complete' /\ table'[ip] = table[ip]
  <2>1. ip \in Ip /\ table[ip] \in Entry /\ table[ip].idle \in Nat
    BY EntryFields DEF Complete, Known, TableInv, TypeOK
  <2>2. ip \notin Expired
    BY <1>4, <2>1, ArpAssumption DEF Expired
  <2>3. table'[ip] = table[ip]
    BY <2>1, <2>2 DEF CleanupExpired
  <2>4. QED
    BY <2>1, <2>3 DEF Complete, Known
<1>5. UNCHANGED todo
  BY DEF CleanupExpired
<1>6. CallsReady' /\ todo' \in [Goroutine -> Seq(CallRecord)]
  BY <1>3, <1>4, <1>5, CallsUntouched
<1>7. QED
  BY <1>1, <1>2, <1>6, TableInvFrom

LEMMA TickTable ==
  ASSUME TableInv, Tick
  PROVE  TableInv'
<1>1. /\ "rx" \in Goroutine /\ TypeOK /\ UNCHANGED todo
      /\ todo["rx"] \in Seq(CallRecord)
      /\ fresh' \subseteq Packet /\ sent' \in [Packet -> Nat] /\ failed' \in [Packet -> Nat]
  BY DEF Goroutine, TableInv, TypeOK, Tick
<1>2. ASSUME NEW ip \in Ip, table[ip] # None
      PROVE  table'[ip] = Older(table[ip]) /\ EntryOK(table'[ip]) /\ table'[ip] # None
  <2>1. EntryOK(table[ip]) /\ table[ip] \in Entry
    BY <1>2 DEF TableInv, EntriesOK, EntryOK
  <2>2. table'[ip] = Older(table[ip])
    BY <1>2 DEF Tick, Known
  <2>3. table[ip].age \in Nat /\ PendingTimeout \in Nat
    BY <2>1, EntryFields, ArpAssumption DEF PendingTimeout
  <2>4. ip \notin TimedOut /\ ip \notin RetryDue
    BY DEF Tick
  <2>5. ~table[ip].complete =>
          table[ip].age < PendingTimeout
          /\ ~(table[ip].requests < MaxAttempts /\ table[ip].idle >= 1)
    BY <1>2, <2>3, <2>4 DEF TimedOut, RetryDue, Incomplete, Complete, Known
  <2>6. QED
    BY <2>1, <2>2, <2>5, OlderOK
<1>3. ASSUME NEW ip \in Ip, table[ip] = None
      PROVE  table'[ip] = None
  BY <1>3 DEF Tick, Known
<1>4. table' \in [Ip -> Entry \cup {None}]
  <2>1. \A ip \in Ip : table'[ip] \in Entry \cup {None}
    BY <1>2, <1>3 DEF EntryOK
  <2>2. table' = [ip \in Ip |-> table'[ip]]
    BY DEF Tick
  <2>3. QED
    BY <2>1, <2>2
<1>5. \A ip \in Ip : table'[ip] # None => EntryOK(table'[ip])
  BY <1>2, <1>3
<1>6. ASSUME NEW i \in 1 .. Len(todo["rx"]), todo["rx"][i].do = "release"
      PROVE  /\ todo["rx"][i].ip \in Complete' /\ table'[todo["rx"][i].ip].idle <= EntryTimeout
  <2> DEFINE ip == todo["rx"][i].ip
  <2>1. ip \in Complete
    BY <1>1, <1>6 DEF TableInv, CallsReady
  <2>2. i \in DOMAIN todo["rx"]
    BY <1>1, LenProperties
  <2>3. ip \in Ip /\ table[ip] # None /\ table[ip].complete /\ ip \in Known
    BY <2>1 DEF Complete, Known
  <2>4. table[ip].idle < EntryTimeout
    BY <2>2, <2>3 DEF Tick
  <2> HIDE DEF ip
  <2>5. table[ip] \in Entry
    BY <1>1, <2>3 DEF TypeOK
  <2>6. table'[ip] = Older(table[ip]) /\ table'[ip] # None
    BY <1>2, <2>3
  <2>7. /\ table'[ip].complete = table[ip].complete
        /\ table'[ip].idle = IF table[ip].idle <= EntryTimeout THEN table[ip].idle + 1 ELSE table[ip].idle
    BY <2>5, <2>6, OlderType
  <2>8. table[ip].idle \in Nat
    BY <2>5, EntryFields
  <2>9. ip \in Complete'
    BY <2>3, <2>6, <2>7 DEF Complete, Known
  <2>10. table'[ip].idle = table[ip].idle + 1 /\ table'[ip].idle <= EntryTimeout
    BY <2>4, <2>7, <2>8, ArpAssumption
  <2>11. QED
    BY <2>9, <2>10 DEF ip
<1>7. CallsReady' /\ todo' \in [Goroutine -> Seq(CallRecord)]
  BY <1>1, <1>6, CallsUntouched
<1>8. QED
  BY <1>1, <1>4, <1>5, <1>7, TableInvFrom

\* What a goroutine is about to do next.
LEMMA NextCall ==
  ASSUME TableInv, NEW g \in Goroutine, todo[g] # << >>
  PROVE  /\ Len(todo[g]) \in Nat /\ 1 \in 1 .. Len(todo[g])
         /\ Head(todo[g]) = todo[g][1] /\ Head(todo[g]) \in CallRecord
         /\ Tail(todo[g]) \in Seq(CallRecord) /\ Len(Tail(todo[g])) = Len(todo[g]) - 1
         /\ \A i \in 1 .. Len(Tail(todo[g])) :
              i + 1 \in 1 .. Len(todo[g]) /\ Tail(todo[g])[i] = todo[g][i + 1]
         /\ Head(todo[g]).do = "request" <=> Head(todo[g]).pkt = None
         /\ Head(todo[g]).do = "release" => Head(todo[g]).ip \in Complete
<1>1. todo[g] \in Seq(CallRecord)
  BY DEF TableInv, TypeOK
<1>2. /\ Len(todo[g]) \in Nat /\ 1 \in 1 .. Len(todo[g])
      /\ Head(todo[g]) = todo[g][1] /\ Head(todo[g]) \in CallRecord
      /\ Tail(todo[g]) \in Seq(CallRecord) /\ Len(Tail(todo[g])) = Len(todo[g]) - 1
      /\ \A i \in 1 .. Len(Tail(todo[g])) :
           i + 1 \in 1 .. Len(todo[g]) /\ Tail(todo[g])[i] = todo[g][i + 1]
  BY <1>1, HeadTailProperties
<1>3. QED
  BY <1>2 DEF TableInv, CallsReady

LEMMA StepTable ==
  ASSUME TableInv, NEW g \in Goroutine, Step(g)
  PROVE  TableInv'
<1>1. todo[g] # << >> /\ todo' = [todo EXCEPT ![g] = Tail(todo[g])] /\ UNCHANGED <<table, fresh>>
  BY DEF Step, Request, SendResolved, Release, Fail, Calls, Made
<1>2. /\ Tail(todo[g]) \in Seq(CallRecord) /\ Head(todo[g]) \in CallRecord
      /\ \A i \in 1 .. Len(Tail(todo[g])) :
           i + 1 \in 1 .. Len(todo[g]) /\ Tail(todo[g])[i] = todo[g][i + 1]
      /\ Head(todo[g]).do # "request" => Head(todo[g]).pkt \in Packet
  BY <1>1, NextCall DEF CallRecord
<1>3. sent \in [Packet -> Nat] /\ failed \in [Packet -> Nat] /\ TypeOK
  BY DEF TableInv, TypeOK
<1>4. sent' \in [Packet -> Nat] /\ failed' \in [Packet -> Nat]
  <2>1. CASE Request(g)
    BY <1>3, <2>1 DEF Request
  <2>2. CASE SendResolved(g)
    BY <1>2, <1>3, <2>2 DEF SendResolved, Calls
  <2>3. CASE Release(g)
    BY <1>2, <1>3, <2>3 DEF Release, Calls
  <2>4. CASE Fail(g)
    BY <1>2, <1>3, <2>4 DEF Fail, Calls
  <2>5. QED
    BY <2>1, <2>2, <2>3, <2>4 DEF Step
<1>5. /\ table' \in [Ip -> Entry \cup {None}]
      /\ \A ip \in Ip : table'[ip] # None => EntryOK(table'[ip])
      /\ fresh' \subseteq Packet /\ Complete' = Complete
  BY <1>1 DEF TableInv, TypeOK, EntriesOK, Complete, Known
<1>6. \A i \in 1 .. Len(todo[g]) :
        /\ todo[g][i].do = "request" <=> todo[g][i].pkt = None
        /\ todo[g][i].do = "release" =>
             g = "rx" /\ todo[g][i].ip \in Complete /\ table[todo[g][i].ip].idle <= EntryTimeout
  BY DEF TableInv, CallsReady
<1>7. \A i \in 1 .. Len(todo["rx"]) : todo["rx"][i].do = "release" =>
        /\ todo["rx"][i].ip \in Complete /\ table[todo["rx"][i].ip].idle <= EntryTimeout
  BY DEF TableInv, CallsReady, Goroutine
<1>8. CallsReady' /\ todo' \in [Goroutine -> Seq(CallRecord)]
  <2> DEFINE s == Tail(todo[g])
  <2>1. \A i \in 1 .. Len(s) :
          /\ s[i].do = "request" <=> s[i].pkt = None
          /\ s[i].do = "release" =>
               g = "rx" /\ s[i].ip \in Complete' /\ table'[s[i].ip].idle <= EntryTimeout
    BY <1>1, <1>2, <1>5, <1>6
  <2>2. s \in Seq(CallRecord) /\ todo' = [todo EXCEPT ![g] = s]
    BY <1>1, <1>2
  <2> HIDE DEF s
  <2>3. QED
    BY <1>1, <1>5, <1>7, <2>1, <2>2, CallsStayReady
<1>9. QED
  BY <1>3, <1>4, <1>5, <1>8, TableInvFrom

LEMMA TableNext ==
  ASSUME TableInv, [Next]_vars
  PROVE  TableInv'
<1>1. CASE UNCHANGED vars
  BY <1>1 DEF vars, TableInv, TypeOK, EntriesOK, CallsReady, Complete, Known
<1>2. CASE Next
  <2>1. CASE \E g \in Sender, p \in Packet, ip \in Ip : ResolveOrQueue(g, p, ip)
    BY <2>1, ResolveOrQueueTable
  <2>2. CASE \E ip \in Ip, mac \in Mac, existingOnly \in BOOLEAN :
               LearnBinding(ip, mac, existingOnly)
    BY <2>2, LearnBindingTable
  <2>3. CASE \E g \in Goroutine : Step(g)
    BY <2>3, StepTable
  <2>4. QED
    BY <1>2, <2>1, <2>2, <2>3, MaintainPendingTable, CleanupExpiredTable, TickTable DEF Next
<1>3. QED
  BY <1>1, <1>2
------------------------------------------------------------------------------
(* PlaceInv is inductive.                                                    *)

LEMMA PlaceInit ==
  ASSUME Init
  PROVE  PlaceInv
<1>1. \A ip \in Ip : Pending(ip) = << >>
  BY DEF Init, Pending, Known
<1>2. \A g \in Goroutine : todo[g] = << >>
  BY DEF Init
<1>3. QueuedOnce /\ TakenOnce /\ NeverBoth /\ AllUnderway
  BY <1>1, <1>2 DEF QueuedOnce, TakenOnce, NeverBoth, AllUnderway
<1>4. Accounted
  BY DEF Init, Accounted
<1>5. QED
  BY <1>3, <1>4 DEF PlaceInv

\* The packets that wait for the addresses of gone leave the table and become
\* the calls s that goroutine g has to make.
HandsOver(g, s, gone) ==
  /\ todo[g] = << >> /\ todo' = [todo EXCEPT ![g] = s]
  /\ \A ip \in Ip \ gone : Pending(ip)' = Pending(ip)
  /\ \A ip \in gone : Pending(ip)' = << >>
  /\ \A k \in 1 .. Len(s) : s[k].pkt # None =>
       \E ip \in gone : \E j \in 1 .. Len(Pending(ip)) : s[k].pkt = Pending(ip)[j]
  /\ \A ip \in gone : \A j \in 1 .. Len(Pending(ip)) :
       \E k \in 1 .. Len(s) : s[k].pkt = Pending(ip)[j]
  /\ \A k, l \in 1 .. Len(s) : s[k].pkt = s[l].pkt /\ s[k].pkt # None => k = l
  /\ UNCHANGED <<fresh, sent, failed>>

\* A goroutine with no calls to make takes over the packets of some entries.
LEMMA HandOver ==
  ASSUME TableInv, PlaceInv,
         NEW g \in Goroutine, NEW s \in Seq(CallRecord), NEW gone \in SUBSET Ip,
         HandsOver(g, s, gone)
  PROVE  PlaceInv'
<1> SUFFICES
      ASSUME todo[g] = << >>, todo' = [todo EXCEPT ![g] = s],
             \A ip \in Ip \ gone : Pending(ip)' = Pending(ip),
             \A ip \in gone : Pending(ip)' = << >>,
             \A k \in 1 .. Len(s) : s[k].pkt # None =>
               \E ip \in gone : \E j \in 1 .. Len(Pending(ip)) : s[k].pkt = Pending(ip)[j],
             \A ip \in gone : \A j \in 1 .. Len(Pending(ip)) :
               \E k \in 1 .. Len(s) : s[k].pkt = Pending(ip)[j],
             \A k, l \in 1 .. Len(s) : s[k].pkt = s[l].pkt /\ s[k].pkt # None => k = l,
             UNCHANGED <<fresh, sent, failed>>
      PROVE  PlaceInv'
  BY DEF HandsOver
<1>1. todo \in [Goroutine -> Seq(CallRecord)] /\ TypeOK
  BY DEF TableInv, TypeOK
<1>2. todo'[g] = s /\ \A h \in Goroutine : h # g => todo'[h] = todo[h]
  BY <1>1
<1>3. Len(<< >>) = 0
  OBVIOUS
<1>4. ASSUME NEW a \in Ip, NEW i \in 1 .. Len(Pending(a)')
      PROVE  a \notin gone /\ Pending(a)' = Pending(a) /\ i \in 1 .. Len(Pending(a))
  <2>1. a \notin gone
    BY <1>3, <1>4
  <2>2. Pending(a)' = Pending(a)
    BY <2>1
  <2>3. QED
    BY <1>4, <2>1, <2>2
<1>5. ASSUME NEW k \in 1 .. Len(s), s[k].pkt # None,
             NEW h \in Goroutine, h # g, NEW i \in 1 .. Len(todo[h])
      PROVE  s[k].pkt # todo[h][i].pkt
  <2>1. PICK ip \in gone : \E j \in 1 .. Len(Pending(ip)) : s[k].pkt = Pending(ip)[j]
    BY <1>5
  <2>2. PICK j \in 1 .. Len(Pending(ip)) : s[k].pkt = Pending(ip)[j]
    BY <2>1
  <2>3. QED
    BY <1>5, <2>2 DEF PlaceInv, NeverBoth
<1>6. ASSUME NEW k \in 1 .. Len(s), NEW a \in Ip \ gone, NEW i \in 1 .. Len(Pending(a))
      PROVE  Pending(a)[i] # s[k].pkt
  <2>1. CASE s[k].pkt # None
    <3>1. PICK ip \in gone : \E j \in 1 .. Len(Pending(ip)) : s[k].pkt = Pending(ip)[j]
      BY <2>1
    <3>2. PICK j \in 1 .. Len(Pending(ip)) : s[k].pkt = Pending(ip)[j]
      BY <3>1
    <3>3. QED
      BY <3>2 DEF PlaceInv, QueuedOnce
  <2>2. CASE s[k].pkt = None
    BY <1>1, <2>2, PendingType
  <2>3. QED
    BY <2>1, <2>2
<1>7. QueuedOnce'
  <2> SUFFICES ASSUME NEW a \in Ip, NEW b \in Ip,
                      NEW i \in 1 .. Len(Pending(a)'), NEW j \in 1 .. Len(Pending(b)'),
                      Pending(a)'[i] = Pending(b)'[j]
               PROVE  a = b /\ i = j
    BY DEF QueuedOnce
  <2>1. /\ Pending(a)' = Pending(a) /\ i \in 1 .. Len(Pending(a))
        /\ Pending(b)' = Pending(b) /\ j \in 1 .. Len(Pending(b))
    BY <1>4
  <2>2. Pending(a)[i] = Pending(b)[j]
    BY <2>1
  <2>3. QED
    BY <2>1, <2>2 DEF PlaceInv, QueuedOnce
<1>8. TakenOnce'
  <2> SUFFICES ASSUME NEW a \in Goroutine, NEW b \in Goroutine,
                      NEW i \in 1 .. Len(todo'[a]), NEW j \in 1 .. Len(todo'[b]),
                      todo'[a][i].pkt = todo'[b][j].pkt, todo'[a][i].pkt # None
               PROVE  a = b /\ i = j
    BY DEF TakenOnce
  <2>1. CASE a = g /\ b = g
    BY <1>2, <2>1
  <2>2. CASE a = g /\ b # g
    <3>1. i \in 1 .. Len(s) /\ todo'[a] = s /\ j \in 1 .. Len(todo[b]) /\ todo'[b] = todo[b]
      BY <1>2, <2>2
    <3>2. QED
      BY <1>5, <2>2, <3>1
  <2>3. CASE a # g /\ b = g
    <3>1. j \in 1 .. Len(s) /\ todo'[b] = s /\ i \in 1 .. Len(todo[a]) /\ todo'[a] = todo[a]
      BY <1>2, <2>3
    <3>2. s[j].pkt = todo[a][i].pkt /\ s[j].pkt # None
      BY <3>1
    <3>3. QED
      BY <1>5, <2>3, <3>1, <3>2
  <2>4. CASE a # g /\ b # g
    <3>1. todo'[a] = todo[a] /\ todo'[b] = todo[b]
      BY <1>2, <2>4
    <3>2. QED
      BY <3>1 DEF PlaceInv, TakenOnce
  <2>5. QED
    BY <2>1, <2>2, <2>3, <2>4
<1>9. NeverBoth'
  <2> SUFFICES ASSUME NEW a \in Ip, NEW h \in Goroutine,
                      NEW i \in 1 .. Len(Pending(a)'), NEW j \in 1 .. Len(todo'[h])
               PROVE  Pending(a)'[i] # todo'[h][j].pkt
    BY DEF NeverBoth
  <2>1. a \notin gone /\ Pending(a)' = Pending(a) /\ i \in 1 .. Len(Pending(a))
    BY <1>4
  <2>2. CASE h = g
    BY <1>2, <1>6, <2>1, <2>2
  <2>3. CASE h # g
    <3>1. todo'[h] = todo[h] /\ j \in 1 .. Len(todo[h])
      BY <1>2, <2>3
    <3>2. QED
      BY <2>1, <3>1 DEF PlaceInv, NeverBoth
  <2>4. QED
    BY <2>2, <2>3
<1>10. \A p : Underway(p) => Underway(p)'
  BY DEF Underway
<1>11. AllUnderway'
  <2>1. ASSUME NEW a \in Ip, NEW i \in 1 .. Len(Pending(a)')
        PROVE  Underway(Pending(a)[i])'
    <3>1. Pending(a)' = Pending(a) /\ i \in 1 .. Len(Pending(a))
      BY <1>4
    <3>2. Underway(Pending(a)[i])
      BY <3>1 DEF PlaceInv, AllUnderway
    <3>3. QED
      BY <3>1, <3>2 DEF Underway
  <2>2. ASSUME NEW h \in Goroutine, NEW i \in 1 .. Len(todo'[h]), todo'[h][i].pkt # None
        PROVE  Underway(todo[h][i].pkt)'
    <3>1. Underway(todo'[h][i].pkt)
      <4>1. CASE h = g
        <5>1. i \in 1 .. Len(s) /\ todo'[h] = s /\ s[i].pkt # None
          BY <1>2, <2>2, <4>1
        <5>2. PICK ip \in gone : \E j \in 1 .. Len(Pending(ip)) : s[i].pkt = Pending(ip)[j]
          BY <5>1
        <5>3. PICK j \in 1 .. Len(Pending(ip)) : s[i].pkt = Pending(ip)[j]
          BY <5>2
        <5>4. Underway(Pending(ip)[j])
          BY DEF PlaceInv, AllUnderway
        <5>5. QED
          BY <5>1, <5>3, <5>4
      <4>2. CASE h # g
        <5>1. todo'[h] = todo[h] /\ i \in 1 .. Len(todo[h])
          BY <1>2, <2>2, <4>2
        <5>2. QED
          BY <2>2, <5>1 DEF PlaceInv, AllUnderway
      <4>3. QED
        BY <4>1, <4>2
    <3>2. QED
      BY <3>1 DEF Underway
  <2>3. QED
    BY <2>1, <2>2 DEF AllUnderway, Underway
<1>12. ASSUME NEW p \in Packet
       PROVE  /\ Waits(p) => Waits(p)' \/ Held(p)'
              /\ Held(p) => Held(p)'
  <2>1. ASSUME Waits(p)
        PROVE  Waits(p)' \/ Held(p)'
    <3>1. PICK ip \in Ip : \E i \in 1 .. Len(Pending(ip)) : Pending(ip)[i] = p
      BY <2>1 DEF Waits
    <3>2. PICK i \in 1 .. Len(Pending(ip)) : Pending(ip)[i] = p
      BY <3>1
    <3>3. CASE ip \in gone
      <4>1. PICK k \in 1 .. Len(s) : s[k].pkt = p
        BY <3>2, <3>3
      <4>2. k \in 1 .. Len(todo'[g]) /\ todo'[g][k].pkt = p
        BY <1>2, <4>1
      <4>3. QED
        BY <4>2 DEF Held
    <3>4. CASE ip \notin gone
      <4>1. Pending(ip)' = Pending(ip)
        BY <3>4
      <4>2. i \in 1 .. Len(Pending(ip)') /\ Pending(ip)'[i] = p
        BY <3>2, <4>1
      <4>3. QED
        BY <4>2 DEF Waits
    <3>5. QED
      BY <3>3, <3>4
  <2>2. ASSUME Held(p)
        PROVE  Held(p)'
    <3>1. PICK h \in Goroutine : \E i \in 1 .. Len(todo[h]) : todo[h][i].pkt = p
      BY <2>2 DEF Held
    <3>2. h # g
      BY <1>3, <3>1
    <3>3. todo'[h] = todo[h]
      BY <1>2, <3>2
    <3>4. QED
      BY <3>1, <3>3 DEF Held
  <2>3. QED
    BY <2>1, <2>2
<1>13. Accounted'
  BY <1>12 DEF PlaceInv, Accounted
<1>14. QED
  BY <1>7, <1>8, <1>9, <1>11, <1>13 DEF PlaceInv

\* A packet that nobody handed down yet is at no place.
LEMMA FreshIsNowhere ==
  ASSUME PlaceInv, NEW p \in fresh, p # None
  PROVE  /\ \A ip \in Ip : \A i \in 1 .. Len(Pending(ip)) : Pending(ip)[i] # p
         /\ \A g \in Goroutine : \A i \in 1 .. Len(todo[g]) : todo[g][i].pkt # p
         /\ p \in Packet => sent[p] = 0 /\ failed[p] = 0
BY DEF PlaceInv, AllUnderway, Accounted, Underway

\* A packet is sent at once.
LEMMA GoesOn ==
  ASSUME TableInv, PlaceInv, NEW g \in Goroutine, todo[g] = << >>,
         NEW p \in fresh, p \in Packet,
         NEW c, c.pkt = p, todo' = [todo EXCEPT ![g] = <<c>>],
         fresh' = fresh \ {p}, UNCHANGED <<table, sent, failed>>
  PROVE  PlaceInv'
<1>1. todo \in [Goroutine -> Seq(CallRecord)] /\ TypeOK
  BY DEF TableInv, TypeOK
<1>2. /\ \A a \in Ip : Pending(a)' = Pending(a)
      /\ todo'[g] = <<c>> /\ \A h \in Goroutine : h # g => todo'[h] = todo[h]
  BY <1>1 DEF Pending, Known
<1>3. Len(<<c>>) = 1 /\ <<c>>[1] = c /\ 1 \in 1 .. 1 /\ Len(<< >>) = 0
  OBVIOUS
<1>4. p # None
  BY ArpAssumption
<1>5. /\ \A ip \in Ip : \A i \in 1 .. Len(Pending(ip)) : Pending(ip)[i] # p
      /\ \A h \in Goroutine : \A i \in 1 .. Len(todo[h]) : todo[h][i].pkt # p
      /\ sent[p] = 0 /\ failed[p] = 0
  BY <1>4, FreshIsNowhere
<1>6. QueuedOnce'
  BY <1>2 DEF PlaceInv, QueuedOnce
<1>7. ASSUME NEW h \in Goroutine, NEW i \in 1 .. Len(todo'[h])
      PROVE  \/ h = g /\ i = 1 /\ todo'[h][i].pkt = p
             \/ h # g /\ todo'[h] = todo[h] /\ i \in 1 .. Len(todo[h]) /\ todo'[h][i].pkt # p
  <2>1. CASE h = g
    BY <1>2, <1>3, <1>7, <2>1
  <2>2. CASE h # g
    BY <1>2, <1>5, <1>7, <2>2
  <2>3. QED
    BY <2>1, <2>2
<1>8. TakenOnce'
  <2> SUFFICES ASSUME NEW a \in Goroutine, NEW b \in Goroutine,
                      NEW i \in 1 .. Len(todo'[a]), NEW j \in 1 .. Len(todo'[b]),
                      todo'[a][i].pkt = todo'[b][j].pkt, todo'[a][i].pkt # None
               PROVE  a = b /\ i = j
    BY DEF TakenOnce
  <2>1. CASE todo'[a][i].pkt = p
    BY <1>7, <2>1
  <2>2. CASE todo'[a][i].pkt # p
    <3>1. /\ todo'[a] = todo[a] /\ i \in 1 .. Len(todo[a])
          /\ todo'[b] = todo[b] /\ j \in 1 .. Len(todo[b])
      BY <1>7, <2>2
    <3>2. QED
      BY <3>1 DEF PlaceInv, TakenOnce
  <2>3. QED
    BY <2>1, <2>2
<1>9. NeverBoth'
  <2> SUFFICES ASSUME NEW a \in Ip, NEW h \in Goroutine,
                      NEW i \in 1 .. Len(Pending(a)), NEW j \in 1 .. Len(todo'[h])
               PROVE  Pending(a)[i] # todo'[h][j].pkt
    BY <1>2 DEF NeverBoth
  <2>1. CASE todo'[h][j].pkt = p
    BY <1>5, <2>1
  <2>2. CASE todo'[h][j].pkt # p
    <3>1. todo'[h] = todo[h] /\ j \in 1 .. Len(todo[h])
      BY <1>7, <2>2
    <3>2. QED
      BY <3>1 DEF PlaceInv, NeverBoth
  <2>3. QED
    BY <2>1, <2>2
<1>10. \A q : Underway(q) \/ q = p => q \notin fresh' /\ sent'[q] = 0 /\ failed'[q] = 0
  BY <1>5 DEF Underway
<1>11. AllUnderway'
  <2>1. ASSUME NEW a \in Ip, NEW i \in 1 .. Len(Pending(a))
        PROVE  Underway(Pending(a)[i])
    BY DEF PlaceInv, AllUnderway
  <2>2. ASSUME NEW h \in Goroutine, NEW i \in 1 .. Len(todo'[h]), todo'[h][i].pkt # None
        PROVE  Underway(todo'[h][i].pkt) \/ todo'[h][i].pkt = p
    BY <1>7, <2>2 DEF PlaceInv, AllUnderway
  <2>3. QED
    BY <1>2, <1>10, <2>1, <2>2 DEF AllUnderway, Underway
<1>12. ASSUME NEW q \in Packet
       PROVE  /\ Waits(q) => Waits(q)'
              /\ Held(q) => Held(q)'
              /\ Held(p)'
  <2>1. Waits(q) => Waits(q)'
    BY <1>2 DEF Waits
  <2>2. ASSUME Held(q)
        PROVE  Held(q)'
    <3>1. PICK h \in Goroutine : \E i \in 1 .. Len(todo[h]) : todo[h][i].pkt = q
      BY <2>2 DEF Held
    <3>2. h # g
      BY <1>3, <3>1
    <3>3. todo'[h] = todo[h]
      BY <1>2, <3>2
    <3>4. QED
      BY <3>1, <3>3 DEF Held
  <2>3. Held(p)'
    <3>1. 1 \in 1 .. Len(todo'[g]) /\ todo'[g][1].pkt = p
      BY <1>2, <1>3
    <3>2. QED
      BY <3>1 DEF Held
  <2>4. QED
    BY <2>1, <2>2, <2>3
<1>13. Accounted'
  BY <1>12 DEF PlaceInv, Accounted
<1>14. QED
  BY <1>6, <1>8, <1>9, <1>11, <1>13 DEF PlaceInv

\* A packet is queued for ip; g may have a request to make.
LEMMA Arrives ==
  ASSUME TableInv, PlaceInv, NEW g \in Goroutine, todo[g] = << >>,
         NEW p \in fresh, p \in Packet, NEW ip \in Ip,
         Pending(ip)' = <<p>> \o Pending(ip),
         \A a \in Ip : a # ip => Pending(a)' = Pending(a),
         NEW s \in Seq(CallRecord), todo' = [todo EXCEPT ![g] = s],
         \A k \in 1 .. Len(s) : s[k].pkt = None,
         fresh' = fresh \ {p}, UNCHANGED <<sent, failed>>
  PROVE  PlaceInv'
<1>1. todo \in [Goroutine -> Seq(CallRecord)] /\ TypeOK
  BY DEF TableInv, TypeOK
<1>2. todo'[g] = s /\ \A h \in Goroutine : h # g => todo'[h] = todo[h]
  BY <1>1
<1>3. p # None /\ None \notin Packet
  BY ArpAssumption
<1>4. /\ \A a \in Ip : \A i \in 1 .. Len(Pending(a)) : Pending(a)[i] # p
      /\ \A h \in Goroutine : \A i \in 1 .. Len(todo[h]) : todo[h][i].pkt # p
      /\ sent[p] = 0 /\ failed[p] = 0
  BY <1>3, FreshIsNowhere
<1>5. /\ Len(Pending(ip)') = Len(Pending(ip)) + 1 /\ Len(Pending(ip)) \in Nat
      /\ Pending(ip)'[1] = p
      /\ \A i \in 1 .. Len(Pending(ip)) : Pending(ip)'[i + 1] = Pending(ip)[i]
      /\ \A i \in 2 .. Len(Pending(ip)) + 1 : Pending(ip)'[i] = Pending(ip)[i - 1]
  <2>1. Pending(ip) \in Seq(Packet) /\ <<p>> \in Seq(Packet) /\ Len(<<p>>) = 1
        /\ <<p>>[1] = p /\ Len(Pending(ip)) \in Nat
    BY <1>1, PendingType
  <2>2. QED
    BY <2>1, ConcatProperties
<1>6. ASSUME NEW a \in Ip, NEW i \in 1 .. Len(Pending(a)')
      PROVE  \/ a = ip /\ i = 1 /\ Pending(a)'[i] = p
             \/ a = ip /\ i - 1 \in 1 .. Len(Pending(a)) /\ Pending(a)'[i] = Pending(a)[i - 1]
                /\ Pending(a)'[i] # p
             \/ a # ip /\ i \in 1 .. Len(Pending(a)) /\ Pending(a)'[i] = Pending(a)[i]
                /\ Pending(a)'[i] # p
  <2>1. CASE a # ip
    <3>1. Pending(a)' = Pending(a)
      BY <2>1
    <3>2. QED
      BY <1>4, <1>6, <2>1, <3>1
  <2>2. CASE a = ip /\ i = 1
    BY <1>5, <2>2
  <2>3. CASE a = ip /\ i # 1
    <3>1. i \in 2 .. Len(Pending(ip)) + 1 /\ i - 1 \in 1 .. Len(Pending(ip))
      BY <1>5, <1>6, <2>3
    <3>2. Pending(ip)'[i] = Pending(ip)[i - 1] /\ Pending(ip)[i - 1] # p
      BY <1>4, <1>5, <3>1
    <3>3. QED
      BY <2>3, <3>1, <3>2
  <2>4. QED
    BY <2>1, <2>2, <2>3
<1>7. ASSUME NEW h \in Goroutine, NEW i \in 1 .. Len(todo'[h])
      PROVE  \/ todo'[h][i].pkt = None
             \/ /\ h # g /\ todo'[h] = todo[h] /\ i \in 1 .. Len(todo[h])
                /\ todo'[h][i].pkt = todo[h][i].pkt /\ todo'[h][i].pkt # p
  <2>1. CASE h = g
    BY <1>2, <1>7, <2>1
  <2>2. CASE h # g
    BY <1>2, <1>4, <1>7, <2>2
  <2>3. QED
    BY <2>1, <2>2
<1>8. QueuedOnce'
  <2> SUFFICES ASSUME NEW a \in Ip, NEW b \in Ip,
                      NEW i \in 1 .. Len(Pending(a)'), NEW j \in 1 .. Len(Pending(b)'),
                      Pending(a)'[i] = Pending(b)'[j]
               PROVE  a = b /\ i = j
    BY DEF QueuedOnce
  <2>1. i \in Nat /\ j \in Nat
    OBVIOUS
  <2>2. CASE Pending(a)'[i] = p
    <3>1. Pending(b)'[j] = p
      BY <2>2
    <3>2. a = ip /\ i = 1
      BY <1>6, <2>2
    <3>3. b = ip /\ j = 1
      BY <1>6, <3>1
    <3>4. QED
      BY <3>2, <3>3
  <2>3. CASE Pending(a)'[i] # p
    <3>1. PICK k \in 1 .. Len(Pending(a)) :
            Pending(a)'[i] = Pending(a)[k] /\ i = IF a = ip THEN k + 1 ELSE k
      BY <1>6, <2>1, <2>3
    <3>2. PICK l \in 1 .. Len(Pending(b)) :
            Pending(b)'[j] = Pending(b)[l] /\ j = IF b = ip THEN l + 1 ELSE l
      BY <1>6, <2>1, <2>3
    <3>3. Pending(a)[k] = Pending(b)[l]
      BY <3>1, <3>2
    <3>4. a = b /\ k = l
      BY <3>3 DEF PlaceInv, QueuedOnce
    <3>5. QED
      BY <3>1, <3>2, <3>4
  <2>4. QED
    BY <2>2, <2>3
<1>9. TakenOnce'
  <2> SUFFICES ASSUME NEW a \in Goroutine, NEW b \in Goroutine,
                      NEW i \in 1 .. Len(todo'[a]), NEW j \in 1 .. Len(todo'[b]),
                      todo'[a][i].pkt = todo'[b][j].pkt, todo'[a][i].pkt # None
               PROVE  a = b /\ i = j
    BY DEF TakenOnce
  <2>1. /\ todo'[a] = todo[a] /\ i \in 1 .. Len(todo[a])
        /\ todo'[b] = todo[b] /\ j \in 1 .. Len(todo[b])
    BY <1>7
  <2>2. QED
    BY <2>1 DEF PlaceInv, TakenOnce
<1>10. ASSUME NEW a \in Ip, NEW i \in 1 .. Len(Pending(a)')
       PROVE  \/ Pending(a)'[i] = p
              \/ \E k \in 1 .. Len(Pending(a)) : Pending(a)'[i] = Pending(a)[k]
  BY <1>6
<1>11. NeverBoth'
  <2> SUFFICES ASSUME NEW a \in Ip, NEW h \in Goroutine,
                      NEW i \in 1 .. Len(Pending(a)'), NEW j \in 1 .. Len(todo'[h]),
                      Pending(a)'[i] = todo'[h][j].pkt
               PROVE  FALSE
    BY DEF NeverBoth
  <2>1. CASE Pending(a)'[i] = p
    BY <1>3, <1>7, <2>1
  <2>2. CASE Pending(a)'[i] # p
    <3>1. PICK k \in 1 .. Len(Pending(a)) : Pending(a)'[i] = Pending(a)[k]
      BY <1>10, <2>2
    <3>2. Pending(a)[k] # None
      BY <1>1, PendingType
    <3>3. todo'[h] = todo[h] /\ j \in 1 .. Len(todo[h])
      BY <1>7, <3>1, <3>2
    <3>4. QED
      BY <3>1, <3>3 DEF PlaceInv, NeverBoth
  <2>3. QED
    BY <2>1, <2>2
<1>12. \A q : Underway(q) \/ q = p => q \notin fresh' /\ sent'[q] = 0 /\ failed'[q] = 0
  BY <1>4 DEF Underway
<1>13. AllUnderway'
  <2>1. ASSUME NEW a \in Ip, NEW i \in 1 .. Len(Pending(a)')
        PROVE  Underway(Pending(a)'[i]) \/ Pending(a)'[i] = p
    <3>1. CASE Pending(a)'[i] # p
      <4>1. PICK k \in 1 .. Len(Pending(a)) : Pending(a)'[i] = Pending(a)[k]
        BY <1>10, <3>1
      <4>2. Underway(Pending(a)[k])
        BY DEF PlaceInv, AllUnderway
      <4>3. QED
        BY <4>1, <4>2
    <3>2. QED
      BY <3>1
  <2>2. ASSUME NEW h \in Goroutine, NEW i \in 1 .. Len(todo'[h]), todo'[h][i].pkt # None
        PROVE  Underway(todo'[h][i].pkt)
    <3>1. todo'[h] = todo[h] /\ i \in 1 .. Len(todo[h])
      BY <1>7, <2>2
    <3>2. QED
      BY <2>2, <3>1 DEF PlaceInv, AllUnderway
  <2>3. QED
    BY <1>12, <2>1, <2>2 DEF AllUnderway, Underway
<1>14. ASSUME NEW q \in Packet
       PROVE  /\ Waits(q) => Waits(q)'
              /\ Held(q) => Held(q)'
              /\ Waits(p)'
  <2>1. ASSUME Waits(q)
        PROVE  Waits(q)'
    <3>1. PICK a \in Ip : \E i \in 1 .. Len(Pending(a)) : Pending(a)[i] = q
      BY <2>1 DEF Waits
    <3>2. PICK i \in 1 .. Len(Pending(a)) : Pending(a)[i] = q
      BY <3>1
    <3>3. \E k \in 1 .. Len(Pending(a)') : Pending(a)'[k] = q
      <4>1. CASE a = ip
        <5>1. i + 1 \in 1 .. Len(Pending(ip)') /\ Pending(ip)'[i + 1] = q
          BY <1>5, <3>2, <4>1
        <5>2. QED
          BY <4>1, <5>1
      <4>2. CASE a # ip
        BY <3>2, <4>2
      <4>3. QED
        BY <4>1, <4>2
    <3>4. QED
      BY <3>3 DEF Waits
  <2>2. ASSUME Held(q)
        PROVE  Held(q)'
    <3>1. PICK h \in Goroutine : \E i \in 1 .. Len(todo[h]) : todo[h][i].pkt = q
      BY <2>2 DEF Held
    <3>2. h # g
      BY <3>1
    <3>3. todo'[h] = todo[h]
      BY <1>2, <3>2
    <3>4. QED
      BY <3>1, <3>3 DEF Held
  <2>3. Waits(p)'
    <3>1. 1 \in 1 .. Len(Pending(ip)') /\ Pending(ip)'[1] = p
      BY <1>5
    <3>2. QED
      BY <3>1 DEF Waits
  <2>4. QED
    BY <2>1, <2>2, <2>3
<1>15. Accounted'
  BY <1>14 DEF PlaceInv, Accounted
<1>16. QED
  BY <1>8, <1>9, <1>11, <1>13, <1>15 DEF PlaceInv

LEMMA ResolveOrQueuePlaces ==
  ASSUME TableInv, PlaceInv, NEW g \in Sender, NEW p \in Packet, NEW ip \in Ip,
         ResolveOrQueue(g, p, ip)
  PROVE  PlaceInv'
<1>1. /\ g \in Goroutine /\ p \in fresh /\ todo[g] = << >> /\ p # None
      /\ fresh' = fresh \ {p} /\ UNCHANGED <<sent, failed>>
      /\ todo \in [Goroutine -> Seq(CallRecord)] /\ table \in [Ip -> Entry \cup {None}]
  BY ArpAssumption DEF Goroutine, ResolveOrQueue, TableInv, TypeOK
<1>2. CASE /\ ip \in Complete
           /\ todo' = [todo EXCEPT ![g] = <<Call("send", ip, p, table[ip].mac)>>]
           /\ UNCHANGED table
  <2>1. Call("send", ip, p, table[ip].mac).pkt = p
    BY DEF Call
  <2>2. QED
    BY <1>1, <1>2, <2>1, GoesOn
<1>3. CASE /\ ip \in Incomplete
           /\ table' = [table EXCEPT ![ip].pending = <<p>> \o @]
           /\ UNCHANGED todo
  <2> DEFINE e == [table[ip] EXCEPT !.pending = <<p>> \o @]
  <2>1. table' = [table EXCEPT ![ip] = e]
    BY <1>3
  <2>2. table[ip] \in Entry /\ ip \in Known
    BY <1>1, <1>3 DEF Incomplete, Known
  <2>3. e \in Entry /\ e.pending = <<p>> \o table[ip].pending
    BY <2>2, QueuedType
  <2>4. e # None
    BY <2>3, EntryFields
  <2> HIDE DEF e
  <2>5. table'[ip] = e /\ \A a \in Ip : a # ip => table'[a] = table[a]
    BY <1>1, <2>1
  <2>6. Pending(ip)' = <<p>> \o Pending(ip)
    BY <2>2, <2>3, <2>4, <2>5 DEF Pending, Known
  <2>7. \A a \in Ip : a # ip => Pending(a)' = Pending(a)
    BY <2>5 DEF Pending, Known
  <2>8. todo' = [todo EXCEPT ![g] = << >>]
    BY <1>1, <1>3
  <2>9. << >> \in Seq(CallRecord) /\ \A k \in 1 .. Len(<< >>) : << >>[k].pkt = None
    OBVIOUS
  <2> DEFINE s == << >>
  <2>10. s \in Seq(CallRecord) /\ todo' = [todo EXCEPT ![g] = s]
         /\ \A k \in 1 .. Len(s) : s[k].pkt = None
    BY <2>8, <2>9
  <2> HIDE DEF s
  <2>11. QED
    BY <1>1, <2>6, <2>7, <2>10, Arrives
<1>4. CASE /\ ip \notin Known
           /\ table' = [table EXCEPT ![ip] = Incompletely(p)]
           /\ todo' = [todo EXCEPT ![g] = <<Call("request", ip, None, None)>>]
  <2> DEFINE c == Call("request", ip, None, None)
             s == <<c>>
  <2>1. c \in CallRecord /\ c.pkt = None
    BY DEF Call, CallRecord
  <2> HIDE DEF c
  <2>2. s \in Seq(CallRecord) /\ \A k \in 1 .. Len(s) : s[k].pkt = None
    BY <2>1
  <2>3. todo' = [todo EXCEPT ![g] = s]
    BY <1>4 DEF c
  <2> HIDE DEF s
  <2>4. Incompletely(p) # None
    BY IncompletelyOK
  <2>5. table'[ip] = Incompletely(p) /\ \A a \in Ip : a # ip => table'[a] = table[a]
    BY <1>1, <1>4
  <2>6. Pending(ip)' = <<p>> /\ Pending(ip) = << >>
    BY <1>4, <2>4, <2>5 DEF Pending, Known, Incompletely
  <2>7. Pending(ip)' = <<p>> \o Pending(ip)
    <3>1. <<p>> \in Seq(Packet)
      OBVIOUS
    <3>2. QED
      BY <2>6, <3>1, ConcatEmptySeq
  <2>8. \A a \in Ip : a # ip => Pending(a)' = Pending(a)
    BY <2>5 DEF Pending, Known
  <2>9. QED
    BY <1>1, <2>2, <2>3, <2>7, <2>8, Arrives
<1>5. QED
  BY <1>2, <1>3, <1>4 DEF ResolveOrQueue

\* Nothing is handed over, and every packet waits where it did.
LEMMA PlacesKept ==
  ASSUME PlaceInv, \A ip \in Ip : Pending(ip)' = Pending(ip), UNCHANGED <<todo, fresh, sent, failed>>
  PROVE  PlaceInv'
<1>1. QueuedOnce'
  BY DEF PlaceInv, QueuedOnce
<1>2. TakenOnce'
  BY DEF PlaceInv, TakenOnce
<1>3. NeverBoth'
  BY DEF PlaceInv, NeverBoth
<1>4. AllUnderway'
  BY DEF PlaceInv, AllUnderway, Underway
<1>5. \A p : (Waits(p) => Waits(p)') /\ (Held(p) => Held(p)')
  BY DEF Waits, Held
<1>6. Accounted'
  BY <1>5 DEF PlaceInv, Accounted
<1>7. QED
  BY <1>1, <1>2, <1>3, <1>4, <1>6 DEF PlaceInv

LEMMA LearnBindingPlaces ==
  ASSUME TableInv, PlaceInv, NEW ip \in Ip, NEW mac \in Mac, NEW existingOnly \in BOOLEAN,
         LearnBinding(ip, mac, existingOnly)
  PROVE  PlaceInv'
<1>1. /\ "rx" \in Goroutine /\ TypeOK /\ todo["rx"] = << >> /\ UNCHANGED <<fresh, sent, failed>>
      /\ table \in [Ip -> Entry \cup {None}]
  BY DEF Goroutine, LearnBinding, TableInv, TypeOK
<1>2. CASE /\ ip \in Known
           /\ table' = [table EXCEPT ![ip] = Resolved(@, mac)]
           /\ todo' = [todo EXCEPT !["rx"] = Releases(ip)]
  <2>1. table[ip] \in Entry
    BY <1>1, <1>2 DEF Known
  <2>2. Resolved(table[ip], mac).pending = << >>
    BY <2>1, ResolvedType
  <2>3. table'[ip] = Resolved(table[ip], mac) /\ \A a \in Ip : a # ip => table'[a] = table[a]
    BY <1>1, <1>2
  <2>4. Pending(ip)' = << >>
    BY <2>2, <2>3 DEF Pending
  <2>5. \A a \in Ip \ {ip} : Pending(a)' = Pending(a)
    BY <2>3 DEF Pending, Known
  <2>6. /\ Releases(ip) \in Seq(CallRecord)
        /\ Len(Releases(ip)) = Len(Pending(ip))
        /\ \A i \in 1 .. Len(Releases(ip)) : Releases(ip)[i].pkt = Pending(ip)[i]
    BY <1>1, <1>2, ReleasesAre
  <2> DEFINE s == Releases(ip)
             gone == {ip}
  <2>7. \A k \in 1 .. Len(s) : s[k].pkt # None =>
           \E a \in gone : \E j \in 1 .. Len(Pending(a)) : s[k].pkt = Pending(a)[j]
    BY <2>6
  <2>8. \A a \in gone : \A j \in 1 .. Len(Pending(a)) :
           \E k \in 1 .. Len(s) : s[k].pkt = Pending(a)[j]
    BY <2>6
  <2>9. \A k, l \in 1 .. Len(s) : s[k].pkt = s[l].pkt /\ s[k].pkt # None => k = l
    BY <2>6 DEF PlaceInv, QueuedOnce
  <2>10. s \in Seq(CallRecord) /\ todo' = [todo EXCEPT !["rx"] = s] /\ gone \in SUBSET Ip
         /\ (\A a \in Ip \ gone : Pending(a)' = Pending(a))
         /\ (\A a \in gone : Pending(a)' = << >>)
    BY <1>2, <2>4, <2>5, <2>6
  <2> HIDE DEF s, gone
  <2>11. HandsOver("rx", s, gone)
    BY <1>1, <2>7, <2>8, <2>9, <2>10 DEF HandsOver
  <2>12. QED
    BY <1>1, <2>10, <2>11, HandOver
<1>3. CASE /\ ip \notin Known
           /\ table' = [table EXCEPT ![ip] = Learned(mac)]
           /\ UNCHANGED todo
  <2>1. table'[ip] = Learned(mac) /\ \A a \in Ip : a # ip => table'[a] = table[a]
    BY <1>1, <1>3
  <2>2. \A a \in Ip : Pending(a)' = Pending(a)
    BY <1>3, <2>1 DEF Pending, Known, Learned
  <2>3. QED
    BY <1>1, <1>3, <2>2, PlacesKept
<1>4. QED
  BY <1>2, <1>3 DEF LearnBinding

LEMMA CleanupExpiredPlaces ==
  ASSUME TableInv, PlaceInv, CleanupExpired
  PROVE  PlaceInv'
<1>1. ASSUME NEW ip \in Ip
      PROVE  Pending(ip)' = Pending(ip)
  <2>1. CASE ip \in Expired
    <3>1. table'[ip] = None
      BY <2>1 DEF CleanupExpired
    <3>2. table[ip].pending = << >>
      BY <2>1 DEF Expired, Complete, Known, TableInv, EntriesOK, EntryOK
    <3>3. QED
      BY <3>1, <3>2 DEF Pending, Known
  <2>2. CASE ip \notin Expired
    <3>1. table'[ip] = table[ip]
      BY <2>2 DEF CleanupExpired
    <3>2. QED
      BY <3>1 DEF Pending, Known
  <2>3. QED
    BY <2>1, <2>2
<1>2. QED
  BY <1>1, PlacesKept DEF CleanupExpired

LEMMA TickPlaces ==
  ASSUME TableInv, PlaceInv, Tick
  PROVE  PlaceInv'
<1>1. ASSUME NEW ip \in Ip
      PROVE  Pending(ip)' = Pending(ip)
  <2>1. CASE table[ip] # None
    <3>1. table'[ip] = Older(table[ip]) /\ table[ip] \in Entry
      BY <2>1 DEF Tick, Known, TableInv, TypeOK
    <3>2. table'[ip] \in Entry /\ table'[ip].pending = table[ip].pending
      BY <3>1, OlderType
    <3>3. table'[ip] # None
      BY <3>2, EntryFields
    <3>4. QED
      BY <2>1, <3>2, <3>3 DEF Pending, Known
  <2>2. CASE table[ip] = None
    <3>1. table'[ip] = None
      BY <2>2 DEF Tick, Known
    <3>2. QED
      BY <2>2, <3>1 DEF Pending, Known
  <2>3. QED
    BY <2>1, <2>2
<1>2. QED
  BY <1>1, PlacesKept DEF Tick

LEMMA MaintainPendingPlaces ==
  ASSUME TableInv, PlaceInv, MaintainPending
  PROVE  PlaceInv'
<1>1. /\ "maint" \in Goroutine /\ TypeOK /\ todo["maint"] = << >>
      /\ UNCHANGED <<fresh, sent, failed>>
      /\ todo' = [todo EXCEPT !["maint"] = Retries(RetryDue) \o Failures(TimedOut)]
  BY DEF Goroutine, MaintainPending, TableInv
<1>2. /\ TimedOut \subseteq Ip /\ RetryDue \subseteq Ip /\ TimedOut \subseteq Known
      /\ TimedOut \cap RetryDue = {}
  BY DEF TimedOut, RetryDue, Incomplete, Known
<1>3. ASSUME NEW ip \in TimedOut
      PROVE  Pending(ip)' = << >>
  <2>1. table'[ip] = None
    BY <1>2 DEF MaintainPending
  <2>2. QED
    BY <2>1 DEF Pending, Known
<1>4. ASSUME NEW ip \in Ip \ TimedOut
      PROVE  Pending(ip)' = Pending(ip)
  <2>1. CASE ip \in RetryDue
    <3>1. table'[ip] = [table[ip] EXCEPT !.requests = @ + 1, !.idle = 0]
      BY <2>1 DEF MaintainPending
    <3>2. table[ip] \in Entry /\ table[ip].requests < MaxAttempts
      BY <1>1, <2>1 DEF TypeOK, RetryDue, Incomplete, Known
    <3>3. table'[ip] \in Entry /\ table'[ip].pending = table[ip].pending
      BY <3>1, <3>2, RetriedType
    <3>4. QED
      BY <3>2, <3>3, EntryFields DEF Pending, Known
  <2>2. CASE ip \notin RetryDue
    <3>1. table'[ip] = table[ip]
      BY <2>2 DEF MaintainPending
    <3>2. QED
      BY <3>1 DEF Pending, Known
  <2>3. QED
    BY <2>1, <2>2
<1> DEFINE r == Retries(RetryDue)
           f == Failures(TimedOut)
           s == r \o f
<1>5. r \in Seq(CallRecord) /\ \A i \in 1 .. Len(r) : r[i].pkt = None
  BY <1>2, RetriesAre
<1>6. /\ f \in Seq(CallRecord)
      /\ \A k \in 1 .. Len(f) :
           \E ip \in TimedOut : \E j \in 1 .. Len(Pending(ip)) :
             f[k] = Call("fail", ip, Pending(ip)[j], None)
      /\ \A ip \in TimedOut : \A j \in 1 .. Len(Pending(ip)) :
           \E k \in 1 .. Len(f) : f[k] = Call("fail", ip, Pending(ip)[j], None)
      /\ \A k, l \in 1 .. Len(f) : f[k].pkt = f[l].pkt => k = l
  BY <1>1, <1>2, FailuresAre DEF PlaceInv
<1>7. todo' = [todo EXCEPT !["maint"] = s]
  BY <1>1
<1> HIDE DEF r, f
<1>8. /\ s \in Seq(CallRecord) /\ Len(s) = Len(r) + Len(f)
      /\ Len(r) \in Nat /\ Len(f) \in Nat
      /\ \A k \in 1 .. Len(r) : s[k] = r[k]
      /\ \A k \in 1 .. Len(f) : s[Len(r) + k] = f[k]
      /\ \A k \in 1 .. Len(s) : k > Len(r) => k - Len(r) \in 1 .. Len(f) /\ s[k] = f[k - Len(r)]
  BY <1>5, <1>6, ConcatProperties, LenProperties
<1> HIDE DEF s
<1>9. ASSUME NEW k \in 1 .. Len(s), s[k].pkt # None
      PROVE  k > Len(r)
  <2>1. k \in Nat /\ Len(r) \in Nat
    BY <1>8
  <2>2. ~(k \in 1 .. Len(r))
    BY <1>5, <1>8, <1>9
  <2>3. QED
    BY <2>1, <2>2
<1>10. \A k \in 1 .. Len(s) : s[k].pkt # None =>
         \E ip \in TimedOut : \E j \in 1 .. Len(Pending(ip)) : s[k].pkt = Pending(ip)[j]
  <2> SUFFICES ASSUME NEW k \in 1 .. Len(s), s[k].pkt # None
               PROVE  \E ip \in TimedOut : \E j \in 1 .. Len(Pending(ip)) :
                        s[k].pkt = Pending(ip)[j]
    OBVIOUS
  <2>1. k - Len(r) \in 1 .. Len(f) /\ s[k] = f[k - Len(r)]
    BY <1>8, <1>9
  <2>2. PICK ip \in TimedOut : \E j \in 1 .. Len(Pending(ip)) :
               f[k - Len(r)] = Call("fail", ip, Pending(ip)[j], None)
    BY <1>6, <2>1
  <2>3. PICK j \in 1 .. Len(Pending(ip)) :
               f[k - Len(r)] = Call("fail", ip, Pending(ip)[j], None)
    BY <2>2
  <2>4. s[k].pkt = Pending(ip)[j]
    BY <2>1, <2>3 DEF Call
  <2>5. QED
    BY <2>4
<1>11. \A ip \in TimedOut : \A j \in 1 .. Len(Pending(ip)) :
         \E k \in 1 .. Len(s) : s[k].pkt = Pending(ip)[j]
  <2> SUFFICES ASSUME NEW ip \in TimedOut, NEW j \in 1 .. Len(Pending(ip))
               PROVE  \E k \in 1 .. Len(s) : s[k].pkt = Pending(ip)[j]
    OBVIOUS
  <2>1. PICK k \in 1 .. Len(f) : f[k] = Call("fail", ip, Pending(ip)[j], None)
    BY <1>6
  <2>2. f[k].pkt = Pending(ip)[j]
    BY <2>1 DEF Call
  <2>3. Len(r) + k \in 1 .. Len(s) /\ s[Len(r) + k] = f[k]
    BY <1>8
  <2>4. QED
    BY <2>2, <2>3
<1>12. \A k, l \in 1 .. Len(s) : s[k].pkt = s[l].pkt /\ s[k].pkt # None => k = l
  <2> SUFFICES ASSUME NEW k \in 1 .. Len(s), NEW l \in 1 .. Len(s),
                      s[k].pkt = s[l].pkt, s[k].pkt # None
               PROVE  k = l
    OBVIOUS
  <2>1. /\ k - Len(r) \in 1 .. Len(f) /\ s[k] = f[k - Len(r)]
        /\ l - Len(r) \in 1 .. Len(f) /\ s[l] = f[l - Len(r)]
    BY <1>8, <1>9
  <2>2. f[k - Len(r)].pkt = f[l - Len(r)].pkt
    BY <2>1
  <2>3. k - Len(r) = l - Len(r)
    BY <1>6, <2>1, <2>2
  <2>4. k \in Int /\ l \in Int /\ Len(r) \in Int
    BY <1>8
  <2>5. QED
    BY <2>3, <2>4
<1>13. HandsOver("maint", s, TimedOut)
  BY <1>1, <1>3, <1>4, <1>7, <1>10, <1>11, <1>12 DEF HandsOver
<1>14. QED
  BY <1>1, <1>2, <1>8, <1>13, HandOver

\* A call is made: its packet, if it has one, is sent or reported now.
LEMMA StepPlaces ==
  ASSUME TableInv, PlaceInv, NEW g \in Goroutine, Step(g)
  PROVE  PlaceInv'
<1> DEFINE p == Head(todo[g]).pkt
           s == Tail(todo[g])
<1>1. /\ todo[g] # << >> /\ todo' = [todo EXCEPT ![g] = s] /\ UNCHANGED <<table, fresh>>
      /\ todo \in [Goroutine -> Seq(CallRecord)] /\ TypeOK
  BY DEF Step, Request, SendResolved, Release, Fail, Calls, Made, TableInv, TypeOK
<1>2. /\ Len(todo[g]) \in Nat /\ 1 \in 1 .. Len(todo[g]) /\ p = todo[g][1].pkt
      /\ Len(s) = Len(todo[g]) - 1
      /\ \A i \in 1 .. Len(s) : i + 1 \in 1 .. Len(todo[g]) /\ s[i] = todo[g][i + 1]
      /\ Head(todo[g]).do = "request" <=> p = None
      /\ Head(todo[g]).do = "release" => Head(todo[g]).ip \in Complete
      /\ p \in Packet \cup {None}
  BY <1>1, NextCall DEF CallRecord
<1>3. p # None => p \in Packet /\ p \notin fresh /\ sent[p] = 0 /\ failed[p] = 0
  BY <1>2 DEF PlaceInv, AllUnderway, Underway
<1>4. /\ \A q \in Packet : q # p => sent'[q] = sent[q] /\ failed'[q] = failed[q]
      /\ p # None => sent'[p] + failed'[p] = 1
  <2>1. sent \in [Packet -> Nat] /\ failed \in [Packet -> Nat]
    BY <1>1 DEF TypeOK
  <2> HIDE DEF p, s
  <2>2. CASE Request(g)
    BY <1>2, <2>1, <2>2 DEF Request, Calls
  <2>3. CASE SendResolved(g)
    <3>1. sent' = [sent EXCEPT ![p] = @ + 1] /\ failed' = failed
      BY <2>3 DEF SendResolved, p
    <3>2. QED
      BY <1>3, <2>1, <3>1
  <2>4. CASE Release(g)
    <3>1. sent' = [sent EXCEPT ![p] = @ + 1] /\ failed' = failed
      BY <1>2, <2>4 DEF Release, Calls, p
    <3>2. QED
      BY <1>3, <2>1, <3>1
  <2>5. CASE Fail(g)
    <3>1. failed' = [failed EXCEPT ![p] = @ + 1] /\ sent' = sent
      BY <2>5 DEF Fail, p
    <3>2. QED
      BY <1>3, <2>1, <3>1
  <2>6. QED
    BY <2>2, <2>3, <2>4, <2>5 DEF Step
<1> HIDE DEF p, s
<1>5. /\ todo'[g] = s /\ \A h \in Goroutine : h # g => todo'[h] = todo[h]
      /\ \A a \in Ip : Pending(a)' = Pending(a)
  BY <1>1 DEF Pending, Known
<1>6. ASSUME NEW h \in Goroutine, NEW i \in 1 .. Len(todo'[h])
      PROVE  \E k \in 1 .. Len(todo[h]) :
               /\ k = (IF h = g THEN i + 1 ELSE i) /\ todo'[h][i] = todo[h][k]
               /\ todo[h][k].pkt # None => todo[h][k].pkt # p
  <2>1. CASE h = g
    <3>1. i \in 1 .. Len(s) /\ todo'[h][i] = s[i]
      BY <1>5, <1>6, <2>1
    <3>2. i + 1 \in 1 .. Len(todo[g]) /\ s[i] = todo[g][i + 1] /\ i + 1 # 1
      BY <1>2, <3>1
    <3>3. todo[g][i + 1].pkt # None => todo[g][i + 1].pkt # p
      BY <1>2, <3>2 DEF PlaceInv, TakenOnce
    <3>4. QED
      BY <2>1, <3>1, <3>2, <3>3
  <2>2. CASE h # g
    <3>1. todo'[h] = todo[h] /\ i \in 1 .. Len(todo[h])
      BY <1>5, <1>6, <2>2
    <3>2. todo[h][i].pkt # None => todo[h][i].pkt # p
      BY <1>2, <2>2, <3>1 DEF PlaceInv, TakenOnce
    <3>3. QED
      BY <2>2, <3>1, <3>2
  <2>3. QED
    BY <2>1, <2>2
<1>7. QueuedOnce'
  BY <1>5 DEF PlaceInv, QueuedOnce
<1>8. TakenOnce'
  <2> SUFFICES ASSUME NEW a \in Goroutine, NEW b \in Goroutine,
                      NEW i \in 1 .. Len(todo'[a]), NEW j \in 1 .. Len(todo'[b]),
                      todo'[a][i].pkt = todo'[b][j].pkt, todo'[a][i].pkt # None
               PROVE  a = b /\ i = j
    BY DEF TakenOnce
  <2>1. PICK k \in 1 .. Len(todo[a]) :
          k = (IF a = g THEN i + 1 ELSE i) /\ todo'[a][i] = todo[a][k]
    BY <1>6
  <2>2. PICK l \in 1 .. Len(todo[b]) :
          l = (IF b = g THEN j + 1 ELSE j) /\ todo'[b][j] = todo[b][l]
    BY <1>6
  <2>3. a = b /\ k = l
    BY <2>1, <2>2 DEF PlaceInv, TakenOnce
  <2>4. i \in Int /\ j \in Int
    OBVIOUS
  <2>5. QED
    BY <2>1, <2>2, <2>3, <2>4
<1>9. NeverBoth'
  <2> SUFFICES ASSUME NEW a \in Ip, NEW h \in Goroutine,
                      NEW i \in 1 .. Len(Pending(a)), NEW j \in 1 .. Len(todo'[h])
               PROVE  Pending(a)[i] # todo'[h][j].pkt
    BY <1>5 DEF NeverBoth
  <2>1. PICK k \in 1 .. Len(todo[h]) : todo'[h][j] = todo[h][k]
    BY <1>6
  <2>2. QED
    BY <2>1 DEF PlaceInv, NeverBoth
<1>10. \A q \in Packet : q # p /\ Underway(q) => q \notin fresh' /\ sent'[q] = 0 /\ failed'[q] = 0
  BY <1>1, <1>4 DEF Underway
<1>11. AllUnderway'
  <2>1. ASSUME NEW a \in Ip, NEW i \in 1 .. Len(Pending(a))
        PROVE  Pending(a)[i] \in Packet /\ Underway(Pending(a)[i]) /\ Pending(a)[i] # p
    BY <1>1, <1>2, PendingType DEF PlaceInv, AllUnderway, NeverBoth
  <2>2. ASSUME NEW h \in Goroutine, NEW i \in 1 .. Len(todo'[h]), todo'[h][i].pkt # None
        PROVE  /\ todo'[h][i].pkt \in Packet /\ Underway(todo'[h][i].pkt)
               /\ todo'[h][i].pkt # p
    <3>1. PICK k \in 1 .. Len(todo[h]) :
            todo'[h][i] = todo[h][k] /\ (todo[h][k].pkt # None => todo[h][k].pkt # p)
      BY <1>6
    <3>2. todo[h][k] \in CallRecord
      BY <1>1, ElementOfSeq
    <3>3. QED
      BY <2>2, <3>1, <3>2 DEF PlaceInv, AllUnderway, CallRecord
  <2>3. QED
    BY <1>5, <1>10, <2>1, <2>2 DEF AllUnderway, Underway
<1>12. ASSUME NEW q \in Packet, q # p
       PROVE  /\ Waits(q) => Waits(q)'
              /\ Held(q) => Held(q)'
  <2>1. Waits(q) => Waits(q)'
    BY <1>5 DEF Waits
  <2>2. ASSUME Held(q)
        PROVE  Held(q)'
    <3>1. PICK h \in Goroutine : \E i \in 1 .. Len(todo[h]) : todo[h][i].pkt = q
      BY <2>2 DEF Held
    <3>2. PICK i \in 1 .. Len(todo[h]) : todo[h][i].pkt = q
      BY <3>1
    <3>3. CASE h = g
      <4>1. i # 1
        BY <1>2, <1>12, <3>2, <3>3
      <4>2. i - 1 \in 1 .. Len(s) /\ (i - 1) + 1 = i
        BY <1>2, <3>3, <4>1
      <4>3. s[i - 1] = todo[g][i]
        BY <1>2, <4>2
      <4>4. i - 1 \in 1 .. Len(todo'[g]) /\ todo'[g][i - 1].pkt = q
        BY <1>5, <3>2, <3>3, <4>2, <4>3
      <4>5. QED
        BY <4>4 DEF Held
    <3>4. CASE h # g
      <4>1. todo'[h] = todo[h]
        BY <1>5, <3>4
      <4>2. QED
        BY <3>2, <4>1 DEF Held
    <3>5. QED
      BY <3>3, <3>4
  <2>3. QED
    BY <2>1, <2>2
<1>13. Accounted'
  <2> SUFFICES ASSUME NEW q \in Packet
               PROVE  /\ q \in fresh' => sent'[q] = 0 /\ failed'[q] = 0
                      /\ q \in fresh' \/ Waits(q)' \/ Held(q)' \/ sent'[q] + failed'[q] = 1
    BY DEF Accounted
  <2>1. CASE q = p
    <3>1. p # None
      BY <2>1, ArpAssumption
    <3>2. QED
      BY <1>1, <1>3, <1>4, <2>1, <3>1
  <2>2. CASE q # p
    BY <1>1, <1>4, <1>12, <2>2 DEF PlaceInv, Accounted
  <2>3. QED
    BY <2>1, <2>2
<1>14. QED
  BY <1>7, <1>8, <1>9, <1>11, <1>13 DEF PlaceInv

LEMMA PlaceNext ==
  ASSUME TableInv, PlaceInv, [Next]_vars
  PROVE  PlaceInv'
<1>1. CASE UNCHANGED vars
  <2>1. \A ip \in Ip : Pending(ip)' = Pending(ip)
    BY <1>1 DEF vars, Pending, Known
  <2>2. QED
    BY <1>1, <2>1, PlacesKept DEF vars
<1>2. CASE Next
  <2>1. CASE \E g \in Sender, p \in Packet, ip \in Ip : ResolveOrQueue(g, p, ip)
    BY <2>1, ResolveOrQueuePlaces
  <2>2. CASE \E ip \in Ip, mac \in Mac, existingOnly \in BOOLEAN :
               LearnBinding(ip, mac, existingOnly)
    BY <2>2, LearnBindingPlaces
  <2>3. CASE \E g \in Goroutine : Step(g)
    BY <2>3, StepPlaces
  <2>4. QED
    BY <1>2, <2>1, <2>2, <2>3, MaintainPendingPlaces, CleanupExpiredPlaces, TickPlaces DEF Next
<1>3. QED
  BY <1>1, <1>2
------------------------------------------------------------------------------
(* The theorems.                                                             *)

LEMMA InvariantsHold == Spec => [](TableInv /\ PlaceInv)
<1>1. Init => TableInv /\ PlaceInv
  BY TableInit, PlaceInit
<1>2. TableInv /\ PlaceInv /\ [Next]_vars => (TableInv /\ PlaceInv)'
  BY TableNext, PlaceNext
<1>3. QED
  BY <1>1, <1>2, PTL DEF Spec

\* Every variable keeps its type: no entry ever counts more requests than
\* ARP_REQUEST_MAX_ATTEMPTS, and a complete entry has a MAC.
THEOREM TypeCorrect == Spec => []TypeOK
<1>1. TableInv => TypeOK
  BY DEF TableInv
<1>2. QED
  BY <1>1, InvariantsHold, PTL

\* Packets wait in an entry exactly as long as it has no MAC, whatever is
\* learned, retried, given up or expires meanwhile: none is stranded in a
\* complete entry, which collect_arp_pending_actions passes over.
THEOREM AttendedAlways == Spec => []Attended
<1>1. TableInv => Attended
  BY DEF TableInv, EntriesOK, EntryOK, Attended, Incomplete, Complete, Known
<1>2. QED
  BY <1>1, InvariantsHold, PTL

LEMMA QueuedCount ==
  ASSUME TableInv, PlaceInv, NEW p \in Packet
  PROVE  Queued(p) = IF Waits(p) THEN 1 ELSE 0
<1> DEFINE places == UNION {{<<ip, i>> : i \in {j \in DOMAIN table[ip].pending :
                                                 table[ip].pending[j] = p}} : ip \in Known}
<1>1. \A ip \in Known : ip \in Ip /\ Pending(ip) = table[ip].pending
        /\ DOMAIN table[ip].pending = 1 .. Len(Pending(ip))
  BY PendingType DEF TableInv, Known
<1>2. \A x : x \in places <=>
        \E ip \in Known : \E i \in 1 .. Len(Pending(ip)) : Pending(ip)[i] = p /\ x = <<ip, i>>
  BY <1>1
<1>3. \A ip \in Ip \ Known : Len(Pending(ip)) = 0
  BY DEF Pending
<1>4. Queued(p) = Cardinality(places)
  BY DEF Queued
<1> HIDE DEF places
<1>5. CASE Waits(p)
  <2>1. PICK ip \in Ip : \E i \in 1 .. Len(Pending(ip)) : Pending(ip)[i] = p
    BY <1>5 DEF Waits
  <2>2. PICK i \in 1 .. Len(Pending(ip)) : Pending(ip)[i] = p
    BY <2>1
  <2>3. ip \in Known
    BY <1>3, <2>2
  <2>4. <<ip, i>> \in places
    BY <1>2, <2>2, <2>3
  <2>5. ASSUME NEW x \in places
        PROVE  x = <<ip, i>>
    <3>1. PICK a \in Known : \E j \in 1 .. Len(Pending(a)) : Pending(a)[j] = p /\ x = <<a, j>>
      BY <1>2
    <3>2. PICK j \in 1 .. Len(Pending(a)) : Pending(a)[j] = p /\ x = <<a, j>>
      BY <3>1
    <3>3. a = ip /\ j = i
      BY <1>1, <2>2, <3>2 DEF PlaceInv, QueuedOnce
    <3>4. QED
      BY <3>2, <3>3
  <2>6. places = {<<ip, i>>}
    BY <2>4, <2>5
  <2>7. QED
    BY <1>4, <1>5, <2>6, FS_Singleton
<1>6. CASE ~Waits(p)
  <2>1. places = {}
    BY <1>1, <1>2, <1>6 DEF Waits
  <2>2. QED
    BY <1>4, <1>6, <2>1, FS_EmptySet
<1>7. QED
  BY <1>5, <1>6

LEMMA TakenCount ==
  ASSUME TableInv, PlaceInv, NEW p \in Packet
  PROVE  Taken(p) = IF Held(p) THEN 1 ELSE 0
<1> DEFINE places == UNION {{<<g, i>> : i \in {j \in DOMAIN todo[g] : todo[g][j].pkt = p}}
                              : g \in Goroutine}
<1>1. \A g \in Goroutine : DOMAIN todo[g] = 1 .. Len(todo[g])
  <2>1. \A g \in Goroutine : todo[g] \in Seq(CallRecord)
    BY DEF TableInv, TypeOK
  <2>2. QED
    BY <2>1, LenProperties
<1>2. \A x : x \in places <=>
        \E g \in Goroutine : \E i \in 1 .. Len(todo[g]) : todo[g][i].pkt = p /\ x = <<g, i>>
  BY <1>1
<1>3. Taken(p) = Cardinality(places) /\ p # None
  BY ArpAssumption DEF Taken
<1> HIDE DEF places
<1>4. CASE Held(p)
  <2>1. PICK g \in Goroutine : \E i \in 1 .. Len(todo[g]) : todo[g][i].pkt = p
    BY <1>4 DEF Held
  <2>2. PICK i \in 1 .. Len(todo[g]) : todo[g][i].pkt = p
    BY <2>1
  <2>3. <<g, i>> \in places
    BY <1>2, <2>2
  <2>4. ASSUME NEW x \in places
        PROVE  x = <<g, i>>
    <3>1. PICK h \in Goroutine : \E j \in 1 .. Len(todo[h]) : todo[h][j].pkt = p /\ x = <<h, j>>
      BY <1>2
    <3>2. PICK j \in 1 .. Len(todo[h]) : todo[h][j].pkt = p /\ x = <<h, j>>
      BY <3>1
    <3>3. h = g /\ j = i
      BY <1>3, <2>2, <3>2 DEF PlaceInv, TakenOnce
    <3>4. QED
      BY <3>2, <3>3
  <2>5. places = {<<g, i>>}
    BY <2>3, <2>4
  <2>6. QED
    BY <1>3, <1>4, <2>5, FS_Singleton
<1>5. CASE ~Held(p)
  <2>1. places = {}
    BY <1>2, <1>5 DEF Held
  <2>2. QED
    BY <1>3, <1>5, <2>1, FS_EmptySet
<1>6. QED
  BY <1>4, <1>5

\* A packet handed to arp_table_resolve_or_queue is in exactly one place until
\* it is sent or reported as dropped, and then it is neither again: the queue
\* arp_learn_binding and collect_arp_pending_actions take over after unlocking
\* is in no entry any more.
THEOREM SentOrFailedOnce == Spec => []ExactlyOnce
<1>1. TableInv /\ PlaceInv => ExactlyOnce
  <2> SUFFICES ASSUME TableInv, PlaceInv, NEW p \in Packet
               PROVE  (IF p \in fresh THEN 1 ELSE 0) + Queued(p) + Taken(p) + sent[p] + failed[p] = 1
    BY DEF ExactlyOnce
  <2>1. /\ Queued(p) = (IF Waits(p) THEN 1 ELSE 0)
        /\ Taken(p) = IF Held(p) THEN 1 ELSE 0
    BY QueuedCount, TakenCount
  <2>2. sent[p] \in Nat /\ failed[p] \in Nat /\ p # None
    BY ArpAssumption DEF TableInv, TypeOK
  <2>3. CASE p \in fresh
    <3>1. ~Waits(p) /\ ~Held(p) /\ sent[p] = 0 /\ failed[p] = 0
      BY <2>2, <2>3, FreshIsNowhere DEF Waits, Held
    <3>2. QED
      BY <2>1, <2>3, <3>1
  <2>4. CASE Waits(p)
    <3>1. p \notin fresh /\ sent[p] = 0 /\ failed[p] = 0
      BY <2>4 DEF Waits, PlaceInv, AllUnderway, Underway
    <3>2. ~Held(p)
      BY <2>4 DEF Waits, Held, PlaceInv, NeverBoth
    <3>3. QED
      BY <2>1, <2>4, <3>1, <3>2
  <2>5. CASE Held(p) /\ ~Waits(p)
    <3>1. p \notin fresh /\ sent[p] = 0 /\ failed[p] = 0
      BY <2>2, <2>5 DEF Held, PlaceInv, AllUnderway, Underway
    <3>2. QED
      BY <2>1, <2>5, <3>1
  <2>6. CASE p \notin fresh /\ ~Waits(p) /\ ~Held(p)
    BY <2>1, <2>2, <2>6 DEF PlaceInv, Accounted
  <2>7. QED
    BY <2>3, <2>4, <2>5, <2>6
<1>2. QED
  BY <1>1, InvariantsHold, PTL

\* An incomplete entry leaves the table only after ARP_REQUEST_MAX_ATTEMPTS
\* requests, and whoever removes it takes over a failure of each of its packets.
THEOREM GivesUpAfterAllAttempts == Spec => GivesUpLast
<1> DEFINE A == \A ip \in Incomplete : table'[ip] = None =>
                  /\ table[ip].requests = MaxAttempts
                  /\ \A i \in DOMAIN table[ip].pending :
                       \E j \in DOMAIN todo'["maint"] :
                         todo'["maint"][j] = Call("fail", ip, table[ip].pending[i], None)
<1>1. TableInv /\ [Next]_vars => [A]_vars
  <2> SUFFICES ASSUME TableInv, [Next]_vars, NEW ip \in Incomplete, table'[ip] = None
               PROVE  /\ table[ip].requests = MaxAttempts
                      /\ \A i \in DOMAIN table[ip].pending :
                           \E j \in DOMAIN todo'["maint"] :
                             todo'["maint"][j] = Call("fail", ip, table[ip].pending[i], None)
    OBVIOUS
  <2>1. /\ ip \in Ip /\ table[ip] # None /\ EntryOK(table[ip]) /\ ~table[ip].complete
        /\ ip \in Known /\ ip \notin Complete /\ table[ip] \in Entry
        /\ table \in [Ip -> Entry \cup {None}] /\ TypeOK
    BY DEF Incomplete, Complete, Known, TableInv, TypeOK, EntriesOK
  <2>2. MaintainPending
    <3>1. CASE UNCHANGED vars
      BY <2>1, <3>1 DEF vars
    <3>2. ASSUME NEW g \in Sender, NEW p \in Packet, NEW a \in Ip, ResolveOrQueue(g, p, a)
          PROVE  FALSE
      <4>1. CASE UNCHANGED table
        BY <2>1, <4>1
      <4>2. CASE /\ a \in Incomplete
                 /\ table' = [table EXCEPT ![a].pending = <<p>> \o @]
        <5>1. CASE a = ip
          <6> DEFINE e == [table[a] EXCEPT !.pending = <<p>> \o @]
          <6>1. e \in Entry
            BY <2>1, <5>1, QueuedType
          <6>2. e # None
            BY <6>1, EntryFields
          <6>3. table'[a] = e
            BY <2>1, <4>2
          <6>4. QED
            BY <5>1, <6>2, <6>3
        <5>2. CASE a # ip
          BY <2>1, <4>2, <5>2
        <5>3. QED
          BY <5>1, <5>2
      <4>3. CASE a \notin Known /\ table' = [table EXCEPT ![a] = Incompletely(p)]
        <5>1. Incompletely(p) # None
          BY IncompletelyOK
        <5>2. QED
          BY <2>1, <4>3, <5>1
      <4>4. QED
        BY <3>2, <4>1, <4>2, <4>3 DEF ResolveOrQueue
    <3>3. ASSUME NEW a \in Ip, NEW mac \in Mac, NEW existingOnly \in BOOLEAN,
                 LearnBinding(a, mac, existingOnly)
          PROVE  FALSE
      <4>1. CASE a \in Known /\ table' = [table EXCEPT ![a] = Resolved(@, mac)]
        <5>1. EntryOK(table[a])
          BY <4>1 DEF TableInv, EntriesOK, Known
        <5>2. Resolved(table[a], mac) # None
          BY <5>1, ResolvedOK
        <5>3. QED
          BY <2>1, <4>1, <5>2
      <4>2. CASE a \notin Known /\ table' = [table EXCEPT ![a] = Learned(mac)]
        <5>1. Learned(mac) # None
          BY LearnedOK
        <5>2. QED
          BY <2>1, <4>2, <5>1
      <4>3. QED
        BY <3>3, <4>1, <4>2 DEF LearnBinding
    <3>4. CASE CleanupExpired
      BY <2>1, <3>4 DEF CleanupExpired, Expired
    <3>5. ASSUME NEW g \in Goroutine, Step(g)
          PROVE  FALSE
      BY <2>1, <3>5 DEF Step, Request, SendResolved, Release, Fail
    <3>6. CASE Tick
      <4>1. table'[ip] = Older(table[ip])
        BY <2>1, <3>6 DEF Tick
      <4>2. Older(table[ip]) \in Entry
        BY <2>1, OlderType
      <4>3. QED
        BY <4>1, <4>2, EntryFields
    <3>7. QED
      BY <3>1, <3>2, <3>3, <3>4, <3>5, <3>6 DEF Next
  <2>3. ip \in TimedOut /\ ip \notin RetryDue
    <3>1. CASE ip \in RetryDue
      <4>1. table[ip].requests < MaxAttempts /\ table[ip].idle >= 1 /\ ip \notin TimedOut
        BY <3>1 DEF RetryDue
      <4>2. table'[ip] = [table[ip] EXCEPT !.requests = @ + 1, !.idle = 0]
        BY <2>1, <2>2, <3>1, <4>1 DEF MaintainPending
      <4>3. table'[ip] # None
        BY <2>1, <4>1, <4>2, RetriedOK
      <4>4. QED
        BY <4>3
    <3>2. CASE ip \notin TimedOut /\ ip \notin RetryDue
      BY <2>1, <2>2, <3>2 DEF MaintainPending
    <3>3. QED
      BY <3>1, <3>2
  <2>4. table[ip].requests = MaxAttempts
    <3>1. table[ip].age >= MaxAttempts
      BY <2>3 DEF TimedOut, PendingTimeout
    <3>2. table[ip].requests \in 0 .. MaxAttempts /\ table[ip].age \in Nat /\ table[ip].idle \in Nat
      BY <2>1, EntryFields DEF PendingTimeout
    <3>3. QED
      BY <2>1, <3>1, <3>2, ArpAssumption DEF EntryOK
  <2>5. ASSUME NEW i \in DOMAIN table[ip].pending
        PROVE  \E j \in DOMAIN todo'["maint"] :
                 todo'["maint"][j] = Call("fail", ip, table[ip].pending[i], None)
    <3> DEFINE r == Retries(RetryDue)
               f == Failures(TimedOut)
    <3>1. TimedOut \in SUBSET Known /\ RetryDue \in SUBSET Ip
      BY DEF TimedOut, RetryDue, Incomplete, Known
    <3>2. r \in Seq(CallRecord)
      BY <3>1, RetriesAre
    <3>3. Pending(ip) = table[ip].pending /\ i \in 1 .. Len(Pending(ip))
      BY <2>1, PendingType
    <3>4. /\ f \in Seq(CallRecord)
          /\ \E k \in 1 .. Len(f) : f[k] = Call("fail", ip, Pending(ip)[i], None)
      BY <2>1, <2>3, <3>1, <3>3, FailuresAre
    <3>5. "maint" \in Goroutine /\ todo \in [Goroutine -> Seq(CallRecord)]
      BY <2>1 DEF Goroutine, TypeOK
    <3>6. todo'["maint"] = r \o f
      BY <2>2, <3>5 DEF MaintainPending
    <3> HIDE DEF r, f
    <3>7. PICK k \in 1 .. Len(f) : f[k] = Call("fail", ip, Pending(ip)[i], None)
      BY <3>4
    <3>8. /\ Len(r) + k \in 1 .. Len(r \o f) /\ (r \o f)[Len(r) + k] = f[k]
          /\ DOMAIN (r \o f) = 1 .. Len(r \o f)
      BY <3>2, <3>4, ConcatProperties, LenProperties
    <3>9. QED
      BY <3>3, <3>6, <3>7, <3>8
  <2>6. QED
    BY <2>4, <2>5
<1>2. QED
  BY <1>1, InvariantsHold, PTL DEF Spec, GivesUpLast
==============================================================================
