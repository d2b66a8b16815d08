-------------------------- MODULE VlanSwitch_proofs --------------------------
(****************************************************************************)
(* Theorems about VlanSwitch, for any switches, stations, ports, names and  *)
(* workloads, each from an inductive invariant of its own. TableInv and     *)
(* PlaceInv: the MAC tables depend on nothing but which frames arrive       *)
(* where. VlanInv: the VLANs of the frames on the wires and in the ARP      *)
(* queues, whatever is in the tables. TypeInv: what frames and waiting      *)
(* packets are. HopInv: how far a frame can still go, from what lies beyond *)
(* the wire it is on. TokenInv: where the one frame or queue entry is that  *)
(* a packet still is.                                                       *)
(****************************************************************************)
EXTENDS VlanSwitch, SequenceLemmas

------------------------------------------------------------------------------
(* The tables and what was heard.                                            *)

IsEntry(e) == DOMAIN e = {"oif", "age"} /\ e.age \in Nat

\* An entry is younger than the station's silence, but for a refresh that was
\* put off.
Fresh(e, u) == u.silent \in Nat /\ e.age < u.silent + RefreshThreshold

\* What a switch has in its table, it heard.
Heard(table, ear) ==
  \A k \in DOMAIN table :
    /\ k \in DOMAIN ear
    /\ IsEntry(table[k])
    /\ DOMAIN ear[k] = {"port", "silent"}
    /\ Fresh(table[k], ear[k])

TableInv ==
  /\ DOMAIN mac = Switch /\ DOMAIN heard = Switch
  /\ \A w \in Switch : Heard(mac[w], heard[w])

\* Learning keeps every entry fresh (mac_table_add_or_update_vlan).
LEMMA LearningKeeps ==
  ASSUME NEW table, NEW ear, Heard(table, ear),
         NEW a, NEW v, NEW p, NEW name
  PROVE  Heard(AddOrUpdate(table, a, v, name), Noted(ear, <<a, v>>, p))
<1> DEFINE k == <<a, v>>
           new == AddOrUpdate(table, a, v, name)
<1>1. /\ DOMAIN new = DOMAIN table \cup {k}
      /\ \A j \in DOMAIN table \ {k} : new[j] = table[j]
      /\ k \in DOMAIN table => new[k] = Updated(table[k], name)
      /\ k \notin DOMAIN table => new[k] = [oif |-> name, age |-> 0]
  BY DEF AddOrUpdate
<1>2. ASSUME NEW e, IsEntry(e)
      PROVE  IsEntry(Updated(e, name)) /\ Updated(e, name).age < RefreshThreshold
  BY <1>2, MacTableAssumption DEF IsEntry, Updated
<1>3. IsEntry(new[k]) /\ new[k].age < RefreshThreshold
  BY <1>1, <1>2, MacTableAssumption DEF IsEntry, Heard
<1>4. Heard(new, Noted(ear, k, p))
  <2> HIDE DEF new, k
  <2>1. /\ DOMAIN Noted(ear, k, p) = DOMAIN ear \cup {k}
        /\ Noted(ear, k, p)[k] = [port |-> p, silent |-> 0]
        /\ \A j \in DOMAIN ear \ {k} : Noted(ear, k, p)[j] = ear[j]
    BY DEF Noted
  <2>2. QED
    BY <1>1, <1>3, <2>1, MacTableAssumption DEF Heard, Fresh
<1>5. QED
  BY <1>4

\* A smaller table, and what was heard of its entries.
LEMMA DroppingKeeps ==
  ASSUME NEW table, NEW ear, Heard(table, ear), NEW S, S \subseteq DOMAIN table
  PROVE  Heard(Restrict(table, S), Restrict(ear, S))
BY DEF Heard, Restrict

\* Time passes for the entries and for what was heard.
LEMMA AgeingKeeps ==
  ASSUME NEW table, NEW ear, Heard(table, ear)
  PROVE  Heard(Older(table), [k \in DOMAIN ear |-> [ear[k] EXCEPT !.silent = @ + 1]])
<1> DEFINE older == [k \in DOMAIN ear |-> [ear[k] EXCEPT !.silent = @ + 1]]
<1>1. ASSUME NEW k \in DOMAIN table
      PROVE  /\ k \in DOMAIN ear
             /\ IsEntry(Older(table)[k])
             /\ DOMAIN older[k] = {"port", "silent"}
             /\ Older(table)[k].age = table[k].age + 1
             /\ older[k].silent = ear[k].silent + 1
  BY <1>1 DEF Heard, Older, IsEntry
<1>2. QED
  BY <1>1, MacTableAssumption DEF Heard, Older, Fresh, IsEntry

------------------------------------------------------------------------------
(* Every step keeps the tables fresh.                                        *)

\* The steps that change a MAC table, and the others.
TableStep ==
  \/ \E p \in Port : Learn(p)
  \/ \E p, q \in Spare : Reconverge(p, q) \/ SetLinkState(p, q)
  \/ Tick
  \/ \E w \in Switch : Cleanup(w)

LEMMA TableSteps ==
  ASSUME [Next]_vars
  PROVE  TableStep \/ UNCHANGED <<mac, heard>>
<1>1. CASE UNCHANGED vars
  BY <1>1 DEF vars
<1>2. ASSUME NEW p \in Port, Arrive(p)
      PROVE  Learn(p) \/ UNCHANGED <<mac, heard>>
  BY <1>2 DEF Arrive, Discard, LearnOnly, SwitchFrame, ReceiveARP, RouteFrame
<1>3. ASSUME NEW u \in Station, StationReceive(u)
      PROVE  UNCHANGED <<mac, heard>>
  BY <1>3 DEF StationReceive
<1>4. ASSUME Send
      PROVE  UNCHANGED <<mac, heard>>
  BY <1>4 DEF Send
<1>5. ASSUME NEW w \in Switch, NEW u \in Station, Retry(w, u) \/ GiveUp(w, u)
      PROVE  UNCHANGED <<mac, heard>>
  BY <1>5 DEF Retry, GiveUp
<1>6. ASSUME NEW q \in Spare, AdvancePort(q)
      PROVE  UNCHANGED <<mac, heard>>
  BY <1>6 DEF AdvancePort
<1>7. ASSUME Done
      PROVE  UNCHANGED <<mac, heard>>
  BY <1>7 DEF Done, vars
<1>8. QED
  BY <1>1, <1>2, <1>3, <1>4, <1>5, <1>6, <1>7 DEF Next, TableStep

LEMMA TableInit == Init => TableInv
BY DEF Init, TableInv, Heard, EmptyTable

LEMMA TableInductive == TableInv /\ [Next]_vars => TableInv'
<1> SUFFICES ASSUME TableInv, [Next]_vars
             PROVE  TableInv'
  OBVIOUS
<1>1. ASSUME NEW p \in Port, Learn(p)
      PROVE  TableInv'
  <2>1. /\ DOMAIN mac' = Switch /\ DOMAIN heard' = Switch
        /\ \A w \in Switch \ {Owner[p]} : mac'[w] = mac[w] /\ heard'[w] = heard[w]
    BY <1>1 DEF Learn, TableInv
  <2>2. Owner[p] \in Switch =>
          /\ mac'[Owner[p]] = Learned(p)
          /\ heard'[Owner[p]] = Noted(heard[Owner[p]], <<Arrived(p).src, VlanOf(p)>>, p)
    BY <1>1 DEF Learn, TableInv
  <2>3. Owner[p] \in Switch => Heard(mac'[Owner[p]], heard'[Owner[p]])
    BY <2>2, LearningKeeps DEF TableInv, Learned
  <2>4. QED
    BY <2>1, <2>3 DEF TableInv
<1>2. ASSUME NEW p \in Spare, NEW q \in Spare, Reconverge(p, q)
      PROVE  TableInv'
  <2>1. /\ DOMAIN mac' = Switch /\ DOMAIN heard' = Switch
        /\ \A w \in Switch \ {Owner[p]} : mac'[w] = mac[w] /\ heard'[w] = heard[w]
    BY <1>2 DEF Reconverge, TableInv
  <2>2. Owner[p] \in Switch =>
          /\ mac'[Owner[p]] = FlushedFor(mac[Owner[p]], Name[p])
          /\ heard'[Owner[p]] = Restrict(heard[Owner[p]], DOMAIN mac'[Owner[p]])
    BY <1>2 DEF Reconverge, TableInv
  <2>3. Owner[p] \in Switch => Heard(mac'[Owner[p]], heard'[Owner[p]])
    <3> DEFINE S == {k \in DOMAIN mac[Owner[p]] : mac[Owner[p]][k].oif # Name[p]}
    <3>1. FlushedFor(mac[Owner[p]], Name[p]) = Restrict(mac[Owner[p]], S)
      BY DEF FlushedFor
    <3>2. DOMAIN Restrict(mac[Owner[p]], S) = S
      BY DEF Restrict
    <3> HIDE DEF S
    <3>3. S \subseteq DOMAIN mac[Owner[p]]
      BY DEF S
    <3>4. QED
      BY <2>2, <3>1, <3>2, <3>3, DroppingKeeps DEF TableInv
  <2>4. QED
    BY <2>1, <2>3 DEF TableInv
<1>3. ASSUME NEW p \in Spare, NEW q \in Spare, SetLinkState(p, q)
      PROVE  TableInv'
  BY <1>3 DEF SetLinkState, TableInv, Heard, EmptyTable
<1>4. ASSUME Tick
      PROVE  TableInv'
  <2>1. /\ DOMAIN mac' = Switch /\ DOMAIN heard' = Switch
        /\ \A w \in Switch :
             /\ mac'[w] = Older(mac[w])
             /\ heard'[w] = [k \in DOMAIN heard[w] |-> [heard[w][k] EXCEPT !.silent = @ + 1]]
    BY <1>4 DEF Tick
  <2>2. QED
    BY <2>1, AgeingKeeps DEF TableInv
<1>5. ASSUME NEW w \in Switch, Cleanup(w)
      PROVE  TableInv'
  <2>1. /\ DOMAIN mac' = Switch /\ DOMAIN heard' = Switch
        /\ \A v \in Switch \ {w} : mac'[v] = mac[v] /\ heard'[v] = heard[v]
        /\ mac'[w] = CleanedUp(mac[w])
        /\ heard'[w] = Restrict(heard[w], DOMAIN mac'[w])
    BY <1>5 DEF Cleanup, TableInv
  <2>2. Heard(mac'[w], heard'[w])
    <3> DEFINE S == {k \in DOMAIN mac[w] : mac[w][k].age <= EntryTimeout}
    <3>1. CleanedUp(mac[w]) = Restrict(mac[w], S)
      BY DEF CleanedUp
    <3>2. DOMAIN Restrict(mac[w], S) = S
      BY DEF Restrict
    <3> HIDE DEF S
    <3>3. S \subseteq DOMAIN mac[w]
      BY DEF S
    <3>4. QED
      BY <2>1, <3>1, <3>2, <3>3, DroppingKeeps DEF TableInv
  <2>3. QED
    BY <2>1, <2>2 DEF TableInv
<1>6. CASE UNCHANGED <<mac, heard>>
  BY <1>6 DEF TableInv
<1>7. QED
  BY <1>1, <1>2, <1>3, <1>4, <1>5, <1>6, TableSteps DEF TableStep

\* The cleanup goroutine only removes stations that were silent for the timeout,
\* less the time that mac_table_add_or_update_vlan may put off a refresh.
THEOREM ActiveStationsStay == Spec => KeepsActive
<1> DEFINE Keeps == \A w \in Switch : Cleanup(w) =>
                      \A k \in DOMAIN mac[w] \ DOMAIN mac'[w] :
                        heard[w][k].silent + RefreshThreshold > EntryTimeout
<1>1. Init => TableInv
  BY TableInit
<1>2. TableInv /\ [Next]_vars => TableInv'
  BY TableInductive
<1>3. TableInv /\ [Next]_vars => [Keeps]_vars
  <2> SUFFICES ASSUME TableInv, NEW w \in Switch, Cleanup(w),
                      NEW k \in DOMAIN mac[w] \ DOMAIN mac'[w]
               PROVE  heard[w][k].silent + RefreshThreshold > EntryTimeout
    OBVIOUS
  <2>1. mac'[w] = CleanedUp(mac[w])
    BY DEF Cleanup, TableInv
  <2>2. ~(mac[w][k].age <= EntryTimeout)
    BY <2>1 DEF CleanedUp, Restrict
  <2>3. QED
    BY <2>2, MacTableAssumption DEF TableInv, Heard, IsEntry, Fresh
<1>4. QED
  BY <1>1, <1>2, <1>3, PTL DEF Spec, KeepsActive, Keeps

------------------------------------------------------------------------------
(* Names of one length.                                                      *)

\* The ports of a switch have names of one length.
OneLength(Char) ==
  /\ Name \in [Port -> Seq(Char)]
  /\ \A p, q \in Port : Owner[p] = Owner[q] => Len(Name[p]) = Len(Name[q])

\* Copying a name over one of the same length leaves nothing of the old one
\* (copy in mac_table_add_or_update_vlan).
LEMMA OverwriteEven ==
  ASSUME NEW Char, NEW old \in Seq(Char), NEW new \in Seq(Char), Len(old) = Len(new)
  PROVE  Overwrite(old, new) = new
<1>1. SubSeq(old, Len(new) + 1, Len(old)) = << >>
  BY EmptySeq, LenProperties
<1>2. QED
  BY <1>1, ConcatEmptySeq DEF Overwrite

\* Every entry of a table of switch w names the port it was heard on last.
Placed(w, table, ear) ==
  \A k \in DOMAIN table :
    /\ ear[k].port \in Port /\ Owner[ear[k].port] = w
    /\ table[k].oif = Name[ear[k].port]

PlaceInv == TableInv /\ \A w \in Switch : Placed(w, mac[w], heard[w])

LEMMA LearningPlaces ==
  ASSUME NEW Char, OneLength(Char), NEW p \in Port, NEW a, NEW v, NEW table, NEW ear,
         Heard(table, ear), Placed(Owner[p], table, ear)
  PROVE  Placed(Owner[p], AddOrUpdate(table, a, v, Name[p]), Noted(ear, <<a, v>>, p))
<1> DEFINE k == <<a, v>>
           new == AddOrUpdate(table, a, v, Name[p])
<1>1. /\ DOMAIN new = DOMAIN table \cup {k}
      /\ \A j \in DOMAIN table \ {k} : new[j] = table[j]
      /\ k \in DOMAIN table => new[k] = Updated(table[k], Name[p])
      /\ k \notin DOMAIN table => new[k] = [oif |-> Name[p], age |-> 0]
  BY DEF AddOrUpdate
<1>2. ASSUME NEW q \in Port, Owner[q] = Owner[p], NEW e, IsEntry(e), e.oif = Name[q]
      PROVE  Updated(e, Name[p]).oif = Name[p]
  <2>1. Overwrite(e.oif, Name[p]) = Name[p]
    BY <1>2, OverwriteEven DEF OneLength
  <2>2. QED
    BY <1>2, <2>1, MacTableAssumption DEF Updated, IsEntry
<1>3. new[k].oif = Name[p]
  BY <1>1, <1>2 DEF Heard, Placed
<1>4. /\ Noted(ear, k, p)[k] = [port |-> p, silent |-> 0]
      /\ \A j \in DOMAIN ear \ {k} : Noted(ear, k, p)[j] = ear[j]
  BY DEF Noted
<1>5. Placed(Owner[p], new, Noted(ear, k, p))
  <2> HIDE DEF new, k
  <2>1. QED
    BY <1>1, <1>3, <1>4 DEF Heard, Placed
<1>6. QED
  BY <1>5

LEMMA PlaceInductive ==
  ASSUME NEW CONSTANT Char, OneLength(Char), PlaceInv, [Next]_vars
  PROVE  PlaceInv'
<1>1. TableInv'
  BY TableInductive DEF PlaceInv
<1>2. ASSUME NEW p \in Port, Learn(p)
      PROVE  \A w \in Switch : Placed(w, mac'[w], heard'[w])
  <2>1. \A w \in Switch \ {Owner[p]} : mac'[w] = mac[w] /\ heard'[w] = heard[w]
    BY <1>2 DEF Learn, PlaceInv, TableInv
  <2>2. Owner[p] \in Switch =>
          /\ mac'[Owner[p]] = Learned(p)
          /\ heard'[Owner[p]] = Noted(heard[Owner[p]], <<Arrived(p).src, VlanOf(p)>>, p)
    BY <1>2 DEF Learn, PlaceInv, TableInv
  <2>3. Owner[p] \in Switch => Placed(Owner[p], mac'[Owner[p]], heard'[Owner[p]])
    BY <2>2, LearningPlaces DEF PlaceInv, TableInv, Learned
  <2>4. QED
    BY <2>1, <2>3 DEF PlaceInv
<1>3. ASSUME NEW p \in Spare, NEW q \in Spare, Reconverge(p, q)
      PROVE  \A w \in Switch : Placed(w, mac'[w], heard'[w])
  <2>1. \A w \in Switch \ {Owner[p]} : mac'[w] = mac[w] /\ heard'[w] = heard[w]
    BY <1>3 DEF Reconverge, PlaceInv, TableInv
  <2>2. Owner[p] \in Switch =>
          /\ mac'[Owner[p]] = FlushedFor(mac[Owner[p]], Name[p])
          /\ heard'[Owner[p]] = Restrict(heard[Owner[p]], DOMAIN mac'[Owner[p]])
    BY <1>3 DEF Reconverge, PlaceInv, TableInv
  <2>3. Owner[p] \in Switch => Placed(Owner[p], mac'[Owner[p]], heard'[Owner[p]])
    BY <2>2 DEF PlaceInv, Placed, FlushedFor, Restrict
  <2>4. QED
    BY <2>1, <2>3 DEF PlaceInv
<1>4. ASSUME NEW p \in Spare, NEW q \in Spare, SetLinkState(p, q)
      PROVE  \A w \in Switch : Placed(w, mac'[w], heard'[w])
  BY <1>4 DEF SetLinkState, Placed, EmptyTable
<1>5. ASSUME Tick
      PROVE  \A w \in Switch : Placed(w, mac'[w], heard'[w])
  <2>1. ASSUME NEW w \in Switch
        PROVE  /\ mac'[w] = Older(mac[w])
               /\ heard'[w] = [j \in DOMAIN heard[w] |-> [heard[w][j] EXCEPT !.silent = @ + 1]]
    BY <1>5 DEF Tick
  <2>2. ASSUME NEW w \in Switch, NEW k \in DOMAIN mac[w]
        PROVE  /\ mac'[w][k].oif = mac[w][k].oif
               /\ heard'[w][k].port = heard[w][k].port
    <3>1. k \in DOMAIN heard[w] /\ IsEntry(mac[w][k]) /\ DOMAIN heard[w][k] = {"port", "silent"}
      BY DEF PlaceInv, TableInv, Heard
    <3>2. mac'[w][k] = [mac[w][k] EXCEPT !.age = @ + 1]
      BY <2>1 DEF Older
    <3>3. heard'[w][k] = [heard[w][k] EXCEPT !.silent = @ + 1]
      <4>1. heard'[w] = [j \in DOMAIN heard[w] |-> [heard[w][j] EXCEPT !.silent = @ + 1]]
        BY <2>1
      <4>2. QED
        BY ONLY <3>1, <4>1
    <3>4. mac'[w][k].oif = mac[w][k].oif
      BY <3>1, <3>2 DEF IsEntry
    <3>5. heard'[w][k].port = heard[w][k].port
      BY <3>1, <3>3
    <3>6. QED
      BY <3>4, <3>5
  <2>3. \A w \in Switch : DOMAIN mac'[w] = DOMAIN mac[w]
    BY <2>1 DEF Older
  <2>4. QED
    BY <2>2, <2>3 DEF PlaceInv, Placed
<1>6. ASSUME NEW w \in Switch, Cleanup(w)
      PROVE  \A v \in Switch : Placed(v, mac'[v], heard'[v])
  <2>1. /\ \A v \in Switch \ {w} : mac'[v] = mac[v] /\ heard'[v] = heard[v]
        /\ mac'[w] = CleanedUp(mac[w])
        /\ heard'[w] = Restrict(heard[w], DOMAIN mac'[w])
    BY <1>6 DEF Cleanup, PlaceInv, TableInv
  <2>2. Placed(w, mac'[w], heard'[w])
    BY <2>1 DEF PlaceInv, Placed, CleanedUp, Restrict
  <2>3. QED
    BY <2>1, <2>2 DEF PlaceInv
<1>7. CASE UNCHANGED <<mac, heard>>
  BY <1>1, <1>7 DEF PlaceInv
<1>8. QED
  BY <1>1, <1>2, <1>3, <1>4, <1>5, <1>6, <1>7, TableSteps DEF TableStep, PlaceInv

\* With names of one length a switch sends a frame where it last heard its
\* destination, also after the station moved (mac_table_add_or_update_vlan).
\* Names of different lengths are what breaks it.
THEOREM LooksThere ==
  ASSUME NEW CONSTANT Char, OneLength(Char)
  PROVE  Spec => []LooksWhereLastHeard
<1>1. Init => PlaceInv
  BY TableInit DEF Init, PlaceInv, Placed, EmptyTable
<1>2. PlaceInv /\ [Next]_vars => PlaceInv'
  BY PlaceInductive
<1>3. PlaceInv => LooksWhereLastHeard
  BY DEF PlaceInv, Placed, LooksWhereLastHeard
<1>4. QED
  BY <1>1, <1>2, <1>3, PTL DEF Spec
------------------------------------------------------------------------------
(* VLANs stay apart, but for reports.                                        *)

\* What every frame carries, wherever it is.  A request to report to a station
\* names its VLAN, and one for a gateway is in the gateway's VLAN.
Proper(f) ==
  /\ DOMAIN f = {"kind", "src", "dst", "tag", "from", "to", "ttl", "id", "vlan", "hops"}
  /\ f.kind \in {"ip", "error", "request", "reply"}
  /\ f.kind = "ip" => f.from \in Station
  /\ f.kind = "request" =>
       /\ f.from = None => f.to \in Station /\ f.vlan = HostVlan[f.to]
       /\ \A w \in Switch : \A v \in Svi[w] : f.to = <<w, v>> => f.vlan = v

\* Where a frame arrives, it is taken to be of its VLAN, or of none.
InVlan(e, f) ==
  IF e \in Station THEN f.vlan = HostVlan[e] ELSE FrameVlan(e, f) \in {0, f.vlan}

\* Reports may stray, and only a network that routes has any.
Routing == \E w \in Switch : Svi[w] # {}
Strays(f) == IsReport(f) /\ Routing

Fits(e, f) == Proper(f) /\ (Strays(f) \/ InVlan(e, f))

WireFits(wires) ==
  /\ DOMAIN wires = Port \cup Station
  /\ \A e \in Port \cup Station :
       IsList(wires[e]) /\ \A f \in ToSet(wires[e]) : Fits(e, f)

\* A packet that waits for an address is switched in its VLAN later, unless it is
\* a report.
Waits(e) ==
  /\ Proper(e.frame) /\ e.frame.kind \in {"ip", "error"}
  /\ e.port = None => e.frame.kind = "error" /\ Routing

EntryFits(x) ==
  /\ DOMAIN x = {"at", "waiting", "asked", "by"}
  /\ x.by \in Port \cup {None} /\ (x.by # None => Routing)
  /\ IsList(x.waiting) /\ \A e \in ToSet(x.waiting) : Waits(e)

ArpFits ==
  /\ DOMAIN arp = Switch
  /\ \A w \in Switch :
       DOMAIN arp[w] = Station /\ \A s \in Station : EntryFits(arp[w][s])

LoadFits == load \in Workloads /\ sent \in Nat

VlanInv == WireFits(wire) /\ ArpFits /\ LoadFits

\* What a switch sends arrives in its VLAN.
OutFits(out) ==
  IsList(out) /\ \A o \in ToSet(out) : o.port \in Port /\ Fits(Far[o.port], o.frame)

\* A frame of the VLAN that it is sent in arrives in that VLAN: tagged or not,
\* the other end puts it where prepare_frame_for_interface meant it to go.
LEMMA Carried ==
  ASSUME Configured, NEW q \in Port, NEW vlan, IsVLANAllowed(q, vlan),
         NEW f, Proper(f), f.vlan = vlan \/ Strays(f)
  PROVE  Fits(Far[q], Prepared(q, f, vlan))
<1> DEFINE g == Prepared(q, f, vlan)
<1>1. /\ DOMAIN g = DOMAIN f /\ g.kind = f.kind /\ g.from = f.from /\ g.to = f.to
      /\ g.vlan = f.vlan
      /\ g.tag = IF Mode[q] = "trunk" /\ vlan # PortVlan[q] THEN vlan ELSE 0
  BY DEF Prepared, Proper
<1> SUFFICES Fits(Far[q], g)
  OBVIOUS
<1> HIDE DEF g
<1>2. Proper(g)
  BY <1>1 DEF Proper
<1>3. CASE Strays(f)
  BY <1>1, <1>2, <1>3 DEF Fits, Strays, IsReport
<1>4. CASE f.vlan = vlan
  <2>1. vlan # 0
    BY DEF IsVLANAllowed, Configured
  <2>2. Mode[q] = "access" => vlan = PortVlan[q]
    BY DEF IsVLANAllowed
  <2>3. CASE Far[q] \in Station
    <3>1. Far[q] \notin Port
      BY <2>3, SwitchAssumption
    <3>2. Mode[q] = "access" /\ PortVlan[q] = HostVlan[Far[q]]
      BY <3>1 DEF Configured
    <3>3. QED
      BY <1>1, <1>2, <1>4, <2>2, <2>3, <3>2 DEF Fits, InVlan
  <2>4. CASE Far[q] \in Port
    <3>1. /\ Far[q] \notin Station
          /\ Mode[Far[q]] \in {"access", "trunk"} /\ Mode[q] \in {"access", "trunk"}
      BY <2>4, SwitchAssumption
    <3>2. PortVlan[Far[q]] = PortVlan[q]
      BY <2>4 DEF Configured
    <3>3. FrameVlan(Far[q], g) \in {vlan, 0}
      BY <1>1, <2>1, <2>2, <3>1, <3>2 DEF FrameVlan
    <3>4. QED
      BY <1>1, <1>2, <1>4, <3>1, <3>3 DEF Fits, InVlan
  <2>5. QED
    BY <2>3, <2>4, SwitchAssumption
<1>5. QED
  BY <1>3, <1>4

\* Each port of a set sends a frame in a VLAN that it carries.
LEMMA EachFits ==
  ASSUME NEW ports \in SUBSET Port, NEW out, NEW F,
         out = [i \in DOMAIN SetToSeq(ports) |->
                 Sending(SetToSeq(ports)[i], F[SetToSeq(ports)[i]])],
         \A q \in ports : Fits(Far[q], F[q])
  PROVE  OutFits(out)
<1> DEFINE s == SetToSeq(ports)
           S == {Sending(q, F[q]) : q \in ports}
<1>1. s \in Seq(ports) /\ DOMAIN s = 1 .. Len(s) /\ Len(s) \in Nat
  <2>1. IsFiniteSet(ports)
    BY SwitchAssumption, FS_Subset
  <2>2. QED
    BY <2>1, SetToSeqLists, LenProperties
<1>2. \A i \in DOMAIN s : s[i] \in ports
  BY <1>1, ElementOfSeq
<1>3. out \in Seq(S)
  <2> HIDE DEF s
  <2>1. out = [i \in 1 .. Len(s) |-> Sending(s[i], F[s[i]])]
    BY <1>1 DEF s
  <2>2. out \in [1 .. Len(s) -> S]
    BY <1>1, <1>2, <2>1
  <2>3. QED
    BY ONLY <1>1, <2>2
<1>4. \A o \in S : o.port \in Port /\ Fits(Far[o.port], o.frame)
  BY DEF Sending
<1>5. QED
  BY <1>3, <1>4, ListOf DEF OutFits

\* l2_switch_flood_frame_vlan.
LEMMA FloodFits ==
  ASSUME Configured, NEW p, NEW vlan, NEW f, Proper(f), f.vlan = vlan \/ Strays(f)
  PROVE  OutFits(Flood(p, f, vlan))
<1> DEFINE ports == FloodPorts(p, vlan)
           F == [q \in Port |-> Prepared(q, f, vlan)]
<1>1. ports \in SUBSET Port /\ \A q \in ports : IsVLANAllowed(q, vlan)
  BY DEF FloodPorts, Ports
<1>2. \A q \in ports : F[q] = Prepared(q, f, vlan)
  BY <1>1
<1>3. \A q \in ports : Fits(Far[q], F[q])
  BY <1>1, <1>2, Carried
<1> DEFINE s == SetToSeq(ports)
<1>4. \A i \in DOMAIN s : s[i] \in ports
  <2>1. IsFiniteSet(ports)
    BY <1>1, SwitchAssumption, FS_Subset
  <2> HIDE DEF ports
  <2>2. s \in Seq(ports) /\ DOMAIN s = 1 .. Len(s)
    BY <2>1, SetToSeqLists, LenProperties
  <2>3. QED
    BY <2>2, ElementOfSeq
<1> HIDE DEF F
<1>5. Flood(p, f, vlan) = [i \in DOMAIN s |-> Sending(s[i], F[s[i]])]
  BY <1>2, <1>4 DEF Flood
<1> HIDE DEF ports
<1>6. QED
  BY <1>1, <1>3, <1>5, EachFits

\* l2_switch_forward_frame_vlan.
LEMMA ForwardFits ==
  ASSUME Configured, NEW table, NEW p, NEW vlan, NEW routed,
         NEW f, Proper(f), f.vlan = vlan \/ Strays(f)
  PROVE  OutFits(Forward(table, p, f, vlan, routed))
<1> DEFINE name == Lookup(table, f.dst, vlan)
           ports == {r \in {q \in Ports(Owner[p]) : Name[q] = name} :
                       MayReturn(p, r, routed) /\ CanForward(r) /\ IsVLANAllowed(r, vlan)}
           S == {Sending(q, Prepared(q, f, vlan)) : q \in ports}
<1>1. CASE f.dst = Broadcast \/ name = << >>
  BY <1>1, FloodFits DEF Forward
<1>2. CASE ~(f.dst = Broadcast \/ name = << >>)
  <2>1. Forward(table, p, f, vlan, routed) = SetToSeq(S)
    BY <1>2 DEF Forward
  <2>2. \A q \in ports : q \in Port /\ IsVLANAllowed(q, vlan)
    BY DEF Ports
  <2> HIDE DEF ports
  <2>3. IsFiniteSet(S)
    <3>1. IsFiniteSet(ports)
      BY <2>2, SwitchAssumption, FS_Subset
    <3> DEFINE G == [q \in ports |-> Sending(q, Prepared(q, f, vlan))]
    <3>2. G \in Surjection(ports, S)
      BY DEF Surjection
    <3> HIDE DEF S, G
    <3>3. QED
      BY <3>1, <3>2, FS_Surjection
  <2>4. \A o \in S : o.port \in Port /\ Fits(Far[o.port], o.frame)
    BY <2>2, Carried DEF Sending
  <2> HIDE DEF S
  <2>5. IsList(SetToSeq(S)) /\ ToSet(SetToSeq(S)) \subseteq S
    BY <2>3, SetToSeqLists, ListOf
  <2>6. QED
    BY <2>1, <2>4, <2>5 DEF OutFits
<1>3. QED
  BY <1>1, <1>2

\* send_vlan_arp_request and send_arp_broadcast_request.
LEMMA AskFits ==
  ASSUME Configured, NEW w \in Switch, NEW hop \in Station, NEW by \in Port \cup {None},
         by # None => Routing
  PROVE  OutFits(Ask(w, hop, by))
<1> DEFINE vlan == HostVlan[hop]
<1>1. \A q, from : /\ Proper(Request(q, from, hop, vlan))
                   /\ Request(q, from, hop, vlan).vlan = vlan
  BY DEF Proper, Request, Configured
<1>2. CASE by = None
  <2> DEFINE ports == {q \in Ports(w) : IsVLANAllowed(q, vlan) /\ CanForward(q)}
             F == [q \in Port |-> Prepared(q, Request(q, <<w, vlan>>, hop, vlan), vlan)]
             s == SetToSeq(ports)
  <2>1. ports \in SUBSET Port /\ \A q \in ports : IsVLANAllowed(q, vlan)
    BY DEF Ports
  <2>2. \A q \in ports : F[q] = Prepared(q, Request(q, <<w, vlan>>, hop, vlan), vlan)
    BY <2>1
  <2>3. \A q \in ports : Fits(Far[q], F[q])
    BY <1>1, <2>1, <2>2, Carried
  <2>4. \A i \in DOMAIN s : s[i] \in ports
    <3>1. IsFiniteSet(ports)
      BY <2>1, SwitchAssumption, FS_Subset
    <3> HIDE DEF ports
    <3>2. s \in Seq(ports) /\ DOMAIN s = 1 .. Len(s)
      BY <3>1, SetToSeqLists, LenProperties
    <3>3. QED
      BY <3>2, ElementOfSeq
  <2> HIDE DEF F
  <2>5. Ask(w, hop, by) = [i \in DOMAIN s |-> Sending(s[i], F[s[i]])]
    BY <1>2, <2>2, <2>4 DEF Ask, AskVlan
  <2> HIDE DEF ports
  <2>6. QED
    BY <2>1, <2>3, <2>5, EachFits
<1>3. CASE by # None
  <2>1. Fits(Far[by], Request(by, None, hop, vlan))
    BY <1>1, <1>3 DEF Fits, Strays, IsReport, Request
  <2>2. Ask(w, hop, by) = <<Sending(by, Request(by, None, hop, vlan))>>
    BY <1>3 DEF Ask, AskPort
  <2>3. QED
    BY <1>3, <2>1, <2>2, SingletonList DEF OutFits, Sending
<1>4. QED
  BY <1>2, <1>3

\* The packets that are released on port p once hop answered there.
LEMMA ReleasingFits ==
  ASSUME Configured, ArpFits, NEW table, NEW w \in Switch, NEW p \in Port,
         NEW hop \in Station
  PROVE  OutFits(Releasing(table, w, p, hop))
<1> DEFINE waiting == arp[w][hop].waiting
           Given(i) == [waiting[i].frame EXCEPT !.dst = hop, !.src = p]
           Out(i) == IF waiting[i].port = None THEN <<Sending(p, Given(i))>>
                     ELSE Forward(table, waiting[i].port, Given(i), Given(i).vlan, TRUE)
           outs == [i \in DOMAIN waiting |-> Out(i)]
<1>1. Releasing(table, w, p, hop) = FlattenSeq(outs)
  BY DEF Releasing
<1>2. /\ IsList(waiting) /\ \A e \in ToSet(waiting) : Waits(e)
      /\ Len(waiting) \in Nat /\ DOMAIN waiting = 1 .. Len(waiting)
  BY ListElements DEF ArpFits, EntryFits
<1>3. ASSUME NEW i \in 1 .. Len(waiting)
      PROVE  OutFits(Out(i))
  <2>1. Waits(waiting[i])
    BY <1>2, ListElements
  <2>2. /\ DOMAIN Given(i) = DOMAIN waiting[i].frame
        /\ Given(i).kind = waiting[i].frame.kind /\ Given(i).from = waiting[i].frame.from
        /\ Given(i).kind \in {"ip", "error"}
    BY <2>1 DEF Waits, Proper
  <2>3. Proper(Given(i))
    BY <2>1, <2>2 DEF Waits, Proper
  <2> DEFINE f == Given(i)
  <2>4. CASE waiting[i].port = None
    <3>1. f.kind = "error" /\ Routing
      BY <2>1, <2>2, <2>4 DEF Waits
    <3> HIDE DEF f
    <3>2. Fits(Far[p], f)
      BY <2>3, <3>1 DEF Fits, Strays, IsReport, f
    <3>3. OutFits(<<Sending(p, f)>>)
      BY <3>2, SingletonList DEF OutFits, Sending
    <3>4. QED
      BY <2>4, <3>3 DEF f
  <2>5. CASE waiting[i].port # None
    <3> HIDE DEF f
    <3>1. OutFits(Forward(table, waiting[i].port, f, f.vlan, TRUE))
      BY <2>3, ForwardFits DEF f
    <3>2. QED
      BY <2>5, <3>1 DEF f
  <2>6. QED
    BY <2>4, <2>5
<1> HIDE DEF Out
<1>4. /\ outs = [i \in 1 .. Len(waiting) |-> outs[i]]
      /\ \A i \in 1 .. Len(waiting) : outs[i] = Out(i)
  BY <1>2
<1> HIDE DEF outs, waiting
<1>5. \A i \in 1 .. Len(waiting) : IsList(outs[i])
  BY <1>3, <1>4 DEF OutFits
<1>6. /\ IsList(FlattenSeq(outs))
      /\ \A o \in ToSet(FlattenSeq(outs)) : \E i \in 1 .. Len(waiting) : o \in ToSet(outs[i])
  BY <1>2, <1>4, <1>5, FlattenList
<1>7. QED
  BY <1>1, <1>3, <1>4, <1>6 DEF OutFits

\* Frames that fit where they arrive keep the wires in order.
LEMMA TransmitFits ==
  ASSUME NEW wires, WireFits(wires), NEW out, OutFits(out)
  PROVE  WireFits(Transmit(wires, out))
<1>1. DOMAIN Transmit(wires, out) = Port \cup Station
  BY DEF Transmit, WireFits
<1>2. /\ DOMAIN out = 1 .. Len(out) /\ Len(out) \in Nat
      /\ \A i \in 1 .. Len(out) : out[i] \in ToSet(out)
  BY ListElements DEF OutFits
<1>3. ASSUME NEW e \in Port \cup Station
      PROVE  /\ IsList(Transmit(wires, out)[e])
             /\ \A f \in ToSet(Transmit(wires, out)[e]) : Fits(e, f)
  <2> DEFINE parts == [i \in DOMAIN out |->
                        IF Far[out[i].port] = e THEN <<out[i].frame>> ELSE << >>]
  <2>1. Transmit(wires, out)[e] = wires[e] \o FlattenSeq(parts)
    BY DEF Transmit, WireFits
  <2>2. /\ parts = [i \in 1 .. Len(out) |-> parts[i]]
        /\ \A i \in 1 .. Len(out) :
             parts[i] = IF Far[out[i].port] = e THEN <<out[i].frame>> ELSE << >>
    BY <1>2
  <2> HIDE DEF parts
  <2>3. ASSUME NEW i \in 1 .. Len(out)
        PROVE  IsList(parts[i]) /\ \A f \in ToSet(parts[i]) : Fits(e, f)
    <3>1. CASE Far[out[i].port] = e
      <4>1. Fits(e, out[i].frame)
        BY <1>2, <3>1 DEF OutFits
      <4>2. QED
        BY <2>2, <3>1, <4>1, SingletonList
    <3>2. CASE Far[out[i].port] # e
      BY <2>2, <3>2, EmptyList
    <3>3. QED
      BY <3>1, <3>2
  <2>4. /\ IsList(FlattenSeq(parts))
        /\ \A f \in ToSet(FlattenSeq(parts)) : \E i \in 1 .. Len(out) : f \in ToSet(parts[i])
    BY <1>2, <2>2, <2>3, FlattenList
  <2>5. IsList(wires[e]) /\ \A f \in ToSet(wires[e]) : Fits(e, f)
    BY DEF WireFits
  <2>6. QED
    BY <2>1, <2>3, <2>4, <2>5, ConcatList
<1>4. QED
  BY <1>1, <1>3 DEF WireFits

\* What is sent in two parts.
LEMMA BothFit ==
  ASSUME NEW a, NEW b, OutFits(a), OutFits(b)
  PROVE  OutFits(a \o b)
BY ConcatList DEF OutFits

\* Taking a frame from the wire.
LEMMA TakingFits ==
  ASSUME WireFits(wire), NEW e \in Port \cup Station, wire[e] # << >>
  PROVE  WireFits([wire EXCEPT ![e] = Tail(@)]) /\ Fits(e, Head(wire[e]))
BY TailList DEF WireFits

\* Putting one on it.
LEMMA AppendingFits ==
  ASSUME NEW wires, WireFits(wires), NEW e \in Port \cup Station, NEW f, Fits(e, f)
  PROVE  WireFits([wires EXCEPT ![e] = Append(@, f)])
BY AppendList DEF WireFits

\* A frame that is admitted is taken to be of its VLAN.
LEMMA AdmittedFits ==
  ASSUME Configured, WireFits(wire), NEW p \in Port, Admitted(p)
  PROVE  /\ WireFits(Taken(p)) /\ Proper(Arrived(p))
         /\ IsVLANAllowed(p, VlanOf(p))
         /\ Arrived(p).vlan = VlanOf(p) \/ Strays(Arrived(p))
<1>1. WireFits(Taken(p)) /\ Fits(p, Arrived(p))
  BY TakingFits DEF Admitted, Taken, Arrived
<1>2. p \notin Station
  BY SwitchAssumption
<1>3. VlanOf(p) # 0
  BY DEF Admitted, IsVLANAllowed, Configured
<1>4. QED
  BY <1>1, <1>2, <1>3 DEF Admitted, Fits, InVlan, VlanOf

\* An entry of an ARP table changes.
LEMMA EntryChange ==
  ASSUME ArpFits, NEW w \in Switch, NEW hop \in Station, NEW x, EntryFits(x),
         arp' = [arp EXCEPT ![w][hop] = x]
  PROVE  ArpFits'
<1>1. /\ DOMAIN arp' = Switch
      /\ \A v \in Switch : DOMAIN arp'[v] = Station
      /\ \A v \in Switch, u \in Station :
           arp'[v][u] = IF v = w /\ u = hop THEN x ELSE arp[v][u]
  BY DEF ArpFits
<1>2. QED
  BY <1>1 DEF ArpFits, EntryFits, Waits, Proper

\* forward_routed_packet_in_vlan, and the report's way to its address.
LEMMA QueueingFits ==
  ASSUME Configured, VlanInv, NEW p \in Port, WireFits(Taken(p)), NEW hop \in Station,
         NEW entry, Waits(entry), NEW by \in Port \cup {None}, by # None => Routing,
         NEW out, OutFits(out),
         ResolveOrQueue(p, hop, entry, by, out)
  PROVE  WireFits(wire') /\ ArpFits'
<1> DEFINE w == Owner[p]
           known == arp[w][hop]
<1>1. w \in Switch /\ EntryFits(known)
  BY SwitchAssumption DEF VlanInv, ArpFits
<1>2. CASE known.at # None
  <2>1. wire' = Transmit(Taken(p), out) /\ arp' = arp
    BY <1>2 DEF ResolveOrQueue
  <2>2. QED
    BY <2>1, TransmitFits DEF VlanInv, ArpFits, EntryFits, Waits, Proper
<1>3. CASE known.at = None
  <2>1. OutFits(Ask(w, hop, by))
    BY <1>1, AskFits
  <2>2. WireFits(wire')
    BY <1>3, <2>1, TransmitFits DEF ResolveOrQueue
  <2>3. CASE known = Unknown
    <3> DEFINE x == [at |-> None, waiting |-> <<entry>>, asked |-> 1, by |-> by]
    <3>1. arp' = [arp EXCEPT ![w][hop] = x]
      BY <1>3, <2>3 DEF ResolveOrQueue
    <3>2. EntryFits(x)
      BY SingletonList DEF EntryFits
    <3> HIDE DEF x
    <3>3. QED
      BY <1>1, <2>2, <3>1, <3>2, EntryChange DEF VlanInv
  <2>4. CASE known # Unknown
    <3> DEFINE x == [known EXCEPT !.waiting = <<entry>> \o @]
    <3>1. arp' = [arp EXCEPT ![w][hop] = x]
      BY <1>3, <2>4 DEF ResolveOrQueue
    <3>2. DOMAIN x = DOMAIN known /\ x.by = known.by /\ x.waiting = <<entry>> \o known.waiting
      BY <1>1 DEF EntryFits
    <3> HIDE DEF x
    <3>3. EntryFits(x)
      BY <1>1, <3>2, SingletonList, ConcatList DEF EntryFits
    <3>4. QED
      BY <1>1, <2>2, <3>1, <3>3, EntryChange DEF VlanInv
  <2>5. QED
    BY <2>3, <2>4
<1>4. QED
  BY <1>2, <1>3

\* Only the wires change.
LEMMA OnlyWires ==
  ASSUME VlanInv, WireFits(wire'), UNCHANGED <<arp, load, sent>>
  PROVE  VlanInv'
BY DEF VlanInv, WireFits, ArpFits, EntryFits, LoadFits, Waits, Proper

\* One lemma for each operation that sends.
LEMMA SwitchFrameKeeps ==
  ASSUME Configured, VlanInv, NEW p \in Port, SwitchFrame(p)
  PROVE  VlanInv'
<1>1. /\ WireFits(Taken(p)) /\ Proper(Arrived(p))
      /\ Arrived(p).vlan = VlanOf(p) \/ Strays(Arrived(p))
  BY AdmittedFits DEF SwitchFrame, VlanInv
<1>2. OutFits(Forward(Learned(p), p, Arrived(p), VlanOf(p), FALSE))
  BY <1>1, ForwardFits
<1>3. wire' = Transmit(Taken(p), Forward(Learned(p), p, Arrived(p), VlanOf(p), FALSE))
  BY DEF SwitchFrame
<1>4. WireFits(wire')
  BY <1>1, <1>2, <1>3, TransmitFits
<1>5. UNCHANGED <<arp, load, sent>>
  BY DEF SwitchFrame, Counters
<1>6. QED
  BY <1>4, <1>5, OnlyWires

LEMMA RouteFrameKeeps ==
  ASSUME Configured, VlanInv, NEW p \in Port, RouteFrame(p)
  PROVE  VlanInv'
<1> DEFINE w == Owner[p]
           f == Arrived(p)
           vlan == VlanOf(p)
           hop == Via[f.to]
           routed == Routed(w, f, Learned(p))
           report == Report(p, f, vlan)
<1>1. /\ WireFits(Taken(p)) /\ Proper(f) /\ f.kind \in {"ip", "error"}
      /\ ShouldRoute(w, f, vlan)
  BY AdmittedFits DEF RouteFrame, VlanInv
<1>2. UNCHANGED <<load, sent>>
  BY DEF RouteFrame, Counters
<1>3. Routing
  BY <1>1, SwitchAssumption DEF ShouldRoute, Routing
<1>4. hop \in Station
  BY <1>1, SwitchAssumption DEF ShouldRoute
<1>5. CASE /\ ~Expires(f)
           /\ ResolveOrQueue(p, hop, [frame |-> routed, port |-> p], None,
                Forward(Learned(p), p, routed, routed.vlan, TRUE))
  <2>1. DOMAIN routed = DOMAIN f /\ routed.kind = f.kind /\ routed.from = f.from
    BY <1>1 DEF Routed, Proper
  <2> HIDE DEF routed, f
  <2>2. Proper(routed)
    BY <1>1, <2>1 DEF Proper
  <2>3. OutFits(Forward(Learned(p), p, routed, routed.vlan, TRUE))
    BY <2>2, ForwardFits
  <2>4. Waits([frame |-> routed, port |-> p])
    BY <1>1, <2>1, <2>2, SwitchAssumption DEF Waits
  <2>5. QED
    BY <1>1, <1>2, <1>4, <1>5, <2>3, <2>4, QueueingFits DEF VlanInv, LoadFits
<1>6. CASE /\ f.kind = "ip"
           /\ ResolveOrQueue(p, f.from, [frame |-> report, port |-> None], p,
                <<Sending(p, report)>>)
  <2>1. Proper(report) /\ report.kind = "error"
    BY DEF Report, Proper
  <2> HIDE DEF report, f
  <2>2. Fits(Far[p], report)
    BY <1>3, <2>1 DEF Fits, Strays, IsReport
  <2>3. OutFits(<<Sending(p, report)>>)
    BY <2>2, SingletonList DEF OutFits, Sending
  <2>4. Waits([frame |-> report, port |-> None])
    BY <1>3, <2>1 DEF Waits
  <2>5. f.from \in Station
    BY <1>1, <1>6 DEF Proper
  <2>6. QED
    BY <1>1, <1>2, <1>3, <1>6, <2>3, <2>4, <2>5, QueueingFits DEF VlanInv, LoadFits
<1>7. CASE wire' = Taken(p) /\ UNCHANGED arp
  BY <1>1, <1>2, <1>7, OnlyWires
<1>8. QED
  BY <1>5, <1>6, <1>7 DEF RouteFrame

LEMMA ReceiveARPKeeps ==
  ASSUME Configured, VlanInv, NEW p \in Port, ReceiveARP(p)
  PROVE  VlanInv'
<1> DEFINE w == Owner[p]
           f == Arrived(p)
           vlan == VlanOf(p)
           forUs == f.kind = "reply" \/ \E v \in Svi[w] : f.to = <<w, v>>
           merge == f.from \in Station /\ (forUs \/ arp[w][f.from] # Unknown)
           released == IF merge THEN Releasing(Learned(p), w, p, f.from) ELSE << >>
           a == [f EXCEPT !.kind = "reply", !.src = p, !.dst = f.src, !.from = f.to,
                          !.to = f.from, !.tag = 0, !.hops = 0]
           answer == IF f.kind = "request" /\ forUs THEN <<Sending(p, Prepared(p, a, f.to[2]))>>
                     ELSE << >>
           flooded == IF f.kind = "request" THEN Flood(p, f, vlan) ELSE << >>
<1>1. /\ WireFits(Taken(p)) /\ Proper(f) /\ IsVLANAllowed(p, vlan)
      /\ f.vlan = vlan \/ Strays(f)
  BY AdmittedFits DEF ReceiveARP, VlanInv
<1>2. w \in Switch
  BY SwitchAssumption
<1>3. OutFits(<< >>)
  BY EmptyList DEF OutFits
<1>4. OutFits(released)
  BY <1>2, <1>3, ReleasingFits DEF VlanInv
<1>5. OutFits(answer)
  <2>1. CASE f.kind = "request" /\ forUs
    <3>1. PICK v \in Svi[w] : f.to = <<w, v>>
      BY <2>1
    <3>2. f.vlan = v /\ f.to \notin Station /\ f.to[2] = v
      BY <1>1, <1>2, <2>1, <3>1 DEF Proper, Configured
    <3>3. ~Strays(f)
      BY <1>1, <2>1, <3>2 DEF Proper, Strays, IsReport
    <3>4. DOMAIN a = DOMAIN f /\ a.kind = "reply" /\ a.vlan = f.vlan
      BY <1>1 DEF Proper
    <3> HIDE DEF a, f
    <3>5. Proper(a)
      BY <1>1, <3>4 DEF Proper
    <3>6. Fits(Far[p], Prepared(p, a, f.to[2]))
      BY <1>1, <3>2, <3>3, <3>4, <3>5, Carried
    <3>7. QED
      BY <2>1, <3>6, SingletonList DEF OutFits, Sending
  <2>2. CASE ~(f.kind = "request" /\ forUs)
    BY <1>3, <2>2
  <2>3. QED
    BY <2>1, <2>2
<1>6. OutFits(flooded)
  BY <1>1, <1>3, FloodFits
<1>7. wire' = Transmit(Taken(p), released \o answer \o flooded)
  BY DEF ReceiveARP
<1>8. OutFits((released \o answer) \o flooded)
  <2> HIDE DEF released, answer, flooded
  <2>1. QED
    BY <1>4, <1>5, <1>6, BothFit
<1>9. WireFits(wire')
  BY <1>1, <1>7, <1>8, TransmitFits
<1>10. ArpFits'
  <2>1. CASE merge
    <3> DEFINE x == [Unknown EXCEPT !.at = f.src]
    <3>1. arp' = [arp EXCEPT ![w][f.from] = x]
      BY <2>1 DEF ReceiveARP
    <3>2. EntryFits(x)
      BY EmptyList DEF EntryFits, Unknown
    <3> HIDE DEF x
    <3>3. QED
      BY <1>2, <2>1, <3>1, <3>2, EntryChange DEF VlanInv
  <2>2. CASE ~merge
    <3>1. arp' = arp
      BY <2>2 DEF ReceiveARP
    <3>2. QED
      BY <3>1 DEF VlanInv, ArpFits, EntryFits, Waits, Proper
  <2>3. QED
    BY <2>1, <2>2
<1>11. LoadFits'
  BY DEF ReceiveARP, Counters, VlanInv, LoadFits
<1>12. QED
  BY <1>9, <1>10, <1>11 DEF VlanInv

\* The port of a station is an access port of its VLAN.
LEMMA StationSends ==
  ASSUME Configured, NEW s \in Station, NEW f, Proper(f), f.vlan = HostVlan[s], f.tag = 0
  PROVE  PortOf(s) \in Port /\ Fits(PortOf(s), f)
<1>1. PortOf(s) \in Port /\ Far[PortOf(s)] = s
  BY SwitchAssumption DEF PortOf
<1>2. s \notin Port /\ PortOf(s) \notin Station
  BY <1>1, SwitchAssumption
<1>3. Mode[PortOf(s)] = "access" /\ PortVlan[PortOf(s)] = HostVlan[s]
  BY <1>1, <1>2 DEF Configured
<1>4. FrameVlan(PortOf(s), f) = HostVlan[s]
  BY <1>3 DEF FrameVlan
<1>5. QED
  BY <1>1, <1>2, <1>4 DEF Fits, InVlan

LEMMA SendKeeps ==
  ASSUME Configured, VlanInv, Send
  PROVE  VlanInv'
<1> DEFINE t == load[sent + 1]
<1>1. /\ t.kind \in {"ip", "request"} /\ t.from \in Station
      /\ t.kind = "request" =>
           \A w \in Switch : \A v \in Svi[w] : t.to = <<w, v>> => v = HostVlan[t.from]
  <2>1. load \in Workloads /\ sent + 1 \in 1 .. Len(load)
    BY DEF Send, VlanInv, LoadFits, Configured
  <2>2. QED
    BY <2>1 DEF Configured
<1> DEFINE Packet(dst) ==
      [kind |-> t.kind, src |-> t.from, dst |-> dst, tag |-> 0, from |-> t.from,
       to |-> t.to, ttl |-> t.ttl, id |-> sent + 1, vlan |-> HostVlan[t.from], hops |-> 0]
<1>2. PICK dst : wire' = [wire EXCEPT ![PortOf(t.from)] = Append(@, Packet(dst))]
  BY DEF Send
<1>3. /\ Proper(Packet(dst)) /\ Packet(dst).vlan = HostVlan[t.from]
      /\ Packet(dst).tag = 0
  <2>1. t.from # None
    BY <1>1, SwitchAssumption
  <2> HIDE DEF t
  <2>2. QED
    BY <1>1, <2>1 DEF Proper
<1> HIDE DEF Packet
<1>4. PortOf(t.from) \in Port /\ Fits(PortOf(t.from), Packet(dst))
  BY <1>1, <1>3, StationSends
<1>5. WireFits(wire')
  BY <1>2, <1>4, AppendingFits DEF VlanInv
<1>6. UNCHANGED arp /\ load' = load /\ sent' = sent + 1
  BY DEF Send
<1>7. QED
  BY <1>5, <1>6 DEF VlanInv, ArpFits, EntryFits, LoadFits, Waits, Proper

LEMMA StationReceiveKeeps ==
  ASSUME Configured, VlanInv, NEW s \in Station, StationReceive(s)
  PROVE  VlanInv'
<1> DEFINE f == Head(wire[s])
           rest == [wire EXCEPT ![s] = Tail(@)]
           a == [f EXCEPT !.kind = "reply", !.src = s, !.dst = f.src,
                          !.tag = 0, !.from = s, !.to = f.from, !.hops = 0]
<1>1. WireFits(rest) /\ Fits(s, f)
  BY TakingFits DEF StationReceive, VlanInv
<1>2. UNCHANGED <<arp, load, sent>>
  BY DEF StationReceive, Counters
<1>3. CASE f.kind = "request" /\ f.to = s
  <2>1. f.vlan = HostVlan[s]
    BY <1>1, <1>3 DEF Fits, InVlan, Strays, IsReport, Proper
  <2>2. DOMAIN a = DOMAIN f /\ a.kind = "reply" /\ a.vlan = f.vlan /\ a.tag = 0
    BY <1>1 DEF Fits, Proper
  <2>3. wire' = [rest EXCEPT ![PortOf(s)] = Append(@, a)]
    BY <1>3 DEF StationReceive
  <2> HIDE DEF a, rest, f
  <2>4. Proper(a)
    BY <1>1, <2>2 DEF Fits, Proper
  <2>5. PortOf(s) \in Port /\ Fits(PortOf(s), a)
    BY <2>1, <2>2, <2>4, StationSends
  <2>6. WireFits(wire')
    BY <1>1, <2>3, <2>5, AppendingFits
  <2>7. QED
    BY <1>2, <2>6, OnlyWires
<1>4. CASE ~(f.kind = "request" /\ f.to = s)
  <2>1. wire' = rest
    BY <1>4 DEF StationReceive
  <2>2. QED
    BY <1>1, <1>2, <2>1, OnlyWires
<1>5. QED
  BY <1>3, <1>4

\* maintain_arp_pending_entries.
LEMMA RetryKeeps ==
  ASSUME Configured, VlanInv, NEW w \in Switch, NEW s \in Station,
         Retry(w, s) \/ GiveUp(w, s)
  PROVE  VlanInv'
<1>1. EntryFits(arp[w][s]) /\ UNCHANGED <<load, sent>>
  BY DEF VlanInv, ArpFits, Retry, GiveUp, Counters
<1>2. CASE Retry(w, s)
  <2> DEFINE x == [arp[w][s] EXCEPT !.asked = @ + 1]
  <2>1. arp' = [arp EXCEPT ![w][s] = x]
    BY <1>2 DEF Retry
  <2>2. DOMAIN x = DOMAIN arp[w][s] /\ x.by = arp[w][s].by /\ x.waiting = arp[w][s].waiting
    BY <1>1 DEF EntryFits
  <2> HIDE DEF x
  <2>3. EntryFits(x)
    BY <1>1, <2>2 DEF EntryFits
  <2>4. ArpFits'
    BY <2>1, <2>3, EntryChange DEF VlanInv
  <2>5. OutFits(Ask(w, s, arp[w][s].by))
    BY <1>1, AskFits DEF EntryFits
  <2>6. WireFits(wire')
    BY <1>2, <2>5, TransmitFits DEF Retry, VlanInv
  <2>7. QED
    BY <1>1, <2>4, <2>6 DEF VlanInv, LoadFits
<1>3. CASE GiveUp(w, s)
  <2>1. EntryFits(Unknown)
    BY EmptyList DEF EntryFits, Unknown
  <2>2. ArpFits'
    BY <1>3, <2>1, EntryChange DEF GiveUp, VlanInv
  <2>3. QED
    BY <1>1, <1>3, <2>2 DEF GiveUp, VlanInv, LoadFits
<1>4. QED
  BY <1>2, <1>3

LEMMA VlanInit == Init => VlanInv
<1> SUFFICES ASSUME Init
             PROVE  VlanInv
  OBVIOUS
<1>1. WireFits(wire)
  BY EmptyList DEF Init, WireFits
<1>2. ArpFits
  BY EmptyList DEF Init, ArpFits, EntryFits, Unknown
<1>3. QED
  BY <1>1, <1>2 DEF Init, VlanInv, LoadFits

LEMMA VlanInductive == Configured /\ VlanInv /\ [Next]_vars => VlanInv'
<1> SUFFICES ASSUME Configured, VlanInv, [Next]_vars
             PROVE  VlanInv'
  OBVIOUS
<1>1. ASSUME NEW p \in Port, Arrive(p)
      PROVE  VlanInv'
  <2>1. CASE Discard(p) \/ LearnOnly(p)
    <3>1. wire[p] # << >> /\ wire' = Taken(p) /\ UNCHANGED <<arp, load, sent>>
      BY <2>1 DEF Discard, LearnOnly, Admitted, Counters
    <3>2. WireFits(wire')
      BY <3>1, TakingFits DEF Taken, VlanInv
    <3>3. QED
      BY <3>1, <3>2, OnlyWires
  <2>2. QED
    BY <1>1, <2>1, SwitchFrameKeeps, ReceiveARPKeeps, RouteFrameKeeps DEF Arrive
<1>2. ASSUME NEW s \in Station, StationReceive(s)
      PROVE  VlanInv'
  BY <1>2, StationReceiveKeeps
<1>3. CASE Send
  BY <1>3, SendKeeps
<1>4. ASSUME NEW w \in Switch, NEW s \in Station, Retry(w, s) \/ GiveUp(w, s)
      PROVE  VlanInv'
  BY <1>4, RetryKeeps
<1>5. CASE UNCHANGED <<wire, arp, load, sent>>
  BY <1>5, OnlyWires DEF VlanInv
<1>6. ASSUME NEW p \in Spare, NEW q \in Spare, Reconverge(p, q) \/ SetLinkState(p, q)
      PROVE  UNCHANGED <<wire, arp, load, sent>>
  BY <1>6 DEF Reconverge, SetLinkState
<1>7. ASSUME NEW q \in Spare, AdvancePort(q)
      PROVE  UNCHANGED <<wire, arp, load, sent>>
  BY <1>7 DEF AdvancePort, Counters
<1>8. ASSUME NEW w \in Switch, Cleanup(w)
      PROVE  UNCHANGED <<wire, arp, load, sent>>
  BY <1>8 DEF Cleanup, Counters
<1>9. Tick \/ Done \/ UNCHANGED vars => UNCHANGED <<wire, arp, load, sent>>
  BY DEF Tick, Done, vars
<1>10. QED
  BY <1>1, <1>2, <1>3, <1>4, <1>5, <1>6, <1>7, <1>8, <1>9 DEF Next

\* With links whose ends agree, no frame gets onto the wire of a station in
\* another VLAN through the switching path (IsVLANAllowed, determine_frame_vlan
\* and prepare_frame_for_interface), whatever is flooded, routed, queued for ARP
\* or answered and however the tree moves: only reports do, which bypass it
\* (report_inter_vlan_icmp_error).
THEOREM VlansApart ==
  ASSUME Configured
  PROVE  Spec => []OnlyReportsLeave
<1>1. Init => VlanInv
  BY VlanInit
<1>2. VlanInv /\ [Next]_vars => VlanInv'
  BY VlanInductive
<1>3. VlanInv => OnlyReportsLeave
  <2> SUFFICES ASSUME VlanInv, NEW s \in Station, NEW i \in DOMAIN wire[s]
               PROVE  wire[s][i].vlan = HostVlan[s] \/ IsReport(wire[s][i])
    BY DEF OnlyReportsLeave
  <2>1. wire[s][i] \in ToSet(wire[s])
    BY DEF ToSet
  <2>2. Fits(s, wire[s][i])
    BY <2>1 DEF VlanInv, WireFits
  <2>3. QED
    BY <2>2 DEF Fits, InVlan, Strays
<1>4. QED
  BY <1>1, <1>2, <1>3, PTL DEF Spec

\* A network that only switches has no reports: its VLANs are apart.
THEOREM SwitchingIsolates ==
  ASSUME Configured, \A w \in Switch : Svi[w] = {}
  PROVE  Spec => []VlanIsolation
<1>1. Init => VlanInv
  BY VlanInit
<1>2. VlanInv /\ [Next]_vars => VlanInv'
  BY VlanInductive
<1>3. VlanInv => VlanIsolation
  <2> SUFFICES ASSUME VlanInv, NEW s \in Station, NEW i \in DOMAIN wire[s]
               PROVE  wire[s][i].vlan = HostVlan[s]
    BY DEF VlanIsolation
  <2>1. wire[s][i] \in ToSet(wire[s])
    BY DEF ToSet
  <2>2. Fits(s, wire[s][i])
    BY <2>1 DEF VlanInv, WireFits
  <2>3. QED
    BY <2>2 DEF Fits, InVlan, Strays, Routing
<1>4. QED
  BY <1>1, <1>2, <1>3, PTL DEF Spec

------------------------------------------------------------------------------
(* Where frames may be: ok[e] are the frames that may be on the wire to e.   *)

Places == Port \cup Station

WireIn(ok, wires) ==
  /\ DOMAIN wires = Places
  /\ \A e \in Places : IsList(wires[e]) /\ \A f \in ToSet(wires[e]) : f \in ok[e]

OutIn(ok, out) ==
  IsList(out) /\ \A o \in ToSet(out) : o.port \in Port /\ o.frame \in ok[Far[o.port]]

LEMMA TransmitIn ==
  ASSUME NEW ok, NEW wires, WireIn(ok, wires), NEW out, OutIn(ok, out)
  PROVE  WireIn(ok, Transmit(wires, out))
<1>1. DOMAIN Transmit(wires, out) = Places
  BY DEF Transmit, WireIn
<1>2. /\ DOMAIN out = 1 .. Len(out) /\ Len(out) \in Nat
      /\ \A i \in 1 .. Len(out) : out[i] \in ToSet(out)
  BY ListElements DEF OutIn
<1>3. ASSUME NEW e \in Places
      PROVE  /\ IsList(Transmit(wires, out)[e])
             /\ \A f \in ToSet(Transmit(wires, out)[e]) : f \in ok[e]
  <2> DEFINE parts == [i \in DOMAIN out |->
                        IF Far[out[i].port] = e THEN <<out[i].frame>> ELSE << >>]
  <2>1. Transmit(wires, out)[e] = wires[e] \o FlattenSeq(parts)
    BY DEF Transmit, WireIn
  <2>2. /\ parts = [i \in 1 .. Len(out) |-> parts[i]]
        /\ \A i \in 1 .. Len(out) :
             parts[i] = IF Far[out[i].port] = e THEN <<out[i].frame>> ELSE << >>
    BY <1>2
  <2> HIDE DEF parts
  <2>3. ASSUME NEW i \in 1 .. Len(out)
        PROVE  IsList(parts[i]) /\ \A f \in ToSet(parts[i]) : f \in ok[e]
    <3>1. CASE Far[out[i].port] = e
      <4>1. out[i].frame \in ok[e]
        BY <1>2, <3>1 DEF OutIn
      <4>2. QED
        BY <2>2, <3>1, <4>1, SingletonList
    <3>2. CASE Far[out[i].port] # e
      BY <2>2, <3>2, EmptyList
    <3>3. QED
      BY <3>1, <3>2
  <2>4. /\ IsList(FlattenSeq(parts))
        /\ \A f \in ToSet(FlattenSeq(parts)) : \E i \in 1 .. Len(out) : f \in ToSet(parts[i])
    BY <1>2, <2>2, <2>3, FlattenList
  <2>5. IsList(wires[e]) /\ \A f \in ToSet(wires[e]) : f \in ok[e]
    BY DEF WireIn
  <2>6. QED
    BY <2>1, <2>3, <2>4, <2>5, ConcatList
<1>4. QED
  BY <1>1, <1>3 DEF WireIn

LEMMA BothIn ==
  ASSUME NEW ok, NEW a, NEW b, OutIn(ok, a), OutIn(ok, b)
  PROVE  OutIn(ok, a \o b)
BY ConcatList DEF OutIn

LEMMA TakingIn ==
  ASSUME NEW ok, WireIn(ok, wire), NEW e \in Places, wire[e] # << >>
  PROVE  WireIn(ok, [wire EXCEPT ![e] = Tail(@)]) /\ Head(wire[e]) \in ok[e]
BY TailList DEF WireIn

LEMMA AppendingIn ==
  ASSUME NEW ok, NEW wires, WireIn(ok, wires), NEW e \in Places, NEW f \in ok[e]
  PROVE  WireIn(ok, [wires EXCEPT ![e] = Append(@, f)])
BY AppendList DEF WireIn

------------------------------------------------------------------------------
(* What the operators of the switch send.                                    *)

\* One copy of f at most by each port of p's switch that may carry it.
Spreads(out, p, f, vlan, routed) ==
  /\ IsList(out)
  /\ \A o \in ToSet(out) : \E q \in Ports(Owner[p]) :
       /\ CanForward(q) /\ IsVLANAllowed(q, vlan) /\ MayReturn(p, q, routed)
       /\ o = Sending(q, Prepared(q, f, vlan))
  /\ \A m, n \in DOMAIN out : out[m].port = out[n].port => m = n

LEMMA FloodSpreads ==
  ASSUME NEW p, NEW f, NEW vlan, NEW routed
  PROVE  Spreads(Flood(p, f, vlan), p, f, vlan, routed)
<1> DEFINE ports == FloodPorts(p, vlan)
           s == SetToSeq(ports)
           out == [i \in DOMAIN s |-> Sending(s[i], Prepared(s[i], f, vlan))]
           S == {Sending(q, Prepared(q, f, vlan)) : q \in ports}
<1>1. Flood(p, f, vlan) = out
  BY DEF Flood
<1>2. /\ ports \subseteq Ports(Owner[p])
      /\ \A q \in ports : CanForward(q) /\ IsVLANAllowed(q, vlan) /\ MayReturn(p, q, routed)
  BY DEF FloodPorts, MayReturn
<1>3. IsFiniteSet(ports)
  BY <1>2, SwitchAssumption, FS_Subset DEF Ports
<1> HIDE DEF ports
<1>4. /\ s \in Seq(ports) /\ DOMAIN s = 1 .. Len(s) /\ Len(s) \in Nat
      /\ \A i \in DOMAIN s : s[i] \in ports
      /\ \A i, j \in DOMAIN s : s[i] = s[j] => i = j
  BY <1>3, SetToSeqLists, LenProperties, ElementOfSeq
<1> HIDE DEF s
<1>5. out \in Seq(S)
  <2>1. out \in [1 .. Len(s) -> S]
    BY <1>4
  <2>2. QED
    BY ONLY <1>4, <2>1
<1>6. IsList(out) /\ ToSet(out) \subseteq S
  BY <1>5, ListOf
<1>7. \A m, n \in DOMAIN out : out[m].port = out[n].port => m = n
  BY <1>4 DEF Sending
<1>8. QED
  BY <1>1, <1>2, <1>6, <1>7 DEF Spreads

LEMMA ForwardSpreads ==
  ASSUME NEW table, NEW p, NEW f, NEW vlan, NEW routed
  PROVE  Spreads(Forward(table, p, f, vlan, routed), p, f, vlan, routed)
<1> DEFINE name == Lookup(table, f.dst, vlan)
           ports == {r \in {q \in Ports(Owner[p]) : Name[q] = name} :
                       MayReturn(p, r, routed) /\ CanForward(r) /\ IsVLANAllowed(r, vlan)}
           S == {Sending(q, Prepared(q, f, vlan)) : q \in ports}
           out == SetToSeq(S)
<1>1. CASE f.dst = Broadcast \/ name = << >>
  BY <1>1, FloodSpreads DEF Forward
<1>2. CASE ~(f.dst = Broadcast \/ name = << >>)
  <2>1. Forward(table, p, f, vlan, routed) = out
    BY <1>2 DEF Forward
  <2>2. \A q \in ports : /\ q \in Ports(Owner[p]) /\ q \in Port
                         /\ CanForward(q) /\ IsVLANAllowed(q, vlan) /\ MayReturn(p, q, routed)
    BY DEF Ports
  <2> HIDE DEF ports
  <2>3. IsFiniteSet(S)
    <3>1. IsFiniteSet(ports)
      BY <2>2, SwitchAssumption, FS_Subset
    <3> DEFINE G == [q \in ports |-> Sending(q, Prepared(q, f, vlan))]
    <3>2. G \in Surjection(ports, S)
      BY DEF Surjection
    <3> HIDE DEF S, G
    <3>3. QED
      BY <3>1, <3>2, FS_Surjection
  <2>4. \A o, u \in S : o.port = u.port => o = u
    BY DEF Sending
  <2>5. \A o \in S : \E q \in Ports(Owner[p]) :
          /\ CanForward(q) /\ IsVLANAllowed(q, vlan) /\ MayReturn(p, q, routed)
          /\ o = Sending(q, Prepared(q, f, vlan))
    BY <2>2
  <2> HIDE DEF S
  <2>6. /\ out \in Seq(S) /\ DOMAIN out = 1 .. Len(out)
        /\ \A i \in DOMAIN out : out[i] \in S
        /\ \A i, j \in DOMAIN out : out[i] = out[j] => i = j
    BY <2>3, SetToSeqLists, LenProperties, ElementOfSeq
  <2>7. IsList(out) /\ ToSet(out) \subseteq S
    BY <2>6, ListOf
  <2>8. QED
    BY <2>1, <2>4, <2>5, <2>6, <2>7 DEF Spreads
<1>3. QED
  BY <1>1, <1>2

LEMMA SpreadsIn ==
  ASSUME NEW ok, NEW out, NEW p, NEW f, NEW vlan, NEW routed, Spreads(out, p, f, vlan, routed),
         \A q \in Ports(Owner[p]) :
           CanForward(q) /\ IsVLANAllowed(q, vlan) /\ MayReturn(p, q, routed)
             => Prepared(q, f, vlan) \in ok[Far[q]]
  PROVE  OutIn(ok, out)
BY DEF Spreads, OutIn, Sending, Ports

\* A switch asks for a next hop: by the ports that may carry the VLAN, or by one port
\* without looking at it.
LEMMA AskSends ==
  ASSUME NEW w, NEW hop, NEW by \in Port \cup {None}
  PROVE  /\ IsList(Ask(w, hop, by))
         /\ \A o \in ToSet(Ask(w, hop, by)) :
              \/ /\ by # None /\ o = Sending(by, Request(by, None, hop, HostVlan[hop]))
              \/ \E q \in Ports(w) :
                   LET vlan == HostVlan[hop]
                       f == Request(q, <<w, vlan>>, hop, vlan)
                   IN /\ CanForward(q) /\ IsVLANAllowed(q, vlan)
                      /\ o = Sending(q, Prepared(q, f, vlan))
<1> DEFINE vlan == HostVlan[hop]
<1>1. CASE by = None
  <2> DEFINE ports == {q \in Ports(w) : IsVLANAllowed(q, vlan) /\ CanForward(q)}
             G(q) == Sending(q, Prepared(q, Request(q, <<w, vlan>>, hop, vlan), vlan))
             s == SetToSeq(ports)
             out == [i \in DOMAIN s |-> G(s[i])]
             S == {G(q) : q \in ports}
  <2>1. Ask(w, hop, by) = out
    BY <1>1 DEF Ask, AskVlan
  <2>2. \A o \in S : \E q \in Ports(w) :
          CanForward(q) /\ IsVLANAllowed(q, vlan) /\ o = G(q)
    OBVIOUS
  <2>3. IsFiniteSet(ports)
    BY SwitchAssumption, FS_Subset DEF Ports
  <2> HIDE DEF ports, G
  <2>4. s \in Seq(ports) /\ DOMAIN s = 1 .. Len(s) /\ \A i \in DOMAIN s : s[i] \in ports
    BY <2>3, SetToSeqLists, LenProperties, ElementOfSeq
  <2> HIDE DEF s
  <2>5. out \in Seq(S)
    <3>1. out \in [1 .. Len(s) -> S] /\ Len(s) \in Nat
      BY <2>4, LenProperties
    <3>2. QED
      BY ONLY <3>1
  <2> HIDE DEF S, out
  <2>6. IsList(out) /\ ToSet(out) \subseteq S
    BY <2>5, ListOf
  <2>7. QED
    BY <2>1, <2>2, <2>6 DEF G
<1>2. CASE by # None
  <2>1. Ask(w, hop, by) = <<Sending(by, Request(by, None, hop, vlan))>>
    BY <1>2 DEF Ask, AskPort
  <2>2. QED
    BY <1>2, <2>1, SingletonList
<1>3. QED
  BY <1>1, <1>2

\* What is released when hop answers on port p: each waiting packet is sent on by
\* itself, a report by p.
Given(x, hop, p) == [x.frame EXCEPT !.dst = hop, !.src = p]

Released(table, x, hop, p) ==
  IF x.port = None THEN <<Sending(p, Given(x, hop, p))>>
  ELSE Forward(table, x.port, Given(x, hop, p), Given(x, hop, p).vlan, TRUE)

LEMMA ReleasedList ==
  ASSUME NEW table, NEW x, NEW hop, NEW p
  PROVE  /\ IsList(Released(table, x, hop, p))
         /\ \A o \in ToSet(Released(table, x, hop, p)) :
              \/ x.port = None /\ o = Sending(p, Given(x, hop, p))
              \/ /\ x.port # None
                 /\ \E q \in Ports(Owner[x.port]) :
                      /\ CanForward(q) /\ IsVLANAllowed(q, Given(x, hop, p).vlan)
                      /\ o = Sending(q, Prepared(q, Given(x, hop, p), Given(x, hop, p).vlan))
<1>1. CASE x.port = None
  BY <1>1, SingletonList DEF Released
<1>2. CASE x.port # None
  <2> DEFINE f == Given(x, hop, p)
             out == Forward(table, x.port, f, f.vlan, TRUE)
  <2>1. Spreads(out, x.port, f, f.vlan, TRUE)
    BY ForwardSpreads
  <2>2. Released(table, x, hop, p) = out
    BY <1>2 DEF Released
  <2> HIDE DEF out, f
  <2>3. /\ IsList(out)
        /\ \A o \in ToSet(out) : \E q \in Ports(Owner[x.port]) :
             /\ CanForward(q) /\ IsVLANAllowed(q, f.vlan)
             /\ o = Sending(q, Prepared(q, f, f.vlan))
    BY <2>1 DEF Spreads
  <2>4. QED
    BY <1>2, <2>2, <2>3 DEF f
<1>3. QED
  BY <1>1, <1>2

LEMMA ReleasingIs ==
  ASSUME NEW table, NEW w, NEW p, NEW hop, IsList(arp[w][hop].waiting)
  PROVE  LET waiting == arp[w][hop].waiting
             outs == [i \in 1 .. Len(waiting) |-> Released(table, waiting[i], hop, p)]
         IN /\ Releasing(table, w, p, hop) = FlattenSeq(outs)
            /\ IsList(FlattenSeq(outs))
            /\ \A o \in ToSet(FlattenSeq(outs)) :
                 \E x \in ToSet(waiting) : o \in ToSet(Released(table, x, hop, p))
<1> DEFINE waiting == arp[w][hop].waiting
           outs == [i \in 1 .. Len(waiting) |-> Released(table, waiting[i], hop, p)]
<1>1. /\ Len(waiting) \in Nat /\ DOMAIN waiting = 1 .. Len(waiting)
      /\ \A i \in 1 .. Len(waiting) : waiting[i] \in ToSet(waiting)
  BY ListElements
<1>2. Releasing(table, w, p, hop) = FlattenSeq(outs)
  BY <1>1 DEF Releasing, Released, Given
<1>3. /\ outs = [i \in 1 .. Len(waiting) |-> outs[i]]
      /\ \A i \in 1 .. Len(waiting) : outs[i] = Released(table, waiting[i], hop, p)
  OBVIOUS
<1> HIDE DEF outs, waiting
<1>4. \A i \in 1 .. Len(waiting) : IsList(outs[i])
  BY <1>3, ReleasedList
<1>5. /\ IsList(FlattenSeq(outs))
      /\ \A o \in ToSet(FlattenSeq(outs)) : \E i \in 1 .. Len(waiting) : o \in ToSet(outs[i])
  BY <1>1, <1>3, <1>4, FlattenList
<1>6. \A o \in ToSet(FlattenSeq(outs)) :
        \E x \in ToSet(waiting) : o \in ToSet(Released(table, x, hop, p))
  BY <1>1, <1>3, <1>5
<1>7. QED
  BY <1>2, <1>5, <1>6 DEF outs, waiting

------------------------------------------------------------------------------
(* What frames are.                                                          *)

Named == DOMAIN Via \cup (Switch \X Nat) \cup {None}

Fields == {"kind", "src", "dst", "tag", "from", "to", "ttl", "id", "vlan", "hops"}

FrameOf(ids) ==
  [kind : {"ip", "error", "request", "reply"}, src : Port \cup Station,
   dst : Port \cup Station \cup {Broadcast}, tag : Nat, from : Named, to : Named, ttl : Nat,
   id : ids \cup {None}, vlan : Nat, hops : Nat]

\* A frame that carries one of the packets ids says so, ARP comes from its sender,
\* and a packet for a station is on the last leg of its way, in that station's VLAN.
Sound(ids, f) ==
  /\ f \in FrameOf(ids)
  /\ f.kind \in {"ip", "error"} => f.id \in ids
  /\ f.kind \in {"request", "reply"} /\ f.from \in Station => f.src = f.from
  /\ f.kind = "ip" =>
       /\ f.ttl > 0 /\ f.from \in Station
       /\ f.dst \in Station => f.to \in DOMAIN Via /\ f.dst = Via[f.to] /\ f.vlan = HostVlan[f.dst]
  /\ f.kind = "request" /\ f.id \in ids => f.src \in Station
  /\ f.kind = "reply" /\ f.id \in ids => f.dst \in Station

SoundAt(ids) == [e \in Places |-> {f \in FrameOf(ids) : Sound(ids, f)}]

\* A packet that waits for the address of s becomes such a frame.
SoundWait(ids, w, s, h) ==
  /\ h.port \in Port \cup {None} /\ (h.port # None => Owner[h.port] = w)
  /\ DOMAIN h.frame = Fields /\ h.frame.id \in ids
  /\ h.frame.kind \in {"ip", "error"} /\ (h.port = None => h.frame.kind = "error")
  /\ \A q \in Port : Sound(ids, Given(h, s, q))

EntrySound(ids, w, s, h) ==
  /\ h = [at |-> h.at, waiting |-> h.waiting, asked |-> h.asked, by |-> h.by]
  /\ h.at \in {s, None} /\ h.asked \in 0 .. MaxAttempts /\ h.by \in Port \cup {None}
  /\ h.at # None => h.waiting = << >>
  /\ (h.asked = 0 <=> h.waiting = << >>) /\ (h.asked = 0 => h.by = None)
  /\ IsList(h.waiting) /\ \A x \in ToSet(h.waiting) : SoundWait(ids, w, s, x)

ArpSound(ids, arps) ==
  /\ DOMAIN arps = Switch
  /\ \A w \in Switch :
       DOMAIN arps[w] = Station /\ \A s \in Station : EntrySound(ids, w, s, arps[w][s])

LEMMA AllowedNat ==
  ASSUME NEW q \in Port, NEW vlan, IsVLANAllowed(q, vlan)
  PROVE  vlan \in Nat
BY SwitchAssumption DEF IsVLANAllowed

LEMMA IsSound ==
  ASSUME NEW ids, NEW e \in Places, NEW f
  PROVE  f \in SoundAt(ids)[e] <=> Sound(ids, f)
BY DEF SoundAt, Sound

LEMMA PreparedIs ==
  ASSUME NEW q, NEW vlan, NEW f, DOMAIN f = Fields
  PROVE  LET g == Prepared(q, f, vlan) IN
         /\ DOMAIN g = Fields /\ g.kind = f.kind /\ g.src = f.src /\ g.dst = f.dst
         /\ g.tag = IF Mode[q] = "trunk" /\ vlan # PortVlan[q] THEN vlan ELSE 0
         /\ g.from = f.from /\ g.to = f.to /\ g.ttl = f.ttl /\ g.id = f.id
         /\ g.vlan = f.vlan /\ g.hops = f.hops + 1
BY DEF Prepared, Fields

\* A record is a frame if its fields are right.
IsFrame(ids, f) ==
  /\ DOMAIN f = Fields /\ f = [x \in Fields |-> f[x]]
  /\ f.kind \in {"ip", "error", "request", "reply"} /\ f.src \in Places
  /\ f.dst \in Places \cup {Broadcast} /\ f.tag \in Nat /\ f.from \in Named
  /\ f.to \in Named /\ f.ttl \in Nat /\ f.id \in ids \cup {None} /\ f.vlan \in Nat
  /\ f.hops \in Nat

LEMMA FrameIs ==
  ASSUME NEW ids, NEW f
  PROVE  f \in FrameOf(ids) <=> IsFrame(ids, f)
<1>1. ASSUME f \in FrameOf(ids)
      PROVE  IsFrame(ids, f)
  BY <1>1 DEF FrameOf, Fields, Places, IsFrame
<1>2. ASSUME IsFrame(ids, f)
      PROVE  f \in FrameOf(ids)
  <2>1. f = [kind |-> f.kind, src |-> f.src, dst |-> f.dst, tag |-> f.tag, from |-> f.from,
             to |-> f.to, ttl |-> f.ttl, id |-> f.id, vlan |-> f.vlan, hops |-> f.hops]
    BY <1>2 DEF Fields, IsFrame
  <2>2. QED
    BY <1>2, <2>1 DEF FrameOf, Places, IsFrame
<1>3. QED
  BY <1>1, <1>2

LEMMA PreparedSound ==
  ASSUME NEW ids, NEW q \in Port, NEW vlan \in Nat, NEW f, Sound(ids, f)
  PROVE  Sound(ids, Prepared(q, f, vlan))
<1> DEFINE g == Prepared(q, f, vlan)
<1>1. f \in FrameOf(ids) /\ DOMAIN f = Fields
  BY DEF Sound, FrameOf, Fields
<1>2. /\ DOMAIN g = Fields /\ g.kind = f.kind /\ g.src = f.src /\ g.dst = f.dst /\ g.tag \in Nat
      /\ g.from = f.from /\ g.to = f.to /\ g.ttl = f.ttl /\ g.id = f.id
      /\ g.vlan = f.vlan /\ g.hops = f.hops + 1
  BY <1>1, PreparedIs, SwitchAssumption
<1> SUFFICES Sound(ids, g)
  OBVIOUS
<1>3. g = [x \in Fields |-> g[x]]
  BY <1>1 DEF Prepared
<1> HIDE DEF g
<1>4. g \in FrameOf(ids)
  BY <1>1, <1>2, <1>3, FrameIs DEF IsFrame
<1>5. QED
  BY <1>2, <1>4 DEF Sound

LEMMA SpreadSound ==
  ASSUME NEW ids, NEW f, Sound(ids, f), NEW out, NEW p, NEW vlan, NEW routed,
         Spreads(out, p, f, vlan, routed)
  PROVE  OutIn(SoundAt(ids), out)
<1>1. ASSUME NEW q \in Ports(Owner[p]), IsVLANAllowed(q, vlan)
      PROVE  Prepared(q, f, vlan) \in SoundAt(ids)[Far[q]]
  <2>1. q \in Port /\ Far[q] \in Places
    BY SwitchAssumption DEF Ports, Places
  <2>2. QED
    BY <1>1, <2>1, AllowedNat, PreparedSound, IsSound
<1>2. QED
  BY <1>1, SpreadsIn

LEMMA RequestSound ==
  ASSUME NEW ids \in SUBSET Nat, NEW q \in Port, NEW hop \in Station,
         NEW from \in (Switch \X Nat) \cup {None}
  PROVE  Sound(ids, Request(q, from, hop, HostVlan[hop]))
<1> DEFINE f == Request(q, from, hop, HostVlan[hop])
<1>1. /\ f.kind = "request" /\ f.src = q /\ f.dst = Broadcast /\ f.tag = 0 /\ f.from = from
      /\ f.to = hop /\ f.ttl = 0 /\ f.id = None /\ f.vlan = HostVlan[hop] /\ f.hops = 0
  BY DEF Request
<1> HIDE DEF f
<1>2. from \notin Station /\ None \notin ids /\ HostVlan[hop] \in Nat /\ hop \in DOMAIN Via
  <2>1. from \notin Station
    <3>1. \A s \in Station : s \notin Switch \X Nat
      BY SwitchAssumption
    <3>2. None \notin Station
      BY SwitchAssumption
    <3>3. QED
      BY <3>1, <3>2
  <2>2. None \notin ids
    BY SwitchAssumption
  <2>3. HostVlan[hop] \in Nat
    BY SwitchAssumption
  <2>4. hop \in DOMAIN Via
    BY SwitchAssumption
  <2>5. QED
    BY <2>1, <2>2, <2>3, <2>4
<1> USE DEF f
<1>3. f \in FrameOf(ids)
  BY <1>2 DEF Request, FrameOf, Named
<1> SUFFICES Sound(ids, f)
  OBVIOUS
<1> HIDE DEF f
<1>4. QED
  BY <1>1, <1>2, <1>3 DEF Sound

LEMMA AskSound ==
  ASSUME NEW ids \in SUBSET Nat, NEW w \in Switch, NEW hop \in Station, NEW by \in Port \cup {None}
  PROVE  OutIn(SoundAt(ids), Ask(w, hop, by))
<1> DEFINE vlan == HostVlan[hop]
<1>1. vlan \in Nat
  BY SwitchAssumption
<1>2. ASSUME NEW o \in ToSet(Ask(w, hop, by))
      PROVE  o.port \in Port /\ o.frame \in SoundAt(ids)[Far[o.port]]
  <2>1. CASE by # None /\ o = Sending(by, Request(by, None, hop, vlan))
    <3>1. Sound(ids, Request(by, None, hop, vlan)) /\ Far[by] \in Places
      BY <2>1, RequestSound, SwitchAssumption DEF Places
    <3>2. QED
      BY <2>1, <3>1, IsSound DEF Sending
  <2>2. ASSUME NEW q \in Ports(w),
               o = Sending(q, Prepared(q, Request(q, <<w, vlan>>, hop, vlan), vlan))
        PROVE  o.port \in Port /\ o.frame \in SoundAt(ids)[Far[o.port]]
    <3>1. q \in Port /\ Far[q] \in Places
      BY SwitchAssumption DEF Ports, Places
    <3>2. Sound(ids, Request(q, <<w, vlan>>, hop, vlan))
      BY <1>1, <3>1, RequestSound
    <3>3. Sound(ids, Prepared(q, Request(q, <<w, vlan>>, hop, vlan), vlan))
      BY <1>1, <3>1, <3>2, PreparedSound
    <3>4. QED
      BY <2>2, <3>1, <3>3, IsSound DEF Sending
  <2>3. QED
    BY <2>1, <2>2, AskSends
<1>3. QED
  BY <1>2, AskSends DEF OutIn

LEMMA ReleasedSound ==
  ASSUME NEW ids, NEW w, NEW hop \in Station, NEW p \in Port, NEW table, NEW x,
         SoundWait(ids, w, hop, x)
  PROVE  OutIn(SoundAt(ids), Released(table, x, hop, p))
<1> DEFINE f == Given(x, hop, p)
<1>1. Sound(ids, f) /\ Far[p] \in Places
  BY SwitchAssumption DEF SoundWait, Places
<1>2. CASE x.port = None
  <2>1. Released(table, x, hop, p) = <<Sending(p, f)>>
    BY <1>2 DEF Released
  <2> HIDE DEF f
  <2>2. QED
    BY <1>1, <2>1, SingletonList, IsSound DEF OutIn, Sending
<1>3. CASE x.port # None
  <2>1. Released(table, x, hop, p) = Forward(table, x.port, f, f.vlan, TRUE)
    BY <1>3 DEF Released
  <2> HIDE DEF f
  <2>2. QED
    BY <1>1, <2>1, ForwardSpreads, SpreadSound
<1>4. QED
  BY <1>2, <1>3

LEMMA ReleasingSound ==
  ASSUME NEW ids, ArpSound(ids, arp), NEW w \in Switch, NEW hop \in Station, NEW p \in Port, NEW table
  PROVE  OutIn(SoundAt(ids), Releasing(table, w, p, hop))
<1>1. /\ IsList(arp[w][hop].waiting)
      /\ \A x \in ToSet(arp[w][hop].waiting) : SoundWait(ids, w, hop, x)
  BY DEF ArpSound, EntrySound
<1>2. /\ IsList(Releasing(table, w, p, hop))
      /\ \A o \in ToSet(Releasing(table, w, p, hop)) :
           \E x \in ToSet(arp[w][hop].waiting) : o \in ToSet(Released(table, x, hop, p))
  BY <1>1, ReleasingIs
<1>3. QED
  BY <1>1, <1>2, ReleasedSound DEF OutIn

LEMMA TakenSound ==
  ASSUME NEW ids, WireIn(SoundAt(ids), wire), NEW p \in Port, wire[p] # << >>
  PROVE  /\ WireIn(SoundAt(ids), Taken(p)) /\ Sound(ids, Arrived(p))
         /\ Arrived(p) \in FrameOf(ids) /\ DOMAIN Arrived(p) = Fields
<1>1. p \in Places
  BY DEF Places
<1>2. WireIn(SoundAt(ids), Taken(p)) /\ Sound(ids, Arrived(p))
  BY <1>1, TakingIn, IsSound DEF Taken, Arrived
<1>3. QED
  BY <1>2, FrameIs DEF Sound, IsFrame

LEMMA EntryIs ==
  ASSUME NEW ids, ArpSound(ids, arp), NEW w \in Switch, NEW hop \in Station, NEW x,
         EntrySound(ids, w, hop, x), arp' = [arp EXCEPT ![w][hop] = x]
  PROVE  ArpSound(ids, arp')
<1>1. /\ DOMAIN arp' = Switch
      /\ \A v \in Switch : DOMAIN arp'[v] = Station
      /\ \A v \in Switch, u \in Station :
           arp'[v][u] = IF v = w /\ u = hop THEN x ELSE arp[v][u]
  BY DEF ArpSound
<1>2. QED
  BY <1>1 DEF ArpSound

LEMMA NoEntrySound ==
  ASSUME NEW ids, NEW w, NEW s, NEW at \in {s, None}
  PROVE  EntrySound(ids, w, s, [Unknown EXCEPT !.at = at])
<1> DEFINE x == [Unknown EXCEPT !.at = at]
<1>1. x = [at |-> at, waiting |-> << >>, asked |-> 0, by |-> None]
  BY DEF Unknown
<1> SUFFICES EntrySound(ids, w, s, x)
  OBVIOUS
<1> HIDE DEF x
<1>2. QED
  BY <1>1, EmptyList, SwitchAssumption DEF EntrySound

LEMMA QueueSound ==
  ASSUME NEW ids \in SUBSET Nat, ArpSound(ids, arp), NEW p \in Port,
         WireIn(SoundAt(ids), Taken(p)), NEW hop \in Station,
         NEW entry, SoundWait(ids, Owner[p], hop, entry), NEW by \in Port \cup {None},
         NEW out, arp[Owner[p]][hop].at # None => OutIn(SoundAt(ids), out),
         ResolveOrQueue(p, hop, entry, by, out)
  PROVE  WireIn(SoundAt(ids), wire') /\ ArpSound(ids, arp')
<1> DEFINE w == Owner[p]
           known == arp[w][hop]
<1>1. w \in Switch /\ EntrySound(ids, w, hop, known)
  BY SwitchAssumption DEF ArpSound
<1>2. CASE known.at # None
  <2>1. wire' = Transmit(Taken(p), out) /\ arp' = arp
    BY <1>2 DEF ResolveOrQueue
  <2>2. QED
    BY <1>2, <2>1, TransmitIn
<1>3. CASE known.at = None
  <2>1. OutIn(SoundAt(ids), Ask(w, hop, by))
    BY <1>1, AskSound
  <2>2. WireIn(SoundAt(ids), wire')
    BY <1>3, <2>1, TransmitIn DEF ResolveOrQueue
  <2>3. CASE known = Unknown
    <3> DEFINE x == [at |-> None, waiting |-> <<entry>>, asked |-> 1, by |-> by]
    <3>1. arp' = [arp EXCEPT ![w][hop] = x]
      BY <1>3, <2>3 DEF ResolveOrQueue
    <3>2. EntrySound(ids, w, hop, x)
      BY SingletonList, SwitchAssumption DEF EntrySound
    <3> HIDE DEF x
    <3>3. QED
      BY <1>1, <2>2, <3>1, <3>2, EntryIs
  <2>4. CASE known # Unknown
    <3> DEFINE x == [known EXCEPT !.waiting = <<entry>> \o @]
    <3>1. arp' = [arp EXCEPT ![w][hop] = x]
      BY <1>3, <2>4 DEF ResolveOrQueue
    <3>2. x = [at |-> known.at, waiting |-> <<entry>> \o known.waiting, asked |-> known.asked,
               by |-> known.by]
      <4>1. known = [at |-> known.at, waiting |-> known.waiting, asked |-> known.asked,
                     by |-> known.by]
        BY <1>1 DEF EntrySound
      <4> HIDE DEF known
      <4> DEFINE list == <<entry>> \o known.waiting
      <4>2. x = [known EXCEPT !.waiting = list]
        OBVIOUS
      <4> HIDE DEF x, list
      <4>3. x = [at |-> known.at, waiting |-> list, asked |-> known.asked, by |-> known.by]
        BY <4>1, <4>2
      <4>4. QED
        BY <4>3 DEF list
    <3>3. known.asked # 0
      BY <1>1, <1>3, <2>4 DEF EntrySound, Unknown
    <3> HIDE DEF x, known
    <3>4. /\ IsList(<<entry>> \o known.waiting)
          /\ \A h \in ToSet(<<entry>> \o known.waiting) : SoundWait(ids, w, hop, h)
      BY <1>1, SingletonList, ConcatList DEF EntrySound
    <3>5. <<entry>> \o known.waiting # << >>
      <4>1. Len(<<entry>> \o known.waiting) = 1 + Len(known.waiting) /\ Len(known.waiting) \in Nat
        BY <1>1, SingletonList, ListElements DEF EntrySound
      <4>2. QED
        BY <4>1
    <3> HIDE DEF w
    <3>6. EntrySound(ids, w, hop, x)
      BY <1>1, <1>3, <3>2, <3>3, <3>4, <3>5 DEF EntrySound
    <3>7. QED
      BY <1>1, <2>2, <3>1, <3>6, EntryIs DEF w
  <2>5. QED
    BY <2>3, <2>4
<1>4. QED
  BY <1>2, <1>3

\* What the actions of a switch send.
Flow(ids) ==
  /\ ids \in SUBSET Nat /\ WireIn(SoundAt(ids), wire) /\ ArpSound(ids, arp)

LEMMA SwitchFrameSound ==
  ASSUME NEW ids, Flow(ids), NEW p \in Port, SwitchFrame(p)
  PROVE  Flow(ids)'
<1> DEFINE f == Arrived(p)
           out == Forward(Learned(p), p, f, VlanOf(p), FALSE)
<1>1. WireIn(SoundAt(ids), Taken(p)) /\ Sound(ids, f)
  BY TakenSound DEF Flow, SwitchFrame, Admitted
<1>2. OutIn(SoundAt(ids), out)
  BY <1>1, ForwardSpreads, SpreadSound
<1>3. wire' = Transmit(Taken(p), out) /\ arp' = arp
  BY DEF SwitchFrame
<1>4. WireIn(SoundAt(ids), wire')
  BY <1>1, <1>2, <1>3, TransmitIn
<1>5. QED
  BY <1>3, <1>4 DEF Flow

\* A routed packet, once its next hop is known.
RoutedWell(ids, w, f, table) ==
  LET routed == Routed(w, f, table)  hop == Via[f.to] IN
  /\ hop \in Station /\ DOMAIN routed = Fields /\ routed.id = f.id
  /\ routed.kind = f.kind /\ routed.hops = f.hops /\ routed.vlan = HostVlan[hop]
  /\ \A q \in Port : Sound(ids, [routed EXCEPT !.dst = hop, !.src = q])
  /\ (arp[w][hop].at # None /\ routed.src \in Port => Sound(ids, routed))

LEMMA RoutedSound ==
  ASSUME NEW ids, ArpSound(ids, arp), NEW w \in Switch, NEW f, Sound(ids, f),
         f.kind \in {"ip", "error"}, ~Expires(f), NEW vlan, ShouldRoute(w, f, vlan), NEW table
  PROVE  RoutedWell(ids, w, f, table)
<1> DEFINE routed == Routed(w, f, table)
           hop == Via[f.to]
<1>1. /\ DOMAIN f = Fields /\ f = [x \in Fields |-> f[x]] /\ IsFrame(ids, f)
      /\ f.ttl - 1 \in Nat /\ f.ttl - 1 > 0
  BY FrameIs DEF Sound, IsFrame, Expires
<1>2. hop \in Station /\ f.to \in DOMAIN Via /\ HostVlan[hop] \in Nat
  BY SwitchAssumption DEF ShouldRoute
<1>3. /\ DOMAIN routed = Fields /\ routed = [x \in Fields |-> routed[x]]
      /\ routed.kind = f.kind /\ routed.dst = arp[w][hop].at /\ routed.tag = 0
      /\ routed.from = f.from /\ routed.to = f.to /\ routed.ttl = f.ttl - 1
      /\ routed.id = f.id /\ routed.vlan = HostVlan[hop] /\ routed.hops = f.hops
  <2> DEFINE at == arp[w][hop].at
             v == HostVlan[hop]
             ttl == f.ttl - 1
  <2>1. \E src : routed = [f EXCEPT !.src = src, !.dst = at, !.tag = 0, !.ttl = ttl, !.vlan = v]
    BY DEF Routed
  <2> HIDE DEF routed, at, v, ttl
  <2>2. PICK src : routed = [f EXCEPT !.src = src, !.dst = at, !.tag = 0, !.ttl = ttl, !.vlan = v]
    BY <2>1
  <2>3. DOMAIN routed = Fields /\ routed = [x \in Fields |-> routed[x]]
    BY <1>1, <2>2
  <2>4. /\ routed.kind = f.kind /\ routed.dst = at /\ routed.tag = 0
        /\ routed.from = f.from /\ routed.to = f.to /\ routed.ttl = ttl
        /\ routed.id = f.id /\ routed.vlan = v /\ routed.hops = f.hops
    BY <1>1, <2>2 DEF Fields
  <2>5. QED
    BY <2>3, <2>4 DEF at, v, ttl
<1> HIDE DEF routed
<1>4. ASSUME NEW q \in Port, NEW g, g = [x \in Fields |-> g[x]], DOMAIN g = Fields,
             \A x \in Fields \ {"src", "dst"} : g[x] = routed[x], g.src = q, g.dst = hop
      PROVE  Sound(ids, g)
  <2>1. /\ g.kind = f.kind /\ g.tag = 0 /\ g.from = f.from /\ g.to = f.to
        /\ g.ttl = f.ttl - 1 /\ g.id = f.id /\ g.vlan = HostVlan[hop] /\ g.hops = f.hops
    BY <1>3, <1>4 DEF Fields
  <2>2. IsFrame(ids, g)
    BY <1>1, <1>2, <1>4, <2>1 DEF IsFrame, Places
  <2>3. g \in FrameOf(ids)
    BY <2>2, FrameIs
  <2>4. QED
    BY <1>1, <1>2, <1>4, <2>1, <2>3 DEF Sound
<1>5. \A q \in Port : Sound(ids, [routed EXCEPT !.dst = hop, !.src = q])
  <2> TAKE q \in Port
  <2> DEFINE g == [routed EXCEPT !.dst = hop, !.src = q]
  <2>1. /\ g = [x \in Fields |-> g[x]] /\ DOMAIN g = Fields /\ g.src = q /\ g.dst = hop
        /\ \A x \in Fields \ {"src", "dst"} : g[x] = routed[x]
    BY <1>3 DEF Fields
  <2> HIDE DEF g
  <2>2. Sound(ids, g)
    BY <1>4, <2>1
  <2>3. QED
    BY <2>2 DEF g
<1>6. arp[w][hop].at # None /\ routed.src \in Port => Sound(ids, routed)
  <2>1. arp[w][hop].at \in {hop, None}
    BY <1>2 DEF ArpSound, EntrySound
  <2>2. QED
    BY <1>3, <1>4, <2>1
<1>7. QED
  BY <1>2, <1>3, <1>5, <1>6 DEF routed, RoutedWell

ReportWell(ids, p, f, vlan) ==
  LET report == Report(p, f, vlan) IN
  /\ DOMAIN report = Fields /\ report.id = f.id
  /\ report.kind = "error" /\ report.hops = 0
  /\ \A q \in Port : Sound(ids, [report EXCEPT !.dst = f.from, !.src = q])
  /\ (arp[Owner[p]][f.from].at # None => Sound(ids, report))

LEMMA ReportSound ==
  ASSUME NEW ids \in SUBSET Nat, NEW p \in Port, NEW f, Sound(ids, f), f.kind = "ip",
         NEW vlan \in Nat, arp[Owner[p]][f.from].at \in {f.from, None}
  PROVE  ReportWell(ids, p, f, vlan)
<1> DEFINE report == Report(p, f, vlan)
           s == f.from
<1>1. s \in Station /\ s \in Named /\ f.id \in ids /\ Owner[p] \in Switch
  BY SwitchAssumption DEF Sound, Named
<1>2. /\ DOMAIN report = Fields /\ report = [x \in Fields |-> report[x]]
      /\ report.kind = "error" /\ report.src = p /\ report.dst = arp[Owner[p]][s].at
      /\ report.tag = 0 /\ report.from = <<Owner[p], vlan>> /\ report.to = s
      /\ report.ttl = 64 /\ report.id = f.id /\ report.vlan = vlan /\ report.hops = 0
  BY DEF Report, Fields
<1> HIDE DEF report, s
<1>3. ASSUME NEW q \in Port, NEW g, g = [x \in Fields |-> g[x]], DOMAIN g = Fields,
             \A x \in Fields \ {"src", "dst"} : g[x] = report[x], g.src = q, g.dst = s
      PROVE  Sound(ids, g)
  <2>1. /\ g.kind = "error" /\ g.tag = 0 /\ g.from = <<Owner[p], vlan>> /\ g.to = s
        /\ g.ttl = 64 /\ g.id = f.id /\ g.vlan = vlan /\ g.hops = 0
    BY <1>2, <1>3 DEF Fields
  <2>2. IsFrame(ids, g)
    <3>1. <<Owner[p], vlan>> \in Named
      BY <1>1 DEF Named
    <3>2. QED
      BY <1>1, <1>3, <2>1, <3>1 DEF IsFrame, Places
  <2>3. g \in FrameOf(ids)
    BY <2>2, FrameIs
  <2>4. QED
    BY <1>1, <1>3, <2>1, <2>3 DEF Sound
<1>4. \A q \in Port : Sound(ids, [report EXCEPT !.dst = s, !.src = q])
  <2> TAKE q \in Port
  <2> DEFINE g == [report EXCEPT !.dst = s, !.src = q]
  <2>1. /\ g = [x \in Fields |-> g[x]] /\ DOMAIN g = Fields /\ g.src = q /\ g.dst = s
        /\ \A x \in Fields \ {"src", "dst"} : g[x] = report[x]
    BY <1>2 DEF Fields
  <2> HIDE DEF g
  <2>2. Sound(ids, g)
    BY <1>3, <2>1
  <2>3. QED
    BY <2>2 DEF g
<1>5. arp[Owner[p]][s].at # None => Sound(ids, report)
  BY <1>2, <1>3 DEF s
<1>6. QED
  BY <1>1, <1>2, <1>4, <1>5 DEF report, s, ReportWell

LEMMA RoutedSource ==
  ASSUME NEW w, NEW f, NEW table, DOMAIN f = Fields,
         NEW q \in Ports(w), IsVLANAllowed(q, HostVlan[Via[f.to]])
  PROVE  Routed(w, f, table).src \in Port
<1> DEFINE vlan == HostVlan[Via[f.to]]
           egress == {r \in Ports(w) : Name[r] = Lookup(table, arp[w][Via[f.to]].at, vlan)}
           source == IF egress # {} THEN egress ELSE {r \in Ports(w) : IsVLANAllowed(r, vlan)}
<1>1. source # {} /\ source \subseteq Port
  BY DEF Ports
<1>2. Routed(w, f, table).src = CHOOSE r \in source : TRUE
  BY DEF Routed, Fields
<1> HIDE DEF source
<1>3. QED
  BY <1>1, <1>2

LEMMA RouteFacts ==
  ASSUME NEW ids, Flow(ids), NEW p \in Port, RouteFrame(p)
  PROVE  LET w == Owner[p]  f == Arrived(p)  vlan == VlanOf(p) IN
         /\ WireIn(SoundAt(ids), Taken(p)) /\ Sound(ids, f) /\ f.kind \in {"ip", "error"}
         /\ ShouldRoute(w, f, vlan) /\ vlan \in Nat /\ DOMAIN f = Fields /\ f.id \in ids
         /\ f.hops \in Nat /\ ids \in SUBSET Nat /\ ArpSound(ids, arp) /\ w \in Switch
<1> DEFINE w == Owner[p]
           f == Arrived(p)
           vlan == VlanOf(p)
<1>1. wire[p] # << >> /\ IsVLANAllowed(p, vlan)
  BY DEF RouteFrame, Admitted
<1>2. WireIn(SoundAt(ids), Taken(p)) /\ Sound(ids, f) /\ DOMAIN f = Fields /\ f.hops \in Nat
  BY <1>1, TakenSound, FrameIs DEF Flow, IsFrame
<1>3. f.kind \in {"ip", "error"} /\ ShouldRoute(w, f, vlan)
  BY DEF RouteFrame
<1>4. QED
  BY <1>1, <1>2, <1>3, AllowedNat, SwitchAssumption DEF Flow, Sound

\* The routed packet of RouteFrame, and what is sent if its next hop is known.
RoutedBy(p) == Routed(Owner[p], Arrived(p), Learned(p))
HopOf(p) == Via[Arrived(p).to]
RoutedOut(p) == Forward(Learned(p), p, RoutedBy(p), RoutedBy(p).vlan, TRUE)

LEMMA RoutedBySound ==
  ASSUME NEW ids, Flow(ids), NEW p \in Port, RouteFrame(p), ~Expires(Arrived(p))
  PROVE  LET w == Owner[p]  f == Arrived(p)  hop == HopOf(p)  routed == RoutedBy(p) IN
         /\ hop \in Station /\ DOMAIN routed = Fields /\ routed.id = f.id /\ routed.kind = f.kind
         /\ routed.hops = f.hops
         /\ \A q \in Port : Sound(ids, [routed EXCEPT !.dst = hop, !.src = q])
         /\ arp[w][hop].at # None =>
              OutIn(SoundAt(ids), RoutedOut(p)) /\ (RoutedOut(p) # << >> => Sound(ids, routed))
         /\ SoundWait(ids, w, hop, [frame |-> routed, port |-> p])
<1> DEFINE w == Owner[p]
           f == Arrived(p)
           vlan == VlanOf(p)
           hop == HopOf(p)
           routed == RoutedBy(p)
           out == RoutedOut(p)
<1>1. /\ Sound(ids, f) /\ f.kind \in {"ip", "error"} /\ ShouldRoute(w, f, vlan)
      /\ DOMAIN f = Fields /\ f.id \in ids /\ ids \in SUBSET Nat /\ ArpSound(ids, arp)
      /\ w \in Switch /\ ~Expires(f)
  BY RouteFacts
<1>2. /\ hop \in Station /\ DOMAIN routed = Fields /\ routed.id = f.id
      /\ routed.kind = f.kind /\ routed.vlan = HostVlan[hop] /\ routed.hops = f.hops
      /\ \A q \in Port : Sound(ids, [routed EXCEPT !.dst = hop, !.src = q])
      /\ arp[w][hop].at # None /\ routed.src \in Port => Sound(ids, routed)
  <2> HIDE DEF f, vlan, w
  <2> DEFINE table == Learned(p)
  <2> HIDE DEF table
  <2>1. RoutedWell(ids, w, f, table)
    BY <1>1, RoutedSound
  <2>2. QED
    BY <2>1 DEF table, RoutedWell, RoutedBy, HopOf, w, f
<1>3. \A q \in Ports(w) : IsVLANAllowed(q, routed.vlan) => routed.src \in Port
  BY <1>1, <1>2, RoutedSource DEF RoutedBy, HopOf
<1>4. Spreads(out, p, routed, routed.vlan, TRUE)
  BY ForwardSpreads DEF RoutedOut
<1> HIDE DEF routed, out
<1>5. SoundWait(ids, w, hop, [frame |-> routed, port |-> p])
  <2>1. p # None /\ Owner[p] = w
    BY SwitchAssumption
  <2>2. \A q \in Port : Sound(ids, Given([frame |-> routed, port |-> p], hop, q))
    BY <1>2, <2>1 DEF Given
  <2>3. QED
    BY <1>1, <1>2, <2>1, <2>2 DEF SoundWait
<1>6. out # << >> => routed.src \in Port
  <2>1. out # << >> => ToSet(out) # {}
    <3>1. IsList(out)
      BY <1>4 DEF Spreads
    <3>2. QED
      BY <3>1, ListElements, EmptySeq DEF IsList
  <2>2. QED
    BY <1>3, <1>4, <2>1 DEF Spreads
<1>7. arp[w][hop].at # None => OutIn(SoundAt(ids), out)
  <2>1. CASE routed.src \in Port
    BY <1>2, <1>4, <2>1, SpreadSound
  <2>2. CASE routed.src \notin Port
    BY <1>3, <1>4, <2>2, SpreadsIn
  <2>3. QED
    BY <2>1, <2>2
<1>8. QED
  BY <1>1, <1>2, <1>5, <1>6, <1>7 DEF routed, out

\* The report of RouteFrame.
ReportBy(p) == Report(p, Arrived(p), VlanOf(p))

LEMMA ReportBySound ==
  ASSUME NEW ids, Flow(ids), NEW p \in Port, RouteFrame(p), Arrived(p).kind = "ip"
  PROVE  LET w == Owner[p]  f == Arrived(p)  report == ReportBy(p) IN
         /\ f.from \in Station /\ DOMAIN report = Fields /\ report.id = f.id
         /\ report.kind = "error" /\ report.hops = 0
         /\ \A q \in Port : Sound(ids, [report EXCEPT !.dst = f.from, !.src = q])
         /\ arp[w][f.from].at # None => OutIn(SoundAt(ids), <<Sending(p, report)>>)
         /\ SoundWait(ids, w, f.from, [frame |-> report, port |-> None])
<1> DEFINE w == Owner[p]
           f == Arrived(p)
           report == ReportBy(p)
<1>1. Sound(ids, f) /\ ArpSound(ids, arp) /\ w \in Switch /\ VlanOf(p) \in Nat
      /\ ids \in SUBSET Nat /\ f.id \in ids
  BY RouteFacts
<1>2. f.from \in Station
  BY <1>1 DEF Sound
<1>3. arp[w][f.from].at \in {f.from, None}
  BY <1>1, <1>2 DEF ArpSound, EntrySound
<1>4. /\ DOMAIN report = Fields /\ report.id = f.id /\ report.kind = "error"
      /\ report.hops = 0
      /\ \A q \in Port : Sound(ids, [report EXCEPT !.dst = f.from, !.src = q])
      /\ arp[w][f.from].at # None => Sound(ids, report)
  <2> DEFINE vlan == VlanOf(p)
  <2>1. f.kind = "ip" /\ report = Report(p, f, vlan)
    BY DEF ReportBy
  <2> HIDE DEF f, vlan, report
  <2>2. vlan \in Nat
    BY <1>1 DEF vlan
  <2>3. ReportWell(ids, p, f, vlan)
    BY <1>1, <1>3, <2>1, <2>2, ReportSound
  <2>4. QED
    BY <2>1, <2>3 DEF ReportWell
<1> HIDE DEF report
<1>5. arp[w][f.from].at # None => OutIn(SoundAt(ids), <<Sending(p, report)>>)
  <2>1. Far[p] \in Places
    BY SwitchAssumption DEF Places
  <2>2. ASSUME Sound(ids, report)
        PROVE  OutIn(SoundAt(ids), <<Sending(p, report)>>)
    <3>1. report \in SoundAt(ids)[Far[p]]
      BY <2>1, <2>2, IsSound
    <3>2. QED
      BY <3>1, SingletonList DEF OutIn, Sending
  <2>3. QED
    BY <1>4, <2>2
<1>6. SoundWait(ids, w, f.from, [frame |-> report, port |-> None])
  BY <1>1, <1>4 DEF SoundWait, Given
<1>7. QED
  BY <1>2, <1>4, <1>5, <1>6 DEF report

LEMMA RouteFrameSound ==
  ASSUME NEW ids, Flow(ids), NEW p \in Port, RouteFrame(p)
  PROVE  Flow(ids)'
<1> DEFINE w == Owner[p]
           f == Arrived(p)
           hop == HopOf(p)
           from == f.from
<1>1. /\ WireIn(SoundAt(ids), Taken(p)) /\ ids \in SUBSET Nat /\ ArpSound(ids, arp)
  BY RouteFacts
<1>2. CASE /\ ~Expires(f)
           /\ ResolveOrQueue(p, hop, [frame |-> RoutedBy(p), port |-> p], None, RoutedOut(p))
  <2> DEFINE entry == [frame |-> RoutedBy(p), port |-> p]
             out == RoutedOut(p)
  <2>1. /\ hop \in Station /\ SoundWait(ids, w, hop, entry)
        /\ arp[w][hop].at # None => OutIn(SoundAt(ids), out)
        /\ ResolveOrQueue(p, hop, entry, None, out)
    BY <1>2, RoutedBySound
  <2> HIDE DEF entry, out, hop
  <2>2. QED
    BY <1>1, <2>1, QueueSound DEF Flow
<1>3. CASE /\ f.kind = "ip"
           /\ ResolveOrQueue(p, f.from, [frame |-> ReportBy(p), port |-> None], p,
                <<Sending(p, ReportBy(p))>>)
  <2> DEFINE entry == [frame |-> ReportBy(p), port |-> None]
             out == <<Sending(p, ReportBy(p))>>
  <2>1. /\ from \in Station /\ SoundWait(ids, w, from, entry)
        /\ arp[w][from].at # None => OutIn(SoundAt(ids), out)
        /\ ResolveOrQueue(p, from, entry, p, out)
    BY <1>3, ReportBySound
  <2> HIDE DEF entry, out, from
  <2>2. QED
    BY <1>1, <2>1, QueueSound DEF Flow
<1>4. CASE wire' = Taken(p) /\ UNCHANGED arp
  BY <1>1, <1>4 DEF Flow
<1>5. QED
  BY <1>2, <1>3, <1>4 DEF RouteFrame, RoutedBy, RoutedOut, HopOf, ReportBy

\* What ReceiveARP sends: the packets that waited, an answer, and the request on.
ForUs(p) ==
  Arrived(p).kind = "reply" \/ \E v \in Svi[Owner[p]] : Arrived(p).to = <<Owner[p], v>>
Merges(p) ==
  Arrived(p).from \in Station /\ (ForUs(p) \/ arp[Owner[p]][Arrived(p).from] # Unknown)
ReplyOf(p) ==
  [Arrived(p) EXCEPT !.kind = "reply", !.src = p, !.dst = Arrived(p).src,
                     !.from = Arrived(p).to, !.to = Arrived(p).from, !.tag = 0, !.hops = 0]
ReleasedBy(p) ==
  IF Merges(p) THEN Releasing(Learned(p), Owner[p], p, Arrived(p).from) ELSE << >>
AnswerOf(p) ==
  IF Arrived(p).kind = "request" /\ ForUs(p)
  THEN <<Sending(p, Prepared(p, ReplyOf(p), Arrived(p).to[2]))>> ELSE << >>
FloodedBy(p) ==
  IF Arrived(p).kind = "request" THEN Flood(p, Arrived(p), VlanOf(p)) ELSE << >>

LEMMA ReceiveARPIs ==
  ASSUME NEW p, ReceiveARP(p)
  PROVE  /\ wire' = Transmit(Taken(p), (ReleasedBy(p) \o AnswerOf(p)) \o FloodedBy(p))
         /\ arp' = IF Merges(p)
                   THEN [arp EXCEPT ![Owner[p]][Arrived(p).from] =
                           [Unknown EXCEPT !.at = Arrived(p).src]]
                   ELSE arp
         /\ wire[p] # << >> /\ CanForward(p) /\ IsVLANAllowed(p, VlanOf(p))
         /\ Arrived(p).kind \in {"request", "reply"}
         /\ Arrived(p).kind = "reply" => Arrived(p).dst \in Ports(Owner[p])
         /\ UNCHANGED <<received, sent, load, state>>
BY DEF ReceiveARP, Admitted, ReleasedBy, AnswerOf, FloodedBy, Merges, ForUs, ReplyOf, Counters

LEMMA ReceiveARPSends ==
  ASSUME NEW ids, Flow(ids), NEW p \in Port, ReceiveARP(p)
  PROVE  LET f == Arrived(p)  w == Owner[p] IN
         /\ WireIn(SoundAt(ids), Taken(p)) /\ Sound(ids, f) /\ IsFrame(ids, f)
         /\ ids \in SUBSET Nat /\ ArpSound(ids, arp) /\ w \in Switch
         /\ OutIn(SoundAt(ids), ReleasedBy(p)) /\ OutIn(SoundAt(ids), AnswerOf(p))
         /\ OutIn(SoundAt(ids), FloodedBy(p))
         /\ AnswerOf(p) # << >> =>
              /\ Sound(ids, ReplyOf(p)) /\ DOMAIN ReplyOf(p) = Fields
              /\ ReplyOf(p).kind = "reply" /\ ReplyOf(p).hops = 0
              /\ ReplyOf(p).id = f.id /\ ReplyOf(p).dst = f.src
<1> DEFINE w == Owner[p]
           f == Arrived(p)
           a == ReplyOf(p)
<1>1. /\ WireIn(SoundAt(ids), Taken(p)) /\ Sound(ids, f) /\ IsFrame(ids, f)
      /\ f.kind \in {"request", "reply"}
      /\ ids \in SUBSET Nat /\ ArpSound(ids, arp) /\ w \in Switch
  BY ReceiveARPIs, TakenSound, FrameIs, SwitchAssumption DEF Flow
<1>2. OutIn(SoundAt(ids), << >>)
  BY EmptyList DEF OutIn
<1>3. OutIn(SoundAt(ids), ReleasedBy(p))
  BY <1>1, <1>2, ReleasingSound DEF ReleasedBy, Merges
<1>4. ASSUME f.kind = "request", ForUs(p)
      PROVE  /\ OutIn(SoundAt(ids), AnswerOf(p)) /\ Sound(ids, a)
             /\ DOMAIN a = Fields /\ a.kind = "reply" /\ a.hops = 0 /\ a.id = f.id
             /\ a.dst = f.src
  <2>1. PICK v \in Svi[w] : f.to = <<w, v>>
    BY <1>4 DEF ForUs
  <2>2. v \in Nat /\ f.to[2] = v /\ f.to \in Named /\ f.to \notin Station
    BY <1>1, <2>1, SwitchAssumption DEF Named
  <2>3. /\ DOMAIN a = Fields /\ a = [x \in Fields |-> a[x]]
        /\ a.kind = "reply" /\ a.src = p /\ a.dst = f.src /\ a.tag = 0 /\ a.from = f.to
        /\ a.to = f.from /\ a.ttl = f.ttl /\ a.id = f.id /\ a.vlan = f.vlan /\ a.hops = 0
    BY <1>1 DEF IsFrame, Fields, ReplyOf
  <2> HIDE DEF a, f
  <2>4. a \in FrameOf(ids)
    <3>1. IsFrame(ids, a)
      BY <1>1, <2>2, <2>3 DEF IsFrame, Places
    <3>2. QED
      BY <3>1, FrameIs
  <2>5. Sound(ids, a)
    BY <1>1, <1>4, <2>2, <2>3, <2>4 DEF Sound
  <2>6. Sound(ids, Prepared(p, a, f.to[2])) /\ Far[p] \in Places
    BY <2>2, <2>5, PreparedSound, SwitchAssumption DEF Places
  <2>7. AnswerOf(p) = <<Sending(p, Prepared(p, a, f.to[2]))>>
    BY <1>4 DEF AnswerOf, a, f
  <2>8. OutIn(SoundAt(ids), AnswerOf(p))
    BY <2>6, <2>7, SingletonList, IsSound DEF OutIn, Sending
  <2>9. QED
    BY <2>3, <2>5, <2>8
<1>5. ~(f.kind = "request" /\ ForUs(p)) => AnswerOf(p) = << >>
  BY DEF AnswerOf
<1>6. OutIn(SoundAt(ids), FloodedBy(p))
  BY <1>1, <1>2, FloodSpreads, SpreadSound DEF FloodedBy
<1> HIDE DEF a
<1>7. QED
  BY <1>1, <1>2, <1>3, <1>4, <1>5, <1>6 DEF a

LEMMA ReceiveARPSound ==
  ASSUME NEW ids, Flow(ids), NEW p \in Port, ReceiveARP(p)
  PROVE  Flow(ids)'
<1> DEFINE w == Owner[p]
           f == Arrived(p)
<1>1. /\ WireIn(SoundAt(ids), Taken(p)) /\ Sound(ids, f) /\ ids \in SUBSET Nat
      /\ ArpSound(ids, arp) /\ w \in Switch /\ f.kind \in {"request", "reply"}
  BY ReceiveARPSends, ReceiveARPIs
<1>2. OutIn(SoundAt(ids), (ReleasedBy(p) \o AnswerOf(p)) \o FloodedBy(p))
  BY ReceiveARPSends, BothIn
<1>3. WireIn(SoundAt(ids), wire')
  BY <1>1, <1>2, TransmitIn, ReceiveARPIs
<1>4. ArpSound(ids, arp')
  <2>1. CASE Merges(p)
    <3> DEFINE x == [Unknown EXCEPT !.at = f.src]
    <3>1. arp' = [arp EXCEPT ![w][f.from] = x]
      BY <2>1, ReceiveARPIs
    <3>2. f.from \in Station /\ f.src = f.from
      BY <1>1, <2>1 DEF Sound, Merges
    <3>3. EntrySound(ids, w, f.from, x)
      BY <3>2, NoEntrySound
    <3> HIDE DEF x
    <3>4. QED
      BY <1>1, <3>1, <3>2, <3>3, EntryIs
  <2>2. CASE ~Merges(p)
    <3>1. arp' = arp
      BY <2>2, ReceiveARPIs
    <3>2. QED
      BY <1>1, <3>1
  <2>3. QED
    BY <2>1, <2>2
<1>5. QED
  BY <1>1, <1>3, <1>4 DEF Flow

\* What a station sends.
LEMMA SendSound ==
  ASSUME Flow(Packets), load \in Workloads, sent \in Nat, Send
  PROVE  Flow(Packets)' /\ sent' \in 0 .. Len(load)
<1> DEFINE t == load[sent + 1]
           Packet(dst) ==
             [kind |-> t.kind, src |-> t.from, dst |-> dst, tag |-> 0, from |-> t.from,
              to |-> t.to, ttl |-> t.ttl, id |-> sent + 1, vlan |-> HostVlan[t.from], hops |-> 0]
<1>1. /\ sent + 1 \in 1 .. Len(load) /\ Len(load) \in Nat /\ DOMAIN load = 1 .. Len(load)
      /\ t \in [kind : {"ip", "request"}, from : Station,
                to : DOMAIN Via \cup (Switch \X Nat), ttl : Nat]
      /\ (t.kind = "ip" => t.ttl > 0)
  <2>1. load \in Seq([kind : {"ip", "request"}, from : Station,
                      to : DOMAIN Via \cup (Switch \X Nat), ttl : Nat])
    BY SwitchAssumption
  <2>2. Len(load) \in Nat /\ DOMAIN load = 1 .. Len(load)
    BY <2>1, LenProperties
  <2>3. sent + 1 \in 1 .. Len(load)
    BY <2>2 DEF Send
  <2>4. t \in [kind : {"ip", "request"}, from : Station,
                to : DOMAIN Via \cup (Switch \X Nat), ttl : Nat]
    BY <2>1, <2>2, <2>3, ElementOfSeq
  <2>5. load[sent + 1].kind = "ip" => load[sent + 1].ttl > 0
    BY <2>3, SwitchAssumption
  <2>6. QED
    BY <2>2, <2>3, <2>4, <2>5
<1>2. PICK dst \in {Broadcast} \cup Station \cup Port :
        /\ wire' = [wire EXCEPT ![PortOf(t.from)] = Append(@, Packet(dst))]
        /\ (dst \in Station => t.kind = "ip" /\ t.to = dst /\ HostVlan[t.to] = HostVlan[t.from])
        /\ (t.kind = "request" => dst = Broadcast)
  <2>1. PICK dst \in CASE t.kind = "request" -> {Broadcast}
                       [] t.kind = "ip" /\ t.to \in Station /\ HostVlan[t.to] = HostVlan[t.from]
                            -> {t.to}
                       [] OTHER -> GatewayMac[t.from] :
               wire' = [wire EXCEPT ![PortOf(t.from)] = Append(@, Packet(dst))]
    BY DEF Send
  <2>2. GatewayMac[t.from] \subseteq Port
    BY <1>1, SwitchAssumption
  <2> HIDE DEF Packet
  <2>3. CASE t.kind = "request"
    BY <2>1, <2>3, SwitchAssumption
  <2>4. CASE t.kind = "ip" /\ t.to \in Station /\ HostVlan[t.to] = HostVlan[t.from]
    <3>1. dst = t.to /\ dst \in Station
      BY <2>1, <2>4
    <3> HIDE DEF t
    <3>2. QED
      BY <2>1, <2>4, <3>1
  <2>5. CASE t.kind # "request" /\ ~(t.kind = "ip" /\ t.to \in Station /\ HostVlan[t.to] = HostVlan[t.from])
    <3>1. dst \in GatewayMac[t.from]
      BY <2>1, <2>5
    <3>2. dst \in Port /\ dst \notin Station
      BY <2>2, <3>1, SwitchAssumption
    <3>3. QED
      BY <2>1, <2>5, <3>2
  <2>6. QED
    BY <2>3, <2>4, <2>5
<1> DEFINE f == Packet(dst)
<1>3. PortOf(t.from) \in Port /\ PortOf(t.from) \in Places
  BY <1>1, SwitchAssumption DEF PortOf, Places
<1>4. /\ DOMAIN f = Fields /\ f = [x \in Fields |-> f[x]]
      /\ f.kind = t.kind /\ f.src = t.from /\ f.dst = dst /\ f.tag = 0 /\ f.from = t.from
      /\ f.to = t.to /\ f.ttl = t.ttl /\ f.id = sent + 1 /\ f.vlan = HostVlan[t.from]
      /\ f.hops = 0
  BY DEF Fields
<1>5. /\ t.from \in Station /\ t.from \in Named /\ t.to \in Named /\ HostVlan[t.from] \in Nat
      /\ t.from \in Places /\ dst \in Places \cup {Broadcast} /\ t.ttl \in Nat
      /\ t.kind \in {"ip", "request"}
  BY <1>1, SwitchAssumption DEF Named, Places
<1>6. wire' = [wire EXCEPT ![PortOf(t.from)] = Append(@, f)] /\ arp' = arp /\ load' = load
      /\ sent' = sent + 1
  BY <1>2 DEF Send
<1> HIDE DEF f, Packet
<1>7. Sound(Packets, f)
  <2>1. sent + 1 \in Packets
    BY <1>1 DEF Packets
  <2>2. f \in FrameOf(Packets)
    <3>1. IsFrame(Packets, f)
      BY <1>4, <1>5, <2>1 DEF IsFrame
    <3>2. QED
      BY <3>1, FrameIs
  <2>3. f.kind = "ip" /\ f.dst \in Station =>
          f.to \in DOMAIN Via /\ f.dst = Via[f.to] /\ f.vlan = HostVlan[f.dst]
    BY <1>2, <1>4, SwitchAssumption
  <2>4. QED
    BY <1>1, <1>2, <1>4, <1>5, <2>1, <2>2, <2>3 DEF Sound
<1>8. WireIn(SoundAt(Packets), wire')
  <2>1. f \in SoundAt(Packets)[PortOf(t.from)]
    BY <1>3, <1>7, IsSound
  <2>2. QED
    BY <1>3, <1>6, <2>1, AppendingIn DEF Flow
<1>9. Flow(Packets)'
  <2> DEFINE ids == Packets
  <2>1. ids' = ids
    BY <1>6 DEF Packets
  <2>2. Flow(ids) /\ WireIn(SoundAt(ids), wire')
    BY <1>8
  <2> HIDE DEF ids
  <2>3. ids' \in SUBSET Nat /\ WireIn(SoundAt(ids'), wire') /\ ArpSound(ids', arp')
    BY <1>6, <2>1, <2>2 DEF Flow
  <2>4. QED
    BY <2>3 DEF Flow, ids
<1>10. QED
  BY <1>1, <1>6, <1>9

\* What the counters of the packets ids hold.
Counted(ids) == received \in [ids -> 0 .. 2] /\ reported \subseteq ids /\ excused \subseteq ids

LEMMA StationReceiveSound ==
  ASSUME NEW ids, Flow(ids), Counted(ids), NEW s \in Station, StationReceive(s)
  PROVE  Flow(ids)' /\ Counted(ids)'
<1> DEFINE f == Head(wire[s])
           rest == [wire EXCEPT ![s] = Tail(@)]
           a == [f EXCEPT !.kind = "reply", !.src = s, !.dst = f.src,
                          !.tag = 0, !.from = s, !.to = f.from, !.hops = 0]
<1>1. /\ WireIn(SoundAt(ids), rest) /\ Sound(ids, f) /\ IsFrame(ids, f)
      /\ s \in Places /\ s \in Named /\ None \notin ids
  <2>1. s \in Places /\ s \in Named /\ wire[s] # << >> /\ WireIn(SoundAt(ids), wire)
    BY SwitchAssumption DEF Places, Named, StationReceive, Flow
  <2>2. WireIn(SoundAt(ids), rest) /\ Sound(ids, f)
    BY <2>1, TakingIn, IsSound
  <2>3. QED
    BY <2>1, <2>2, FrameIs, SwitchAssumption DEF Sound, Flow
<1>2. WireIn(SoundAt(ids), wire')
  <2>1. CASE f.kind = "request" /\ f.to = s
    <3>1. /\ DOMAIN a = Fields /\ a = [x \in Fields |-> a[x]]
          /\ a.kind = "reply" /\ a.src = s /\ a.dst = f.src /\ a.tag = 0 /\ a.from = s
          /\ a.to = f.from /\ a.ttl = f.ttl /\ a.id = f.id /\ a.vlan = f.vlan /\ a.hops = 0
      BY <1>1 DEF IsFrame, Fields
    <3>2. wire' = [rest EXCEPT ![PortOf(s)] = Append(@, a)]
      BY <2>1 DEF StationReceive
    <3>3. PortOf(s) \in Port
      BY SwitchAssumption DEF PortOf
    <3> HIDE DEF a, f, rest
    <3>4. IsFrame(ids, a)
      BY <1>1, <3>1 DEF IsFrame
    <3>5. a \in FrameOf(ids)
      BY <3>4, FrameIs
    <3>6. Sound(ids, a)
      BY <1>1, <2>1, <3>1, <3>5 DEF Sound
    <3>7. PortOf(s) \in Places /\ a \in SoundAt(ids)[PortOf(s)]
      BY <3>3, <3>6, IsSound DEF Places
    <3>8. QED
      BY <1>1, <3>2, <3>7, AppendingIn
  <2>2. CASE ~(f.kind = "request" /\ f.to = s)
    <3>1. wire' = rest
      BY <2>2 DEF StationReceive
    <3>2. QED
      BY <1>1, <3>1
  <2>3. QED
    BY <2>1, <2>2
<1>3. received' \in [ids -> 0 .. 2]
  <2>1. f.id \in ids \cup {None}
    BY <1>1 DEF IsFrame
  <2>2. \/ received' = received
        \/ f.id # None /\ received[f.id] < 2 /\ received' = [received EXCEPT ![f.id] = @ + 1]
    BY DEF StationReceive
  <2> HIDE DEF f
  <2>3. QED
    BY <2>1, <2>2 DEF Counted
<1>4. reported' \subseteq ids
  <2>1. reported' = reported \/ (f.kind = "error" /\ reported' = reported \cup {f.id})
    BY DEF StationReceive
  <2> HIDE DEF f
  <2>2. QED
    BY <1>1, <2>1 DEF Sound, Counted
<1>5. arp' = arp /\ excused' = excused
  BY DEF StationReceive
<1>6. QED
  BY <1>2, <1>3, <1>4, <1>5 DEF Flow, Counted

LEMMA RetrySound ==
  ASSUME NEW ids, Flow(ids), NEW w \in Switch, NEW s \in Station, Retry(w, s) \/ GiveUp(w, s)
  PROVE  Flow(ids)'
<1>1. ids \in SUBSET Nat /\ ArpSound(ids, arp) /\ WireIn(SoundAt(ids), wire)
      /\ EntrySound(ids, w, s, arp[w][s])
  BY DEF Flow, ArpSound
<1>2. CASE Retry(w, s)
  <2> DEFINE known == arp[w][s]
             x == [known EXCEPT !.asked = @ + 1]
  <2>1. arp' = [arp EXCEPT ![w][s] = x] /\ known.asked < MaxAttempts /\ known.waiting # << >>
    BY <1>2 DEF Retry
  <2>2. wire' = Transmit(wire, Ask(w, s, known.by))
    BY <1>2 DEF Retry
  <2> HIDE DEF known
  <2>3. EntrySound(ids, w, s, known)
    BY <1>1 DEF known
  <2>4. x = [at |-> known.at, waiting |-> known.waiting, asked |-> known.asked + 1,
             by |-> known.by]
    <3>1. known = [at |-> known.at, waiting |-> known.waiting, asked |-> known.asked,
                   by |-> known.by]
      BY <2>3 DEF EntrySound
    <3>2. QED
      BY <3>1
  <2> HIDE DEF x
  <2>5. EntrySound(ids, w, s, x)
    BY <2>1, <2>3, <2>4, SwitchAssumption DEF EntrySound
  <2>6. ArpSound(ids, arp')
    BY <1>1, <2>1, <2>5, EntryIs
  <2>7. OutIn(SoundAt(ids), Ask(w, s, known.by))
    BY <1>1, <2>3, AskSound DEF EntrySound
  <2>8. WireIn(SoundAt(ids), wire')
    BY <1>1, <2>2, <2>7, TransmitIn
  <2>9. QED
    BY <1>1, <2>6, <2>8 DEF Flow
<1>3. CASE GiveUp(w, s)
  <2>1. arp' = [arp EXCEPT ![w][s] = Unknown] /\ wire' = wire
    BY <1>3 DEF GiveUp
  <2>2. EntrySound(ids, w, s, Unknown)
    BY EmptyList, SwitchAssumption DEF Unknown, EntrySound
  <2>3. ArpSound(ids, arp')
    BY <1>1, <2>1, <2>2, EntryIs
  <2>4. QED
    BY <1>1, <2>1, <2>3 DEF Flow
<1>4. QED
  BY <1>2, <1>3

LEMMA ArriveSound ==
  ASSUME NEW ids, Flow(ids), NEW p \in Port, Arrive(p)
  PROVE  Flow(ids)'
<1>1. CASE Discard(p) \/ LearnOnly(p)
  <2>1. wire[p] # << >> /\ wire' = Taken(p) /\ arp' = arp
    BY <1>1 DEF Discard, LearnOnly, Admitted
  <2>2. WireIn(SoundAt(ids), Taken(p))
    BY <2>1, TakenSound DEF Flow
  <2>3. QED
    BY <2>1, <2>2 DEF Flow
<1>2. QED
  BY <1>1, SwitchFrameSound, ReceiveARPSound, RouteFrameSound DEF Arrive

\* Only packets are excused, and only stations count them.
LEMMA ArriveCounted ==
  ASSUME NEW ids, Flow(ids), Counted(ids), NEW p \in Port, Arrive(p)
  PROVE  Counted(ids)'
<1> DEFINE w == Owner[p]
           f == Arrived(p)
<1>1. received' = received /\ reported' = reported
  BY DEF Arrive, Discard, LearnOnly, SwitchFrame, ReceiveARP, RouteFrame
<1>2. f.id \in ids \cup {None} /\ w \in Switch
  <2>1. wire[p] # << >>
    BY DEF Arrive, Discard, LearnOnly, SwitchFrame, ReceiveARP, RouteFrame, Admitted
  <2>2. QED
    BY <2>1, TakenSound, FrameIs, SwitchAssumption DEF Flow, IsFrame
<1>3. ASSUME NEW b, NEW S, S \subseteq ids \cup {None}, Excuse(b, S)
      PROVE  excused' \subseteq ids
  BY <1>3 DEF Excuse, Counted
<1>4. excused' \subseteq ids
  <2>1. CASE Discard(p)
    <3>1. Excuse(~CanLearn(p), {f.id})
      BY <2>1 DEF Discard
    <3> HIDE DEF f
    <3>2. QED
      BY <1>2, <1>3, <3>1
  <2>2. CASE LearnOnly(p)
    <3>1. Excuse(TRUE, {f.id})
      BY <2>2 DEF LearnOnly
    <3> HIDE DEF f
    <3>2. QED
      BY <1>2, <1>3, <3>1
  <2>3. CASE SwitchFrame(p)
    <3>1. \E b : Excuse(b, {f.id})
      BY <2>3 DEF SwitchFrame
    <3> HIDE DEF f
    <3>2. QED
      BY <1>2, <1>3, <3>1
  <2>4. CASE ReceiveARP(p)
    <3> DEFINE vlan == VlanOf(p)
               forUs == f.kind = "reply" \/ \E v \in Svi[w] : f.to = <<w, v>>
               merge == f.from \in Station /\ (forUs \/ arp[w][f.from] # Unknown)
               held == IF merge THEN ToSet(arp[w][f.from].waiting) ELSE {}
               S == {e.frame.id : e \in {h \in held : h.port # None /\
                      RoutedLost(Learned(p), h.port, [h.frame EXCEPT !.dst = f.from])}}
                    \cup IF f.kind = "request" /\ Split THEN {f.id} ELSE {}
    <3>1. Excuse(TRUE, S)
      BY <2>4 DEF ReceiveARP
    <3>2. \A h \in held : h.frame.id \in ids
      BY <1>2 DEF Flow, ArpSound, EntrySound, SoundWait
    <3> HIDE DEF held, f
    <3>3. S \subseteq ids \cup {None}
      BY <1>2, <3>2
    <3> HIDE DEF S
    <3>4. QED
      BY <1>3, <3>1, <3>3
  <2>5. CASE RouteFrame(p)
    <3>1. (\E b : Excuse(b, {f.id})) \/ excused' = excused
      BY <2>5 DEF RouteFrame
    <3> HIDE DEF f
    <3>2. QED
      BY <1>2, <1>3, <3>1 DEF Counted
  <2>6. QED
    BY <2>1, <2>2, <2>3, <2>4, <2>5 DEF Arrive
<1>5. QED
  BY <1>1, <1>4 DEF Counted

LEMMA RetryCounted ==
  ASSUME NEW ids, Flow(ids), Counted(ids), NEW w \in Switch, NEW s \in Station,
         Retry(w, s) \/ GiveUp(w, s)
  PROVE  Counted(ids)'
<1>1. CASE Retry(w, s)
  BY <1>1 DEF Retry, Counted
<1>2. CASE GiveUp(w, s)
  <2> DEFINE S == {e.frame.id : e \in ToSet(arp[w][s].waiting)}
  <2>1. Excuse(TRUE, S) /\ received' = received /\ reported' = reported
    BY <1>2 DEF GiveUp
  <2>2. \A e \in ToSet(arp[w][s].waiting) : e.frame.id \in ids
    <3>1. EntrySound(ids, w, s, arp[w][s])
      BY DEF Flow, ArpSound
    <3>2. QED
      BY <3>1 DEF EntrySound, SoundWait
  <2>3. S \subseteq ids
    BY <2>2
  <2> HIDE DEF S
  <2>4. QED
    BY <2>1, <2>3 DEF Excuse, Counted
<1>3. QED
  BY <1>1, <1>2

\* What a switch has learned are addresses in VLANs.
KeysInv == \A w \in Switch : DOMAIN mac[w] \subseteq Places \X Nat

StateInv == state \in [Port -> {"blocking", "listening", "learning", "forwarding"}]

LoadInv == load \in Workloads /\ sent \in 0 .. Len(load)

TypeInv == TableInv /\ KeysInv /\ StateInv /\ LoadInv /\ Flow(Packets) /\ Counted(Packets)

LEMMA TypeInit == Init => TypeInv
<1> SUFFICES ASSUME Init
             PROVE  TypeInv
  OBVIOUS
<1>1. load \in Workloads /\ Len(load) \in Nat /\ Packets = 1 .. Len(load)
  <2>1. load \in Workloads
    BY DEF Init
  <2>2. load \in Seq([kind : {"ip", "request"}, from : Station,
                      to : DOMAIN Via \cup (Switch \X Nat), ttl : Nat])
    BY <2>1, SwitchAssumption
  <2>3. QED
    BY <2>1, <2>2, LenProperties DEF Packets
<1>2. KeysInv /\ StateInv /\ LoadInv
  BY <1>1 DEF Init, KeysInv, StateInv, LoadInv, EmptyTable
<1>3. WireIn(SoundAt(Packets), wire)
  BY EmptyList DEF Init, WireIn, Places
<1>4. ArpSound(Packets, arp)
  <2>1. \A w, s : EntrySound(Packets, w, s, Unknown)
    BY EmptyList, SwitchAssumption DEF Unknown, EntrySound
  <2>2. QED
    BY <2>1 DEF Init, ArpSound
<1>5. Counted(Packets)
  BY DEF Init, Counted
<1>6. QED
  BY <1>1, <1>2, <1>3, <1>4, <1>5, TableInit DEF TypeInv, Flow

LEMMA KeysInductive ==
  ASSUME TypeInv, [Next]_vars
  PROVE  KeysInv'
<1>1. ASSUME NEW p \in Port, Arrive(p)
      PROVE  KeysInv'
  <2>1. CASE mac' = mac
    BY <2>1 DEF TypeInv, KeysInv
  <2>2. CASE mac' # mac
    <3>1. Learn(p) /\ wire[p] # << >> /\ IsVLANAllowed(p, VlanOf(p))
      BY <1>1, <2>2 DEF Arrive, Discard, LearnOnly, SwitchFrame, ReceiveARP, RouteFrame, Admitted
    <3>2. <<Arrived(p).src, VlanOf(p)>> \in Places \X Nat
      BY <3>1, TakenSound, FrameIs, AllowedNat DEF TypeInv, Flow, IsFrame
    <3>3. DOMAIN Learned(p) = DOMAIN mac[Owner[p]] \cup {<<Arrived(p).src, VlanOf(p)>>}
      BY DEF Learned, AddOrUpdate
    <3>4. \A w \in Switch : mac'[w] = IF w = Owner[p] THEN Learned(p) ELSE mac[w]
      BY <3>1 DEF Learn, TypeInv, TableInv
    <3>5. QED
      BY <3>2, <3>3, <3>4 DEF TypeInv, KeysInv
  <2>3. QED
    BY <2>1, <2>2
<1>2. ASSUME NEW p \in Spare, NEW q \in Spare, Reconverge(p, q)
      PROVE  KeysInv'
  <2>1. mac' = [mac EXCEPT ![Owner[p]] = FlushedFor(@, Name[p])]
    BY <1>2 DEF Reconverge
  <2>2. QED
    BY <2>1 DEF TypeInv, TableInv, KeysInv, FlushedFor, Restrict
<1>3. ASSUME NEW p \in Spare, NEW q \in Spare, SetLinkState(p, q)
      PROVE  KeysInv'
  BY <1>3 DEF SetLinkState, KeysInv, EmptyTable
<1>4. CASE Tick
  BY <1>4 DEF Tick, TypeInv, KeysInv, Older
<1>5. ASSUME NEW w \in Switch, Cleanup(w)
      PROVE  KeysInv'
  <2>1. mac' = [mac EXCEPT ![w] = CleanedUp(@)]
    BY <1>5 DEF Cleanup
  <2>2. QED
    BY <2>1 DEF TypeInv, TableInv, KeysInv, CleanedUp, Restrict
<1>6. CASE UNCHANGED mac
  BY <1>6 DEF TypeInv, KeysInv
<1>7. ASSUME NEW q \in Spare, AdvancePort(q)
      PROVE  UNCHANGED mac
  BY <1>7 DEF AdvancePort
<1>8. ASSUME NEW w \in Switch, NEW s \in Station, Retry(w, s) \/ GiveUp(w, s)
      PROVE  UNCHANGED mac
  BY <1>8 DEF Retry, GiveUp
<1>9. ASSUME NEW s \in Station, StationReceive(s)
      PROVE  UNCHANGED mac
  BY <1>9 DEF StationReceive
<1>10. Send \/ Done \/ UNCHANGED vars => UNCHANGED mac
  BY DEF Send, Done, vars
<1>11. QED
  BY <1>1, <1>2, <1>3, <1>4, <1>5, <1>6, <1>7, <1>8, <1>9, <1>10 DEF Next

\* The steps of the network, and the others.
LEMMA TreeSteps ==
  ASSUME [Next]_vars, ~Send, ~(\E p \in Port : Arrive(p)), ~(\E s \in Station : StationReceive(s)),
         ~(\E w \in Switch, s \in Station : Retry(w, s) \/ GiveUp(w, s))
  PROVE  UNCHANGED <<wire, arp, load, sent, received, reported, excused>>
<1>1. ASSUME NEW p \in Spare, NEW q \in Spare, Reconverge(p, q) \/ SetLinkState(p, q)
      PROVE  UNCHANGED <<wire, arp, load, sent, received, reported, excused>>
  BY <1>1 DEF Reconverge, SetLinkState
<1>2. ASSUME NEW q \in Spare, AdvancePort(q)
      PROVE  UNCHANGED <<wire, arp, load, sent, received, reported, excused>>
  BY <1>2 DEF AdvancePort, Counters
<1>3. ASSUME NEW w \in Switch, Cleanup(w)
      PROVE  UNCHANGED <<wire, arp, load, sent, received, reported, excused>>
  BY <1>3 DEF Cleanup, Counters
<1>4. Tick \/ Done \/ UNCHANGED vars =>
        UNCHANGED <<wire, arp, load, sent, received, reported, excused>>
  BY DEF Tick, Done, vars
<1>5. QED
  BY <1>1, <1>2, <1>3, <1>4 DEF Next

LEMMA StateSteps ==
  ASSUME [Next]_vars, ~(\E p, q \in Spare : Reconverge(p, q) \/ SetLinkState(p, q)),
         ~(\E q \in Spare : AdvancePort(q))
  PROVE  UNCHANGED state
<1>1. ASSUME NEW p \in Port, Arrive(p)
      PROVE  UNCHANGED state
  BY <1>1 DEF Arrive, Discard, LearnOnly, SwitchFrame, ReceiveARP, RouteFrame
<1>2. ASSUME NEW s \in Station, StationReceive(s)
      PROVE  UNCHANGED state
  BY <1>2 DEF StationReceive
<1>3. ASSUME NEW w \in Switch, NEW s \in Station, Retry(w, s) \/ GiveUp(w, s)
      PROVE  UNCHANGED state
  BY <1>3 DEF Retry, GiveUp
<1>4. ASSUME NEW w \in Switch, Cleanup(w)
      PROVE  UNCHANGED state
  BY <1>4 DEF Cleanup
<1>5. Send \/ Tick \/ Done \/ UNCHANGED vars => UNCHANGED state
  BY DEF Send, Tick, Done, vars
<1>6. QED
  BY <1>1, <1>2, <1>3, <1>4, <1>5 DEF Next

LEMMA StateInductive ==
  ASSUME StateInv, [Next]_vars
  PROVE  StateInv'
<1>1. ASSUME NEW p \in Spare, NEW q \in Spare, Reconverge(p, q) \/ SetLinkState(p, q)
      PROVE  StateInv'
  <2>1. CASE Reconverge(p, q)
    <3>1. state' = [state EXCEPT ![p] = "blocking", ![q] = "listening"]
      BY <2>1 DEF Reconverge
    <3>2. QED
      BY <3>1 DEF StateInv
  <2>2. CASE SetLinkState(p, q)
    <3>1. state' = [state EXCEPT ![p] = "blocking", ![Far[p]] = "blocking", ![q] = "forwarding"]
      BY <2>2 DEF SetLinkState
    <3>2. QED
      BY <3>1 DEF StateInv
  <2>3. QED
    BY <1>1, <2>1, <2>2
<1>2. ASSUME NEW q \in Spare, AdvancePort(q)
      PROVE  StateInv'
  <2>1. PICK v \in {"learning", "forwarding"} : state' = [state EXCEPT ![q] = v]
    BY <1>2 DEF AdvancePort
  <2>2. QED
    BY <2>1 DEF StateInv
<1>3. CASE UNCHANGED state
  BY <1>3 DEF StateInv
<1>4. QED
  BY <1>1, <1>2, <1>3, StateSteps

\* The packets stay the same, whatever is sent of them.
LEMMA NetworkInductive ==
  ASSUME TypeInv, [Next]_vars
  PROVE  LoadInv' /\ Flow(Packets)' /\ Counted(Packets)'
<1>1. PICK ids : ids = Packets
  OBVIOUS
<1>2. /\ Flow(ids) /\ Counted(ids) /\ load \in Workloads /\ sent \in 0 .. Len(load)
      /\ sent \in Nat
  BY <1>1 DEF TypeInv, LoadInv
<1>3. ASSUME Flow(ids)', Counted(ids)', UNCHANGED load
      PROVE  Flow(Packets)' /\ Counted(Packets)'
  <2>1. Packets' = ids
    BY <1>1, <1>3 DEF Packets
  <2>2. QED
    BY <1>3, <2>1 DEF Flow, Counted
<1>4. ASSUME NEW p \in Port, Arrive(p)
      PROVE  LoadInv' /\ Flow(Packets)' /\ Counted(Packets)'
  <2>1. UNCHANGED <<load, sent>>
    BY <1>4 DEF Arrive, Discard, LearnOnly, SwitchFrame, ReceiveARP, RouteFrame, Counters
  <2>2. Flow(ids)' /\ Counted(ids)'
    BY <1>2, <1>4, ArriveSound, ArriveCounted
  <2>3. QED
    BY <1>2, <1>3, <2>1, <2>2 DEF LoadInv
<1>5. ASSUME NEW s \in Station, StationReceive(s)
      PROVE  LoadInv' /\ Flow(Packets)' /\ Counted(Packets)'
  <2>1. UNCHANGED <<load, sent>>
    BY <1>5 DEF StationReceive, Counters
  <2>2. Flow(ids)' /\ Counted(ids)'
    BY <1>2, <1>5, StationReceiveSound
  <2>3. QED
    BY <1>2, <1>3, <2>1, <2>2 DEF LoadInv
<1>6. CASE Send
  <2>1. Flow(Packets)' /\ sent' \in 0 .. Len(load)
    BY <1>2, <1>6, SendSound DEF TypeInv
  <2>2. UNCHANGED <<load, received, reported, excused>>
    BY <1>6 DEF Send
  <2>3. Packets' = Packets
    BY <2>2 DEF Packets
  <2>4. QED
    BY <1>2, <2>1, <2>2, <2>3 DEF LoadInv, TypeInv, Counted
<1>7. ASSUME NEW w \in Switch, NEW s \in Station, Retry(w, s) \/ GiveUp(w, s)
      PROVE  LoadInv' /\ Flow(Packets)' /\ Counted(Packets)'
  <2>1. UNCHANGED <<load, sent>>
    BY <1>7 DEF Retry, GiveUp, Counters
  <2>2. Flow(ids)' /\ Counted(ids)'
    BY <1>2, <1>7, RetrySound, RetryCounted
  <2>3. QED
    BY <1>2, <1>3, <2>1, <2>2 DEF LoadInv
<1>8. CASE UNCHANGED <<wire, arp, load, sent, received, reported, excused>>
  <2>1. UNCHANGED <<wire, arp, load, sent, received, reported, excused>>
    BY <1>8
  <2>2. Flow(ids)' /\ Counted(ids)'
    BY <1>2, <2>1 DEF Flow, Counted
  <2>3. QED
    BY <1>2, <1>3, <2>1, <2>2 DEF LoadInv
<1>9. QED
  BY <1>4, <1>5, <1>6, <1>7, <1>8, TreeSteps

LEMMA TypeInductive == TypeInv /\ [Next]_vars => TypeInv'
<1> SUFFICES ASSUME TypeInv, [Next]_vars
             PROVE  TypeInv'
  OBVIOUS
<1>1. TableInv' /\ KeysInv'
  BY TableInductive, KeysInductive DEF TypeInv
<1>2. StateInv'
  BY StateInductive DEF TypeInv
<1>3. QED
  BY <1>1, <1>2, NetworkInductive DEF TypeInv

\* What the variables hold, whatever arrives where: every frame on a wire is one,
\* and no packet is on the wire with its TTL used up (route_between_vlans).
THEOREM TypeCorrect == Spec => []TypeOK
<1>1. TypeInv => TypeOK
  <2> SUFFICES ASSUME TypeInv
               PROVE  TypeOK
    OBVIOUS
  <2>1. Packets = 1 .. Len(load)
    <3>1. load \in Seq([kind : {"ip", "request"}, from : Station,
                        to : DOMAIN Via \cup (Switch \X Nat), ttl : Nat])
      BY SwitchAssumption DEF TypeInv, LoadInv
    <3>2. QED
      BY <3>1, LenProperties DEF Packets
  <2>2. FrameOf(Packets) = Frame
    BY <2>1 DEF FrameOf, Frame, Named
  <2>3. ASSUME NEW e \in Port \cup Station, NEW i \in DOMAIN wire[e]
        PROVE  wire[e][i] \in Frame /\ (wire[e][i].kind = "ip" => wire[e][i].ttl > 0)
    <3>1. wire[e][i] \in ToSet(wire[e]) /\ e \in Places
      BY DEF ToSet, Places
    <3>2. Sound(Packets, wire[e][i])
      BY <3>1, IsSound DEF TypeInv, Flow, WireIn
    <3>3. QED
      BY <2>2, <3>2 DEF Sound
  <2>4. \A w \in Switch : \A k \in DOMAIN mac[w] :
          k \in (Port \cup Station) \X Nat /\ mac[w][k].age \in Nat
    BY DEF TypeInv, KeysInv, TableInv, Heard, IsEntry, Places
  <2>5. ASSUME NEW w \in Switch, NEW s \in Station
        PROVE  /\ arp[w][s].at \in {s, None} /\ arp[w][s].asked \in 0..MaxAttempts
               /\ arp[w][s].at # None => arp[w][s].waiting = << >>
               /\ arp[w][s].asked = 0 <=> arp[w][s].waiting = << >>
    <3>1. EntrySound(Packets, w, s, arp[w][s])
      BY DEF TypeInv, Flow, ArpSound
    <3>2. QED
      BY <3>1 DEF EntrySound
  <2>6. QED
    BY <2>3, <2>4, <2>5 DEF TypeOK, TypeInv, StateInv, LoadInv, Counted
<1>2. QED
  BY <1>1, TypeInit, TypeInductive, PTL DEF Spec

------------------------------------------------------------------------------
(* The tree: what lies beyond a port, and what the tree may change.          *)

Forwarding == {p \in Port : CanForward(p)}

\* The tree uses one of the exchangeable ports at most.
OneSpare == \E u \in Spare : \A q \in Spare \ {u} : state[q] = "blocking"

LEMMA SeparatesFewer ==
  ASSUME NEW B, NEW F, NEW G \in SUBSET F, Separates(B, F)
  PROVE  Separates(B, G)
BY DEF Separates

LEMMA OneSpareInit == Init => OneSpare
BY SwitchAssumption DEF Init, OneSpare

LEMMA OneSpareInductive ==
  ASSUME StateInv, OneSpare, [Next]_vars
  PROVE  OneSpare'
<1>1. PICK u \in Spare : \A r \in Spare \ {u} : state[r] = "blocking"
  BY DEF OneSpare
<1>2. ASSUME NEW p \in Spare, NEW q \in Spare, Reconverge(p, q) \/ SetLinkState(p, q)
      PROVE  OneSpare'
  <2>1. p = u /\ p \in Port /\ q \in Port
    BY <1>1, <1>2, SwitchAssumption DEF Reconverge, SetLinkState
  <2>2. \A r \in Spare \ {q} : state'[r] = "blocking"
    <3>1. CASE Reconverge(p, q)
      <4>1. state' = [state EXCEPT ![p] = "blocking", ![q] = "listening"]
        BY <3>1 DEF Reconverge
      <4>2. ASSUME NEW r \in Spare \ {q}
            PROVE  state'[r] = "blocking"
        <5>1. r \in Port /\ (r # p => state[r] = "blocking")
          BY <1>1, <2>1, SwitchAssumption
        <5>2. QED
          BY <2>1, <4>1, <5>1 DEF StateInv
      <4>3. QED
        BY <4>2
    <3>2. CASE SetLinkState(p, q)
      <4>1. state' = [state EXCEPT ![p] = "blocking", ![Far[p]] = "blocking",
                                   ![q] = "forwarding"]
        BY <3>2 DEF SetLinkState
      <4>2. ASSUME NEW r \in Spare \ {q}
            PROVE  state'[r] = "blocking"
        <5>1. r \in Port /\ (r # p => state[r] = "blocking")
          BY <1>1, <2>1, SwitchAssumption
        <5>2. QED
          BY <2>1, <4>1, <5>1 DEF StateInv
      <4>3. QED
        BY <4>2
    <3>3. QED
      BY <1>2, <3>1, <3>2
  <2>3. QED
    BY <2>2 DEF OneSpare
<1>3. ASSUME NEW q \in Spare, AdvancePort(q)
      PROVE  OneSpare'
  <2>1. q = u /\ \A r \in Spare \ {q} : state'[r] = state[r]
    <3>1. state[q] # "blocking" /\ \E v : state' = [state EXCEPT ![q] = v]
      BY <1>3 DEF AdvancePort
    <3>2. QED
      BY <1>1, <3>1 DEF StateInv
  <2>2. QED
    BY <1>1, <2>1 DEF OneSpare
<1>4. CASE UNCHANGED state
  BY <1>4 DEF OneSpare
<1>5. QED
  BY <1>2, <1>3, <1>4, StateSteps

\* Ports only start to forward while nothing is in flight.
LEMMA ForwardingSteps ==
  ASSUME StateInv, [Next]_vars
  PROVE  Forwarding' \subseteq Forwarding \/ (Quiet /\ UNCHANGED <<wire, arp, load, sent, received>>)
<1>1. ASSUME NEW p \in Spare, NEW q \in Spare, Reconverge(p, q)
      PROVE  Forwarding' \subseteq Forwarding
  <2>1. state' = [state EXCEPT ![p] = "blocking", ![q] = "listening"]
    BY <1>1 DEF Reconverge
  <2>2. QED
    BY <2>1, SwitchAssumption DEF StateInv, Forwarding, CanForward
<1>2. ASSUME NEW p \in Spare, NEW q \in Spare, SetLinkState(p, q)
      PROVE  Quiet /\ UNCHANGED <<wire, arp, load, sent, received>>
  BY <1>2 DEF SetLinkState
<1>3. ASSUME NEW q \in Spare, AdvancePort(q)
      PROVE  Quiet /\ UNCHANGED <<wire, arp, load, sent, received>>
  BY <1>3 DEF AdvancePort, Counters
<1>4. CASE UNCHANGED state
  BY <1>4 DEF Forwarding, CanForward
<1>5. QED
  BY <1>1, <1>2, <1>3, <1>4, StateSteps

\* Whatever the tree uses, there is no loop.
LEMMA TreeSeparates ==
  ASSUME OneSpare, \A u \in Spare : LoopFree((Port \ Spare) \cup {u})
  PROVE  \E B : Separates(B, Forwarding)
<1>1. PICK u \in Spare : \A q \in Spare \ {u} : state[q] = "blocking"
  BY DEF OneSpare
<1>2. Forwarding \subseteq (Port \ Spare) \cup {u}
  BY <1>1 DEF Forwarding, CanForward
<1>3. PICK B : Separates(B, (Port \ Spare) \cup {u})
  BY DEF LoopFree
<1>4. QED
  BY <1>2, <1>3, SeparatesFewer

LEMMA TreeSeparatesNext ==
  ASSUME OneSpare', \A u \in Spare : LoopFree((Port \ Spare) \cup {u})
  PROVE  \E B : Separates(B, Forwarding')
<1>1. PICK u \in Spare : \A q \in Spare \ {u} : state'[q] = "blocking"
  BY DEF OneSpare
<1>2. Forwarding' \subseteq (Port \ Spare) \cup {u}
  BY <1>1 DEF Forwarding, CanForward
<1>3. PICK B : Separates(B, (Port \ Spare) \cup {u})
  BY DEF LoopFree
<1>4. QED
  BY <1>2, <1>3, SeparatesFewer

------------------------------------------------------------------------------
(* How far a frame can still go: on its way to the router by each switch     *)
(* beyond it, and behind the router by each other switch once more.          *)

Routers == {w \in Switch : Svi[w] # {}}

Size == Cardinality(Switch)

Room(B, e) == Cardinality(B[e] \cap Switch)

Close(B, e, f) ==
  f.hops + Room(B, e) <= IF B[e] \cap Routers # {} THEN Size ELSE 2 * Size - 1

LEMMA SizeIs == Size \in Nat
BY SwitchAssumption, FS_CardinalityType DEF Size

LEMMA RoomIs ==
  ASSUME NEW B, NEW e
  PROVE  Room(B, e) \in Nat /\ Size \in Nat /\ Room(B, e) <= Size
BY SwitchAssumption, FS_CardinalityType, FS_Subset DEF Room, Size

\* A switch that lies beyond p but not beyond e.
LEMMA LessRoom ==
  ASSUME NEW B, NEW e, NEW d, NEW w \in Switch, B[e] \subseteq B[d], w \in B[d], w \notin B[e]
  PROVE  Room(B, e) + 1 <= Room(B, d)
<1> DEFINE E == B[e] \cap Switch
           D == B[d] \cap Switch
<1>1. IsFiniteSet(E) /\ IsFiniteSet(D) /\ E \cup {w} \subseteq D /\ w \notin E
  BY SwitchAssumption, FS_Subset
<1> HIDE DEF E, D
<1>2. IsFiniteSet(E \cup {w}) /\ Cardinality(E \cup {w}) = Cardinality(E) + 1
  BY <1>1, FS_AddElement
<1>3. Cardinality(E \cup {w}) <= Cardinality(D)
  BY <1>1, FS_Subset
<1>4. QED
  BY <1>2, <1>3 DEF Room, E, D

LEMMA RoomLeft ==
  ASSUME NEW B, NEW e, NEW w \in Switch, w \notin B[e]
  PROVE  Room(B, e) + 1 <= Size
<1> DEFINE E == B[e] \cap Switch
<1>1. IsFiniteSet(E) /\ E \cup {w} \subseteq Switch /\ w \notin E
  BY SwitchAssumption, FS_Subset
<1> HIDE DEF E
<1>2. IsFiniteSet(E \cup {w}) /\ Cardinality(E \cup {w}) = Cardinality(E) + 1
  BY <1>1, FS_AddElement
<1>3. Cardinality(E \cup {w}) <= Cardinality(Switch)
  BY <1>1, SwitchAssumption, FS_Subset
<1>4. QED
  BY <1>2, <1>3 DEF Room, Size, E

LEMMA SomeRoom ==
  ASSUME NEW B, NEW e, NEW w \in Switch, w \in B[e]
  PROVE  1 <= Room(B, e)
<1> DEFINE E == B[e] \cap Switch
<1>1. IsFiniteSet(E) /\ {w} \subseteq E
  BY SwitchAssumption, FS_Subset
<1> HIDE DEF E
<1>2. Cardinality({w}) = 1 /\ Cardinality({w}) <= Cardinality(E)
  BY <1>1, FS_Subset, FS_Singleton
<1>3. QED
  BY <1>2 DEF Room, E

LEMMA SizePositive ==
  ASSUME NEW e \in Places
  PROVE  1 <= Size
<1>1. \E w : w \in Switch
  BY SwitchAssumption DEF Places
<1>2. PICK w : w \in Switch
  BY <1>1
<1>3. {w} \subseteq Switch /\ Cardinality({w}) = 1
  BY <1>2, FS_Singleton
<1>4. Cardinality({w}) <= Size
  BY <1>3, SwitchAssumption, FS_Subset DEF Size
<1>5. QED
  BY <1>3, <1>4

\* A frame that nothing relayed yet.
LEMMA CloseStart ==
  ASSUME NEW B, NEW e \in Places, NEW f, f.hops = 0
  PROVE  Close(B, e, f)
BY RoomIs, SizePositive DEF Close

\* A frame that a switch sends of its own accord.
LEMMA CloseFirst ==
  ASSUME NEW B, NEW F \in SUBSET Port, Separates(B, F), NEW q \in F, NEW f, f.hops = 1
  PROVE  Close(B, Far[q], f)
<1>1. Owner[q] \in Switch /\ Owner[q] \notin B[Far[q]]
  BY SwitchAssumption DEF Separates
<1>2. Room(B, Far[q]) + 1 <= Size /\ Room(B, Far[q]) \in Nat /\ Size \in Nat
  BY <1>1, RoomLeft, RoomIs
<1>3. QED
  BY <1>2 DEF Close

\* A frame that is switched.
LEMMA CloseOn ==
  ASSUME NEW B, NEW F \in SUBSET Port, Separates(B, F), NEW p \in F, NEW q \in F, p # q,
         Owner[p] = Owner[q], NEW f, NEW g, f.hops \in Nat, g.hops = f.hops + 1, Close(B, p, f)
  PROVE  Close(B, Far[q], g)
<1>1. /\ Owner[p] \in Switch /\ Owner[p] \in B[p] /\ Owner[p] \notin B[Far[q]]
      /\ B[Far[q]] \subseteq B[p]
  BY SwitchAssumption DEF Separates
<1>2. Room(B, Far[q]) + 1 <= Room(B, p)
  BY <1>1, LessRoom
<1>3. Room(B, Far[q]) \in Nat /\ Room(B, p) \in Nat /\ Size \in Nat /\ Room(B, p) <= Size
  BY RoomIs
<1>4. B[p] \cap Routers = {} => B[Far[q]] \cap Routers = {}
  BY <1>1
<1>5. 1 <= Size
  BY SizePositive DEF Places
<1>6. QED
  BY <1>2, <1>3, <1>4, <1>5 DEF Close

\* A frame that reached the router, and one that leaves it.
LEMMA CloseRouter ==
  ASSUME NEW B, NEW F \in SUBSET Port, Separates(B, F), NEW p \in F, Owner[p] \in Routers,
         NEW f, f.hops \in Nat, Close(B, p, f)
  PROVE  f.hops + 1 <= Size
<1>1. Owner[p] \in Switch /\ Owner[p] \in B[p] \cap Routers
  BY SwitchAssumption DEF Separates
<1>2. 1 <= Room(B, p) /\ Room(B, p) \in Nat /\ Size \in Nat
  BY <1>1, SomeRoom, RoomIs
<1>3. QED
  BY <1>1, <1>2 DEF Close

LEMMA CloseRouted ==
  ASSUME OneRouter, NEW B, NEW F \in SUBSET Port, Separates(B, F), NEW q \in F,
         Owner[q] \in Routers, NEW f, NEW g, f.hops \in Nat, f.hops + 1 <= Size,
         g.hops = f.hops + 1
  PROVE  Close(B, Far[q], g)
<1>1. Owner[q] \in Switch /\ Owner[q] \notin B[Far[q]]
  BY SwitchAssumption DEF Separates
<1>2. Room(B, Far[q]) + 1 <= Size /\ Room(B, Far[q]) \in Nat /\ Size \in Nat
  BY <1>1, RoomLeft, RoomIs
<1>3. B[Far[q]] \cap Routers = {}
  BY <1>1 DEF OneRouter, Routers
<1>4. QED
  BY <1>2, <1>3 DEF Close

\* Every frame is close enough to its end, and every packet that waits passed each
\* switch once at most.
CloseAt(B, ids) == [e \in Places |-> {f \in FrameOf(ids) : Close(B, e, f)}]

Brief(w, x) ==
  /\ x.frame.hops \in Nat /\ x.frame.hops + 1 <= Size
  /\ IF x.port = None THEN x.frame.hops = 0 ELSE w \in Routers

QueueBrief(arps) ==
  \A w \in Switch, s \in Station : \A x \in ToSet(arps[w][s].waiting) : Brief(w, x)

Near(B, ids) == WireIn(CloseAt(B, ids), wire) /\ QueueBrief(arp)

LEMMA CloseOut ==
  ASSUME NEW ids, NEW B, NEW out, OutIn(SoundAt(ids), out),
         \A o \in ToSet(out) : Close(B, Far[o.port], o.frame)
  PROVE  OutIn(CloseAt(B, ids), out)
<1>1. ASSUME NEW o \in ToSet(out)
      PROVE  o.port \in Port /\ o.frame \in CloseAt(B, ids)[Far[o.port]]
  <2>1. o.port \in Port /\ o.frame \in SoundAt(ids)[Far[o.port]] /\ Far[o.port] \in Places
    BY SwitchAssumption DEF OutIn, Places
  <2>2. o.frame \in FrameOf(ids)
    BY <2>1, IsSound DEF Sound
  <2>3. QED
    BY <2>1, <2>2 DEF CloseAt
<1>2. QED
  BY <1>1 DEF OutIn

LEMMA SpreadClose ==
  ASSUME NEW ids, NEW B, Separates(B, Forwarding), NEW p \in Forwarding,
         NEW f, Sound(ids, f), Close(B, p, f), NEW out, NEW vlan, Spreads(out, p, f, vlan, FALSE)
  PROVE  OutIn(CloseAt(B, ids), out)
<1>1. f.hops \in Nat /\ DOMAIN f = Fields
  BY FrameIs DEF Sound, IsFrame
<1>2. ASSUME NEW o \in ToSet(out)
      PROVE  Close(B, Far[o.port], o.frame)
  <2>1. PICK q \in Ports(Owner[p]) : CanForward(q) /\ q # p /\ o = Sending(q, Prepared(q, f, vlan))
    BY DEF Spreads, MayReturn
  <2>2. q \in Forwarding /\ Owner[q] = Owner[p] /\ Forwarding \subseteq Port
    BY <2>1 DEF Forwarding, Ports
  <2>3. Prepared(q, f, vlan).hops = f.hops + 1
    BY <1>1, PreparedIs
  <2>4. Close(B, Far[q], Prepared(q, f, vlan))
    BY <1>1, <2>1, <2>2, <2>3, CloseOn
  <2>5. QED
    BY <2>1, <2>4 DEF Sending
<1>3. QED
  BY <1>2, SpreadSound, CloseOut

LEMMA SpreadRouted ==
  ASSUME NEW ids, OneRouter, NEW B, Separates(B, Forwarding), NEW p, Owner[p] \in Routers,
         NEW f, DOMAIN f = Fields, f.hops \in Nat, f.hops + 1 <= Size,
         NEW out, OutIn(SoundAt(ids), out), NEW vlan, Spreads(out, p, f, vlan, TRUE)
  PROVE  OutIn(CloseAt(B, ids), out)
<1>1. ASSUME NEW o \in ToSet(out)
      PROVE  Close(B, Far[o.port], o.frame)
  <2>1. PICK q \in Ports(Owner[p]) : CanForward(q) /\ o = Sending(q, Prepared(q, f, vlan))
    BY DEF Spreads
  <2>2. q \in Forwarding /\ Owner[q] = Owner[p] /\ Forwarding \subseteq Port
    BY <2>1 DEF Forwarding, Ports
  <2>3. Prepared(q, f, vlan).hops = f.hops + 1
    BY PreparedIs
  <2>4. Close(B, Far[q], Prepared(q, f, vlan))
    BY <2>1, <2>2, <2>3, CloseRouted
  <2>5. QED
    BY <2>1, <2>4 DEF Sending
<1>2. QED
  BY <1>1, CloseOut

LEMMA AskClose ==
  ASSUME NEW ids \in SUBSET Nat, NEW B, Separates(B, Forwarding), NEW w \in Switch,
         NEW hop \in Station, NEW by \in Port \cup {None}
  PROVE  OutIn(CloseAt(B, ids), Ask(w, hop, by))
<1> DEFINE vlan == HostVlan[hop]
<1>1. ASSUME NEW o \in ToSet(Ask(w, hop, by))
      PROVE  Close(B, Far[o.port], o.frame)
  <2>1. CASE by # None /\ o = Sending(by, Request(by, None, hop, vlan))
    <3>1. o.frame.hops = 0 /\ Far[o.port] \in Places
      BY <2>1, SwitchAssumption DEF Sending, Request, Places
    <3>2. QED
      BY <3>1, CloseStart
  <2>2. ASSUME NEW q \in Ports(w), CanForward(q),
               o = Sending(q, Prepared(q, Request(q, <<w, vlan>>, hop, vlan), vlan))
        PROVE  Close(B, Far[o.port], o.frame)
    <3>1. q \in Forwarding /\ Forwarding \subseteq Port
      BY <2>2 DEF Forwarding, Ports
    <3>2. o.frame.hops = 1 /\ o.port = q
      <4> DEFINE r == Request(q, <<w, vlan>>, hop, vlan)
      <4>1. DOMAIN r = Fields /\ r.hops = 0
        BY DEF Request, Fields
      <4> HIDE DEF r
      <4>2. Prepared(q, r, vlan).hops = 1
        BY <4>1, PreparedIs
      <4>3. QED
        BY <2>2, <4>2 DEF Sending, r
    <3>3. QED
      BY <3>1, <3>2, CloseFirst
  <2>3. QED
    BY <2>1, <2>2, AskSends
<1>2. QED
  BY <1>1, AskSound, CloseOut

LEMMA ReleasedClose ==
  ASSUME NEW ids, OneRouter, NEW B, Separates(B, Forwarding), NEW w \in Switch,
         NEW hop \in Station, NEW p \in Port, NEW table, NEW x, SoundWait(ids, w, hop, x),
         Brief(w, x)
  PROVE  OutIn(CloseAt(B, ids), Released(table, x, hop, p))
<1> DEFINE f == Given(x, hop, p)
<1>1. DOMAIN f = Fields /\ f.hops = x.frame.hops
  BY DEF SoundWait, Given, Fields
<1>2. OutIn(SoundAt(ids), Released(table, x, hop, p))
  BY ReleasedSound
<1>3. CASE x.port = None
  <2>1. Released(table, x, hop, p) = <<Sending(p, f)>>
    BY <1>3 DEF Released
  <2>2. f.hops = 0 /\ Far[p] \in Places
    BY <1>1, <1>3, SwitchAssumption DEF Brief, Places
  <2> HIDE DEF f
  <2>3. Close(B, Far[p], f)
    BY <2>2, CloseStart
  <2>4. \A o \in ToSet(<<Sending(p, f)>>) : Close(B, Far[o.port], o.frame)
    BY <2>3, SingletonList DEF Sending
  <2>5. QED
    BY <1>2, <2>1, <2>4, CloseOut
<1>4. CASE x.port # None
  <2>1. Released(table, x, hop, p) = Forward(table, x.port, f, f.vlan, TRUE)
    BY <1>4 DEF Released
  <2>2. Owner[x.port] \in Routers /\ f.hops \in Nat /\ f.hops + 1 <= Size
    BY <1>1, <1>4 DEF Brief, SoundWait
  <2> HIDE DEF f
  <2>3. Spreads(Released(table, x, hop, p), x.port, f, f.vlan, TRUE)
    BY <2>1, ForwardSpreads
  <2>4. QED
    BY <1>1, <1>2, <2>2, <2>3, SpreadRouted
<1>5. QED
  BY <1>3, <1>4

LEMMA ReleasingClose ==
  ASSUME NEW ids, ArpSound(ids, arp), OneRouter, NEW B, Separates(B, Forwarding),
         QueueBrief(arp), NEW w \in Switch, NEW hop \in Station, NEW p \in Port, NEW table
  PROVE  OutIn(CloseAt(B, ids), Releasing(table, w, p, hop))
<1>1. /\ IsList(arp[w][hop].waiting)
      /\ \A x \in ToSet(arp[w][hop].waiting) : SoundWait(ids, w, hop, x) /\ Brief(w, x)
  BY DEF ArpSound, EntrySound, QueueBrief
<1>2. /\ IsList(Releasing(table, w, p, hop))
      /\ \A o \in ToSet(Releasing(table, w, p, hop)) :
           \E x \in ToSet(arp[w][hop].waiting) : o \in ToSet(Released(table, x, hop, p))
  BY <1>1, ReleasingIs
<1>3. QED
  BY <1>1, <1>2, ReleasedClose DEF OutIn

LEMMA TakenClose ==
  ASSUME NEW ids, NEW B, WireIn(CloseAt(B, ids), wire), NEW p \in Port, wire[p] # << >>
  PROVE  WireIn(CloseAt(B, ids), Taken(p)) /\ Close(B, p, Arrived(p))
<1>1. p \in Places
  BY DEF Places
<1>2. WireIn(CloseAt(B, ids), Taken(p)) /\ Arrived(p) \in CloseAt(B, ids)[p]
  BY <1>1, TakingIn DEF Taken, Arrived
<1>3. QED
  BY <1>1, <1>2 DEF CloseAt

\* The queues, when one of them changes.
LEMMA BriefIs ==
  ASSUME NEW ids, ArpSound(ids, arp), QueueBrief(arp), NEW w \in Switch, NEW hop \in Station,
         NEW x, arp' = [arp EXCEPT ![w][hop] = x], \A h \in ToSet(x.waiting) : Brief(w, h)
  PROVE  QueueBrief(arp')
<1>1. \A v \in Switch, u \in Station :
        arp'[v][u] = IF v = w /\ u = hop THEN x ELSE arp[v][u]
  BY DEF ArpSound
<1>2. QED
  BY <1>1 DEF QueueBrief

LEMMA QueueClose ==
  ASSUME NEW ids \in SUBSET Nat, ArpSound(ids, arp), NEW B, Separates(B, Forwarding),
         NEW p \in Port, WireIn(CloseAt(B, ids), Taken(p)), QueueBrief(arp), NEW hop \in Station,
         NEW entry, Brief(Owner[p], entry), NEW by \in Port \cup {None},
         NEW out, arp[Owner[p]][hop].at # None => OutIn(CloseAt(B, ids), out),
         ResolveOrQueue(p, hop, entry, by, out)
  PROVE  Near(B, ids)'
<1> DEFINE w == Owner[p]
           known == arp[w][hop]
<1>1. w \in Switch /\ EntrySound(ids, w, hop, known)
  BY SwitchAssumption DEF ArpSound
<1>2. CASE known.at # None
  <2>1. wire' = Transmit(Taken(p), out) /\ arp' = arp
    BY <1>2 DEF ResolveOrQueue
  <2>2. WireIn(CloseAt(B, ids), wire')
    BY <1>2, <2>1, TransmitIn
  <2>3. QED
    BY <2>1, <2>2 DEF Near
<1>3. CASE known.at = None
  <2>1. OutIn(CloseAt(B, ids), Ask(w, hop, by))
    BY <1>1, AskClose
  <2>2. WireIn(CloseAt(B, ids), wire')
    BY <1>3, <2>1, TransmitIn DEF ResolveOrQueue
  <2>3. QueueBrief(arp')
    <3>1. CASE known = Unknown
      <4> DEFINE x == [at |-> None, waiting |-> <<entry>>, asked |-> 1, by |-> by]
      <4>1. arp' = [arp EXCEPT ![w][hop] = x]
        BY <1>3, <3>1 DEF ResolveOrQueue
      <4>2. \A h \in ToSet(x.waiting) : Brief(w, h)
        BY SingletonList
      <4> HIDE DEF x
      <4>3. QED
        BY <1>1, <4>1, <4>2, BriefIs
    <3>2. CASE known # Unknown
      <4> DEFINE x == [known EXCEPT !.waiting = <<entry>> \o @]
      <4>1. arp' = [arp EXCEPT ![w][hop] = x]
        BY <1>3, <3>2 DEF ResolveOrQueue
      <4>2. x.waiting = <<entry>> \o known.waiting
        <5>1. "waiting" \in DOMAIN known
          <6>1. known = [at |-> known.at, waiting |-> known.waiting, asked |-> known.asked,
                         by |-> known.by]
            BY <1>1 DEF EntrySound
          <6> HIDE DEF known
          <6>2. DOMAIN known = {"at", "waiting", "asked", "by"}
            BY <6>1
          <6>3. QED
            BY <6>2
        <5> HIDE DEF known
        <5>2. QED
          BY <5>1
      <4> HIDE DEF x
      <4>3. \A h \in ToSet(x.waiting) : Brief(w, h)
        <5>1. /\ IsList(known.waiting) /\ IsList(<<entry>>) /\ ToSet(<<entry>>) = {entry}
              /\ \A h \in ToSet(known.waiting) : Brief(w, h)
          BY <1>1, SingletonList DEF EntrySound, QueueBrief
        <5> HIDE DEF known
        <5>2. ToSet(x.waiting) \subseteq {entry} \cup ToSet(known.waiting)
          BY <4>2, <5>1, ConcatList
        <5>3. QED
          BY <5>1, <5>2
      <4>4. QED
        BY <1>1, <4>1, <4>3, BriefIs
    <3>3. QED
      BY <3>1, <3>2
  <2>4. QED
    BY <2>2, <2>3 DEF Near
<1>4. QED
  BY <1>2, <1>3

LEMMA CloseWire ==
  ASSUME NEW ids, NEW B, NEW wires, WireIn(SoundAt(ids), wires),
         \A e \in Places : \A f \in ToSet(wires[e]) : Close(B, e, f)
  PROVE  WireIn(CloseAt(B, ids), wires)
<1>1. ASSUME NEW e \in Places, NEW f \in ToSet(wires[e])
      PROVE  f \in CloseAt(B, ids)[e]
  <2>1. f \in FrameOf(ids)
    BY IsSound DEF WireIn, Sound
  <2>2. QED
    BY <2>1 DEF CloseAt
<1>2. QED
  BY <1>1 DEF WireIn

LEMMA WireClose ==
  ASSUME NEW ids, NEW B, WireIn(CloseAt(B, ids), wire)
  PROVE  \A e \in Places : \A f \in ToSet(wire[e]) : Close(B, e, f)
BY DEF WireIn, CloseAt

LEMMA ReceiveARPNear ==
  ASSUME NEW ids, Flow(ids), OneRouter, NEW B, Separates(B, Forwarding), Near(B, ids),
         NEW p \in Port, ReceiveARP(p)
  PROVE  Near(B, ids)'
<1> DEFINE w == Owner[p]
           f == Arrived(p)
           a == ReplyOf(p)
<1>1. /\ wire[p] # << >> /\ p \in Forwarding /\ Forwarding \subseteq Port
      /\ Sound(ids, f) /\ ids \in SUBSET Nat /\ ArpSound(ids, arp) /\ w \in Switch
  BY ReceiveARPIs, ReceiveARPSends DEF Forwarding
<1>2. WireIn(CloseAt(B, ids), Taken(p)) /\ Close(B, p, f)
  BY <1>1, TakenClose DEF Near
<1>3. OutIn(CloseAt(B, ids), << >>)
  BY EmptyList DEF OutIn
<1>4. OutIn(CloseAt(B, ids), ReleasedBy(p))
  BY <1>1, <1>3, ReleasingClose DEF ReleasedBy, Merges, Near
<1>5. OutIn(CloseAt(B, ids), AnswerOf(p))
  <2>1. CASE AnswerOf(p) = << >>
    BY <1>3, <2>1
  <2>2. CASE AnswerOf(p) # << >>
    <3>1. DOMAIN a = Fields /\ a.hops = 0 /\ OutIn(SoundAt(ids), AnswerOf(p))
      BY <2>2, ReceiveARPSends
    <3> DEFINE g == Prepared(p, a, f.to[2])
    <3>2. AnswerOf(p) = <<Sending(p, g)>>
      BY <2>2 DEF AnswerOf
    <3>3. g.hops = 1
      BY <3>1, PreparedIs
    <3> HIDE DEF g
    <3>4. Close(B, Far[p], g)
      BY <1>1, <3>3, CloseFirst
    <3>5. \A o \in ToSet(AnswerOf(p)) : Close(B, Far[o.port], o.frame)
      BY <3>2, <3>4, SingletonList DEF Sending
    <3>6. QED
      BY <3>1, <3>5, CloseOut
  <2>3. QED
    BY <2>1, <2>2
<1>6. OutIn(CloseAt(B, ids), FloodedBy(p))
  <2>1. Spreads(Flood(p, f, VlanOf(p)), p, f, VlanOf(p), FALSE)
    BY FloodSpreads
  <2>2. OutIn(CloseAt(B, ids), Flood(p, f, VlanOf(p)))
    BY <1>1, <1>2, <2>1, SpreadClose
  <2>3. QED
    BY <1>3, <2>2 DEF FloodedBy
<1>7. WireIn(CloseAt(B, ids), wire')
  BY <1>2, <1>4, <1>5, <1>6, BothIn, TransmitIn, ReceiveARPIs
<1>8. QueueBrief(arp')
  <2>1. CASE Merges(p)
    <3> DEFINE x == [Unknown EXCEPT !.at = f.src]
    <3>1. arp' = [arp EXCEPT ![w][f.from] = x] /\ f.from \in Station
      BY <2>1, ReceiveARPIs DEF Merges
    <3>2. x.waiting = << >>
      BY DEF Unknown
    <3> HIDE DEF x
    <3>3. QED
      BY <1>1, <3>1, <3>2, EmptyList, BriefIs DEF Near
  <2>2. CASE ~Merges(p)
    <3>1. arp' = arp
      BY <2>2, ReceiveARPIs
    <3>2. QED
      BY <3>1 DEF Near
  <2>3. QED
    BY <2>1, <2>2
<1>9. QED
  BY <1>7, <1>8 DEF Near

LEMMA RouteFrameNear ==
  ASSUME NEW ids, Flow(ids), OneRouter, NEW B, Separates(B, Forwarding), Near(B, ids),
         NEW p \in Port, RouteFrame(p)
  PROVE  Near(B, ids)'
<1> DEFINE w == Owner[p]
           f == Arrived(p)
           hop == HopOf(p)
           from == f.from
<1>1. /\ wire[p] # << >> /\ p \in Forwarding /\ Forwarding \subseteq Port /\ f.hops \in Nat
      /\ ids \in SUBSET Nat /\ ArpSound(ids, arp) /\ w \in Routers
  <2>1. ShouldRoute(w, f, VlanOf(p)) /\ f.hops \in Nat /\ ids \in SUBSET Nat
        /\ ArpSound(ids, arp) /\ w \in Switch
    BY RouteFacts
  <2>2. wire[p] # << >> /\ CanForward(p)
    BY DEF RouteFrame, Admitted
  <2>3. Svi[w] # {}
    BY <2>1 DEF ShouldRoute
  <2>4. QED
    BY <2>1, <2>2, <2>3 DEF Forwarding, Routers
<1>2. WireIn(CloseAt(B, ids), Taken(p)) /\ Close(B, p, f) /\ QueueBrief(arp)
  BY <1>1, TakenClose DEF Near
<1>3. f.hops + 1 <= Size
  BY <1>1, <1>2, CloseRouter
<1>4. CASE /\ ~Expires(f)
           /\ ResolveOrQueue(p, hop, [frame |-> RoutedBy(p), port |-> p], None, RoutedOut(p))
  <2> DEFINE routed == RoutedBy(p)
             entry == [frame |-> routed, port |-> p]
             out == RoutedOut(p)
  <2>1. /\ hop \in Station /\ DOMAIN routed = Fields /\ routed.hops = f.hops
        /\ arp[w][hop].at # None => OutIn(SoundAt(ids), out)
        /\ ResolveOrQueue(p, hop, entry, None, out)
    BY <1>4, RoutedBySound
  <2>2. Spreads(out, p, routed, routed.vlan, TRUE)
    BY ForwardSpreads DEF RoutedOut
  <2>3. Brief(w, entry)
    <3>1. p # None
      BY SwitchAssumption
    <3>2. QED
      BY <1>1, <1>3, <2>1, <3>1 DEF Brief
  <2> HIDE DEF entry, out, hop, routed
  <2>4. arp[w][hop].at # None => OutIn(CloseAt(B, ids), out)
    BY <1>1, <1>3, <2>1, <2>2, SpreadRouted
  <2>5. QED
    BY <1>1, <1>2, <2>1, <2>3, <2>4, QueueClose
<1>5. CASE /\ f.kind = "ip"
           /\ ResolveOrQueue(p, f.from, [frame |-> ReportBy(p), port |-> None], p,
                <<Sending(p, ReportBy(p))>>)
  <2> DEFINE report == ReportBy(p)
             entry == [frame |-> report, port |-> None]
             out == <<Sending(p, report)>>
  <2>1. /\ from \in Station /\ report.hops = 0
        /\ arp[w][from].at # None => OutIn(SoundAt(ids), out)
        /\ ResolveOrQueue(p, from, entry, p, out)
    BY <1>5, ReportBySound
  <2>2. Brief(w, entry)
    <3>1. Size \in Nat /\ 0 + 1 <= Size
      BY <1>1, <1>3, SizeIs
    <3>2. entry.frame = report /\ entry.port = None
      OBVIOUS
    <3> HIDE DEF entry, report
    <3>3. QED
      BY <2>1, <3>1, <3>2 DEF Brief
  <2>3. Far[p] \in Places
    BY SwitchAssumption DEF Places
  <2> HIDE DEF report
  <2>4. \A o \in ToSet(out) : Close(B, Far[o.port], o.frame)
    BY <2>1, <2>3, CloseStart, SingletonList DEF Sending
  <2> HIDE DEF entry, out, from
  <2>5. arp[w][from].at # None => OutIn(CloseAt(B, ids), out)
    BY <2>1, <2>4, CloseOut
  <2>6. QED
    BY <1>1, <1>2, <2>1, <2>2, <2>5, QueueClose
<1>6. CASE wire' = Taken(p) /\ UNCHANGED arp
  BY <1>2, <1>6 DEF Near
<1>7. QED
  BY <1>4, <1>5, <1>6 DEF RouteFrame, RoutedBy, RoutedOut, HopOf, ReportBy

LEMMA ArriveNear ==
  ASSUME NEW ids, Flow(ids), OneRouter, NEW B, Separates(B, Forwarding), Near(B, ids),
         NEW p \in Port, Arrive(p)
  PROVE  Near(B, ids)'
<1>1. CASE Discard(p) \/ LearnOnly(p)
  <2>1. wire[p] # << >> /\ wire' = Taken(p) /\ arp' = arp
    BY <1>1 DEF Discard, LearnOnly, Admitted
  <2>2. WireIn(CloseAt(B, ids), Taken(p))
    BY <2>1, TakenClose DEF Near
  <2>3. QED
    BY <2>1, <2>2 DEF Near
<1>2. CASE SwitchFrame(p)
  <2> DEFINE f == Arrived(p)
             out == Forward(Learned(p), p, f, VlanOf(p), FALSE)
  <2>1. wire[p] # << >> /\ p \in Forwarding /\ wire' = Transmit(Taken(p), out) /\ arp' = arp
    BY <1>2 DEF SwitchFrame, Admitted, Forwarding
  <2>2. Sound(ids, f) /\ WireIn(CloseAt(B, ids), Taken(p)) /\ Close(B, p, f)
    BY <2>1, TakenSound, TakenClose DEF Flow, Near
  <2>3. Spreads(out, p, f, VlanOf(p), FALSE)
    BY ForwardSpreads
  <2> HIDE DEF out, f
  <2>4. OutIn(CloseAt(B, ids), out)
    BY <2>1, <2>2, <2>3, SpreadClose
  <2>5. QED
    BY <2>1, <2>2, <2>4, TransmitIn DEF Near
<1>3. QED
  BY <1>1, <1>2, ReceiveARPNear, RouteFrameNear DEF Arrive

\* What stations send was not relayed yet.
LEMMA StationReceiveNear ==
  ASSUME NEW ids, Flow(ids), Counted(ids), NEW B, Near(B, ids), NEW s \in Station,
         StationReceive(s)
  PROVE  Near(B, ids)'
<1> DEFINE f == Head(wire[s])
           rest == [wire EXCEPT ![s] = Tail(@)]
           a == [f EXCEPT !.kind = "reply", !.src = s, !.dst = f.src,
                          !.tag = 0, !.from = s, !.to = f.from, !.hops = 0]
<1>1. s \in Places /\ wire[s] # << >> /\ WireIn(SoundAt(ids), wire) /\ arp' = arp
  BY DEF Places, StationReceive, Flow
<1>2. WireIn(CloseAt(B, ids), rest)
  BY <1>1, TakingIn DEF Near
<1>3. CASE wire' = rest
  BY <1>1, <1>2, <1>3 DEF Near
<1>4. CASE wire' = [rest EXCEPT ![PortOf(s)] = Append(@, a)]
  <2>1. DOMAIN f = Fields
    BY <1>1, TakingIn, IsSound, FrameIs DEF Sound, IsFrame
  <2>2. a.hops = 0
    BY <2>1 DEF Fields
  <2>3. WireIn(SoundAt(ids), wire')
    BY StationReceiveSound DEF Flow
  <2>4. ASSUME NEW e \in Places, NEW g \in ToSet(wire'[e])
        PROVE  Close(B, e, g)
    <3>1. IsList(rest[e]) /\ \A h \in ToSet(rest[e]) : Close(B, e, h)
      BY <1>2 DEF WireIn, CloseAt
    <3>2. DOMAIN rest = Places
      BY <1>2 DEF WireIn
    <3> HIDE DEF rest, a
    <3>3. g \in ToSet(rest[e]) \/ g = a
      BY <1>4, <3>1, <3>2, AppendList
    <3>4. QED
      BY <2>2, <3>1, <3>3, CloseStart
  <2>5. QED
    BY <1>1, <2>3, <2>4, CloseWire DEF Near
<1>5. QED
  BY <1>3, <1>4 DEF StationReceive

LEMMA SendNear ==
  ASSUME Flow(Packets), load \in Workloads, sent \in Nat, NEW B, Near(B, Packets), Send
  PROVE  WireIn(CloseAt(B, Packets), wire') /\ QueueBrief(arp')
<1> DEFINE t == load[sent + 1]
           Packet(dst) ==
             [kind |-> t.kind, src |-> t.from, dst |-> dst, tag |-> 0, from |-> t.from,
              to |-> t.to, ttl |-> t.ttl, id |-> sent + 1, vlan |-> HostVlan[t.from], hops |-> 0]
<1>1. PICK at, f : wire' = [wire EXCEPT ![at] = Append(@, f)] /\ f.hops = 0
  <2>1. PICK dst : wire' = [wire EXCEPT ![PortOf(t.from)] = Append(@, Packet(dst))]
    BY DEF Send
  <2>2. Packet(dst).hops = 0
    OBVIOUS
  <2> HIDE DEF Packet
  <2>3. QED
    BY <2>1, <2>2
<1>2. arp' = arp /\ load' = load
  BY DEF Send
<1>3. Packets' = Packets
  BY <1>2 DEF Packets
<1>4. WireIn(SoundAt(Packets), wire')
  BY <1>3, SendSound DEF Flow
<1>5. ASSUME NEW e \in Places, NEW g \in ToSet(wire'[e])
      PROVE  Close(B, e, g)
  <2>1. /\ DOMAIN wire = Places /\ IsList(wire[e])
        /\ \A h \in ToSet(wire[e]) : Close(B, e, h)
    BY DEF Near, WireIn, CloseAt
  <2>2. g \in ToSet(wire[e]) \/ g = f
    BY <1>1, <2>1, AppendList
  <2>3. QED
    BY <1>1, <2>1, <2>2, CloseStart
<1>6. QED
  BY <1>2, <1>4, <1>5, CloseWire DEF Near

LEMMA RetryNear ==
  ASSUME NEW ids, Flow(ids), NEW B, Separates(B, Forwarding), Near(B, ids), NEW w \in Switch,
         NEW s \in Station, Retry(w, s) \/ GiveUp(w, s)
  PROVE  Near(B, ids)'
<1>1. ids \in SUBSET Nat /\ ArpSound(ids, arp) /\ EntrySound(ids, w, s, arp[w][s])
      /\ QueueBrief(arp) /\ WireIn(CloseAt(B, ids), wire)
  BY DEF Flow, ArpSound, Near
<1>2. CASE Retry(w, s)
  <2> DEFINE known == arp[w][s]
             x == [known EXCEPT !.asked = @ + 1]
  <2>1. arp' = [arp EXCEPT ![w][s] = x] /\ wire' = Transmit(wire, Ask(w, s, known.by))
    BY <1>2 DEF Retry
  <2>2. \A h \in ToSet(known.waiting) : Brief(w, h)
    BY <1>1 DEF QueueBrief
  <2>3. known.by \in Port \cup {None}
    BY <1>1 DEF EntrySound
  <2>4. x.waiting = known.waiting
    <3>1. known = [at |-> known.at, waiting |-> known.waiting, asked |-> known.asked,
                   by |-> known.by]
      BY <1>1 DEF EntrySound
    <3> HIDE DEF known
    <3>2. DOMAIN known = {"at", "waiting", "asked", "by"}
      BY <3>1
    <3>3. QED
      BY <3>2
  <2> HIDE DEF x
  <2>5. QueueBrief(arp')
    BY <1>1, <2>1, <2>2, <2>4, BriefIs
  <2>6. WireIn(CloseAt(B, ids), wire')
    BY <1>1, <2>1, <2>3, AskClose, TransmitIn
  <2>7. QED
    BY <2>5, <2>6 DEF Near
<1>3. CASE GiveUp(w, s)
  <2>1. arp' = [arp EXCEPT ![w][s] = Unknown] /\ wire' = wire /\ Unknown.waiting = << >>
    BY <1>3 DEF GiveUp, Unknown
  <2>2. QueueBrief(arp')
    BY <1>1, <2>1, EmptyList, BriefIs
  <2>3. QED
    BY <1>1, <2>1, <2>2 DEF Near
<1>4. QED
  BY <1>2, <1>3

HopInv ==
  TypeInv /\ OneSpare /\ \E B : Separates(B, Forwarding) /\ Near(B, Packets)

LEMMA PacketsStay == [Next]_vars => UNCHANGED load
<1> SUFFICES ASSUME [Next]_vars
             PROVE  UNCHANGED load
  OBVIOUS
<1>1. ASSUME NEW p \in Port, Arrive(p)
      PROVE  UNCHANGED load
  BY <1>1 DEF Arrive, Discard, LearnOnly, SwitchFrame, ReceiveARP, RouteFrame, Counters
<1>2. ASSUME NEW s \in Station, StationReceive(s)
      PROVE  UNCHANGED load
  BY <1>2 DEF StationReceive, Counters
<1>3. ASSUME NEW w \in Switch, NEW s \in Station, Retry(w, s) \/ GiveUp(w, s)
      PROVE  UNCHANGED load
  BY <1>3 DEF Retry, GiveUp, Counters
<1>4. Send => UNCHANGED load
  BY DEF Send
<1>5. QED
  BY <1>1, <1>2, <1>3, <1>4, TreeSteps

LEMMA NearInductive ==
  ASSUME OneRouter, TypeInv, NEW B, Separates(B, Forwarding), Near(B, Packets), [Next]_vars
  PROVE  Near(B, Packets)'
<1>1. PICK ids : ids = Packets
  OBVIOUS
<1>2. Packets' = ids /\ ids' = ids
  BY <1>1, PacketsStay DEF Packets
<1>3. Flow(ids) /\ Counted(ids) /\ Near(B, ids) /\ load \in Workloads /\ sent \in Nat
  <2>1. load \in Seq([kind : {"ip", "request"}, from : Station,
                      to : DOMAIN Via \cup (Switch \X Nat), ttl : Nat])
    BY SwitchAssumption DEF TypeInv, LoadInv
  <2>2. Len(load) \in Nat
    BY <2>1, LenProperties
  <2>3. QED
    BY <1>1, <2>2 DEF TypeInv, LoadInv
<1>4. ASSUME NEW p \in Port, Arrive(p)
      PROVE  Near(B, ids)'
  BY <1>3, <1>4, ArriveNear
<1>5. ASSUME NEW s \in Station, StationReceive(s)
      PROVE  Near(B, ids)'
  BY <1>3, <1>5, StationReceiveNear
<1>6. ASSUME Send
      PROVE  Near(B, ids)'
  <2>1. WireIn(CloseAt(B, Packets), wire') /\ QueueBrief(arp')
    BY <1>3, <1>6, SendNear DEF TypeInv
  <2>2. QED
    BY <1>1, <1>2, <2>1 DEF Near
<1>7. ASSUME NEW w \in Switch, NEW s \in Station, Retry(w, s) \/ GiveUp(w, s)
      PROVE  Near(B, ids)'
  BY <1>3, <1>7, RetryNear
<1>8. ASSUME UNCHANGED <<wire, arp, load, sent, received, reported, excused>>
      PROVE  Near(B, ids)'
  BY <1>3, <1>8 DEF Near
<1>9. Near(B, ids)'
  BY <1>4, <1>5, <1>6, <1>7, <1>8, TreeSteps
<1>10. QED
  BY <1>2, <1>9 DEF Near

\* A network in which nothing is in flight has no frame that is too far away.
LEMMA QuietNear ==
  ASSUME NEW ids, NEW B, Quiet, WireIn(SoundAt(ids), wire), QueueBrief(arp)
  PROVE  Near(B, ids)
<1>1. \A e \in Places : ToSet(wire[e]) = {}
  BY EmptyList DEF Quiet, Places
<1>2. QED
  BY <1>1, CloseWire DEF Near

LEMMA HopInit ==
  ASSUME \A u \in Spare : LoopFree((Port \ Spare) \cup {u})
  PROVE  Init => HopInv
<1> SUFFICES ASSUME Init
             PROVE  HopInv
  OBVIOUS
<1>1. TypeInv /\ OneSpare
  BY TypeInit, OneSpareInit
<1>2. PICK B : Separates(B, Forwarding)
  BY <1>1, TreeSeparates
<1>3. Quiet
  BY DEF Init, Quiet
<1>4. QueueBrief(arp)
  BY EmptyList DEF Init, QueueBrief, Unknown
<1>5. QED
  BY <1>1, <1>2, <1>3, <1>4, QuietNear DEF HopInv, TypeInv, Flow

LEMMA HopInductive ==
  ASSUME OneRouter, \A u \in Spare : LoopFree((Port \ Spare) \cup {u})
  PROVE  HopInv /\ [Next]_vars => HopInv'
<1> SUFFICES ASSUME HopInv, [Next]_vars
             PROVE  HopInv'
  OBVIOUS
<1>1. TypeInv' /\ OneSpare'
  BY TypeInductive, OneSpareInductive DEF HopInv, TypeInv
<1>2. PICK B : Separates(B, Forwarding) /\ Near(B, Packets)
  BY DEF HopInv
<1>3. CASE Forwarding' \subseteq Forwarding
  <2>1. Separates(B, Forwarding')
    BY <1>2, <1>3, SeparatesFewer
  <2>2. Near(B, Packets)'
    BY <1>2, NearInductive DEF HopInv
  <2>3. QED
    BY <1>1, <2>1, <2>2 DEF HopInv
<1>4. CASE Quiet /\ UNCHANGED <<wire, arp, load, sent, received>>
  <2>1. PICK C : Separates(C, Forwarding')
    BY <1>1, TreeSeparatesNext
  <2>2. Near(C, Packets)
    BY <1>2, <1>4, QuietNear DEF HopInv, TypeInv, Flow, Near
  <2>3. Packets' = Packets
    BY <1>4 DEF Packets
  <2>4. Near(C, Packets)'
    BY <1>4, <2>2, <2>3 DEF Near
  <2>5. QED
    BY <1>1, <2>1, <2>4 DEF HopInv
<1>5. QED
  BY <1>3, <1>4, ForwardingSteps DEF HopInv, TypeInv

\* Where the tree leaves no loop and one switch routes, no frame runs in circles
\* (l2_switch_flood_frame_vlan, l2_switch_forward_frame_vlan, route_between_vlans):
\* it passes each switch once at most on its way to the router and once behind
\* it, whatever is flooded, routed or queued for ARP and however the tree moves.
THEOREM EndsItsWay ==
  ASSUME OneRouter, \A u \in Spare : LoopFree((Port \ Spare) \cup {u})
  PROVE  Spec => []NoCircles
<1>1. HopInv => NoCircles
  <2> SUFFICES ASSUME HopInv, NEW e \in Port \cup Station, NEW i \in DOMAIN wire[e]
               PROVE  wire[e][i].hops <= 2 * Size - 1
    BY DEF NoCircles, Size
  <2>1. PICK B : Near(B, Packets)
    BY DEF HopInv
  <2>2. wire[e][i] \in ToSet(wire[e]) /\ e \in Places
    BY DEF ToSet, Places
  <2>3. Close(B, e, wire[e][i]) /\ wire[e][i].hops \in Nat
    <3>1. wire[e][i] \in CloseAt(B, Packets)[e]
      BY <2>1, <2>2 DEF Near, WireIn
    <3>2. QED
      BY <2>2, <3>1, FrameIs DEF CloseAt, IsFrame
  <2>4. 1 <= Size /\ Size \in Nat /\ Room(B, e) \in Nat
    BY <2>2, SizePositive, SizeIs, RoomIs
  <2>5. QED
    BY <2>3, <2>4 DEF Close
<1>2. QED
  BY <1>1, HopInit, HopInductive, PTL DEF Spec

------------------------------------------------------------------------------
(* One of a set of frames at most: S[e] are those frames on the wire to e.   *)

WireHas(S, wires) == \E e \in Places : ToSet(wires[e]) \cap S[e] # {}

WireOnce(S, wires) ==
  /\ \A e \in Places : Once(S[e], wires[e])
  /\ \A e, d \in Places :
       ToSet(wires[e]) \cap S[e] # {} /\ ToSet(wires[d]) \cap S[d] # {} => e = d

Sends(S, o) == o.frame \in S[Far[o.port]]

OutHas(S, out) == \E m \in DOMAIN out : Sends(S, out[m])

OutOnce(S, out) == \A m, n \in DOMAIN out : Sends(S, out[m]) /\ Sends(S, out[n]) => m = n

LEMMA TransmitOnce ==
  ASSUME NEW ok, NEW wires, WireIn(ok, wires), NEW out, OutIn(ok, out), NEW S,
         WireOnce(S, wires), OutOnce(S, out), ~(WireHas(S, wires) /\ OutHas(S, out))
  PROVE  /\ WireOnce(S, Transmit(wires, out))
         /\ WireHas(S, Transmit(wires, out)) => WireHas(S, wires) \/ OutHas(S, out)
<1> DEFINE Parts(e) == [i \in DOMAIN out |->
                          IF Far[out[i].port] = e THEN <<out[i].frame>> ELSE << >>]
           Added(e) == FlattenSeq(Parts(e))
<1>1. /\ DOMAIN out = 1 .. Len(out) /\ Len(out) \in Nat
      /\ \A i \in 1 .. Len(out) : out[i] \in ToSet(out)
  BY ListElements DEF OutIn
<1>2. ASSUME NEW e \in Places
      PROVE  /\ IsList(Added(e)) /\ Once(S[e], Added(e))
             /\ \A f \in ToSet(Added(e)) :
                  \E i \in DOMAIN out : Far[out[i].port] = e /\ f = out[i].frame
  <2> DEFINE parts == Parts(e)
  <2>1. /\ parts = [i \in 1 .. Len(out) |-> parts[i]]
        /\ \A i \in 1 .. Len(out) :
             parts[i] = IF Far[out[i].port] = e THEN <<out[i].frame>> ELSE << >>
    BY <1>1
  <2> HIDE DEF parts
  <2>2. ASSUME NEW i \in 1 .. Len(out)
        PROVE  /\ IsList(parts[i]) /\ Once(S[e], parts[i])
               /\ \A f \in ToSet(parts[i]) : Far[out[i].port] = e /\ f = out[i].frame
    <3>1. CASE Far[out[i].port] = e
      <4> DEFINE x == out[i].frame
      <4>1. parts[i] = <<x>>
        BY <2>1, <3>1
      <4> HIDE DEF x
      <4>2. IsList(<<x>>) /\ ToSet(<<x>>) = {x} /\ Once(S[e], <<x>>)
        BY SingletonList DEF Once
      <4>3. QED
        BY <3>1, <4>1, <4>2 DEF x
    <3>2. CASE Far[out[i].port] # e
      BY <2>1, <3>2, EmptyList DEF Once
    <3>3. QED
      BY <3>1, <3>2
  <2>3. ASSUME NEW i \in 1 .. Len(out), NEW j \in 1 .. Len(out),
               ToSet(parts[i]) \cap S[e] # {}, ToSet(parts[j]) \cap S[e] # {}
        PROVE  i = j
    <3>1. PICK f \in S[e] : f \in ToSet(parts[i])
      BY <2>3
    <3>2. PICK g \in S[e] : g \in ToSet(parts[j])
      BY <2>3
    <3>3. Sends(S, out[i])
      BY <2>2, <3>1 DEF Sends
    <3>4. Sends(S, out[j])
      BY <2>2, <3>2 DEF Sends
    <3>5. QED
      BY <1>1, <3>3, <3>4 DEF OutOnce
  <2>4. /\ IsList(FlattenSeq(parts))
        /\ \A f \in ToSet(FlattenSeq(parts)) : \E i \in 1 .. Len(out) : f \in ToSet(parts[i])
    BY <1>1, <2>1, <2>2, FlattenList
  <2>5. Once(S[e], FlattenSeq(parts))
    <3> DEFINE T == S[e]
    <3>1. /\ \A i \in 1 .. Len(out) : IsList(parts[i]) /\ Once(T, parts[i])
          /\ \A i, j \in 1 .. Len(out) :
               ToSet(parts[i]) \cap T # {} /\ ToSet(parts[j]) \cap T # {} => i = j
      BY <2>2, <2>3
    <3> HIDE DEF T
    <3>2. Once(T, FlattenSeq(parts))
      BY <1>1, <2>1, <3>1, OnceFlatten
    <3>3. QED
      BY <3>2 DEF T
  <2>6. QED
    BY <1>1, <2>2, <2>4, <2>5 DEF parts
<1>3. ASSUME NEW e \in Places
      PROVE  Transmit(wires, out)[e] = wires[e] \o Added(e) /\ IsList(wires[e])
  BY DEF Transmit, WireIn
<1> HIDE DEF Added
<1>4. ASSUME NEW e \in Places, ToSet(Added(e)) \cap S[e] # {}
      PROVE  \E i \in DOMAIN out : Far[out[i].port] = e /\ Sends(S, out[i])
  BY <1>2, <1>4 DEF Sends
<1>5. ASSUME NEW e \in Places
      PROVE  /\ Once(S[e], Transmit(wires, out)[e])
             /\ ToSet(Transmit(wires, out)[e]) \cap S[e] # {} =>
                  ToSet(wires[e]) \cap S[e] # {} \/ ToSet(Added(e)) \cap S[e] # {}
  <2> DEFINE T == S[e]
             s == wires[e]
             t == Added(e)
  <2>1. IsList(s) /\ IsList(t) /\ Once(T, s) /\ Once(T, t)
    BY <1>2, <1>3 DEF WireOnce
  <2>2. ToSet(s) \cap T = {} \/ ToSet(t) \cap T = {}
    BY <1>4 DEF WireHas, OutHas
  <2> HIDE DEF T, s, t
  <2>3. Once(T, s \o t) /\ ToSet(s \o t) \subseteq ToSet(s) \cup ToSet(t)
    BY <2>1, <2>2, OnceConcat, ConcatList
  <2>4. Transmit(wires, out)[e] = s \o t
    BY <1>3 DEF s, t
  <2>5. QED
    BY <2>3, <2>4 DEF T, s, t
<1>6. ASSUME NEW e \in Places, NEW d \in Places,
             ToSet(Transmit(wires, out)[e]) \cap S[e] # {},
             ToSet(Transmit(wires, out)[d]) \cap S[d] # {}
      PROVE  e = d
  <2>1. CASE WireHas(S, wires)
    <3>1. ~OutHas(S, out)
      BY <2>1
    <3>2. ToSet(wires[e]) \cap S[e] # {} /\ ToSet(wires[d]) \cap S[d] # {}
      BY <1>4, <1>5, <1>6, <3>1 DEF OutHas
    <3>3. QED
      BY <3>2 DEF WireOnce
  <2>2. CASE ~WireHas(S, wires)
    <3>1. ToSet(Added(e)) \cap S[e] # {} /\ ToSet(Added(d)) \cap S[d] # {}
      BY <1>5, <1>6, <2>2 DEF WireHas
    <3>2. QED
      BY <1>4, <3>1 DEF OutOnce
  <2>3. QED
    BY <2>1, <2>2
<1>7. ASSUME WireHas(S, Transmit(wires, out))
      PROVE  WireHas(S, wires) \/ OutHas(S, out)
  <2>1. PICK e \in Places : ToSet(Transmit(wires, out)[e]) \cap S[e] # {}
    BY <1>7 DEF WireHas
  <2>2. QED
    BY <1>4, <1>5, <2>1 DEF WireHas, OutHas
<1>8. QED
  BY <1>5, <1>6, <1>7 DEF WireOnce

LEMMA TakeOnce ==
  ASSUME NEW ok, WireIn(ok, wire), NEW S, WireOnce(S, wire), NEW e \in Places,
         wire[e] # << >>
  PROVE  LET rest == [wire EXCEPT ![e] = Tail(@)] IN
         /\ WireOnce(S, rest)
         /\ WireHas(S, rest) => WireHas(S, wire) /\ Head(wire[e]) \notin S[e]
         /\ Head(wire[e]) \in S[e] => WireHas(S, wire)
<1> DEFINE rest == [wire EXCEPT ![e] = Tail(@)]
<1>1. IsList(wire[e]) /\ DOMAIN wire = Places /\ Once(S[e], wire[e])
  BY DEF WireIn, WireOnce
<1>2. /\ rest[e] = Tail(wire[e]) /\ \A d \in Places \ {e} : rest[d] = wire[d]
      /\ ToSet(Tail(wire[e])) \subseteq ToSet(wire[e]) /\ Head(wire[e]) \in ToSet(wire[e])
      /\ Once(S[e], Tail(wire[e]))
      /\ Head(wire[e]) \in S[e] => ToSet(Tail(wire[e])) \cap S[e] = {}
  <2> DEFINE s == wire[e]
             T == S[e]
  <2>1. IsList(s) /\ s # << >> /\ Once(T, s)
    BY <1>1
  <2>2. rest[e] = Tail(s) /\ \A d \in Places \ {e} : rest[d] = wire[d]
    BY <1>1
  <2> HIDE DEF s, T, rest
  <2>3. /\ Once(T, Tail(s)) /\ (Head(s) \in T => ToSet(Tail(s)) \cap T = {})
        /\ ToSet(Tail(s)) \subseteq ToSet(s) /\ Head(s) \in ToSet(s)
    BY <2>1, OnceTail, TailList
  <2>4. QED
    BY <2>2, <2>3 DEF s, T
<1> HIDE DEF rest
<1>3. ASSUME NEW d \in Places, ToSet(rest[d]) \cap S[d] # {}
      PROVE  ToSet(wire[d]) \cap S[d] # {}
  BY <1>2, <1>3
<1>4. WireOnce(S, rest)
  <2>1. \A d \in Places : Once(S[d], rest[d])
    BY <1>2 DEF WireOnce
  <2>2. QED
    BY <1>3, <2>1 DEF WireOnce
<1>5. ASSUME WireHas(S, rest)
      PROVE  WireHas(S, wire) /\ Head(wire[e]) \notin S[e]
  <2>1. PICK d \in Places : ToSet(rest[d]) \cap S[d] # {}
    BY <1>5 DEF WireHas
  <2>2. ToSet(wire[d]) \cap S[d] # {}
    BY <1>3, <2>1
  <2>3. Head(wire[e]) \in S[e] => d = e
    BY <1>2, <2>2 DEF WireOnce
  <2>4. QED
    BY <1>2, <2>1, <2>2, <2>3 DEF WireHas
<1>6. Head(wire[e]) \in S[e] => WireHas(S, wire)
  BY <1>2 DEF WireHas
<1>7. QED
  BY <1>4, <1>5, <1>6 DEF rest

LEMMA AppendOnce ==
  ASSUME NEW ok, NEW wires, WireIn(ok, wires), NEW S, WireOnce(S, wires), NEW e \in Places,
         NEW f, ~(f \in S[e] /\ WireHas(S, wires))
  PROVE  LET more == [wires EXCEPT ![e] = Append(@, f)] IN
         /\ WireOnce(S, more)
         /\ WireHas(S, more) => WireHas(S, wires) \/ f \in S[e]
<1> DEFINE more == [wires EXCEPT ![e] = Append(@, f)]
<1>1. /\ IsList(wires[e]) /\ Once(S[e], wires[e])
      /\ more[e] = Append(wires[e], f) /\ \A d \in Places \ {e} : more[d] = wires[d]
  BY DEF WireIn, WireOnce
<1> HIDE DEF more
<1>2. /\ Once(S[e], more[e])
      /\ ToSet(more[e]) \subseteq ToSet(wires[e]) \cup {f}
  <2> DEFINE s == wires[e]
             T == S[e]
             t == <<f>>
  <2>1. IsList(s) /\ Once(T, s) /\ IsList(t) /\ ToSet(t) = {f} /\ Once(T, t)
    BY <1>1, SingletonList DEF Once
  <2>2. ToSet(s) \cap T = {} \/ ToSet(t) \cap T = {}
    BY <2>1 DEF WireHas
  <2>3. more[e] = Append(s, f)
    BY <1>1
  <2>4. Append(s, f) = s \o <<f>>
    BY <2>1, AppendIsConcat DEF IsList
  <2> HIDE DEF s, T, t
  <2>5. Once(T, s \o t) /\ ToSet(s \o t) \subseteq ToSet(s) \cup ToSet(t)
    BY <2>1, <2>2, OnceConcat, ConcatList
  <2>6. QED
    BY <2>1, <2>3, <2>4, <2>5 DEF s, T, t
<1>3. ASSUME NEW d \in Places, ToSet(more[d]) \cap S[d] # {}
      PROVE  ToSet(wires[d]) \cap S[d] # {} \/ (d = e /\ f \in S[e])
  BY <1>1, <1>2, <1>3
<1>4. WireOnce(S, more)
  <2>1. \A d \in Places : Once(S[d], more[d])
    BY <1>1, <1>2 DEF WireOnce
  <2>2. ASSUME NEW c \in Places, NEW d \in Places, ToSet(more[c]) \cap S[c] # {},
               ToSet(more[d]) \cap S[d] # {}
        PROVE  c = d
    BY <1>3, <2>2 DEF WireOnce, WireHas
  <2>3. QED
    BY <2>1, <2>2 DEF WireOnce
<1>5. WireHas(S, more) => WireHas(S, wires) \/ f \in S[e]
  BY <1>3 DEF WireHas
<1>6. QED
  BY <1>4, <1>5 DEF more

LEMMA BothOnce ==
  ASSUME NEW S, NEW a, NEW b, IsList(a), IsList(b), OutOnce(S, a), OutOnce(S, b),
         ~(OutHas(S, a) /\ OutHas(S, b))
  PROVE  OutOnce(S, a \o b) /\ (OutHas(S, a \o b) => OutHas(S, a) \/ OutHas(S, b))
<1> DEFINE T == {o \in ToSet(a) \cup ToSet(b) : Sends(S, o)}
<1>1. IsList(a \o b) /\ ToSet(a \o b) \subseteq ToSet(a) \cup ToSet(b)
  BY ConcatList
<1>2. /\ \A m \in DOMAIN a : a[m] \in ToSet(a)
      /\ \A m \in DOMAIN b : b[m] \in ToSet(b)
      /\ \A m \in DOMAIN (a \o b) : (a \o b)[m] \in ToSet(a \o b)
  BY DEF ToSet
<1>3. Once(T, a) /\ Once(T, b)
  BY DEF Once, OutOnce
<1>4. /\ (ToSet(a) \cap T # {} => OutHas(S, a))
      /\ (ToSet(b) \cap T # {} => OutHas(S, b))
  BY DEF OutHas, ToSet
<1>5. Once(T, a \o b)
  <2> HIDE DEF T
  <2>1. QED
    BY <1>3, <1>4, OnceConcat
<1>6. OutOnce(S, a \o b)
  BY <1>1, <1>2, <1>5 DEF Once, OutOnce
<1>7. OutHas(S, a \o b) => OutHas(S, a) \/ OutHas(S, b)
  BY <1>1, <1>2 DEF OutHas, ToSet
<1>8. QED
  BY <1>6, <1>7

------------------------------------------------------------------------------
(* A packet is one thing: one frame that its receiver or the router will     *)
(* still get, or one entry of a queue.                                       *)

\* The packets i that wait, other than in a report about them.
Claimants(i, list) == {x \in ToSet(list) : x.frame.id = i /\ x.frame.kind # "error"}

QueueHas(i, arps) == \E w \in Switch, s \in Station : Claimants(i, arps[w][s].waiting) # {}

QueueOnce(i, arps) ==
  /\ \A w \in Switch, s \in Station :
       Once(Claimants(i, arps[w][s].waiting), arps[w][s].waiting)
  /\ \A w, v \in Switch, s, u \in Station :
       Claimants(i, arps[w][s].waiting) # {} /\ Claimants(i, arps[v][u].waiting) # {}
         => w = v /\ s = u

LEMMA QueueChange ==
  ASSUME NEW ids, ArpSound(ids, arp), NEW i, QueueOnce(i, arp), NEW w \in Switch,
         NEW hop \in Station, NEW x, arp' = [arp EXCEPT ![w][hop] = x],
         Once(Claimants(i, x.waiting), x.waiting),
         Claimants(i, x.waiting) # {} =>
           Claimants(i, arp[w][hop].waiting) # {} \/ ~QueueHas(i, arp)
  PROVE  /\ QueueOnce(i, arp')
         /\ QueueHas(i, arp') =>
              \/ Claimants(i, x.waiting) # {}
              \/ QueueHas(i, arp) /\ Claimants(i, arp[w][hop].waiting) = {}
<1> DEFINE Has(v, u) == Claimants(i, arp[v][u].waiting) # {}
<1>1. \A v \in Switch, u \in Station :
        arp'[v][u] = IF v = w /\ u = hop THEN x ELSE arp[v][u]
  BY DEF ArpSound
<1>2. \A v, y \in Switch, u, z \in Station : Has(v, u) /\ Has(y, z) => v = y /\ u = z
  BY DEF QueueOnce
<1>3. \A v \in Switch, u \in Station : Has(v, u) => QueueHas(i, arp)
  BY DEF QueueHas
<1>4. \A v \in Switch, u \in Station :
        Claimants(i, arp'[v][u].waiting) # {} =>
          IF v = w /\ u = hop THEN Claimants(i, x.waiting) # {} ELSE Has(v, u)
  BY <1>1
<1>5. \A v \in Switch, u \in Station :
        Once(Claimants(i, arp'[v][u].waiting), arp'[v][u].waiting)
  BY <1>1 DEF QueueOnce
<1> HIDE DEF Has
<1>6. \A v, y \in Switch, u, z \in Station :
        Claimants(i, arp'[v][u].waiting) # {} /\ Claimants(i, arp'[y][z].waiting) # {}
          => v = y /\ u = z
  <2>1. Claimants(i, x.waiting) # {} => Has(w, hop) \/ ~QueueHas(i, arp)
    BY DEF Has
  <2>2. QED
    BY <1>2, <1>3, <1>4, <2>1
<1>7. ASSUME QueueHas(i, arp'), Claimants(i, x.waiting) = {}
      PROVE  QueueHas(i, arp) /\ ~Has(w, hop)
  <2>1. PICK v \in Switch, u \in Station : Claimants(i, arp'[v][u].waiting) # {}
    BY <1>7 DEF QueueHas
  <2>2. Has(v, u) /\ ~(v = w /\ u = hop)
    BY <1>4, <1>7, <2>1
  <2>3. QED
    BY <1>2, <1>3, <2>2
<1>8. QED
  BY <1>5, <1>6, <1>7 DEF QueueOnce, Has

\* Whoever a frame is for.
Goal(f) ==
  IF f.kind = "request"
  THEN IF f.to \in Station THEN {f.to}
       ELSE {w \in Switch : \E v \in Svi[w] : f.to = <<w, v>>}
  ELSE IF f.dst \in Station THEN {f.dst} ELSE Routers

Claims(B, ids, i) ==
  [e \in Places |-> {f \in FrameOf(ids) : /\ f.id = i /\ f.kind # "error"
                                          /\ Goal(f) \cap B[e] # {}}]

\* Packet i is in one place at most; it is somewhere.
Lone(B, ids, i) ==
  /\ WireOnce(Claims(B, ids, i), wire) /\ QueueOnce(i, arp)
  /\ ~(WireHas(Claims(B, ids, i), wire) /\ QueueHas(i, arp))

Live(B, ids, i) == WireHas(Claims(B, ids, i), wire) \/ QueueHas(i, arp)

LEMMA GoalOne ==
  ASSUME OneRouter, NEW f, NEW x \in Goal(f), NEW y \in Goal(f)
  PROVE  x = y
BY DEF Goal, OneRouter, Routers

LEMMA ClaimIs ==
  ASSUME NEW B, NEW ids, NEW i, NEW e \in Places, NEW f
  PROVE  f \in Claims(B, ids, i)[e] <=>
           f \in FrameOf(ids) /\ f.id = i /\ f.kind # "error" /\ Goal(f) \cap B[e] # {}
BY DEF Claims

\* A relayed frame is for the same one.
LEMMA PreparedGoal ==
  ASSUME NEW q, NEW vlan, NEW f, DOMAIN f = Fields
  PROVE  LET g == Prepared(q, f, vlan) IN
         Goal(g) = Goal(f) /\ g.id = f.id /\ g.kind = f.kind
BY PreparedIs DEF Goal

\* There is a port of p's switch beyond which whoever f is for lies.
LeavesFor(B, p, f, routed) ==
  \E q \in Forwarding : /\ Owner[q] = Owner[p] /\ MayReturn(p, q, routed)
                         /\ Goal(f) \cap B[Far[q]] # {}

\* Copies of one frame that leave by different ports: one of them at most gets
\* where it should.
LEMMA CopiesOnce ==
  ASSUME OneRouter, NEW B, Separates(B, Forwarding), NEW ids, NEW i, NEW p, NEW f,
         DOMAIN f = Fields, NEW out, NEW vlan, NEW routed, Spreads(out, p, f, vlan, routed)
  PROVE  /\ OutOnce(Claims(B, ids, i), out)
         /\ OutHas(Claims(B, ids, i), out) =>
              f.id = i /\ f.kind # "error" /\ LeavesFor(B, p, f, routed)
<1> DEFINE S == Claims(B, ids, i)
<1>1. ASSUME NEW m \in DOMAIN out, Sends(S, out[m])
      PROVE  /\ out[m].port \in Forwarding /\ Owner[out[m].port] = Owner[p]
             /\ MayReturn(p, out[m].port, routed)
             /\ f.id = i /\ f.kind # "error" /\ Goal(f) \cap B[Far[out[m].port]] # {}
  <2>1. out[m] \in ToSet(out)
    BY DEF ToSet
  <2>2. PICK q \in Ports(Owner[p]) : CanForward(q) /\ MayReturn(p, q, routed)
                                     /\ out[m] = Sending(q, Prepared(q, f, vlan))
    BY <2>1 DEF Spreads
  <2>3. /\ out[m].port = q /\ out[m].frame = Prepared(q, f, vlan) /\ q \in Forwarding
        /\ Owner[q] = Owner[p] /\ Far[q] \in Places
    BY <2>2, SwitchAssumption DEF Sending, Ports, Forwarding, Places
  <2> DEFINE g == Prepared(q, f, vlan)
  <2>4. g.id = i /\ g.kind # "error" /\ Goal(g) \cap B[Far[q]] # {}
    BY <1>1, <2>3, ClaimIs DEF Sends
  <2>5. Goal(g) = Goal(f) /\ g.id = f.id /\ g.kind = f.kind
    BY PreparedGoal
  <2> HIDE DEF g
  <2>6. QED
    BY <2>2, <2>3, <2>4, <2>5
<1>2. ASSUME NEW m \in DOMAIN out, NEW n \in DOMAIN out, Sends(S, out[m]), Sends(S, out[n])
      PROVE  m = n
  <2> DEFINE q == out[m].port
             r == out[n].port
  <2>1. /\ q \in Forwarding /\ r \in Forwarding /\ Owner[q] = Owner[r]
        /\ Goal(f) \cap B[Far[q]] # {} /\ Goal(f) \cap B[Far[r]] # {}
    BY <1>1, <1>2
  <2>2. PICK x \in Goal(f), y \in Goal(f) : x \in B[Far[q]] /\ y \in B[Far[r]]
    BY <2>1
  <2>3. x = y
    BY <2>2, GoalOne
  <2> HIDE DEF q, r
  <2>4. q = r
    BY <2>1, <2>2, <2>3 DEF Separates
  <2>5. QED
    BY <2>4 DEF q, r, Spreads
<1>3. OutOnce(S, out)
  BY <1>2 DEF OutOnce
<1>4. ASSUME OutHas(S, out)
      PROVE  f.id = i /\ f.kind # "error" /\ LeavesFor(B, p, f, routed)
  <2>1. PICK m \in DOMAIN out : Sends(S, out[m])
    BY <1>4 DEF OutHas
  <2> HIDE DEF S
  <2>2. QED
    BY <1>1, <2>1 DEF LeavesFor
<1>5. QED
  BY <1>3, <1>4

\* A frame is taken from the wire to e, and what comes of it is sent or queued:
\* packet i goes on only if that frame carried it, or if it was queued before.
LEMMA MoveOnce ==
  ASSUME NEW ok, WireIn(ok, wire), NEW B, NEW ids, NEW i, Lone(B, ids, i),
         NEW e \in Places, wire[e] # << >>, NEW out,
         LET S == Claims(B, ids, i)
             rest == [wire EXCEPT ![e] = Tail(@)]
             its == Head(wire[e]) \in S[e]
         IN /\ \/ wire' = rest
               \/ OutIn(ok, out) /\ OutOnce(S, out) /\ wire' = Transmit(rest, out)
            /\ QueueOnce(i, arp')
            /\ OutHas(S, out) => its \/ (QueueHas(i, arp) /\ ~QueueHas(i, arp'))
            /\ QueueHas(i, arp') => QueueHas(i, arp) \/ (its /\ ~OutHas(S, out))
  PROVE  Lone(B, ids, i)' /\ (Live(B, ids, i)' => Live(B, ids, i))
<1> DEFINE S == Claims(B, ids, i)
           rest == [wire EXCEPT ![e] = Tail(@)]
           its == Head(wire[e]) \in S[e]
<1>1. /\ WireOnce(S, rest) /\ WireIn(ok, rest)
      /\ WireHas(S, rest) => WireHas(S, wire) /\ ~its
      /\ its => WireHas(S, wire)
      /\ ~(WireHas(S, wire) /\ QueueHas(i, arp))
  BY TakeOnce, TakingIn DEF Lone
<1>2. /\ \/ wire' = rest
         \/ OutIn(ok, out) /\ OutOnce(S, out) /\ wire' = Transmit(rest, out)
      /\ QueueOnce(i, arp')
      /\ OutHas(S, out) => its \/ (QueueHas(i, arp) /\ ~QueueHas(i, arp'))
      /\ QueueHas(i, arp') => QueueHas(i, arp) \/ (its /\ ~OutHas(S, out))
  OBVIOUS
<1>3. Claims(B, ids, i)' = S
  BY DEF Claims, FrameOf, Goal, Routers
<1> HIDE DEF S, rest, its
<1>4. ~(WireHas(S, rest) /\ OutHas(S, out))
  BY <1>1, <1>2
<1>5. WireOnce(S, wire') /\ (WireHas(S, wire') => WireHas(S, rest) \/ OutHas(S, out))
  <2>1. CASE wire' = rest
    BY <1>1, <2>1
  <2>2. CASE OutIn(ok, out) /\ OutOnce(S, out) /\ wire' = Transmit(rest, out)
    BY <1>1, <1>4, <2>2, TransmitOnce
  <2>3. QED
    BY <1>2, <2>1, <2>2
<1>6. ~(WireHas(S, wire') /\ QueueHas(i, arp'))
  BY <1>1, <1>2, <1>5
<1>7. WireHas(S, wire') \/ QueueHas(i, arp') => WireHas(S, wire) \/ QueueHas(i, arp)
  BY <1>1, <1>2, <1>5
<1>8. Lone(B, ids, i)'
  BY <1>2, <1>3, <1>5, <1>6 DEF Lone
<1>9. Live(B, ids, i)' => Live(B, ids, i)
  BY <1>3, <1>7 DEF Live, S
<1>10. QED
  BY <1>8, <1>9

\* Nothing but ARP for the switch itself is in what it asks.
LEMMA AskNone ==
  ASSUME NEW B, NEW ids \in SUBSET Nat, NEW i \in ids, NEW w \in Switch, NEW hop \in Station,
         NEW by \in Port \cup {None}
  PROVE  /\ OutOnce(Claims(B, ids, i), Ask(w, hop, by))
         /\ ~OutHas(Claims(B, ids, i), Ask(w, hop, by))
<1> DEFINE S == Claims(B, ids, i)
           vlan == HostVlan[hop]
           out == Ask(w, hop, by)
<1>1. i # None
  BY SwitchAssumption
<1>2. ASSUME NEW o \in ToSet(out)
      PROVE  o.frame.id = None /\ o.port \in Port
  <2>1. CASE by # None /\ o = Sending(by, Request(by, None, hop, vlan))
    BY <2>1 DEF Sending, Request
  <2>2. ASSUME NEW q \in Ports(w), o = Sending(q, Prepared(q, Request(q, <<w, vlan>>, hop, vlan), vlan))
        PROVE  o.frame.id = None /\ o.port \in Port
    <3> DEFINE f == Request(q, <<w, vlan>>, hop, vlan)
    <3>1. DOMAIN f = Fields /\ f.id = None
      BY DEF Request, Fields
    <3> HIDE DEF f
    <3>2. Prepared(q, f, vlan).id = None
      BY <3>1, PreparedIs
    <3>3. QED
      BY <2>2, <3>2 DEF Sending, Ports, f
  <2>3. QED
    BY <1>2, <2>1, <2>2, AskSends
<1>3. ASSUME NEW m \in DOMAIN out, Sends(S, out[m])
      PROVE  FALSE
  <2>1. out[m] \in ToSet(out)
    BY DEF ToSet
  <2>2. out[m].frame.id = None /\ Far[out[m].port] \in Places
    BY <1>2, <2>1, SwitchAssumption DEF Places
  <2>3. QED
    BY <1>1, <1>3, <2>2, ClaimIs DEF Sends
<1>4. QED
  BY <1>3 DEF OutOnce, OutHas

\* A switched or flooded frame: the copies' claims are the frame's.
LEMMA SpreadOnce ==
  ASSUME OneRouter, NEW B, Separates(B, Forwarding), NEW ids, NEW i, NEW p \in Port, CanForward(p),
         NEW f \in FrameOf(ids), NEW out, NEW vlan, Spreads(out, p, f, vlan, FALSE)
  PROVE  /\ OutOnce(Claims(B, ids, i), out)
         /\ OutHas(Claims(B, ids, i), out) =>
              f \in Claims(B, ids, i)[p] /\ Goal(f) \cap (B[p] \ {Owner[p]}) # {}
<1>1. DOMAIN f = Fields
  BY FrameIs DEF IsFrame
<1>2. OutOnce(Claims(B, ids, i), out)
  BY <1>1, CopiesOnce
<1>3. ASSUME OutHas(Claims(B, ids, i), out)
      PROVE  f \in Claims(B, ids, i)[p] /\ Goal(f) \cap (B[p] \ {Owner[p]}) # {}
  <2>1. f.id = i /\ f.kind # "error" /\ LeavesFor(B, p, f, FALSE)
    BY <1>1, <1>3, CopiesOnce
  <2>2. PICK q \in Forwarding : Owner[q] = Owner[p] /\ q # p /\ Goal(f) \cap B[Far[q]] # {}
    BY <2>1 DEF LeavesFor, MayReturn
  <2>3. p \in Forwarding /\ p \in Places
    BY DEF Forwarding, Places
  <2>4. B[Far[q]] \subseteq B[p] /\ Owner[p] \notin B[Far[q]]
    BY <2>2, <2>3 DEF Separates
  <2> DEFINE goal == Goal(f)
  <2>5. goal \cap B[p] # {} /\ goal \cap (B[p] \ {Owner[p]}) # {}
    <3> HIDE DEF goal
    <3>1. goal \cap B[Far[q]] # {}
      BY <2>2 DEF goal
    <3>2. QED
      BY <2>4, <3>1
  <2>6. f \in Claims(B, ids, i)[p]
    BY <2>1, <2>3, <2>5, ClaimIs
  <2>7. QED
    BY <2>5, <2>6
<1>4. QED
  BY <1>2, <1>3

\* A packet that waited leaves as one frame for the station that answered.
LEMMA ReleasedOnce ==
  ASSUME OneRouter, NEW B, Separates(B, Forwarding), NEW ids, NEW i, NEW w, NEW hop \in Station,
         NEW p \in Port, NEW table, NEW x, SoundWait(ids, w, hop, x)
  PROVE  /\ OutOnce(Claims(B, ids, i), Released(table, x, hop, p))
         /\ OutHas(Claims(B, ids, i), Released(table, x, hop, p)) =>
              x.frame.id = i /\ x.frame.kind # "error"
<1> DEFINE S == Claims(B, ids, i)
           f == Given(x, hop, p)
           out == Released(table, x, hop, p)
<1>1. DOMAIN f = Fields /\ f.id = x.frame.id /\ f.kind = x.frame.kind
  BY DEF SoundWait, Given, Fields
<1>2. CASE x.port = None
  <2>1. out = <<Sending(p, f)>> /\ f.kind = "error" /\ Far[p] \in Places
    BY <1>1, <1>2, SwitchAssumption DEF Released, SoundWait, Places
  <2> HIDE DEF out, f
  <2>2. DOMAIN out = {1} /\ out[1].frame = f /\ out[1].port = p
    BY <2>1 DEF Sending
  <2>3. ~Sends(S, out[1])
    BY <2>1, <2>2, ClaimIs DEF Sends
  <2> HIDE DEF S
  <2>4. OutOnce(S, out) /\ ~OutHas(S, out)
    BY <2>2, <2>3 DEF OutOnce, OutHas
  <2>5. QED
    BY <2>4 DEF out, S
<1>3. CASE x.port # None
  <2>1. Spreads(out, x.port, f, f.vlan, TRUE)
    BY <1>3, ForwardSpreads DEF Released
  <2> DEFINE vlan == f.vlan
             port == x.port
             routed == TRUE
  <2>2. Spreads(out, port, f, vlan, routed)
    BY <2>1
  <2> HIDE DEF out, f, vlan, port, routed
  <2>3. OutOnce(S, out)
    BY <1>1, <2>2, CopiesOnce
  <2>4. OutHas(S, out) => f.id = i /\ f.kind # "error"
    BY <1>1, <2>2, CopiesOnce
  <2> HIDE DEF S
  <2>5. OutOnce(S, out) /\ (OutHas(S, out) => x.frame.id = i /\ x.frame.kind # "error")
    BY <1>1, <2>3, <2>4
  <2>6. QED
    BY <2>5 DEF out, S
<1>4. QED
  BY <1>2, <1>3

LEMMA ReleasingOnce ==
  ASSUME OneRouter, NEW B, Separates(B, Forwarding), NEW ids, ArpSound(ids, arp), NEW i,
         QueueOnce(i, arp), NEW w \in Switch, NEW hop \in Station, NEW p \in Port, NEW table
  PROVE  /\ OutOnce(Claims(B, ids, i), Releasing(table, w, p, hop))
         /\ OutHas(Claims(B, ids, i), Releasing(table, w, p, hop)) =>
              Claimants(i, arp[w][hop].waiting) # {}
<1> DEFINE S == Claims(B, ids, i)
           waiting == arp[w][hop].waiting
           outs == [n \in 1 .. Len(waiting) |-> Released(table, waiting[n], hop, p)]
           all == FlattenSeq(outs)
           T == {o \in ToSet(all) : Sends(S, o)}
           N == Len(waiting)
<1>1. IsList(waiting) /\ Once(Claimants(i, waiting), waiting)
      /\ \A x \in ToSet(waiting) : SoundWait(ids, w, hop, x)
  BY DEF ArpSound, EntrySound, QueueOnce
<1>2. /\ Releasing(table, w, p, hop) = all /\ IsList(all)
      /\ \A o \in ToSet(all) : \E x \in ToSet(waiting) : o \in ToSet(Released(table, x, hop, p))
  BY <1>1, ReleasingIs
<1>3. /\ N \in Nat /\ outs = [n \in 1 .. N |-> outs[n]]
      /\ DOMAIN waiting = 1 .. N
      /\ \A n \in 1 .. N : outs[n] = Released(table, waiting[n], hop, p)
                           /\ waiting[n] \in ToSet(waiting)
  BY <1>1, ListElements
<1> HIDE DEF outs, N, waiting
<1>4. ASSUME NEW x \in ToSet(waiting), NEW o \in ToSet(Released(table, x, hop, p)), Sends(S, o)
      PROVE  x \in Claimants(i, waiting)
  <2> DEFINE out == Released(table, x, hop, p)
  <2>1. PICK m \in DOMAIN out : out[m] = o
    BY DEF ToSet
  <2>2. OutHas(S, out)
    BY <1>4, <2>1 DEF OutHas
  <2>3. SoundWait(ids, w, hop, x)
    BY <1>1
  <2> HIDE DEF out
  <2>4. x.frame.id = i /\ x.frame.kind # "error"
    BY <2>2, <2>3, ReleasedOnce DEF out
  <2>5. QED
    BY <2>4 DEF Claimants
<1>5. ASSUME NEW n \in 1 .. N
      PROVE  /\ IsList(outs[n]) /\ Once(T, outs[n])
             /\ ToSet(outs[n]) \cap T # {} => waiting[n] \in Claimants(i, waiting)
  <2> DEFINE out == Released(table, waiting[n], hop, p)
  <2>1. outs[n] = out /\ waiting[n] \in ToSet(waiting)
    BY <1>3
  <2>2. IsList(out) /\ OutOnce(S, out)
    BY <1>1, <2>1, ReleasedOnce, ReleasedList
  <2>3. ToSet(out) \cap T # {} => waiting[n] \in Claimants(i, waiting)
    BY <1>4, <2>1
  <2> HIDE DEF out
  <2>4. Once(T, out)
    BY <2>2 DEF Once, OutOnce
  <2>5. QED
    BY <2>1, <2>2, <2>3, <2>4
<1>6. ASSUME NEW n \in 1 .. N, NEW k \in 1 .. N, ToSet(outs[n]) \cap T # {},
             ToSet(outs[k]) \cap T # {}
      PROVE  n = k
  <2>1. waiting[n] \in Claimants(i, waiting) /\ waiting[k] \in Claimants(i, waiting)
    BY <1>5, <1>6
  <2>2. QED
    BY <1>1, <1>3, <2>1 DEF Once
<1>7. Once(T, all)
  <2> HIDE DEF T
  <2>1. QED
    BY <1>3, <1>5, <1>6, OnceFlatten
<1>8. \A m \in DOMAIN all : all[m] \in ToSet(all)
  BY DEF ToSet
<1> HIDE DEF all
<1>9. OutOnce(S, all)
  BY <1>7, <1>8 DEF OutOnce, Once
<1>10. ASSUME OutHas(S, all)
       PROVE  Claimants(i, waiting) # {}
  <2>1. PICK m \in DOMAIN all : Sends(S, all[m])
    BY <1>10 DEF OutHas
  <2>2. PICK x \in ToSet(waiting) : all[m] \in ToSet(Released(table, x, hop, p))
    BY <1>2, <1>8
  <2>3. QED
    BY <1>4, <2>1, <2>2
<1>11. QED
  BY <1>2, <1>9, <1>10 DEF waiting

LEMMA ArrivedOnce ==
  ASSUME NEW ids, Flow(ids), NEW B, NEW i, Lone(B, ids, i), NEW p \in Port, wire[p] # << >>,
         NEW S, S = Claims(B, ids, i), NEW out,
         \/ wire' = Taken(p)
         \/ /\ OutIn(SoundAt(ids), out) /\ OutOnce(S, out)
            /\ wire' = Transmit(Taken(p), out),
         QueueOnce(i, arp'),
         OutHas(S, out) => Arrived(p) \in S[p] \/ (QueueHas(i, arp) /\ ~QueueHas(i, arp')),
         QueueHas(i, arp') => QueueHas(i, arp) \/ (Arrived(p) \in S[p] /\ ~OutHas(S, out))
  PROVE  Lone(B, ids, i)' /\ (Live(B, ids, i)' => Live(B, ids, i))
<1>1. p \in Places /\ WireIn(SoundAt(ids), wire)
  BY DEF Places, Flow
<1>2. Taken(p) = [wire EXCEPT ![p] = Tail(@)] /\ Arrived(p) = Head(wire[p])
  BY DEF Taken, Arrived
<1> DEFINE ok == SoundAt(ids)
<1>3. WireIn(ok, wire)
  BY <1>1
<1>4. \/ wire' = Taken(p)
      \/ OutIn(ok, out) /\ OutOnce(S, out) /\ wire' = Transmit(Taken(p), out)
  OBVIOUS
<1> HIDE DEF ok
<1>5. QED
  BY <1>1, <1>2, <1>3, <1>4, MoveOnce

LEMMA ArrivedClaims ==
  ASSUME NEW ids, Flow(ids), NEW B, NEW i, Lone(B, ids, i), NEW p \in Port, wire[p] # << >>,
         Arrived(p) \in Claims(B, ids, i)[p]
  PROVE  WireHas(Claims(B, ids, i), wire) /\ ~QueueHas(i, arp)
<1>1. p \in Places /\ IsList(wire[p])
  BY DEF Places, Flow, WireIn
<1>2. Arrived(p) \in ToSet(wire[p])
  BY <1>1, TailList DEF Arrived
<1>3. QED
  BY <1>1, <1>2 DEF WireHas, Lone

LEMMA PassOnce ==
  ASSUME NEW ids, Flow(ids), NEW B, NEW i, Lone(B, ids, i), NEW p \in Port, wire[p] # << >>,
         wire' = Taken(p), arp' = arp
  PROVE  Lone(B, ids, i)' /\ (Live(B, ids, i)' => Live(B, ids, i))
<1> DEFINE S == Claims(B, ids, i)
<1>1. QueueOnce(i, arp) /\ ~OutHas(S, << >>)
  BY DEF Lone, OutHas
<1>2. S = Claims(B, ids, i)
  OBVIOUS
<1> HIDE DEF S
<1>3. QED
  BY <1>1, <1>2, ArrivedOnce

LEMMA SwitchFrameOnce ==
  ASSUME OneRouter, NEW ids, Flow(ids), NEW B, Separates(B, Forwarding), NEW i, Lone(B, ids, i),
         NEW p \in Port, SwitchFrame(p)
  PROVE  Lone(B, ids, i)' /\ (Live(B, ids, i)' => Live(B, ids, i))
<1> DEFINE f == Arrived(p)
           vlan == VlanOf(p)
           out == Forward(Learned(p), p, f, vlan, FALSE)
           S == Claims(B, ids, i)
<1>1. /\ wire[p] # << >> /\ CanForward(p) /\ arp' = arp
      /\ wire' = Transmit(Taken(p), out)
  BY DEF SwitchFrame, Admitted
<1>2. f \in FrameOf(ids) /\ Sound(ids, f)
  BY <1>1, TakenSound DEF Flow
<1>3. Spreads(out, p, f, vlan, FALSE)
  BY ForwardSpreads
<1> HIDE DEF f, vlan, out
<1>4. OutIn(SoundAt(ids), out)
  BY <1>2, <1>3, SpreadSound
<1>5. OutOnce(S, out) /\ (OutHas(S, out) => f \in S[p])
  BY <1>1, <1>2, <1>3, SpreadOnce
<1>6. QueueOnce(i, arp) /\ S = Claims(B, ids, i)
  BY DEF Lone
<1> HIDE DEF S
<1>7. OutHas(S, out) => Arrived(p) \in S[p]
  BY <1>5 DEF f
<1>8. QED
  BY <1>1, <1>4, <1>5, <1>6, <1>7, ArrivedOnce

\* A packet is put in front of those that wait.
LEMMA PrependOnce ==
  ASSUME NEW i, NEW list, IsList(list), Once(Claimants(i, list), list), NEW entry,
         entry.frame.id = i /\ entry.frame.kind # "error" => Claimants(i, list) = {}
  PROVE  LET more == <<entry>> \o list IN
         /\ Once(Claimants(i, more), more)
         /\ Claimants(i, more) # {} =>
              \/ Claimants(i, list) # {}
              \/ entry.frame.id = i /\ entry.frame.kind # "error"
<1> DEFINE one == <<entry>>
           more == one \o list
           T == {x \in ToSet(list) \cup {entry} : x.frame.id = i /\ x.frame.kind # "error"}
<1>1. IsList(one) /\ ToSet(one) = {entry} /\ DOMAIN one = {1}
  BY SingletonList
<1>2. Once(T, one)
  BY <1>1 DEF Once
<1>3. Once(T, list) /\ ToSet(list) \cap T = Claimants(i, list)
  <2>1. \A m \in DOMAIN list : list[m] \in ToSet(list)
    BY DEF ToSet
  <2>2. QED
    BY <2>1 DEF Once, Claimants
<1>4. ToSet(one) \cap T = {} \/ ToSet(list) \cap T = {}
  BY <1>1, <1>3
<1> HIDE DEF one
<1>5. Once(T, more) /\ ToSet(more) \subseteq ToSet(one) \cup ToSet(list)
  <2> HIDE DEF T
  <2>1. QED
    BY <1>1, <1>2, <1>3, <1>4, OnceConcat, ConcatList
<1> HIDE DEF more
<1>6. Claimants(i, more) \subseteq T
  BY <1>1, <1>5 DEF Claimants
<1>7. Once(Claimants(i, more), more)
  BY <1>5, <1>6 DEF Once
<1>8. Claimants(i, more) # {} =>
              \/ Claimants(i, list) # {}
              \/ entry.frame.id = i /\ entry.frame.kind # "error"
  BY <1>6 DEF Claimants
<1>9. QED
  BY <1>7, <1>8 DEF more, one

\* What arrived at p is sent on, or it is queued and the switch asks.
LEMMA ResolveOnce ==
  ASSUME NEW ids, Flow(ids), NEW B, NEW i \in ids, Lone(B, ids, i), NEW p \in Port,
         wire[p] # << >>, NEW hop \in Station, NEW entry, NEW by \in Port \cup {None},
         NEW out, arp[Owner[p]][hop].at # None => OutIn(SoundAt(ids), out),
         NEW S, S = Claims(B, ids, i), OutOnce(S, out), OutHas(S, out) => Arrived(p) \in S[p],
         entry.frame.id = i /\ entry.frame.kind # "error" => Arrived(p) \in S[p],
         ResolveOrQueue(p, hop, entry, by, out)
  PROVE  Lone(B, ids, i)' /\ (Live(B, ids, i)' => Live(B, ids, i))
<1> DEFINE w == Owner[p]
           known == arp[w][hop]
           its == Arrived(p) \in S[p]
<1>1. /\ w \in Switch /\ EntrySound(ids, w, hop, known) /\ ids \in SUBSET Nat
      /\ ArpSound(ids, arp) /\ QueueOnce(i, arp)
  BY SwitchAssumption DEF Flow, ArpSound, Lone
<1>2. its => ~QueueHas(i, arp)
  BY ArrivedClaims
<1>3. CASE known.at # None
  <2>1. wire' = Transmit(Taken(p), out) /\ arp' = arp /\ OutIn(SoundAt(ids), out)
    BY <1>3 DEF ResolveOrQueue
  <2>2. QED
    BY <1>1, <2>1, ArrivedOnce
<1>4. CASE known.at = None
  <2> DEFINE list == known.waiting
             ask == Ask(w, hop, by)
  <2>1. IsList(list) /\ Once(Claimants(i, list), list)
        /\ (Claimants(i, list) # {} => QueueHas(i, arp))
    BY <1>1 DEF EntrySound, QueueOnce, QueueHas
  <2>2. OutIn(SoundAt(ids), ask) /\ OutOnce(S, ask) /\ ~OutHas(S, ask)
    BY <1>1, AskSound, AskNone
  <2>3. \E x : /\ arp' = [arp EXCEPT ![w][hop] = x] /\ x.waiting = <<entry>> \o list
    <3>1. CASE known = Unknown
      <4> DEFINE x == [at |-> None, waiting |-> <<entry>>, asked |-> 1, by |-> by]
      <4>1. arp' = [arp EXCEPT ![w][hop] = x]
        BY <1>4, <3>1 DEF ResolveOrQueue
      <4>2. list = << >> /\ <<entry>> \in Seq({entry})
        BY <3>1 DEF Unknown
      <4>3. x.waiting = <<entry>> \o list
        BY <4>2, ConcatEmptySeq
      <4> HIDE DEF x, list
      <4>4. QED
        BY <4>1, <4>3
    <3>2. CASE known # Unknown
      <4> DEFINE x == [known EXCEPT !.waiting = <<entry>> \o @]
      <4>1. arp' = [arp EXCEPT ![w][hop] = x]
        BY <1>4, <3>2 DEF ResolveOrQueue
      <4>2. x.waiting = <<entry>> \o list
        BY <1>1 DEF EntrySound
      <4> HIDE DEF x, list
      <4>3. QED
        BY <4>1, <4>2
    <3>3. QED
      BY <3>1, <3>2
  <2>4. wire' = Taken(p) \/ wire' = Transmit(Taken(p), ask)
    BY <1>4 DEF ResolveOrQueue
  <2>5. PICK x : arp' = [arp EXCEPT ![w][hop] = x] /\ x.waiting = <<entry>> \o list
    BY <2>3
  <2> DEFINE more == x.waiting
  <2>6. entry.frame.id = i /\ entry.frame.kind # "error" => Claimants(i, list) = {}
    BY <1>2, <2>1
  <2> HIDE DEF list
  <2>7. /\ Once(Claimants(i, more), more)
        /\ Claimants(i, more) # {} => Claimants(i, list) # {} \/ its
    BY <2>1, <2>5, <2>6, PrependOnce
  <2>8. /\ QueueOnce(i, arp')
        /\ QueueHas(i, arp') => Claimants(i, more) # {} \/ QueueHas(i, arp)
    BY <1>1, <1>2, <2>5, <2>7, QueueChange DEF list
  <2>9. QueueHas(i, arp') => QueueHas(i, arp) \/ its
    BY <2>1, <2>7, <2>8
  <2> HIDE DEF ask
  <2>10. QED
    BY <2>2, <2>4, <2>8, <2>9, ArrivedOnce
<1>5. QED
  BY <1>3, <1>4

\* A packet that a switch routes was sent to the router.
LEMMA RoutedClaims ==
  ASSUME Configured, VlanInv, NEW ids, Flow(ids), NEW B, Separates(B, Forwarding), NEW p \in Port,
         RouteFrame(p), Arrived(p).kind # "error"
  PROVE  Arrived(p) \in Claims(B, ids, Arrived(p).id)[p]
<1> DEFINE f == Arrived(p)
           w == Owner[p]
           vlan == VlanOf(p)
<1>1. /\ Sound(ids, f) /\ f.kind = "ip" /\ ShouldRoute(w, f, vlan) /\ w \in Switch
      /\ f.id \in ids /\ f \in FrameOf(ids)
  BY RouteFacts DEF Sound
<1>2. CanForward(p) /\ Admitted(p)
  BY DEF RouteFrame
<1>3. f.vlan = vlan
  <2>1. f.vlan = vlan \/ Strays(f)
    BY <1>2, AdmittedFits DEF VlanInv
  <2>2. QED
    BY <1>1, <2>1 DEF Strays, IsReport
<1>4. f.dst \notin Station
  <2> SUFFICES ASSUME f.dst \in Station
               PROVE  FALSE
    OBVIOUS
  <2>1. f.to \in DOMAIN Via /\ f.dst = Via[f.to] /\ vlan = HostVlan[f.dst]
    BY <1>1, <1>3 DEF Sound
  <2> HIDE DEF f, vlan
  <2>2. CASE f.to \in Station
    <3>1. f.dst = f.to
      BY <2>1, <2>2, SwitchAssumption
    <3>2. QED
      BY <1>1, <2>1, <2>2, <3>1, SwitchAssumption DEF ShouldRoute, Ports
  <2>3. CASE f.to \notin Station
    BY <1>1, <2>3, SwitchAssumption DEF ShouldRoute, Ports
  <2>4. QED
    BY <2>2, <2>3
<1>5. w \in Routers
  BY <1>1 DEF ShouldRoute, Routers
<1>6. w \in B[p] /\ p \in Places
  BY <1>2 DEF Separates, Forwarding, Places
<1> HIDE DEF f, w, vlan
<1>7. w \in Goal(f)
  BY <1>1, <1>4, <1>5 DEF Goal
<1>8. f \in Claims(B, ids, f.id)[p]
  BY <1>1, <1>6, <1>7, ClaimIs
<1>9. QED
  BY <1>8 DEF f

LEMMA RouteFrameOnce ==
  ASSUME Configured, OneRouter, VlanInv, NEW ids, Flow(ids), NEW B, Separates(B, Forwarding),
         NEW i \in ids, Lone(B, ids, i), NEW p \in Port, RouteFrame(p)
  PROVE  Lone(B, ids, i)' /\ (Live(B, ids, i)' => Live(B, ids, i))
<1> DEFINE w == Owner[p]
           f == Arrived(p)
           hop == HopOf(p)
           from == f.from
           S == Claims(B, ids, i)
<1>1. wire[p] # << >> /\ f.kind \in {"ip", "error"} /\ f.id \in ids
  BY RouteFacts DEF RouteFrame, Admitted
<1>2. f.id = i /\ f.kind # "error" => f \in S[p]
  BY RoutedClaims
<1>3. CASE /\ ~Expires(f)
           /\ ResolveOrQueue(p, hop, [frame |-> RoutedBy(p), port |-> p], None, RoutedOut(p))
  <2> DEFINE entry == [frame |-> RoutedBy(p), port |-> p]
             out == RoutedOut(p)
             g == RoutedBy(p)
             vlan == g.vlan
             routed == TRUE
             by == None
  <2>1. /\ arp[w][hop].at # None => OutIn(SoundAt(ids), out)
        /\ ResolveOrQueue(p, hop, entry, by, out)
        /\ DOMAIN g = Fields /\ g.id = f.id /\ g.kind = f.kind /\ entry.frame = g
    BY <1>3, RoutedBySound
  <2>2. Spreads(out, p, g, vlan, routed)
    BY ForwardSpreads DEF RoutedOut
  <2>3. by \in Port \cup {None} /\ S = Claims(B, ids, i) /\ hop \in Station
    BY <1>3, RoutedBySound
  <2> HIDE DEF entry, out, hop, g, vlan, routed, by
  <2>4. OutOnce(S, out)
    BY <2>1, <2>2, CopiesOnce
  <2>5. OutHas(S, out) => g.id = i /\ g.kind # "error"
    BY <2>1, <2>2, CopiesOnce
  <2> HIDE DEF S
  <2>6. OutHas(S, out) => Arrived(p) \in S[p]
    BY <1>2, <2>1, <2>5
  <2>7. entry.frame.id = i /\ entry.frame.kind # "error" => Arrived(p) \in S[p]
    BY <1>2, <2>1
  <2>8. QED
    BY <1>1, <2>1, <2>3, <2>4, <2>6, <2>7, ResolveOnce
<1>4. CASE /\ f.kind = "ip"
           /\ ResolveOrQueue(p, from, [frame |-> ReportBy(p), port |-> None], p,
                <<Sending(p, ReportBy(p))>>)
  <2> DEFINE g == ReportBy(p)
             entry == [frame |-> g, port |-> None]
             out == <<Sending(p, g)>>
  <2>1. /\ arp[w][from].at # None => OutIn(SoundAt(ids), out)
        /\ ResolveOrQueue(p, from, entry, p, out)
        /\ g.kind = "error" /\ entry.frame = g
    BY <1>4, ReportBySound
  <2>2. DOMAIN out = {1} /\ out[1].frame = g /\ out[1].port = p /\ Far[p] \in Places
    BY SwitchAssumption DEF Sending, Places
  <2>3. ~Sends(S, out[1])
    BY <2>1, <2>2, ClaimIs DEF Sends
  <2>4. S = Claims(B, ids, i)
    OBVIOUS
  <2>5. from \in Station
    BY <1>4, ReportBySound
  <2> HIDE DEF S, entry, out, from, g
  <2>6. OutOnce(S, out) /\ ~OutHas(S, out)
    BY <2>2, <2>3 DEF OutOnce, OutHas
  <2>7. entry.frame.kind = "error"
    BY <2>1
  <2>8. QED
    BY <1>1, <2>1, <2>4, <2>5, <2>6, <2>7, ResolveOnce
<1>5. CASE wire' = Taken(p) /\ UNCHANGED arp
  BY <1>1, <1>5, PassOnce
<1>6. QED
  BY <1>3, <1>4, <1>5 DEF RouteFrame, RoutedBy, RoutedOut, HopOf, ReportBy

\* A request for this switch goes no further; its answer is for the station.
LEMMA AnswerOnce ==
  ASSUME NEW ids, Flow(ids), NEW B, Separates(B, Forwarding), NEW i \in ids,
         NEW p \in Port, ReceiveARP(p)
  PROVE  /\ OutOnce(Claims(B, ids, i), AnswerOf(p))
         /\ OutHas(Claims(B, ids, i), AnswerOf(p)) =>
              Arrived(p) \in Claims(B, ids, i)[p] /\ Goal(Arrived(p)) \subseteq {Owner[p]}
<1> DEFINE f == Arrived(p)
           w == Owner[p]
           S == Claims(B, ids, i)
           out == AnswerOf(p)
           g == Prepared(p, ReplyOf(p), f.to[2])
<1>1. CASE out = << >>
  BY <1>1 DEF OutOnce, OutHas
<1>2. CASE out # << >>
  <2>1. out = <<Sending(p, g)>> /\ f.kind = "request" /\ ForUs(p)
    BY <1>2 DEF AnswerOf
  <2>2. g.id = f.id
    <3> DEFINE a == ReplyOf(p)
               v == f.to[2]
    <3>1. DOMAIN a = Fields /\ a.id = f.id
      BY <1>2, ReceiveARPSends
    <3> HIDE DEF a, v
    <3>2. Prepared(p, a, v).id = a.id
      BY <3>1, PreparedIs
    <3>3. QED
      BY <3>1, <3>2 DEF a, v
  <2>3. /\ IsFrame(ids, f) /\ w \in Switch /\ Far[p] \in Places /\ p \in Places
        /\ i # None
    BY ReceiveARPSends, SwitchAssumption DEF Places
  <2>4. PICK v \in Svi[w] : f.to = <<w, v>>
    BY <2>1 DEF ForUs
  <2>5. f.to \notin Station /\ Goal(f) = {w}
    <3>1. f.to \notin Station
      BY <2>3, <2>4, SwitchAssumption
    <3> HIDE DEF f, w
    <3>2. \A u \in Switch : \A z \in Svi[u] : f.to = <<u, z>> => u = w
      BY <2>4
    <3>3. Goal(f) = {u \in Switch : \E z \in Svi[u] : f.to = <<u, z>>}
      BY <2>1, <3>1 DEF Goal
    <3>4. QED
      BY <2>3, <2>4, <3>1, <3>2, <3>3
  <2>6. w \in B[p]
    BY ReceiveARPIs DEF Separates, Forwarding
  <2>7. f \in FrameOf(ids)
    BY <2>3, FrameIs
  <2> HIDE DEF f, w, g, out
  <2>8. DOMAIN out = {1} /\ out[1].frame = g /\ out[1].port = p
    BY <2>1 DEF Sending
  <2>9. Sends(S, out[1]) => f.id = i
    BY <2>2, <2>3, <2>8, ClaimIs DEF Sends
  <2>10. f.id = i => f \in S[p]
    BY <2>1, <2>3, <2>5, <2>6, <2>7, ClaimIs
  <2> HIDE DEF S
  <2>11. OutOnce(S, out) /\ (OutHas(S, out) => f \in S[p])
    BY <2>8, <2>9, <2>10 DEF OutOnce, OutHas
  <2>12. QED
    BY <2>5, <2>11 DEF out, S, f, w
<1>3. QED
  BY <1>1, <1>2

LEMMA ReceiveARPOnce ==
  ASSUME OneRouter, NEW ids, Flow(ids), NEW B, Separates(B, Forwarding),
         NEW i \in ids, Lone(B, ids, i), NEW p \in Port, ReceiveARP(p)
  PROVE  Lone(B, ids, i)' /\ (Live(B, ids, i)' => Live(B, ids, i))
<1> DEFINE w == Owner[p]
           f == Arrived(p)
           S == Claims(B, ids, i)
           its == f \in S[p]
           R == ReleasedBy(p)
           A == AnswerOf(p)
           F == FloodedBy(p)
           out == (R \o A) \o F
<1>1. /\ wire' = Transmit(Taken(p), out) /\ wire[p] # << >> /\ CanForward(p) /\ w \in Switch
      /\ IsFrame(ids, f) /\ Sound(ids, f) /\ f \in FrameOf(ids) /\ ArpSound(ids, arp)
      /\ QueueOnce(i, arp)
  BY ReceiveARPIs, ReceiveARPSends, FrameIs DEF Lone
<1>2. OutIn(SoundAt(ids), R) /\ OutIn(SoundAt(ids), A) /\ OutIn(SoundAt(ids), F)
  BY ReceiveARPSends
<1>3. OutIn(SoundAt(ids), R \o A) /\ OutIn(SoundAt(ids), out)
  BY <1>2, BothIn
<1>4. its => ~QueueHas(i, arp)
  BY <1>1, ArrivedClaims
<1>5. /\ QueueOnce(i, arp')
      /\ QueueHas(i, arp') => QueueHas(i, arp)
      /\ OutOnce(S, R) /\ (OutHas(S, R) => QueueHas(i, arp) /\ ~QueueHas(i, arp'))
  <2>1. CASE Merges(p)
    <3> DEFINE hop == f.from
               x == [Unknown EXCEPT !.at = f.src]
               table == Learned(p)
    <3>1. hop \in Station /\ arp' = [arp EXCEPT ![w][hop] = x] /\ R = Releasing(table, w, p, hop)
      BY <2>1, ReceiveARPIs DEF Merges, ReleasedBy
    <3>2. x.waiting = << >>
      BY DEF Unknown
    <3>3. Claimants(i, x.waiting) = {} /\ Once(Claimants(i, x.waiting), x.waiting)
      BY <3>2, EmptyList DEF Claimants, Once
    <3> HIDE DEF x, hop, table, w
    <3>4. /\ QueueOnce(i, arp')
          /\ QueueHas(i, arp') => QueueHas(i, arp) /\ Claimants(i, arp[w][hop].waiting) = {}
      BY <1>1, <3>1, <3>3, QueueChange
    <3>5. OutOnce(S, R) /\ (OutHas(S, R) => Claimants(i, arp[w][hop].waiting) # {})
      BY <1>1, <3>1, ReleasingOnce
    <3>6. Claimants(i, arp[w][hop].waiting) # {} => QueueHas(i, arp)
      BY <1>1, <3>1 DEF QueueHas
    <3>7. QED
      BY <3>4, <3>5, <3>6
  <2>2. CASE ~Merges(p)
    <3>1. arp' = arp /\ R = << >>
      BY <2>2, ReceiveARPIs DEF ReleasedBy
    <3>2. QED
      BY <1>1, <3>1 DEF OutOnce, OutHas
  <2>3. QED
    BY <2>1, <2>2
<1>6. OutOnce(S, A) /\ (OutHas(S, A) => its /\ Goal(f) \subseteq {w})
  BY AnswerOnce
<1>7. OutOnce(S, F) /\ (OutHas(S, F) => its /\ Goal(f) \cap (B[p] \ {w}) # {})
  <2>1. CASE f.kind = "request"
    <3> DEFINE vlan == VlanOf(p)
               routed == FALSE
    <3>1. F = Flood(p, f, vlan)
      BY <2>1 DEF FloodedBy
    <3>2. Spreads(F, p, f, vlan, routed)
      BY <3>1, FloodSpreads
    <3> HIDE DEF vlan, F, f
    <3>3. QED
      BY <1>1, <3>2, SpreadOnce
  <2>2. CASE f.kind # "request"
    <3>1. F = << >>
      BY <2>2 DEF FloodedBy
    <3>2. QED
      BY <3>1 DEF OutOnce, OutHas
  <2>3. QED
    BY <2>1, <2>2
<1>8. S = Claims(B, ids, i)
  OBVIOUS
<1> HIDE DEF S, R, A, F, w
<1>9. ~(OutHas(S, R) /\ OutHas(S, A)) /\ ~(OutHas(S, A) /\ OutHas(S, F))
      /\ ~(OutHas(S, R) /\ OutHas(S, F))
  <2> HIDE DEF f
  <2>1. QED
    BY <1>4, <1>5, <1>6, <1>7
<1>10. OutOnce(S, R \o A) /\ (OutHas(S, R \o A) => OutHas(S, R) \/ OutHas(S, A))
  BY <1>2, <1>5, <1>6, <1>9, BothOnce DEF OutIn
<1>11. OutOnce(S, out) /\ (OutHas(S, out) => OutHas(S, R) \/ OutHas(S, A) \/ OutHas(S, F))
  <2> DEFINE G == R \o A
  <2> HIDE DEF G
  <2>1. IsList(G) /\ OutOnce(S, G) /\ (OutHas(S, G) => OutHas(S, R) \/ OutHas(S, A))
    BY <1>3, <1>10 DEF OutIn, G
  <2>2. IsList(F) /\ OutOnce(S, F) /\ ~(OutHas(S, G) /\ OutHas(S, F))
    BY <1>2, <1>7, <1>9, <2>1 DEF OutIn
  <2>3. OutOnce(S, G \o F) /\ (OutHas(S, G \o F) => OutHas(S, G) \/ OutHas(S, F))
    BY <2>1, <2>2, BothOnce
  <2>4. QED
    BY <2>1, <2>3 DEF G
<1> HIDE DEF out
<1>12. OutHas(S, out) => its \/ (QueueHas(i, arp) /\ ~QueueHas(i, arp'))
  BY <1>5, <1>6, <1>7, <1>11
<1>13. QED
  BY <1>1, <1>3, <1>5, <1>8, <1>11, <1>12, ArrivedOnce

\* A packet that was not sent, or that has arrived, is nowhere; it arrives once.
Settled(B, ids, i) ==
  /\ Lone(B, ids, i) /\ received[i] \in 0 .. 1
  /\ (i > sent => received[i] = 0)
  /\ (received[i] = 1 \/ i > sent => ~Live(B, ids, i))

LEMMA StaysSettled ==
  ASSUME NEW B, NEW ids, NEW i, Settled(B, ids, i), Lone(B, ids, i)',
         Live(B, ids, i)' => Live(B, ids, i), received' = received, sent' = sent
  PROVE  Settled(B, ids, i)'
BY DEF Settled

LEMMA QuietOnce ==
  ASSUME NEW S, Quiet
  PROVE  WireOnce(S, wire) /\ ~WireHas(S, wire)
<1>1. \A e \in Places : DOMAIN wire[e] = {} /\ ToSet(wire[e]) = {}
  BY EmptyList DEF Quiet, Places, ToSet
<1>2. QED
  BY <1>1 DEF WireOnce, WireHas, Once

LEMMA ArriveOnce ==
  ASSUME Configured, OneRouter, VlanInv, NEW ids, Flow(ids), NEW B, Separates(B, Forwarding),
         NEW i \in ids, Settled(B, ids, i), NEW p \in Port, Arrive(p)
  PROVE  Settled(B, ids, i)'
<1>1. Lone(B, ids, i)
  BY DEF Settled
<1>2. received' = received /\ sent' = sent
  BY DEF Arrive, Discard, LearnOnly, SwitchFrame, ReceiveARP, RouteFrame, Counters
<1>3. CASE Discard(p) \/ LearnOnly(p)
  <2>1. wire[p] # << >> /\ wire' = Taken(p) /\ arp' = arp
    BY <1>3 DEF Discard, LearnOnly, Admitted
  <2>2. QED
    BY <1>1, <1>2, <2>1, PassOnce, StaysSettled
<1>4. CASE SwitchFrame(p)
  BY <1>1, <1>2, <1>4, SwitchFrameOnce, StaysSettled
<1>5. CASE ReceiveARP(p)
  BY <1>1, <1>2, <1>5, ReceiveARPOnce, StaysSettled
<1>6. CASE RouteFrame(p)
  BY <1>1, <1>2, <1>6, RouteFrameOnce, StaysSettled
<1>7. QED
  BY <1>3, <1>4, <1>5, <1>6 DEF Arrive

\* A station takes a frame, counts it if it is the packet for it, and answers a
\* request for its address.
LEMMA StationReceiveOnce ==
  ASSUME NEW ids, Flow(ids), Counted(ids), NEW B, Separates(B, Forwarding), NEW i \in ids,
         Settled(B, ids, i), NEW s \in Station, StationReceive(s)
  PROVE  Settled(B, ids, i)'
<1> DEFINE f == Head(wire[s])
           S == Claims(B, ids, i)
           its == f \in S[s]
           rest == [wire EXCEPT ![s] = Tail(@)]
           a == [f EXCEPT !.kind = "reply", !.src = s, !.dst = f.src,
                          !.tag = 0, !.from = s, !.to = f.from, !.hops = 0]
           asked == f.kind = "request" /\ f.to = s
           counted == f.dst = s /\ f.kind \in {"ip", "reply"} /\ f.id # None
<1>1. /\ WireIn(SoundAt(ids), wire) /\ WireIn(SoundAt(ids), rest) /\ f \in FrameOf(ids)
      /\ s \in Places /\ i # None /\ i \in Nat /\ wire[s] # << >> /\ DOMAIN f = Fields
  <2>1. s \in Places /\ wire[s] # << >> /\ WireIn(SoundAt(ids), wire) /\ i # None /\ i \in Nat
    BY SwitchAssumption DEF Places, StationReceive, Flow
  <2>2. WireIn(SoundAt(ids), rest) /\ Sound(ids, f)
    BY <2>1, TakingIn, IsSound
  <2>3. QED
    BY <2>1, <2>2, FrameIs DEF Sound, IsFrame
<1>2. /\ wire' = IF asked THEN [rest EXCEPT ![PortOf(s)] = Append(@, a)] ELSE rest
      /\ received' = IF counted /\ received[f.id] < 2
                     THEN [received EXCEPT ![f.id] = @ + 1] ELSE received
      /\ arp' = arp /\ sent' = sent
  BY DEF StationReceive, Counters
<1>3. /\ WireOnce(S, rest) /\ (WireHas(S, rest) => WireHas(S, wire) /\ ~its)
      /\ (its => WireHas(S, wire)) /\ ~(WireHas(S, wire) /\ QueueHas(i, arp))
      /\ QueueOnce(i, arp)
  <2> HIDE DEF S
  <2>1. WireOnce(S, wire) /\ ~(WireHas(S, wire) /\ QueueHas(i, arp)) /\ QueueOnce(i, arp)
    BY DEF Settled, Lone, S
  <2>2. /\ WireOnce(S, rest) /\ (WireHas(S, rest) => WireHas(S, wire) /\ ~its)
        /\ (its => WireHas(S, wire))
    BY <1>1, <2>1, TakeOnce
  <2>3. QED
    BY <2>1, <2>2
<1>4. B[s] = {s}
  BY DEF Separates
<1>5. f.id = i /\ (asked \/ counted) => its
  <2> HIDE DEF f, S
  <2>1. asked => Goal(f) = {s} /\ f.kind # "error"
    BY DEF Goal
  <2>2. counted => Goal(f) = {s} /\ f.kind # "error"
    BY DEF Goal
  <2>3. QED
    BY <1>1, <1>4, <2>1, <2>2, ClaimIs DEF S
<1>6. a.id = f.id
  BY <1>1 DEF Fields
<1>7. PortOf(s) \in Places
  BY SwitchAssumption DEF PortOf, Places
<1>8. a \in S[PortOf(s)] => a.id = i
  <2> HIDE DEF a
  <2>1. QED
    BY <1>7, ClaimIs
<1>9. Claims(B, ids, i)' = S
  BY DEF Claims, FrameOf, Goal, Routers
<1> HIDE DEF a, S, rest
<1>10. WireOnce(S, wire') /\ (WireHas(S, wire') => WireHas(S, wire))
       /\ (its /\ ~asked => ~WireHas(S, wire'))
  <2>1. CASE asked
    <3> DEFINE e == PortOf(s)
    <3>1. wire' = [rest EXCEPT ![e] = Append(@, a)] /\ e \in Places
      BY <1>2, <1>7, <2>1
    <3>2. a \in S[e] => its
      BY <1>5, <1>6, <1>8, <2>1
    <3> HIDE DEF e
    <3>3. ~(a \in S[e] /\ WireHas(S, rest))
      BY <1>3, <3>2
    <3>4. WireOnce(S, wire') /\ (WireHas(S, wire') => WireHas(S, rest) \/ a \in S[e])
      BY <1>1, <1>3, <3>1, <3>3, AppendOnce
    <3>5. QED
      BY <1>3, <2>1, <3>2, <3>4
  <2>2. CASE ~asked
    BY <1>2, <1>3, <2>2
  <2>3. QED
    BY <2>1, <2>2
<1>11. /\ Lone(B, ids, i)' /\ (Live(B, ids, i)' => Live(B, ids, i))
       /\ (its /\ ~asked => ~Live(B, ids, i)')
  <2>1. /\ Lone(B, ids, i)' <=> /\ WireOnce(S, wire') /\ QueueOnce(i, arp)
                                /\ ~(WireHas(S, wire') /\ QueueHas(i, arp))
        /\ Live(B, ids, i)' <=> WireHas(S, wire') \/ QueueHas(i, arp)
        /\ Live(B, ids, i) <=> WireHas(S, wire) \/ QueueHas(i, arp)
    BY <1>2, <1>9 DEF Lone, Live, S
  <2>2. QED
    BY <1>3, <1>10, <2>1
<1>12. CASE counted /\ f.id = i
  <2>1. its /\ ~asked
    BY <1>5, <1>12
  <2>2. Live(B, ids, i)
    BY <1>3, <2>1 DEF Live, S
  <2>3. received[i] = 0 /\ ~(i > sent)
    BY <2>2 DEF Settled
  <2> HIDE DEF f
  <2>4. received'[i] = 1
    BY <1>2, <1>12, <2>3 DEF Counted
  <2>5. QED
    BY <1>2, <1>11, <2>1, <2>3, <2>4 DEF Settled
<1>13. CASE ~(counted /\ f.id = i)
  <2>1. received'[i] = received[i]
    <3> HIDE DEF f
    <3>1. QED
      BY <1>2, <1>13 DEF Counted
  <2>2. QED
    BY <1>2, <1>11, <2>1 DEF Settled
<1>14. QED
  BY <1>12, <1>13

LEMMA SendAppends ==
  ASSUME load \in Workloads, sent \in Nat, Send
  PROVE  /\ \E e \in Places : \E f : wire' = [wire EXCEPT ![e] = Append(@, f)] /\ f.id = sent + 1
         /\ sent' = sent + 1 /\ UNCHANGED <<arp, load, received>>
<1> DEFINE t == load[sent + 1]
           Packet(dst) ==
             [kind |-> t.kind, src |-> t.from, dst |-> dst, tag |-> 0, from |-> t.from,
              to |-> t.to, ttl |-> t.ttl, id |-> sent + 1, vlan |-> HostVlan[t.from], hops |-> 0]
<1>1. t.from \in Station
  <2>1. load \in Seq([kind : {"ip", "request"}, from : Station,
                      to : DOMAIN Via \cup (Switch \X Nat), ttl : Nat])
    BY SwitchAssumption
  <2>2. sent + 1 \in 1 .. Len(load)
    BY <2>1, LenProperties DEF Send
  <2>3. t \in [kind : {"ip", "request"}, from : Station,
               to : DOMAIN Via \cup (Switch \X Nat), ttl : Nat]
    BY <2>1, <2>2, ElementOfSeq
  <2>4. QED
    BY <2>3
<1>2. PortOf(t.from) \in Places
  BY <1>1, SwitchAssumption DEF PortOf, Places
<1>3. \A dst : Packet(dst).id = sent + 1
  OBVIOUS
<1>4. \E dst : wire' = [wire EXCEPT ![PortOf(t.from)] = Append(@, Packet(dst))]
  BY DEF Send
<1>5. sent' = sent + 1 /\ UNCHANGED <<arp, load, received>>
  BY DEF Send
<1> HIDE DEF Packet
<1>6. QED
  BY <1>2, <1>3, <1>4, <1>5

LEMMA SendOnce ==
  ASSUME NEW ids, Flow(ids), NEW B, NEW i \in ids, Settled(B, ids, i), load \in Workloads,
         sent \in Nat, Send
  PROVE  Settled(B, ids, i)'
<1> DEFINE S == Claims(B, ids, i)
           sound == SoundAt(ids)
<1>0. PICK e \in Places : \E f : wire' = [wire EXCEPT ![e] = Append(@, f)] /\ f.id = sent + 1
  BY SendAppends
<1>1. PICK f : wire' = [wire EXCEPT ![e] = Append(@, f)] /\ f.id = sent + 1
  BY <1>0
<1>2. sent' = sent + 1 /\ received' = received /\ arp' = arp /\ i \in Nat
  BY SendAppends DEF Flow
<1>3. f \in S[e] => i = sent + 1
  BY <1>1, ClaimIs
<1>4. Claims(B, ids, i)' = S
  BY DEF Claims, FrameOf, Goal, Routers
<1>5. /\ Lone(B, ids, i) <=> /\ WireOnce(S, wire) /\ QueueOnce(i, arp)
                             /\ ~(WireHas(S, wire) /\ QueueHas(i, arp))
      /\ Live(B, ids, i) <=> WireHas(S, wire) \/ QueueHas(i, arp)
      /\ Lone(B, ids, i)' <=> /\ WireOnce(S, wire') /\ QueueOnce(i, arp)
                              /\ ~(WireHas(S, wire') /\ QueueHas(i, arp))
      /\ Live(B, ids, i)' <=> WireHas(S, wire') \/ QueueHas(i, arp)
  BY <1>2, <1>4 DEF Lone, Live
<1>6. WireIn(sound, wire)
  BY DEF Flow
<1> HIDE DEF S, sound
<1>7. ~(f \in S[e] /\ WireHas(S, wire)) /\ (f \in S[e] => ~QueueHas(i, arp))
  BY <1>2, <1>3, <1>5 DEF Settled
<1>8. WireOnce(S, wire') /\ (WireHas(S, wire') => WireHas(S, wire) \/ f \in S[e])
  BY <1>1, <1>5, <1>6, <1>7, AppendOnce DEF Settled
<1>9. Lone(B, ids, i)' /\ (Live(B, ids, i)' => Live(B, ids, i) \/ i = sent + 1)
  BY <1>3, <1>5, <1>7, <1>8 DEF Settled
<1>10. QED
  BY <1>2, <1>9 DEF Settled

LEMMA RetryOnce ==
  ASSUME NEW ids, Flow(ids), NEW B, NEW i \in ids, Settled(B, ids, i),
         NEW w \in Switch, NEW s \in Station, Retry(w, s) \/ GiveUp(w, s)
  PROVE  Settled(B, ids, i)'
<1> DEFINE S == Claims(B, ids, i)
           known == arp[w][s]
           ask == Ask(w, s, known.by)
           sound == SoundAt(ids)
<1>1. ids \in SUBSET Nat /\ ArpSound(ids, arp) /\ WireIn(sound, wire)
      /\ EntrySound(ids, w, s, known) /\ Lone(B, ids, i) /\ WireOnce(S, wire)
      /\ QueueOnce(i, arp)
  BY DEF Flow, ArpSound, Settled, Lone
<1>2. UNCHANGED <<received, sent>>
  BY DEF Retry, GiveUp, Counters
<1>3. \E x : /\ arp' = [arp EXCEPT ![w][s] = x]
             /\ x.waiting = known.waiting \/ x.waiting = << >>
  <2>1. CASE Retry(w, s)
    <3> DEFINE x == [known EXCEPT !.asked = @ + 1]
    <3>1. arp' = [arp EXCEPT ![w][s] = x]
      BY <2>1 DEF Retry
    <3>2. x.waiting = known.waiting
      BY <1>1 DEF EntrySound
    <3> HIDE DEF x, known
    <3>3. QED
      BY <3>1, <3>2
  <2>2. CASE GiveUp(w, s)
    <3>1. arp' = [arp EXCEPT ![w][s] = Unknown] /\ Unknown.waiting = << >>
      BY <2>2 DEF GiveUp, Unknown
    <3>2. QED
      BY <3>1
  <2>3. QED
    BY <2>1, <2>2
<1>4. PICK x : /\ arp' = [arp EXCEPT ![w][s] = x]
               /\ x.waiting = known.waiting \/ x.waiting = << >>
  BY <1>3
<1>5. /\ Once(Claimants(i, x.waiting), x.waiting)
      /\ Claimants(i, x.waiting) # {} => Claimants(i, known.waiting) # {}
  <2>1. CASE x.waiting = << >>
    BY <2>1, EmptyList DEF Claimants, Once
  <2>2. CASE x.waiting = known.waiting
    BY <1>1, <2>2 DEF QueueOnce
  <2>3. QED
    BY <1>4, <2>1, <2>2
<1>6. QueueOnce(i, arp') /\ (QueueHas(i, arp') => QueueHas(i, arp))
  <2>1. /\ QueueOnce(i, arp')
        /\ QueueHas(i, arp') => Claimants(i, x.waiting) # {} \/ QueueHas(i, arp)
    BY <1>1, <1>4, <1>5, QueueChange
  <2>2. Claimants(i, known.waiting) # {} => QueueHas(i, arp)
    BY DEF QueueHas
  <2>3. QED
    BY <1>5, <2>1, <2>2
<1>7. OutIn(sound, ask) /\ OutOnce(S, ask) /\ ~OutHas(S, ask)
  BY <1>1, AskSound, AskNone DEF EntrySound
<1>8. wire' = wire \/ wire' = Transmit(wire, ask)
  BY DEF Retry, GiveUp
<1>9. Claims(B, ids, i)' = S
  BY DEF Claims, FrameOf, Goal, Routers
<1>10. /\ Lone(B, ids, i) <=> /\ WireOnce(S, wire) /\ QueueOnce(i, arp)
                              /\ ~(WireHas(S, wire) /\ QueueHas(i, arp))
       /\ Live(B, ids, i) <=> WireHas(S, wire) \/ QueueHas(i, arp)
       /\ Lone(B, ids, i)' <=> /\ WireOnce(S, wire') /\ QueueOnce(i, arp')
                               /\ ~(WireHas(S, wire') /\ QueueHas(i, arp'))
       /\ Live(B, ids, i)' <=> WireHas(S, wire') \/ QueueHas(i, arp')
  BY <1>9 DEF Lone, Live
<1> HIDE DEF S, sound, ask
<1>11. WireOnce(S, wire') /\ (WireHas(S, wire') => WireHas(S, wire))
  <2>1. CASE wire' = wire
    BY <1>1, <2>1
  <2>2. CASE wire' = Transmit(wire, ask)
    BY <1>1, <1>7, <2>2, TransmitOnce
  <2>3. QED
    BY <1>8, <2>1, <2>2
<1>12. Lone(B, ids, i)' /\ (Live(B, ids, i)' => Live(B, ids, i))
  BY <1>1, <1>6, <1>10, <1>11
<1>13. QED
  BY <1>2, <1>12, StaysSettled

TokenInv ==
  /\ TypeInv /\ VlanInv /\ OneSpare
  /\ \E B : Separates(B, Forwarding) /\ \A i \in Packets : Settled(B, Packets, i)

\* While nothing is in flight, what lies beyond a port does not matter.
LEMMA QuietSettled ==
  ASSUME NEW B, NEW C, NEW ids, NEW i, Quiet, Settled(B, ids, i)
  PROVE  Settled(C, ids, i)
<1> DEFINE S == Claims(B, ids, i)
           T == Claims(C, ids, i)
<1>1. WireOnce(T, wire) /\ ~WireHas(T, wire)
  BY QuietOnce
<1>2. QueueOnce(i, arp)
  BY DEF Settled, Lone
<1>3. Lone(C, ids, i)
  BY <1>1, <1>2 DEF Lone
<1>4. Live(C, ids, i) => Live(B, ids, i)
  BY <1>1 DEF Live
<1>5. QED
  BY <1>3, <1>4 DEF Settled

LEMMA SettledNext ==
  ASSUME Configured, OneRouter, TypeInv, VlanInv, NEW B, Separates(B, Forwarding),
         \A i \in Packets : Settled(B, Packets, i), [Next]_vars
  PROVE  (\A i \in Packets : Settled(B, Packets, i))'
<1>1. PICK ids : ids = Packets
  OBVIOUS
<1>2. Packets' = ids /\ ids' = ids
  BY <1>1, PacketsStay DEF Packets
<1>3. Flow(ids) /\ Counted(ids) /\ load \in Workloads /\ sent \in Nat
      /\ \A i \in ids : Settled(B, ids, i)
  <2>1. load \in Seq([kind : {"ip", "request"}, from : Station,
                      to : DOMAIN Via \cup (Switch \X Nat), ttl : Nat])
    BY SwitchAssumption DEF TypeInv, LoadInv
  <2>2. Len(load) \in Nat
    BY <2>1, LenProperties
  <2>3. QED
    BY <1>1, <2>2 DEF TypeInv, LoadInv
<1>4. ASSUME NEW i \in ids
      PROVE  Settled(B, ids, i)'
  <2>1. Settled(B, ids, i)
    BY <1>3
  <2>2. ASSUME NEW p \in Port, Arrive(p)
        PROVE  Settled(B, ids, i)'
    BY <1>3, <2>1, <2>2, ArriveOnce
  <2>3. ASSUME NEW s \in Station, StationReceive(s)
        PROVE  Settled(B, ids, i)'
    BY <1>3, <2>1, <2>3, StationReceiveOnce
  <2>4. ASSUME Send
        PROVE  Settled(B, ids, i)'
    BY <1>3, <2>1, <2>4, SendOnce
  <2>5. ASSUME NEW w \in Switch, NEW s \in Station, Retry(w, s) \/ GiveUp(w, s)
        PROVE  Settled(B, ids, i)'
    BY <1>3, <2>1, <2>5, RetryOnce
  <2>6. ASSUME UNCHANGED <<wire, arp, load, sent, received, reported, excused>>
        PROVE  Settled(B, ids, i)'
    <3>1. Claims(B, ids, i)' = Claims(B, ids, i)
      BY DEF Claims, FrameOf, Goal, Routers
    <3>2. QED
      BY <2>1, <2>6, <3>1 DEF Settled, Lone, Live
  <2>7. QED
    BY <2>2, <2>3, <2>4, <2>5, <2>6, TreeSteps
<1>5. QED
  BY <1>2, <1>4

LEMMA TokenInit ==
  ASSUME Configured, \A u \in Spare : LoopFree((Port \ Spare) \cup {u})
  PROVE  Init => TokenInv
<1> SUFFICES ASSUME Init
             PROVE  TokenInv
  OBVIOUS
<1>1. TypeInv /\ OneSpare /\ VlanInv
  BY TypeInit, OneSpareInit, VlanInit
<1>2. PICK B : Separates(B, Forwarding)
  BY <1>1, TreeSeparates
<1>3. ASSUME NEW i \in Packets
      PROVE  Settled(B, Packets, i)
  <2> DEFINE S == Claims(B, Packets, i)
  <2>1. WireOnce(S, wire) /\ ~WireHas(S, wire)
    BY QuietOnce DEF Init, Quiet
  <2>2. \A w \in Switch, s \in Station : arp[w][s].waiting = << >>
    BY DEF Init, Unknown
  <2>3. QueueOnce(i, arp) /\ ~QueueHas(i, arp)
    BY <2>2, EmptyList DEF QueueOnce, QueueHas, Claimants, Once
  <2>4. received[i] = 0
    BY DEF Init
  <2>5. QED
    BY <2>1, <2>3, <2>4 DEF Settled, Lone, Live
<1>4. QED
  BY <1>1, <1>2, <1>3 DEF TokenInv

LEMMA TokenInductive ==
  ASSUME Configured, OneRouter, \A u \in Spare : LoopFree((Port \ Spare) \cup {u})
  PROVE  TokenInv /\ [Next]_vars => TokenInv'
<1> SUFFICES ASSUME TokenInv, [Next]_vars
             PROVE  TokenInv'
  OBVIOUS
<1>1. TypeInv' /\ OneSpare' /\ VlanInv'
  BY TypeInductive, OneSpareInductive, VlanInductive DEF TokenInv, TypeInv
<1>2. PICK B : Separates(B, Forwarding) /\ \A i \in Packets : Settled(B, Packets, i)
  BY DEF TokenInv
<1>3. CASE Forwarding' \subseteq Forwarding
  <2>1. Separates(B, Forwarding')
    BY <1>2, <1>3, SeparatesFewer
  <2>2. (\A i \in Packets : Settled(B, Packets, i))'
    BY <1>2, SettledNext DEF TokenInv
  <2>3. QED
    BY <1>1, <2>1, <2>2 DEF TokenInv
<1>4. CASE Quiet /\ UNCHANGED <<wire, arp, load, sent, received>>
  <2>1. PICK C : Separates(C, Forwarding')
    BY <1>1, TreeSeparatesNext
  <2>2. \A i \in Packets : Settled(C, Packets, i)
    BY <1>2, <1>4, QuietSettled
  <2>3. PICK ids : ids = Packets
    OBVIOUS
  <2>4. Packets' = ids /\ ids' = ids
    BY <1>4, <2>3 DEF Packets
  <2>5. ASSUME NEW i \in ids
        PROVE  Settled(C, ids, i)'
    <3>1. Claims(C, ids, i)' = Claims(C, ids, i)
      BY DEF Claims, FrameOf, Goal, Routers
    <3>2. QED
      BY <1>4, <2>2, <2>3, <3>1 DEF Settled, Lone, Live
  <2>6. (\A i \in Packets : Settled(C, Packets, i))'
    BY <2>4, <2>5
  <2>7. QED
    BY <1>1, <2>1, <2>6 DEF TokenInv
<1>5. QED
  BY <1>3, <1>4, ForwardingSteps DEF TokenInv, TypeInv

\* No packet arrives twice: flooded or switched, routed, queued behind an
\* unanswered ARP request and released, it is one frame for its receiver at a time
\* (l2_switch_flood_frame_vlan, arp_learn_binding, route_between_vlans), where the
\* tree leaves no loop, VLANs are configured alike at both ends of a link and one
\* switch routes.
THEOREM ArrivesOnce ==
  ASSUME Configured, OneRouter, \A u \in Spare : LoopFree((Port \ Spare) \cup {u})
  PROVE  Spec => []NoDuplicates
<1>1. TokenInv => NoDuplicates
  BY DEF TokenInv, Settled, NoDuplicates
<1>2. QED
  BY <1>1, TokenInit, TokenInductive, PTL DEF Spec
==============================================================================
