------------------------- MODULE RoutingTable_proofs -------------------------
(****************************************************************************)
(* Proofs about routing tables: what additions and deletions leave in a     *)
(* table, and that the one pass of LookupLPM finds the best match, for      *)
(* addresses of any width and every sequence of edits.                      *)
(****************************************************************************)
EXTENDS RoutingTable, SequenceLemmas

(* Addresses and keys.                                                       *)

\* dest is a network address of the route's prefix length.
IsMasked(r) == r.dest = ApplyMask(r.dest, r.mask)

LEMMA MaskedIs ==
  ASSUME NEW w \in Nat, NEW r \in L3Route(w)
  PROVE  /\ Masked(r) \in L3Route(w) /\ IsMasked(Masked(r))
         /\ Masked(r).mask = r.mask /\ Masked(r).source = r.source
<1>1. r.dest \in [1 .. w -> {0, 1}] /\ r.mask \in 0 .. w
  BY DEF L3Route, Address
<1>2. ApplyMask(r.dest, r.mask) \in [1 .. w -> {0, 1}]
  BY <1>1 DEF ApplyMask
<1>3. /\ Masked(r).dest = ApplyMask(r.dest, r.mask) /\ Masked(r).mask = r.mask
      /\ Masked(r).gateway = r.gateway /\ Masked(r).source = r.source
      /\ Masked(r).ad = r.ad /\ Masked(r).metric = r.metric
  BY DEF Masked, L3Route
<1>4. Masked(r) \in L3Route(w)
  BY <1>2 DEF Masked, L3Route, Address
<1>5. ApplyMask(ApplyMask(r.dest, r.mask), r.mask) = ApplyMask(r.dest, r.mask)
  BY <1>1 DEF ApplyMask
<1>6. QED
  BY <1>3, <1>4, <1>5 DEF IsMasked

\* A route matches the addresses that begin as its destination does.
LEMMA MatchesPrefix ==
  ASSUME NEW w \in Nat, NEW r \in L3Route(w), IsMasked(r), NEW dst \in Address(w)
  PROVE  Matches(r, dst) <=> SubSeq(dst, 1, r.mask) = SubSeq(r.dest, 1, r.mask)
<1> DEFINE m == r.mask
           d == r.dest
           p == SubSeq(dst, 1, m)
           q == SubSeq(d, 1, m)
<1>1. m \in Nat /\ m <= w /\ d \in [1 .. w -> {0, 1}] /\ dst \in [1 .. w -> {0, 1}]
  BY DEF L3Route, Address
<1>2. ApplyMask(dst, m) = [i \in 1 .. w |-> IF i <= m THEN dst[i] ELSE 0]
  BY <1>1 DEF ApplyMask
<1>3. d = [i \in 1 .. w |-> IF i <= m THEN d[i] ELSE 0]
  BY <1>1 DEF IsMasked, ApplyMask
<1> HIDE DEF m, d
<1>4. /\ p \in Seq({0, 1}) /\ Len(p) = m /\ \A i \in 1 .. m : p[i] = dst[i]
      /\ q \in Seq({0, 1}) /\ Len(q) = m /\ \A i \in 1 .. m : q[i] = d[i]
  <2>1. 1 \in Int /\ m \in Int /\ \A i \in 1 .. m : dst[i] \in {0, 1} /\ d[i] \in {0, 1}
    BY <1>1
  <2>2. /\ SubSeq(dst, 1, m) \in Seq({0, 1})
        /\ Len(SubSeq(dst, 1, m)) = IF 1 <= m THEN m - 1 + 1 ELSE 0
        /\ \A i \in 1 .. m - 1 + 1 : SubSeq(dst, 1, m)[i] = dst[1 + i - 1]
    BY ONLY <2>1, SubSeqProperties
  <2>3. /\ SubSeq(d, 1, m) \in Seq({0, 1})
        /\ Len(SubSeq(d, 1, m)) = IF 1 <= m THEN m - 1 + 1 ELSE 0
        /\ \A i \in 1 .. m - 1 + 1 : SubSeq(d, 1, m)[i] = d[1 + i - 1]
    BY ONLY <2>1, SubSeqProperties
  <2> HIDE DEF p, q
  <2>4. QED
    BY <1>1, <2>2, <2>3 DEF p, q
<1> HIDE DEF p, q
<1>5. ASSUME ApplyMask(dst, m) = d
      PROVE  p = q
  <2>1. \A i \in 1 .. m : d[i] = dst[i]
    BY <1>1, <1>2, <1>5
  <2>2. QED
    BY <1>4, <2>1, SeqEqual
<1>6. ASSUME p = q
      PROVE  ApplyMask(dst, m) = d
  <2>1. \A i \in 1 .. m : d[i] = dst[i]
    BY <1>4, <1>6
  <2> DEFINE f == [i \in 1 .. w |-> IF i <= m THEN dst[i] ELSE 0]
             g == [i \in 1 .. w |-> IF i <= m THEN d[i] ELSE 0]
  <2>2. f = g
    BY <1>1, <2>1
  <2>3. ApplyMask(dst, m) = f /\ d = g
    BY <1>2, <1>3
  <2> HIDE DEF f, g
  <2>4. QED
    BY <2>2, <2>3
<1>7. QED
  BY <1>5, <1>6 DEF Matches, m, d, p, q

LEMMA Keys ==
  ASSUME NEW r, NEW s, NEW t
  PROVE  /\ SameKey(r, r)
         /\ SameKey(r, s) => SameKey(s, r)
         /\ SameKey(r, s) /\ SameKey(s, t) => SameKey(r, t)
  BY DEF SameKey

------------------------------------------------------------------------------
(* Edits.                                                                    *)

RoutesOf(table) == {table[i] : i \in 1 .. Len(table)}

\* A table lists network addresses, and no key twice.
Proper(table, w) ==
  /\ table \in Seq(L3Route(w))
  /\ \A i \in 1 .. Len(table) : IsMasked(table[i])
  /\ \A i, j \in 1 .. Len(table) : SameKey(table[i], table[j]) => i = j

\* What an edit with the key of r should leave of the routes there were.
Others(routes, r) == {s \in routes : ~SameKey(s, Masked(r))}

LEMMA PlaceIs ==
  ASSUME NEW w \in Nat, NEW t, Proper(t, w), NEW r, Listed(t, r)
  PROVE  Place(t, r) \in 1 .. Len(t) /\ SameKey(t[Place(t, r)], r)
<1>1. DOMAIN t = 1 .. Len(t)
  BY LenProperties DEF Proper
<1>2. PICK i \in 1 .. Len(t) : SameKey(t[i], r)
  BY <1>1 DEF Listed
<1>3. ASSUME NEW j \in 1 .. Len(t), SameKey(t[j], r)
      PROVE  i <= j
  <2>1. SameKey(t[i], t[j])
    BY <1>2, <1>3, Keys
  <2>2. QED
    BY <2>1 DEF Proper
<1>4. QED
  BY <1>1, <1>2, <1>3 DEF Place

LEMMA AddRouteIs ==
  ASSUME NEW w \in Nat, NEW t, Proper(t, w), NEW r \in L3Route(w)
  PROVE  /\ Proper(AddRoute(t, r), w)
         /\ RoutesOf(AddRoute(t, r)) = Others(RoutesOf(t), r) \cup {Masked(r)}
<1> DEFINE new == Masked(r)
           u == AddRoute(t, r)
           n == Len(t)
<1>1. /\ t \in Seq(L3Route(w)) /\ n \in Nat /\ DOMAIN t = 1 .. n
      /\ new \in L3Route(w) /\ IsMasked(new)
  BY LenProperties, MaskedIs DEF Proper
<1>2. CASE Listed(t, new)
  <2> DEFINE p == Place(t, new)
  <2>1. p \in 1 .. n /\ SameKey(t[p], new)
    BY <1>2, PlaceIs
  <2>2. u = [t EXCEPT ![p] = new]
    BY <1>2 DEF AddRoute
  <2> HIDE DEF u, p, new
  <2>3. /\ u \in Seq(L3Route(w)) /\ Len(u) = n
        /\ \A j \in 1 .. n : u[j] = IF j = p THEN new ELSE t[j]
    BY <1>1, <2>1, <2>2, ExceptSeq
  <2> HIDE DEF n
  <2>4. \A j \in 1 .. n : SameKey(t[j], new) <=> j = p
    <3>1. ASSUME NEW j \in 1 .. n, SameKey(t[j], new)
          PROVE  j = p
      <4>1. SameKey(t[j], t[p])
        BY <2>1, <3>1, Keys
      <4>2. QED
        BY <2>1, <4>1 DEF Proper, n
    <3>2. QED
      BY <2>1, <3>1
  <2>5. Proper(u, w)
    <3>1. \A j \in 1 .. n : IsMasked(u[j])
      BY <1>1, <2>3 DEF Proper, n
    <3>2. ASSUME NEW i \in 1 .. n, NEW j \in 1 .. n, SameKey(u[i], u[j])
          PROVE  i = j
      <4>1. CASE i = p /\ j # p
        BY <2>3, <2>4, <3>2, <4>1, Keys
      <4>2. CASE i # p /\ j = p
        BY <2>3, <2>4, <3>2, <4>2, Keys
      <4>3. CASE i # p /\ j # p
        BY <2>3, <3>2, <4>3 DEF Proper, n
      <4>4. QED
        BY <4>1, <4>2, <4>3
    <3>3. QED
      BY <2>3, <3>1, <3>2 DEF Proper
  <2>6. RoutesOf(u) = Others(RoutesOf(t), r) \cup {new}
    <3>1. ASSUME NEW s \in RoutesOf(u)
          PROVE  s \in Others(RoutesOf(t), r) \cup {new}
      <4>1. PICK j \in 1 .. n : s = u[j]
        BY <2>3 DEF RoutesOf
      <4>2. j # p => s = t[j] /\ t[j] \in RoutesOf(t) /\ ~SameKey(t[j], new)
        BY <2>3, <2>4, <4>1 DEF RoutesOf, n
      <4>3. QED
        BY <2>3, <4>1, <4>2 DEF Others, new
    <3>2. new \in RoutesOf(u)
      BY <2>1, <2>3 DEF RoutesOf
    <3>3. ASSUME NEW s \in Others(RoutesOf(t), r)
          PROVE  s \in RoutesOf(u)
      <4>1. PICK j \in 1 .. n : s = t[j] /\ ~SameKey(t[j], new)
        BY DEF Others, RoutesOf, n, new
      <4>2. j # p
        BY <2>4, <4>1
      <4>3. s = u[j]
        BY <2>3, <4>1, <4>2
      <4>4. QED
        BY <2>3, <4>3 DEF RoutesOf
    <3>4. QED
      BY <3>1, <3>2, <3>3
  <2>7. QED
    BY <2>5, <2>6 DEF u, new
<1>3. CASE ~Listed(t, new)
  <2>1. u = Append(t, new)
    BY <1>3 DEF AddRoute
  <2>2. \A j \in 1 .. n : ~SameKey(t[j], new)
    BY <1>1, <1>3 DEF Listed
  <2> HIDE DEF u, new
  <2>3. /\ u \in Seq(L3Route(w)) /\ Len(u) = n + 1 /\ u[n + 1] = new
        /\ \A j \in 1 .. n : u[j] = t[j]
    BY <1>1, <2>1, AppendProperties
  <2> HIDE DEF n
  <2>4. Proper(u, w)
    <3>1. \A j \in 1 .. n + 1 : j \in 1 .. n \/ j = n + 1
      BY <1>1
    <3>2. \A j \in 1 .. n + 1 : IsMasked(u[j])
      BY <1>1, <2>3, <3>1 DEF Proper, n
    <3>3. ASSUME NEW i \in 1 .. n + 1, NEW j \in 1 .. n + 1, SameKey(u[i], u[j])
          PROVE  i = j
      <4>1. CASE i \in 1 .. n /\ j \in 1 .. n
        BY <2>3, <3>3, <4>1 DEF Proper, n
      <4>2. CASE i \in 1 .. n /\ j = n + 1
        BY <2>2, <2>3, <3>3, <4>2
      <4>3. CASE i = n + 1 /\ j \in 1 .. n
        BY <2>2, <2>3, <3>3, <4>3, Keys
      <4>4. QED
        BY <3>1, <4>1, <4>2, <4>3
    <3>4. QED
      BY <2>3, <3>2, <3>3 DEF Proper
  <2>5. RoutesOf(u) = Others(RoutesOf(t), r) \cup {new}
    <3>1. ASSUME NEW s \in RoutesOf(u)
          PROVE  s \in Others(RoutesOf(t), r) \cup {new}
      <4>1. PICK j \in 1 .. n + 1 : s = u[j]
        BY <2>3 DEF RoutesOf
      <4>2. j \in 1 .. n => s = t[j] /\ t[j] \in RoutesOf(t) /\ ~SameKey(t[j], new)
        BY <2>2, <2>3, <4>1 DEF RoutesOf, n
      <4>3. j \in 1 .. n \/ j = n + 1
        BY <1>1
      <4>4. QED
        BY <2>3, <4>1, <4>2, <4>3 DEF Others, new
    <3>2. new \in RoutesOf(u)
      BY <1>1, <2>3 DEF RoutesOf
    <3>3. ASSUME NEW s \in Others(RoutesOf(t), r)
          PROVE  s \in RoutesOf(u)
      <4>1. PICK j \in 1 .. n : s = t[j]
        BY DEF Others, RoutesOf, n
      <4>2. j \in 1 .. Len(u) /\ s = u[j]
        BY <1>1, <2>3, <4>1
      <4>3. QED
        BY <4>2 DEF RoutesOf
    <3>4. QED
      BY <3>1, <3>2, <3>3
  <2>6. QED
    BY <2>4, <2>5 DEF u, new
<1>4. QED
  BY <1>2, <1>3

LEMMA DeleteRouteIs ==
  ASSUME NEW w \in Nat, NEW t, Proper(t, w), NEW r \in L3Route(w)
  PROVE  /\ Proper(DeleteRoute(t, r), w)
         /\ RoutesOf(DeleteRoute(t, r)) = Others(RoutesOf(t), r)
<1> DEFINE key == Masked(r)
           u == DeleteRoute(t, r)
           n == Len(t)
<1>1. t \in Seq(L3Route(w)) /\ n \in Nat /\ DOMAIN t = 1 .. n
  BY LenProperties DEF Proper
<1>2. CASE Listed(t, key)
  <2> DEFINE p == Place(t, key)
             v == [t EXCEPT ![p] = Last(t)]
  <2>1. p \in 1 .. n /\ SameKey(t[p], key)
    BY <1>2, PlaceIs
  <2>2. u = Front(v)
    BY <1>2 DEF DeleteRoute
  <2>3. Last(t) = t[n] /\ t[n] \in L3Route(w) /\ n \in 1 .. n
    BY <1>1, <2>1, ElementOfSeq DEF Last
  <2> HIDE DEF u, p, key
  <2>4. /\ v \in Seq(L3Route(w)) /\ Len(v) = n
        /\ \A j \in 1 .. n : v[j] = IF j = p THEN t[n] ELSE t[j]
    BY <1>1, <2>1, <2>3, ExceptSeq
  <2> HIDE DEF v, n
  <2>5. /\ u \in Seq(L3Route(w)) /\ Len(u) = n - 1
        /\ \A j \in 1 .. n - 1 : u[j] = IF j = p THEN t[n] ELSE t[j]
    <3>1. u = SubSeq(v, 1, n - 1)
      BY <2>2, <2>4 DEF Front
    <3>2. 1 \in Int /\ n - 1 \in Int /\ \A i \in 1 .. n - 1 : v[i] \in L3Route(w)
      BY <1>1, <2>4, ElementOfSeq
    <3>3. /\ SubSeq(v, 1, n - 1) \in Seq(L3Route(w))
          /\ Len(SubSeq(v, 1, n - 1)) = IF 1 <= n - 1 THEN (n - 1) - 1 + 1 ELSE 0
          /\ \A i \in 1 .. (n - 1) - 1 + 1 : SubSeq(v, 1, n - 1)[i] = v[1 + i - 1]
      BY ONLY <3>2, SubSeqProperties
    <3>4. Len(u) = n - 1 /\ \A i \in 1 .. n - 1 : u[i] = v[i]
      BY <1>1, <2>3, <3>1, <3>3
    <3>5. QED
      BY <1>1, <2>4, <3>1, <3>3, <3>4
  <2>6. \A j \in 1 .. n : SameKey(t[j], key) <=> j = p
    <3>1. ASSUME NEW j \in 1 .. n, SameKey(t[j], key)
          PROVE  j = p
      <4>1. SameKey(t[j], t[p])
        BY <2>1, <3>1, Keys
      <4>2. QED
        BY <2>1, <4>1 DEF Proper, n
    <3>2. QED
      BY <2>1, <3>1
  \* The place in t of the route at place j of u.
  <2> DEFINE from(j) == IF j = p THEN n ELSE j
  <2>7. \A j \in 1 .. n - 1 : u[j] = t[from(j)] /\ from(j) \in 1 .. n /\ from(j) # p
    BY <1>1, <2>3, <2>5
  <2>8. \A i, j \in 1 .. n - 1 : from(i) = from(j) => i = j
    BY <1>1
  <2>9. ASSUME NEW k \in 1 .. n, k # p
        PROVE  \E j \in 1 .. n - 1 : from(j) = k
    <3>1. CASE k = n
      <4>1. p \in 1 .. n - 1 /\ from(p) = k
        BY <1>1, <2>1, <2>9, <3>1
      <4>2. QED
        BY <4>1
    <3>2. CASE k # n
      <4>1. k \in 1 .. n - 1 /\ from(k) = k
        BY <1>1, <2>9, <3>2
      <4>2. QED
        BY <4>1
    <3>3. QED
      BY <3>1, <3>2
  <2> HIDE DEF from
  <2>10. Proper(u, w)
    <3>1. \A j \in 1 .. n - 1 : IsMasked(u[j])
      BY <2>7 DEF Proper, n
    <3>2. ASSUME NEW i \in 1 .. n - 1, NEW j \in 1 .. n - 1, SameKey(u[i], u[j])
          PROVE  i = j
      <4>1. SameKey(t[from(i)], t[from(j)]) /\ from(i) \in 1 .. n /\ from(j) \in 1 .. n
        BY <2>7, <3>2
      <4>2. from(i) = from(j)
        BY <4>1 DEF Proper, n
      <4>3. QED
        BY <2>8, <4>2
    <3>3. QED
      BY <2>5, <3>1, <3>2 DEF Proper
  <2>11. RoutesOf(u) = Others(RoutesOf(t), r)
    <3>1. ASSUME NEW s \in RoutesOf(u)
          PROVE  s \in Others(RoutesOf(t), r)
      <4>1. PICK j \in 1 .. n - 1 : s = u[j]
        BY <2>5 DEF RoutesOf
      <4>2. s = t[from(j)] /\ from(j) \in 1 .. n /\ ~SameKey(t[from(j)], key)
        BY <2>6, <2>7, <4>1
      <4>3. QED
        BY <4>2 DEF Others, RoutesOf, n, key
    <3>2. ASSUME NEW s \in Others(RoutesOf(t), r)
          PROVE  s \in RoutesOf(u)
      <4>1. PICK k \in 1 .. n : s = t[k] /\ ~SameKey(t[k], key)
        BY DEF Others, RoutesOf, n, key
      <4>2. PICK j \in 1 .. n - 1 : from(j) = k
        BY <2>6, <2>9, <4>1
      <4>3. s = u[j]
        BY <2>7, <4>1, <4>2
      <4>4. QED
        BY <2>5, <4>3 DEF RoutesOf
    <3>3. QED
      BY <3>1, <3>2
  <2>12. QED
    BY <2>10, <2>11 DEF u
<1>3. CASE ~Listed(t, key)
  <2>1. u = t
    BY <1>3 DEF DeleteRoute
  <2>2. \A j \in 1 .. n : ~SameKey(t[j], key)
    BY <1>1, <1>3 DEF Listed
  <2>3. RoutesOf(t) = Others(RoutesOf(t), r)
    BY <2>2 DEF Others, RoutesOf
  <2>4. QED
    BY <2>1, <2>3
<1>4. QED
  BY <1>2, <1>3

\* What the first m edits leave.
After(steps, m) ==
  {Masked(steps[i].route) : i \in {j \in 1 .. m :
     /\ steps[j].add
     /\ \A k \in j + 1 .. m : ~SameKey(Masked(steps[j].route), Masked(steps[k].route))}}

LEMMA AfterOneMore ==
  ASSUME NEW steps, NEW m \in Nat, NEW e, e = steps[m + 1]
  PROVE  After(steps, m + 1) =
           Others(After(steps, m), e.route) \cup (IF e.add THEN {Masked(e.route)} ELSE {})
<1> DEFINE key(j) == Masked(steps[j].route)
           kept(k) == {j \in 1 .. k : /\ steps[j].add
                                     /\ \A l \in j + 1 .. k : ~SameKey(key(j), key(l))}
<1>1. \A k : After(steps, k) = {key(i) : i \in kept(k)}
  BY DEF After
<1>2. \A j \in 1 .. m : j \in kept(m + 1) <=> j \in kept(m) /\ ~SameKey(key(j), key(m + 1))
  <2> TAKE j \in 1 .. m
  <2>1. j + 1 .. m + 1 = (j + 1 .. m) \cup {m + 1} /\ j \in 1 .. m + 1
    OBVIOUS
  <2> HIDE DEF key
  <2>2. QED
    BY <2>1
<1>3. m + 1 \in kept(m + 1) <=> steps[m + 1].add
  <2>1. (m + 1) + 1 .. m + 1 = {} /\ m + 1 \in 1 .. m + 1
    OBVIOUS
  <2> HIDE DEF key
  <2>2. QED
    BY <2>1
<1>4. kept(m + 1) \subseteq 1 .. m + 1 /\ kept(m) \subseteq 1 .. m /\ 1 .. m + 1 = (1 .. m) \cup {m + 1}
  OBVIOUS
<1> HIDE DEF kept
<1>5. Masked(e.route) = key(m + 1) /\ e.add = steps[m + 1].add
  OBVIOUS
<1> HIDE DEF key
<1>6. \A s : s \in Others(After(steps, m), e.route) <=>
               \E j \in kept(m) : s = key(j) /\ ~SameKey(key(j), key(m + 1))
  BY <1>1, <1>5 DEF Others
<1>7. \A s : s \in After(steps, m + 1) <=> \E j \in kept(m + 1) : s = key(j)
  BY <1>1
<1>8. QED
  BY <1>2, <1>3, <1>4, <1>5, <1>6, <1>7

LEMMA EditedIs ==
  ASSUME NEW w \in Nat, NEW t, Proper(t, w), NEW e \in Edit(w)
  PROVE  /\ Proper(Edited(t, e), w)
         /\ RoutesOf(Edited(t, e)) =
              Others(RoutesOf(t), e.route) \cup (IF e.add THEN {Masked(e.route)} ELSE {})
<1>1. e.route \in L3Route(w) /\ e.add \in BOOLEAN
  BY DEF Edit
<1>2. QED
  BY <1>1, AddRouteIs, DeleteRouteIs DEF Edited

\* The function by which Table is defined.
Makes(f, steps) ==
  f = [i \in 0 .. Len(steps) |-> IF i = 0 THEN << >> ELSE Edited(f[i - 1], steps[i])]

LEMMA TableIs ==
  ASSUME NEW w \in Nat, NEW steps \in Seq(Edit(w))
  PROVE  Proper(Table(steps), w) /\ RoutesOf(Table(steps)) = Configured(steps)
<1> DEFINE n == Len(steps)
           S == {t \in Seq(L3Route(w)) : Proper(t, w)}
           g == CHOOSE f : Makes(f, steps)
<1>1. n \in Nat /\ DOMAIN steps = 1 .. n /\ \A i \in 1 .. n : steps[i] \in Edit(w)
  BY LenProperties, ElementOfSeq
<1>2. << >> \in S /\ RoutesOf(<< >>) = {}
  <2>1. << >> \in Seq(L3Route(w)) /\ Len(<< >>) = 0
    BY EmptySeq
  <2>2. QED
    BY <2>1 DEF Proper, RoutesOf
<1>3. Makes(g, steps)
  <2> DEFINE G == [x \in S \X (1 .. n) |-> Edited(x[1], steps[x[2]])]
  <2>1. \A x \in S \X (1 .. n) : Edited(x[1], steps[x[2]]) \in S
    <3> TAKE x \in S \X (1 .. n)
    <3>1. Proper(x[1], w) /\ x[2] \in 1 .. n
      OBVIOUS
    <3>2. Proper(Edited(x[1], steps[x[2]]), w)
      BY <1>1, <3>1, EditedIs
    <3>3. QED
      BY <3>2 DEF Proper
  <2>2. G \in [S \X (1 .. n) -> S]
    BY <2>1
  <2>3. PICK f \in [0 .. n -> S] : Loops(f, << >>, G, n)
    <3> DEFINE start == << >>
    <3>1. start \in S
      BY <1>2
    <3>2. n \in Nat
      BY <1>1
    <3> HIDE DEF G, S, n, start
    <3>3. \E f \in [0 .. n -> S] : Loops(f, start, G, n)
      BY ONLY <2>2, <3>1, <3>2, LoopExists
    <3>4. QED
      BY <3>3 DEF start
  <2>4. ASSUME NEW i \in 0 .. n
        PROVE  f[i] = IF i = 0 THEN << >> ELSE Edited(f[i - 1], steps[i])
    <3>1. CASE i = 0
      BY <2>3, <3>1 DEF Loops
    <3>2. CASE i # 0
      <4>1. i - 1 \in 0 .. n /\ i \in 1 .. n
        BY <1>1, <3>2
      <4>2. <<f[i - 1], i>> \in S \X (1 .. n)
        BY <2>3, <4>1
      <4>3. f[i] = G[<<f[i - 1], i>>]
        BY <2>3, <3>2 DEF Loops
      <4>4. QED
        BY <3>2, <4>2, <4>3
    <3>3. QED
      BY <3>1, <3>2
  <2>5. f = [i \in 0 .. n |-> f[i]]
    BY <2>3
  <2>6. Makes(f, steps)
    BY <2>4, <2>5 DEF Makes
  <2>7. QED
    BY <2>6
<1>4. \A i \in 0 .. n : g[i] = IF i = 0 THEN << >> ELSE Edited(g[i - 1], steps[i])
  <2> HIDE DEF g
  <2> DEFINE h == [i \in 0 .. n |-> IF i = 0 THEN << >> ELSE Edited(g[i - 1], steps[i])]
  <2>1. \A i \in 0 .. n : h[i] = IF i = 0 THEN << >> ELSE Edited(g[i - 1], steps[i])
    OBVIOUS
  <2>2. g = h
    BY <1>3 DEF Makes
  <2> HIDE DEF h
  <2>3. QED
    BY <2>1, <2>2
<1>5. Table(steps) = g[n]
  BY DEF Table, Makes
<1> HIDE DEF g
<1> DEFINE Good(i) == Proper(g[i], w) /\ RoutesOf(g[i]) = After(steps, i)
           T == {i \in Nat : i <= n => Good(i)}
<1>6. 0 \in T
  <2>1. g[0] = << >>
    BY <1>1, <1>4
  <2>2. After(steps, 0) = {}
    BY DEF After
  <2>3. QED
    BY <1>2, <2>1, <2>2
<1>7. ASSUME NEW i \in T
      PROVE  i + 1 \in T
  <2> SUFFICES ASSUME i + 1 <= n
               PROVE  Good(i + 1)
    OBVIOUS
  <2>1. i \in Nat /\ i <= n /\ i + 1 \in 1 .. n /\ i + 1 \in 0 .. n /\ (i + 1) - 1 = i /\ i + 1 # 0
    BY <1>1
  <2>2. Good(i)
    BY <2>1
  <2>3. g[i + 1] = Edited(g[i], steps[i + 1])
    BY <1>4, <2>1
  <2>4. steps[i + 1] \in Edit(w)
    BY <1>1, <2>1
  <2> HIDE DEF n, S
  <2> DEFINE e == steps[i + 1]
             news == IF e.add THEN {Masked(e.route)} ELSE {}
  <2>5. Proper(g[i], w) /\ RoutesOf(g[i]) = After(steps, i)
    BY <2>2
  <2>6. Proper(Edited(g[i], e), w) /\ RoutesOf(Edited(g[i], e)) = Others(RoutesOf(g[i]), e.route) \cup news
    BY <2>4, <2>5, EditedIs
  <2>7. After(steps, i + 1) = Others(After(steps, i), e.route) \cup news
    BY <2>1, AfterOneMore
  <2> HIDE DEF news
  <2>8. QED
    BY <2>3, <2>5, <2>6, <2>7
<1>8. Good(n)
  <2>1. T = Nat
    <3> HIDE DEF T
    <3>1. T \in SUBSET Nat
      BY DEF T
    <3>2. QED
      BY <1>6, <1>7, <3>1, InductiveSet
  <2>2. n \in T /\ n <= n
    <3> HIDE DEF T
    <3>1. QED
      BY <1>1, <2>1
  <2>3. QED
    BY <2>2
<1>9. After(steps, n) = Configured(steps)
  BY <1>1 DEF After, Configured
<1>10. QED
  BY <1>5, <1>8, <1>9

------------------------------------------------------------------------------
(* Lookup.                                                                   *)

\* best is one of the routes that match dst, none of which is preferred to it;
\* there is none only if none matches.
IsBest(best, routes, dst) ==
  /\ best = None => \A r \in routes : ~Matches(r, dst)
  /\ best # None => /\ best \in routes /\ Matches(best, dst)
                    /\ \A r \in routes : Matches(r, dst) => ~Preferred(r, best)

LEMMA ChosenIsBest ==
  ASSUME NEW w \in Nat, None \notin L3Route(w), NEW dst,
         NEW routes \in SUBSET L3Route(w), NEW r \in L3Route(w), NEW best, IsBest(best, routes, dst)
  PROVE  IsBest(Chosen(best, r, dst), routes \cup {r}, dst)
<1>1. r # None /\ r.mask \in Nat /\ r.ad \in Nat /\ r.metric \in Nat
  BY DEF L3Route
<1>2. \A s \in routes : s.mask \in Nat /\ s.ad \in Nat /\ s.metric \in Nat
  BY DEF L3Route
<1>3. ~Preferred(r, r)
  BY <1>1 DEF Preferred
<1>4. CASE ~Matches(r, dst)
  BY <1>4 DEF Chosen, IsBest
<1>5. CASE Matches(r, dst) /\ best = None
  BY <1>1, <1>3, <1>5 DEF Chosen, IsBest
<1>6. CASE Matches(r, dst) /\ best # None /\ ~Preferred(r, best)
  BY <1>6 DEF Chosen, IsBest
<1>7. CASE Matches(r, dst) /\ best # None /\ Preferred(r, best)
  <2>1. best \in routes /\ Chosen(best, r, dst) = r
    BY <1>7 DEF Chosen, IsBest
  <2>2. ASSUME NEW s \in routes, Matches(s, dst)
        PROVE  ~Preferred(s, r)
    <3>1. ~Preferred(s, best)
      BY <1>7, <2>2 DEF IsBest
    <3>2. QED
      BY <1>1, <1>2, <1>7, <2>1, <3>1 DEF Preferred
  <2>3. QED
    BY <1>1, <1>3, <1>7, <2>1, <2>2 DEF IsBest
<1>8. QED
  BY <1>4, <1>5, <1>6, <1>7

\* The function by which LookupLPM is defined.
Passes(f, t, dst) ==
  f = [i \in 0 .. Len(t) |-> IF i = 0 THEN None ELSE Chosen(f[i - 1], t[i], dst)]

LEMMA LookupLPMIs ==
  ASSUME NEW w \in Nat, None \notin L3Route(w), NEW t \in Seq(L3Route(w)), NEW dst
  PROVE  IsBest(LookupLPM(t, dst), RoutesOf(t), dst)
<1> DEFINE n == Len(t)
           S == L3Route(w) \cup {None}
           g == CHOOSE f : Passes(f, t, dst)
<1>1. n \in Nat /\ \A i \in 1 .. n : t[i] \in L3Route(w)
  BY LenProperties, ElementOfSeq
<1>2. Passes(g, t, dst)
  <2> DEFINE G == [x \in S \X (1 .. n) |-> Chosen(x[1], t[x[2]], dst)]
  <2>1. \A x \in S \X (1 .. n) : Chosen(x[1], t[x[2]], dst) \in S
    BY <1>1 DEF Chosen
  <2>2. G \in [S \X (1 .. n) -> S] /\ None \in S
    BY <2>1
  <2>3. PICK f \in [0 .. n -> S] : Loops(f, None, G, n)
    <3>1. n \in Nat /\ None \in S /\ G \in [S \X (1 .. n) -> S]
      BY <1>1, <2>2
    <3> HIDE DEF G, S, n
    <3>2. QED
      BY ONLY <3>1, LoopExists
  <2>4. ASSUME NEW i \in 0 .. n
        PROVE  f[i] = IF i = 0 THEN None ELSE Chosen(f[i - 1], t[i], dst)
    <3>1. CASE i = 0
      BY <2>3, <3>1 DEF Loops
    <3>2. CASE i # 0
      <4>1. i - 1 \in 0 .. n /\ i \in 1 .. n
        BY <1>1, <3>2
      <4>2. <<f[i - 1], i>> \in S \X (1 .. n)
        BY <2>3, <4>1
      <4>3. f[i] = G[<<f[i - 1], i>>]
        BY <2>3, <3>2 DEF Loops
      <4>4. QED
        BY <3>2, <4>2, <4>3
    <3>3. QED
      BY <3>1, <3>2
  <2>5. f = [i \in 0 .. n |-> f[i]]
    BY <2>3
  <2>6. Passes(f, t, dst)
    BY <2>4, <2>5 DEF Passes
  <2>7. QED
    BY <2>6
<1>3. \A i \in 0 .. n : g[i] = IF i = 0 THEN None ELSE Chosen(g[i - 1], t[i], dst)
  <2> HIDE DEF g
  <2> DEFINE h == [i \in 0 .. n |-> IF i = 0 THEN None ELSE Chosen(g[i - 1], t[i], dst)]
  <2>1. \A i \in 0 .. n : h[i] = IF i = 0 THEN None ELSE Chosen(g[i - 1], t[i], dst)
    OBVIOUS
  <2>2. g = h
    BY <1>2 DEF Passes
  <2> HIDE DEF h
  <2>3. QED
    BY <2>1, <2>2
<1>4. LookupLPM(t, dst) = g[n]
  BY DEF LookupLPM, Passes
<1> HIDE DEF g
<1> DEFINE firsts(i) == {t[j] : j \in 1 .. i}
           T == {i \in Nat : i <= n => IsBest(g[i], firsts(i), dst)}
<1>5. 0 \in T
  <2>1. g[0] = None
    BY <1>1, <1>3
  <2>2. QED
    BY <2>1 DEF IsBest
<1>6. ASSUME NEW i \in T
      PROVE  i + 1 \in T
  <2> SUFFICES ASSUME i + 1 <= n
               PROVE  IsBest(g[i + 1], firsts(i + 1), dst)
    OBVIOUS
  <2>1. i \in Nat /\ i <= n /\ i + 1 \in 1 .. n /\ i + 1 \in 0 .. n /\ (i + 1) - 1 = i /\ i + 1 # 0
    BY <1>1
  <2>2. IsBest(g[i], firsts(i), dst)
    BY <2>1
  <2>3. g[i + 1] = Chosen(g[i], t[i + 1], dst)
    BY <1>3, <2>1
  <2>4. firsts(i + 1) = firsts(i) \cup {t[i + 1]}
    <3>1. 1 .. i + 1 = (1 .. i) \cup {i + 1}
      BY <2>1
    <3>2. QED
      BY <3>1
  <2>5. t[i + 1] \in L3Route(w) /\ firsts(i) \in SUBSET L3Route(w)
    BY <1>1, <2>1
  <2> HIDE DEF firsts, n
  <2>6. QED
    BY <2>2, <2>3, <2>4, <2>5, ChosenIsBest
<1>7. IsBest(g[n], firsts(n), dst)
  <2>1. T = Nat
    <3> HIDE DEF T
    <3>1. T \in SUBSET Nat
      BY DEF T
    <3>2. QED
      BY <1>5, <1>6, <3>1, InductiveSet
  <2>2. n \in T /\ n <= n
    <3> HIDE DEF T
    <3>1. QED
      BY <1>1, <2>1
  <2>3. QED
    BY <2>2
<1>8. QED
  BY <1>4, <1>7 DEF RoutesOf

\* Adding twice, replacing and removing in the middle of a table lose or keep
\* nothing wrongly, and one pass over what they leave finds the best match
\* (AddRouteWithParams, DeleteRouteFromSource, LookupLPM).
THEOREM LookupFindsBest ==
  ASSUME NEW w \in Nat, None \notin L3Route(w), NEW steps \in Seq(Edit(w)), NEW dst \in Address(w)
  PROVE  /\ IsBest(LookupLPM(Table(steps), dst), Configured(steps), dst)
         /\ \A r \in Configured(steps) :
              /\ r \in L3Route(w)
              /\ Matches(r, dst) <=> SubSeq(dst, 1, r.mask) = SubSeq(r.dest, 1, r.mask)
<1> DEFINE t == Table(steps)
<1>1. Proper(t, w) /\ RoutesOf(t) = Configured(steps)
  BY TableIs
<1> HIDE DEF t
<1>2. t \in Seq(L3Route(w)) /\ \A i \in 1 .. Len(t) : t[i] \in L3Route(w) /\ IsMasked(t[i])
  BY <1>1, ElementOfSeq DEF Proper
<1>3. IsBest(LookupLPM(t, dst), Configured(steps), dst)
  BY <1>1, <1>2, LookupLPMIs
<1>4. \A r \in Configured(steps) : r \in L3Route(w) /\ IsMasked(r)
  BY <1>1, <1>2 DEF RoutesOf
<1>5. QED
  BY <1>3, <1>4, MatchesPrefix DEF t
==============================================================================
