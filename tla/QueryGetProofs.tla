--------------------------- MODULE QueryGetProofs ---------------------------
(***************************************************************************)
(* Proofs about QueryGet, for any finite sets of gets and queries and any  *)
(* bounds, along three inductive invariants:                               *)
(*                                                                         *)
(*   Sane      the types, what the client asserts of itself, that nothing  *)
(*             is left of a stream that has ended, and that listeners,     *)
(*             targets and gets agree;                                     *)
(*   AllOnce   where a get is, from its call to its answer;                *)
(*   AllKnown  that the aggregator waits for no fewer answers than are to  *)
(*             come, and what it knows of a target that had no error.      *)
(*                                                                         *)
(* An operator of the client is first shown to do what a relation between  *)
(* its argument and its result says (Shows, Handled, Requested, Rejected,  *)
(* ...).  Each task is then one of a few relations (Stepped, Added,        *)
(* Removed, EventTaken), and the invariants are shown to be kept by these. *)
(***************************************************************************)
EXTENDS QueryGet, FiniteSetTheorems, SequenceTheorems, TLAPS

GetEvent == [get: Gets, result: {"synced", "cached", "error"}]
Request  == [kind: {"Watch", "Unwatch"}, target: Queries]

IsClient(c) == DOMAIN c.states \subseteq Queries /\ c \in Client(DOMAIN c.states)

-----------------------------------------------------------------------------
(* Sets in some order.                                                     *)
LEMMA SetInOrder ==
  ASSUME NEW S, IsFiniteSet(S)
  PROVE  /\ SetToSeq(S) \in Seq(S)
         /\ Len(SetToSeq(S)) = Cardinality(S) /\ Cardinality(S) \in Nat
         /\ \A i, j \in 1 .. Cardinality(S) : SetToSeq(S)[i] = SetToSeq(S)[j] => i = j
         /\ \A x \in S : \E i \in 1 .. Cardinality(S) : SetToSeq(S)[i] = x
<1> DEFINE n == Cardinality(S)
           s == SetToSeq(S)
<1>1. n \in Nat
  BY FS_CardinalityType
<1>2. PICK f : f \in Bijection(1 .. n, S)
  BY FS_CardinalityType DEF ExistsBijection
<1>3. f \in [1 .. n -> S] /\ IsInjective(f)
  BY <1>2 DEF Bijection, Injection, IsInjective
<1>4. s \in [1 .. n -> S] /\ IsInjective(s)
  BY <1>3 DEF SetToSeq
<1>5. IsFiniteSet(1 .. n) /\ Cardinality(1 .. n) = n
  BY <1>1, FS_Interval
<1> HIDE DEF n, s
<1>6. s \in Injection(1 .. n, S)
  BY <1>4 DEF Injection, IsInjective
<1>7. s \in Surjection(1 .. n, S)
  BY <1>5, <1>6, FS_Injection DEF n
<1>8. \A x \in S : \E i \in 1 .. n : s[i] = x
  BY <1>7 DEF Surjection
<1>9. s \in Seq(S) /\ Len(s) = n
  BY <1>1, <1>4, SeqDef
<1>10. \A i, j \in 1 .. n : s[i] = s[j] => i = j
  BY <1>4 DEF IsInjective
<1> QED  BY <1>1, <1>8, <1>9, <1>10 DEF n, s

(* The events posted: one for each listener, behind those that wait.       *)
Posted(es, gs, result, p) ==
  /\ p \in Seq(GetEvent)
  /\ Len(p) \in Nat /\ Len(es) \in Nat /\ Len(es) <= Len(p)
  /\ \A i \in 1 .. Len(es) : p[i] = es[i]
  /\ \A i \in 1 .. Len(p) : i > Len(es) => p[i].get \in gs /\ p[i].result = result[p[i].get]
  /\ \A g \in gs : \E i \in 1 .. Len(p) : i > Len(es) /\ p[i].get = g
  /\ \A i, j \in 1 .. Len(p) : i > Len(es) /\ j > Len(es) /\ p[i].get = p[j].get => i = j

(* Post adds one event for each of the listeners, behind those that wait.  *)
LEMMA PostIs ==
  ASSUME NEW es \in Seq(GetEvent), NEW gs \in SUBSET Gets,
         NEW result \in [Gets -> {"synced", "cached", "error"}]
  PROVE  Posted(es, gs, result, Post(es, gs, result))
<1> DEFINE s == SetToSeq(gs)
           n == Cardinality(gs)
           t == [i \in DOMAIN s |-> [get |-> s[i], result |-> result[s[i]]]]
           p == Post(es, gs, result)
           m == Len(es)
<1>1. IsFiniteSet(gs)
  BY GetAssumption, FS_Subset
<1>2. /\ s \in Seq(gs) /\ Len(s) = n /\ n \in Nat
      /\ \A i, j \in 1 .. n : s[i] = s[j] => i = j
      /\ \A x \in gs : \E i \in 1 .. n : s[i] = x
  BY <1>1, SetInOrder
<1>3. DOMAIN s = 1 .. n /\ \A i \in 1 .. n : s[i] \in gs
  BY <1>2
<1> HIDE DEF s, n
<1>4. \A i \in 1 .. n : /\ t[i] = [get |-> s[i], result |-> result[s[i]]]
                         /\ t[i].get = s[i] /\ t[i].result = result[s[i]]
                         /\ t[i] \in GetEvent
  BY <1>3 DEF GetEvent
<1>5. t \in [1 .. n -> GetEvent]
  BY <1>3, <1>4
<1>6. t \in Seq(GetEvent) /\ Len(t) = n
  BY <1>2, <1>5, SeqDef
<1>7. p = es \o t
  BY DEF Post, s
<1> HIDE DEF t, p
<1>8. /\ p \in Seq(GetEvent) /\ Len(p) = m + n /\ m \in Nat
      /\ \A i \in 1 .. m : p[i] = es[i]
      /\ \A i \in 1 .. n : p[m + i] = t[i]
  <2> HIDE DEF m
  <2>0. m = Len(es) /\ m \in Nat
    BY LenProperties DEF m
  <2>1. Len(p) = Len(es) + Len(t) /\ p \in Seq(GetEvent)
    BY <1>6, <1>7, ConcatProperties
  <2>2. \A i \in 1 .. Len(es) + Len(t) : p[i] = IF i <= Len(es) THEN es[i] ELSE t[i - Len(es)]
    BY <1>6, <1>7, ConcatProperties
  <2>3. ASSUME NEW i \in 1 .. m PROVE p[i] = es[i]
    <3>1. i \in 1 .. Len(es) + Len(t) /\ i <= Len(es)
      BY ONLY <1>2, <1>6, <2>0, i \in 1 .. m
    <3> QED  BY ONLY <2>2, <3>1
  <2>4. ASSUME NEW i \in 1 .. n PROVE p[m + i] = t[i]
    <3>1. /\ m + i \in 1 .. Len(es) + Len(t) /\ ~(m + i <= Len(es))
          /\ (m + i) - Len(es) = i
      BY ONLY <1>2, <1>6, <2>0, i \in 1 .. n
    <3> QED  BY ONLY <2>2, <3>1
  <2>5. Len(p) = m + n
    BY ONLY <1>6, <2>0, <2>1
  <2> QED  BY <2>0, <2>1, <2>3, <2>4, <2>5
<1> HIDE DEF m
<1>9. ASSUME NEW i \in 1 .. Len(p), i > m
      PROVE  /\ i - m \in 1 .. n /\ p[i] = t[i - m]
             /\ p[i].get = s[i - m] /\ p[i].result = result[s[i - m]]
  <2>1. i - m \in 1 .. n /\ m + (i - m) = i
    BY <1>2, <1>8, <1>9
  <2>2. p[i] = t[i - m]
    BY <1>8, <2>1
  <2> QED  BY <1>4, <2>1, <2>2
<1>10. \A i \in 1 .. Len(p) : i > m => p[i].get \in gs /\ p[i].result = result[p[i].get]
  BY <1>3, <1>9
<1>11. ASSUME NEW g \in gs PROVE \E i \in 1 .. Len(p) : i > m /\ p[i].get = g
  <2>1. PICK j \in 1 .. n : s[j] = g
    BY <1>2
  <2>2. m + j \in 1 .. Len(p) /\ m + j > m /\ p[m + j] = t[j]
    BY <1>2, <1>8
  <2>3. p[m + j].get = g
    BY <1>4, <2>1, <2>2
  <2> QED  BY <2>2, <2>3
<1>12. ASSUME NEW i \in 1 .. Len(p), NEW j \in 1 .. Len(p), i > m, j > m, p[i].get = p[j].get
       PROVE  i = j
  <2>1. i - m \in 1 .. n /\ j - m \in 1 .. n /\ s[i - m] = s[j - m]
    BY <1>9, <1>12
  <2>2. i - m = j - m
    BY <1>2, <2>1
  <2> QED  BY <1>8, <2>2
<1>13. Len(es) <= Len(p)
  BY <1>2, <1>8 DEF m
<1> QED  BY <1>8, <1>10, <1>11, <1>12, <1>13 DEF m, p, Posted

-----------------------------------------------------------------------------
(* How often a request or an answer for q is in a sequence.                *)
LEMMA CountConcat ==
  ASSUME NEW S, NEW s \in Seq(S), NEW t \in Seq(S), NEW kinds, NEW q
  PROVE  /\ Count(s, kinds, q) \in Nat /\ Count(t, kinds, q) \in Nat
         /\ Count(s \o t, kinds, q) = Count(s, kinds, q) + Count(t, kinds, q)
<1> DEFINE In(u, i) == u[i].kind \in kinds /\ u[i].target = q
           m == Len(s)
           n == Len(t)
           A == {i \in 1 .. m : In(s, i)}
           B == {i \in 1 .. n : In(t, i)}
           C == {i \in 1 .. m + n : In(s \o t, i)}
           D == {m + i : i \in B}
           f == [i \in B |-> m + i]
<1>1. /\ m \in Nat /\ n \in Nat
      /\ DOMAIN s = 1 .. m /\ DOMAIN t = 1 .. n /\ DOMAIN (s \o t) = 1 .. m + n
      /\ \A i \in 1 .. m : (s \o t)[i] = s[i]
      /\ \A i \in 1 .. n : (s \o t)[m + i] = t[i]
  OBVIOUS
<1>2. Count(s, kinds, q) = Cardinality(A) /\ Count(t, kinds, q) = Cardinality(B)
      /\ Count(s \o t, kinds, q) = Cardinality(C)
  BY <1>1, Zenon DEF Count
<1> HIDE DEF m, n
<1>3. C = A \cup D /\ A \cap D = {}
  <2>1. ASSUME NEW i \in C PROVE i \in A \cup D
    <3>1. CASE i <= m
      BY <1>1, <2>1, <3>1
    <3>2. CASE ~(i <= m)
      <4>1. i - m \in 1 .. n /\ m + (i - m) = i
        BY <1>1, <3>2
      <4>2. In(t, i - m)
        BY <1>1, <2>1, <4>1
      <4> QED  BY <4>1, <4>2
    <3> QED  BY <3>1, <3>2
  <2>2. ASSUME NEW i \in A PROVE i \in C /\ i \notin D
    BY <1>1
  <2>3. ASSUME NEW i \in B PROVE m + i \in C
    BY <1>1
  <2>4. D \subseteq C
    BY <2>3
  <2> HIDE DEF A, B, C, D
  <2> QED  BY <2>1, <2>2, <2>4
<1>4. IsFiniteSet(A) /\ IsFiniteSet(B)
  <2>1. IsFiniteSet(1 .. m) /\ IsFiniteSet(1 .. n)
    BY <1>1, FS_Interval
  <2> QED  BY <2>1, FS_Subset
<1>5. f \in Bijection(B, D)
  <2>1. B \subseteq Nat
    BY <1>1
  <2> HIDE DEF B
  <2>2. f \in [B -> D] /\ \A i, j \in B : f[i] = f[j] => i = j
    BY <1>1, <2>1
  <2>3. \A d \in D : \E i \in B : f[i] = d
    OBVIOUS
  <2> HIDE DEF f, D
  <2>4. DOMAIN f = B
    BY <2>2
  <2> QED  BY <2>2, <2>3, <2>4 DEF Bijection, Injection, Surjection, IsInjective
<1> HIDE DEF A, B, C, D, f
<1>6. IsFiniteSet(D) /\ Cardinality(D) = Cardinality(B)
  BY <1>4, <1>5, FS_Bijection DEF ExistsBijection
<1>7. /\ Cardinality(A) \in Nat /\ Cardinality(B) \in Nat
      /\ Cardinality(A \cap D) = 0
      /\ Cardinality(A \cup D) = Cardinality(A) + Cardinality(D) - Cardinality(A \cap D)
  BY <1>3, <1>4, <1>6, FS_CardinalityType, FS_EmptySet, FS_Union
<1> QED  BY <1>2, <1>3, <1>6, <1>7

(* An empty sequence has nothing to count.                                 *)
LEMMA CountNone ==
  ASSUME NEW kinds, NEW q
  PROVE  Count(<<>>, kinds, q) = 0
<1>1. {i \in DOMAIN <<>> : <<>>[i].kind \in kinds /\ <<>>[i].target = q} = {}
  OBVIOUS
<1> QED  BY <1>1, FS_EmptySet DEF Count

(* A sequence of one message counts it or does not.                        *)
LEMMA CountOne ==
  ASSUME NEW e, NEW kinds, NEW q
  PROVE  Count(<<e>>, kinds, q) = IF e.kind \in kinds /\ e.target = q THEN 1 ELSE 0
<1> DEFINE A == {i \in DOMAIN <<e>> : <<e>>[i].kind \in kinds /\ <<e>>[i].target = q}
<1>1. A = IF e.kind \in kinds /\ e.target = q THEN {1} ELSE {}
  OBVIOUS
<1>2. Cardinality({1}) = 1 /\ Cardinality({}) = 0
  BY FS_Singleton, FS_EmptySet
<1> QED  BY <1>1, <1>2 DEF Count

(* A message appended is counted if it is of the kinds and about q.        *)
LEMMA CountAppend ==
  ASSUME NEW S, NEW s \in Seq(S), NEW e \in S, NEW kinds, NEW q
  PROVE  /\ Count(s, kinds, q) \in Nat
         /\ Count(Append(s, e), kinds, q)
              = Count(s, kinds, q) + IF e.kind \in kinds /\ e.target = q THEN 1 ELSE 0
<1> DEFINE one == <<e>>
<1>1. Append(s, e) = s \o one /\ one \in Seq(S)
  OBVIOUS
<1>2. Count(one, kinds, q) = IF e.kind \in kinds /\ e.target = q THEN 1 ELSE 0
  BY CountOne
<1> HIDE DEF one
<1>3. /\ Count(s, kinds, q) \in Nat
      /\ Count(s \o one, kinds, q) = Count(s, kinds, q) + Count(one, kinds, q)
  BY <1>1, CountConcat
<1> QED  BY <1>1, <1>2, <1>3

(* A message taken off the head was counted if it is of the kinds and      *)
(* about q.                                                                *)
LEMMA CountTail ==
  ASSUME NEW S, NEW s \in Seq(S), s # <<>>, NEW kinds, NEW q
  PROVE  /\ Count(Tail(s), kinds, q) \in Nat /\ Count(s, kinds, q) \in Nat
         /\ Count(s, kinds, q)
              = Count(Tail(s), kinds, q)
                  + IF Head(s).kind \in kinds /\ Head(s).target = q THEN 1 ELSE 0
<1> DEFINE one == <<Head(s)>>
           t == Tail(s)
<1>1. s = one \o t /\ one \in Seq(S) /\ t \in Seq(S)
  OBVIOUS
<1>2. Count(one, kinds, q) = IF Head(s).kind \in kinds /\ Head(s).target = q THEN 1 ELSE 0
  BY CountOne
<1> HIDE DEF one, t
<1>3. /\ Count(one, kinds, q) \in Nat /\ Count(t, kinds, q) \in Nat
      /\ Count(one \o t, kinds, q) = Count(one, kinds, q) + Count(t, kinds, q)
  BY <1>1, CountConcat
<1>4. Count(s, kinds, q) \in Nat
  BY <1>1, <1>3
<1>5. Count(s, kinds, q) = Count(one, kinds, q) + Count(t, kinds, q)
  BY <1>1, <1>3
<1> QED  BY <1>2, <1>3, <1>4, <1>5 DEF t

KindLists == {<<"Watch">>, <<"Unwatch">>, <<"Unwatch", "Watch">>}

(* A list of requests has as many for each target as there are kinds.      *)
LEMMA RequestsAre ==
  ASSUME NEW kinds \in KindLists, NEW qs \in SUBSET Queries, NEW q
  PROVE  /\ Requests(kinds, qs) \in Seq(Request)
         /\ Count(Requests(kinds, qs), {"Watch", "Unwatch"}, q)
              = IF q \in qs THEN Len(kinds) ELSE 0
<1> DEFINE s == SetToSeq(qs)
           N == Cardinality(qs)
           n == Len(kinds)
           r == Requests(kinds, qs)
           place(i) == ((i - 1) \div n) + 1
           A == {i \in DOMAIN r : r[i].kind \in {"Watch", "Unwatch"} /\ r[i].target = q}
<1>1. IsFiniteSet(qs)
  BY GetAssumption, FS_Subset
<1>2. /\ s \in Seq(qs) /\ Len(s) = N /\ N \in Nat
      /\ \A i, j \in 1 .. N : s[i] = s[j] => i = j
      /\ \A x \in qs : \E i \in 1 .. N : s[i] = x
  BY <1>1, SetInOrder
<1>3. \A i \in 1 .. N : s[i] \in qs
  BY <1>2
<1>4. n \in {1, 2} /\ \A i \in 1 .. n : kinds[i] \in {"Watch", "Unwatch"}
  BY DEF KindLists
<1>5. r = [i \in 1 .. n * N |->
             [kind |-> kinds[((i - 1) % n) + 1], target |-> s[((i - 1) \div n) + 1]]]
  BY <1>2 DEF Requests
<1> HIDE DEF s, N, n, r
<1>6. ASSUME NEW i \in 1 .. n * N
      PROVE  place(i) \in 1 .. N /\ ((i - 1) % n) + 1 \in 1 .. n
  <2>1. CASE n = 1
    BY <1>2, <1>6, <2>1
  <2>2. CASE n = 2
    BY <1>2, <1>6, <2>2
  <2> QED  BY <1>4, <2>1, <2>2
<1>7. ASSUME NEW i \in 1 .. n * N
      PROVE  r[i].kind \in {"Watch", "Unwatch"} /\ r[i].target = s[place(i)] /\ r[i] \in Request
  <2>1. r[i] = [kind |-> kinds[((i - 1) % n) + 1], target |-> s[place(i)]]
    BY <1>5
  <2>2. kinds[((i - 1) % n) + 1] \in {"Watch", "Unwatch"} /\ s[place(i)] \in Queries
    BY <1>3, <1>4, <1>6
  <2> QED  BY <2>1, <2>2 DEF Request
<1>8. n * N \in Nat /\ DOMAIN r = 1 .. n * N /\ r \in [1 .. n * N -> Request]
  <2>1. n * N \in Nat
    <3>1. CASE n = 1
      BY <1>2, <3>1
    <3>2. CASE n = 2
      BY <1>2, <3>2
    <3> QED  BY <1>4, <3>1, <3>2
  <2>2. DOMAIN r = 1 .. n * N /\ \A i \in 1 .. n * N : r[i] \in Request
    BY <1>5, <1>7
  <2>3. r = [i \in 1 .. n * N |-> r[i]]
    BY <1>5
  <2> QED  BY <2>1, <2>2, <2>3
<1>9. r \in Seq(Request)
  <2> DEFINE k == n * N
  <2>1. k \in Nat /\ r \in [1 .. k -> Request]
    BY <1>8
  <2> HIDE DEF k
  <2> QED  BY <2>1, SeqDef
<1>10. A = {i \in 1 .. n * N : s[place(i)] = q}
  BY <1>7, <1>8
<1>11. ASSUME q \notin qs PROVE Cardinality(A) = 0
  <2>1. A = {}
    BY <1>3, <1>6, <1>10, <1>11
  <2> QED  BY <2>1, FS_EmptySet
<1>12. ASSUME q \in qs PROVE Cardinality(A) = n
  <2>1. PICK j \in 1 .. N : s[j] = q
    BY <1>2, <1>12
  <2>2. \A i \in 1 .. n * N : s[place(i)] = q <=> place(i) = j
    BY <1>2, <1>6, <2>1
  <2>3. CASE n = 1
    <3>1. A = {j}
      BY <1>2, <1>10, <2>1, <2>2, <2>3
    <3> QED  BY <2>3, <3>1, FS_Singleton
  <2>4. CASE n = 2
    <3>1. A = {2 * j - 1} \cup {2 * j}
      <4>1. ASSUME NEW i \in 1 .. 2 * N
            PROVE  ((i - 1) \div 2) + 1 = j <=> i = 2 * j - 1 \/ i = 2 * j
        BY <1>2, <2>1
      <4>2. 2 * j - 1 \in 1 .. 2 * N /\ 2 * j \in 1 .. 2 * N
        BY <1>2, <2>1
      <4> QED  BY <1>10, <2>2, <2>4, <4>1, <4>2
    <3>2. IsFiniteSet({2 * j - 1}) /\ Cardinality({2 * j - 1}) = 1 /\ 2 * j \notin {2 * j - 1}
      <4>1. IsFiniteSet({2 * j - 1}) /\ Cardinality({2 * j - 1}) = 1
        BY FS_Singleton
      <4>2. 2 * j # 2 * j - 1
        BY <1>2, <2>1
      <4> QED  BY <4>1, <4>2
    <3>3. Cardinality({2 * j - 1} \cup {2 * j}) = 2
      BY <3>2, FS_AddElement
    <3> QED  BY <2>4, <3>1, <3>3
  <2> QED  BY <1>4, <2>3, <2>4
<1>13. Count(r, {"Watch", "Unwatch"}, q) = Cardinality(A)
  BY DEF Count
<1> HIDE DEF A
<1> QED  BY <1>9, <1>11, <1>12, <1>13 DEF n, r

-----------------------------------------------------------------------------
(***************************************************************************)
(* The operators of EventManager and OnlineStateTracker change what is     *)
(* shown, and nothing of what is watched.                                  *)
(***************************************************************************)
SameWire(c, d) ==
  /\ d.targets = c.targets /\ d.stream = c.stream /\ d.states = c.states
  /\ d.resets = c.resets /\ d.told = c.told
  /\ d.rewatched = c.rewatched /\ d.dropped = c.dropped

SameTracker(c, d) == d.online = c.online /\ d.failures = c.failures /\ d.timer = c.timer

(* New events go to listeners and are no errors.                           *)
EventsGrow(c, d) ==
  /\ Len(c.events) <= Len(d.events)
  /\ \A i \in 1 .. Len(c.events) : d.events[i] = c.events[i]
  /\ \A i \in 1 .. Len(d.events) : i > Len(c.events) =>
       d.events[i].result # "error" /\ \E q \in Queries : d.events[i].get \in c.listeners[q]

Tells(c, d) == IsClient(d) /\ d.listeners = c.listeners /\ EventsGrow(c, d)

Shows(c, d) == Tells(c, d) /\ SameWire(c, d)

(* The types of the client's fields.                                       *)
LEMMA Fields ==
  ASSUME NEW c, IsClient(c)
  PROVE  /\ DOMAIN c.states \subseteq Queries /\ c.states \in [DOMAIN c.states -> TargetState]
         /\ c.listeners \in [Queries -> SUBSET Gets] /\ c.raised \in SUBSET Gets
         /\ c.events \in Seq(GetEvent) /\ c.current \in [Queries -> BOOLEAN]
         /\ c.online \in Online /\ c.failures \in Nat /\ c.timer \in BOOLEAN
         /\ c.targets \in SUBSET Queries /\ c.stream \in Stream
         /\ c.resets \in SUBSET Queries /\ c.told \in SUBSET Queries
         /\ c.rewatched \in SUBSET Queries /\ c.dropped \in SUBSET Queries
BY DEF IsClient, Client, GetEvent

(* What tells the listeners twice tells them.                              *)
LEMMA TellsTransitive ==
  ASSUME NEW c, NEW d, NEW e, IsClient(c), Tells(c, d), Tells(d, e)
  PROVE  Tells(c, e)
<1>1. /\ IsClient(d) /\ IsClient(e) /\ d.listeners = c.listeners /\ e.listeners = c.listeners
      /\ EventsGrow(c, d) /\ EventsGrow(d, e)
  BY DEF Tells
<1>2. c.events \in Seq(GetEvent) /\ d.events \in Seq(GetEvent) /\ e.events \in Seq(GetEvent)
  BY <1>1, Fields
<1>3. Len(c.events) \in Nat /\ Len(d.events) \in Nat /\ Len(e.events) \in Nat
  BY <1>2, LenProperties
<1>4. EventsGrow(c, e)
  <2> DEFINE k == Len(c.events)
             m == Len(d.events)
             n == Len(e.events)
  <2>1. k \in Nat /\ m \in Nat /\ n \in Nat /\ k <= m /\ m <= n
    BY <1>1, <1>3 DEF EventsGrow
  <2>2. /\ \A i \in 1 .. k : d.events[i] = c.events[i]
        /\ \A i \in 1 .. m : e.events[i] = d.events[i]
        /\ \A i \in 1 .. m : i > k =>
             d.events[i].result # "error" /\ \E q \in Queries : d.events[i].get \in c.listeners[q]
        /\ \A i \in 1 .. n : i > m =>
             e.events[i].result # "error" /\ \E q \in Queries : e.events[i].get \in c.listeners[q]
    BY <1>1 DEF EventsGrow
  <2> HIDE DEF k, m, n
  <2>3. \A i \in 1 .. k : e.events[i] = c.events[i]
    BY <2>1, <2>2
  <2>4. ASSUME NEW i \in 1 .. n, i > k
        PROVE  e.events[i].result # "error" /\ \E q \in Queries : e.events[i].get \in c.listeners[q]
    <3>1. CASE i > m
      BY <2>2, <3>1
    <3>2. CASE ~(i > m)
      <4>1. i \in 1 .. m
        BY <2>1, <3>2
      <4> QED  BY <2>2, <2>4, <4>1
    <3> QED  BY <3>1, <3>2
  <2>5. k <= n
    BY <2>1
  <2> QED  BY <2>3, <2>4, <2>5 DEF EventsGrow, k, n
<1> QED  BY <1>1, <1>4 DEF Tells

(* And so does what shows twice.                                           *)
LEMMA ShowsTransitive ==
  ASSUME NEW c, NEW d, NEW e, IsClient(c), Shows(c, d), Shows(d, e)
  PROVE  Shows(c, e)
<1>1. Tells(c, e)
  BY TellsTransitive DEF Shows
<1> QED  BY <1>1 DEF Shows, SameWire

(* What leaves the events, the listeners and the types as they are.        *)
LEMMA TellsNothing ==
  ASSUME NEW c, NEW d, IsClient(c), IsClient(d), d.listeners = c.listeners, d.events = c.events
  PROVE  Tells(c, d)
<1>1. c.events \in Seq(GetEvent)
  BY Fields
<1>2. Len(c.events) \in Nat
  BY <1>1, LenProperties
<1> DEFINE n == Len(c.events)
<1> HIDE DEF n
<1>3. \A i \in 1 .. n : ~(i > n)
  BY <1>2 DEF n
<1>4. EventsGrow(c, d)
  BY <1>2, <1>3 DEF EventsGrow, n
<1> QED  BY <1>4 DEF Tells

(* RaiseEvents, for listeners of the client.                               *)
LEMMA RaiseEventsShows ==
  ASSUME NEW c, IsClient(c), NEW gs \in SUBSET Gets,
         \A g \in gs : \E q \in Queries : g \in c.listeners[q]
  PROVE  /\ Shows(c, RaiseEvents(c, gs)) /\ SameTracker(c, RaiseEvents(c, gs))
         /\ RaiseEvents(c, gs).current = c.current
         /\ \A g \in gs : \E i \in 1 .. Len(RaiseEvents(c, gs).events) :
              RaiseEvents(c, gs).events[i].get = g
<1> DEFINE result == [g \in Gets |-> IF c.current[QueryOf[g]] THEN "synced" ELSE "cached"]
           p == Post(c.events, gs, result)
           d == RaiseEvents(c, gs)
<1>1. result \in [Gets -> {"synced", "cached", "error"}] /\ \A g \in Gets : result[g] # "error"
  OBVIOUS
<1>2. c.events \in Seq(GetEvent)
  BY Fields
<1> HIDE DEF result
<1>11. Posted(c.events, gs, result, p)
  BY <1>1, <1>2, PostIs
<1>3. /\ p \in Seq(GetEvent)
      /\ Len(p) \in Nat /\ Len(c.events) \in Nat /\ Len(c.events) <= Len(p)
      /\ \A i \in 1 .. Len(c.events) : p[i] = c.events[i]
      /\ \A i \in 1 .. Len(p) : i > Len(c.events) => p[i].get \in gs /\ p[i].result = result[p[i].get]
      /\ \A g \in gs : \E i \in 1 .. Len(p) : i > Len(c.events) /\ p[i].get = g
  BY ONLY <1>11 DEF Posted
<1> DEFINE raised == c.raised \cup gs
<1>4. d = [c EXCEPT !.raised = raised, !.events = p]
  BY DEF RaiseEvents, result
<1>10. raised \in SUBSET Gets
  BY Fields
<1> HIDE DEF p, raised
<1>12. p \in Seq(GetEvent)
  BY <1>3
<1>5. IsClient(d)
  BY ONLY IsClient(c), <1>4, <1>10, <1>12 DEF IsClient, Client, GetEvent
<1>6. /\ SameWire(c, d) /\ SameTracker(c, d) /\ d.listeners = c.listeners /\ d.current = c.current
      /\ d.events = p
  BY <1>4 DEF SameWire, SameTracker, IsClient, Client
<1> HIDE DEF d
<1>7. ASSUME NEW i \in 1 .. Len(p), i > Len(c.events)
      PROVE  p[i].result # "error" /\ \E q \in Queries : p[i].get \in c.listeners[q]
  <2>1. p[i].get \in gs /\ p[i].result = result[p[i].get]
    BY <1>3, <1>7
  <2>2. result[p[i].get] # "error"
    BY <1>1, <2>1
  <2> QED  BY <2>1, <2>2
<1>8. EventsGrow(c, d)
  BY <1>3, <1>6, <1>7 DEF EventsGrow
<1>9. \A g \in gs : \E i \in 1 .. Len(d.events) : d.events[i].get = g
  BY <1>3, <1>6
<1> QED  BY <1>5, <1>6, <1>8, <1>9 DEF Shows, Tells, d

(* OnViewSnapshots, for some of the queries.                               *)
LEMMA OnViewSnapshotsShows ==
  ASSUME NEW c, IsClient(c), NEW qs \in SUBSET Queries
  PROVE  /\ Shows(c, OnViewSnapshots(c, qs)) /\ SameTracker(c, OnViewSnapshots(c, qs))
         /\ OnViewSnapshots(c, qs).current = c.current
<1> DEFINE gs == {g \in UNION {c.listeners[q] : q \in qs} : ShouldRaise(c, g)}
<1>1. c.listeners \in [Queries -> SUBSET Gets]
  BY Fields
<1>2. gs \in SUBSET Gets /\ \A g \in gs : \E q \in Queries : g \in c.listeners[q]
  BY <1>1
<1>3. OnViewSnapshots(c, qs) = RaiseEvents(c, gs)
  BY DEF OnViewSnapshots
<1> HIDE DEF gs
<1> QED  BY <1>2, <1>3, RaiseEventsShows

(* HandleOnlineStateChange: every listener is told of the new state.       *)
LEMMA HandleOnlineStateChangeShows ==
  ASSUME NEW c, IsClient(c), NEW state \in Online
  PROVE  LET d == HandleOnlineStateChange(c, state)
         IN  /\ Shows(c, d)
             /\ d.online = state /\ d.failures = c.failures /\ d.timer = c.timer
<1> DEFINE lost  == {q \in Queries : c.listeners[q] # {} /\ c.current[q] /\ state = "Offline"}
           views == [c EXCEPT !.current = [q \in Queries |-> @[q] /\ q \notin lost]]
           shown == OnViewSnapshots(views, lost)
           told  == [shown EXCEPT !.online = state]
           gs    == {g \in UNION {told.listeners[q] : q \in Queries} :
                           g \notin told.raised /\ ShouldRaise(told, g)}
           d     == HandleOnlineStateChange(c, state)
<1>1. lost \in SUBSET Queries /\ d = RaiseEvents(told, gs)
  BY DEF HandleOnlineStateChange
<1> HIDE DEF lost, d
<1>2. IsClient(views)
  BY Fields DEF IsClient, Client
<1>3. /\ SameWire(c, views) /\ SameTracker(c, views)
      /\ views.listeners = c.listeners /\ views.events = c.events
  BY DEF SameWire, SameTracker, IsClient, Client
<1> HIDE DEF views
<1>4. Shows(c, views)
  BY <1>2, <1>3, TellsNothing DEF Shows
<1>5. Shows(views, shown) /\ SameTracker(views, shown)
  BY <1>1, <1>2, OnViewSnapshotsShows
<1> HIDE DEF shown
<1>6. IsClient(shown)
  BY <1>5 DEF Shows, Tells
<1>7. IsClient(told)
  BY <1>6 DEF IsClient, Client
<1>8. /\ SameWire(shown, told) /\ told.online = state
      /\ told.failures = shown.failures /\ told.timer = shown.timer
      /\ told.listeners = shown.listeners /\ told.events = shown.events
  BY <1>6 DEF SameWire, IsClient, Client
<1> HIDE DEF told
<1>9. Shows(shown, told)
  BY <1>6, <1>7, <1>8, TellsNothing DEF Shows
<1>10. Shows(told, d) /\ SameTracker(told, d)
  <2>1. told.listeners \in [Queries -> SUBSET Gets]
    BY <1>7, Fields
  <2>2. gs \in SUBSET Gets /\ \A g \in gs : \E q \in Queries : g \in told.listeners[q]
    BY <2>1
  <2> HIDE DEF gs
  <2> QED  BY <1>1, <1>7, <2>2, RaiseEventsShows
<1>11. Shows(c, d)
  <2>1. Shows(c, shown)
    BY <1>4, <1>5, ShowsTransitive
  <2>2. Shows(c, told)
    BY <1>9, <2>1, ShowsTransitive
  <2> QED  BY <1>10, <2>2, ShowsTransitive
<1> QED  BY <1>3, <1>5, <1>8, <1>10, <1>11 DEF SameTracker, d

(* SetAndBroadcast: nothing more, and the state is the one that is set.    *)
LEMMA SetAndBroadcastShows ==
  ASSUME NEW c, IsClient(c), NEW state \in Online
  PROVE  LET d == SetAndBroadcast(c, state)
         IN  Shows(c, d) /\ d.online = state /\ d.failures = c.failures /\ d.timer = c.timer
<1>1. CASE state = c.online
  <2>1. Shows(c, c)
    BY TellsNothing DEF Shows, SameWire
  <2> QED  BY <1>1, <2>1 DEF SetAndBroadcast
<1>2. CASE state # c.online
  BY <1>2, HandleOnlineStateChangeShows DEF SetAndBroadcast
<1> QED  BY <1>1, <1>2

(* Changes of the tracker alone show nothing.                              *)
LEMMA TrackerShows ==
  ASSUME NEW c, IsClient(c), NEW failures \in Nat, NEW timer \in BOOLEAN
  PROVE  Shows(c, [c EXCEPT !.failures = failures, !.timer = timer])
<1> DEFINE d == [c EXCEPT !.failures = failures, !.timer = timer]
<1>1. IsClient(d)
  BY DEF IsClient, Client
<1>2. SameWire(c, d) /\ d.listeners = c.listeners /\ d.events = c.events
  BY DEF SameWire, IsClient, Client
<1> HIDE DEF d
<1>3. Shows(c, d)
  BY <1>1, <1>2, TellsNothing DEF Shows
<1> QED  BY <1>3 DEF d

(* UpdateState: the timer is cleared, and an online client has no          *)
(* failures.                                                               *)
LEMMA UpdateStateShows ==
  ASSUME NEW c, IsClient(c), NEW state \in Online
  PROVE  LET d == UpdateState(c, state)
         IN  Shows(c, d) /\ d.online = state /\ d.failures = 0 /\ d.timer = FALSE
<1> DEFINE b == [c EXCEPT !.failures = 0, !.timer = FALSE]
           e == SetAndBroadcast(b, state)
<1>1. Shows(c, b)
  BY TrackerShows
<1>2. UpdateState(c, state) = e
  BY DEF UpdateState
<1>3. IsClient(b)
  BY <1>1 DEF Shows, Tells
<1>4. b.failures = 0 /\ b.timer = FALSE
  BY DEF IsClient, Client
<1> HIDE DEF b
<1>5. Shows(b, e) /\ e.online = state /\ e.failures = b.failures /\ e.timer = b.timer
  BY <1>3, SetAndBroadcastShows
<1> HIDE DEF e
<1>6. Shows(c, e)
  BY <1>1, <1>5, ShowsTransitive
<1> QED  BY <1>2, <1>4, <1>5, <1>6

(* HandleWatchStreamStart: the timer is set only while the state is        *)
(* unknown.                                                                *)
LEMMA HandleWatchStreamStartShows ==
  ASSUME NEW c, IsClient(c)
  PROVE  LET d == HandleWatchStreamStart(c)
         IN  /\ Shows(c, d)
             /\ IF c.failures # 0 THEN d = c
                ELSE d.online = "Unknown" /\ d.failures = 0 /\ d.timer = TRUE
<1>1. CASE c.failures # 0
  <2>1. Shows(c, c)
    BY TellsNothing DEF Shows, SameWire
  <2> QED  BY <1>1, <2>1 DEF HandleWatchStreamStart
<1>2. CASE c.failures = 0
  <2> DEFINE b == SetAndBroadcast(c, "Unknown")
             e == [b EXCEPT !.failures = b.failures, !.timer = TRUE]
  <2>1. Shows(c, b) /\ b.online = "Unknown" /\ b.failures = c.failures
    BY SetAndBroadcastShows DEF Online
  <2>2. IsClient(b) /\ b.failures \in Nat
    BY <2>1, Fields DEF Shows, Tells
  <2>3. HandleWatchStreamStart(c) = [b EXCEPT !.timer = TRUE]
    BY <1>2 DEF HandleWatchStreamStart
  <2> HIDE DEF b
  <2>4. [b EXCEPT !.timer = TRUE] = e
    BY <2>2 DEF IsClient, Client
  <2>5. Shows(b, e)
    BY <2>2, TrackerShows
  <2>6. e.online = b.online /\ e.failures = b.failures /\ e.timer = TRUE
    BY <2>2 DEF IsClient, Client
  <2> HIDE DEF e
  <2>7. Shows(c, e)
    BY <2>1, <2>5, ShowsTransitive
  <2> QED  BY <1>2, <2>1, <2>3, <2>4, <2>6, <2>7
<1> QED  BY <1>1, <1>2

(* HandleWatchStreamFailure: the client is not online, and no timer is     *)
(* left.                                                                   *)
LEMMA HandleWatchStreamFailureShows ==
  ASSUME NEW c, IsClient(c), c.online = "Online" => c.failures = 0,
         c.timer => c.online = "Unknown"
  PROVE  LET d == HandleWatchStreamFailure(c)
         IN  Shows(c, d) /\ d.online # "Online" /\ d.timer = FALSE
<1> DEFINE d == HandleWatchStreamFailure(c)
<1>1. c.failures \in Nat /\ c.timer \in BOOLEAN
  BY Fields
<1>2. ~(c.failures + 1 < kMaxWatchStreamFailures)
  BY <1>1 DEF kMaxWatchStreamFailures
<1>3. CASE c.online = "Online"
  <2>1. d = SetAndBroadcast(c, "Unknown")
    BY <1>3 DEF HandleWatchStreamFailure
  <2>2. Shows(c, d) /\ d.online = "Unknown" /\ d.timer = c.timer
    BY <2>1, SetAndBroadcastShows DEF Online
  <2> HIDE DEF d
  <2>3. c.timer = FALSE
    BY <1>1, <1>3
  <2> QED  BY <2>2, <2>3 DEF d
<1>4. CASE c.online # "Online"
  <2> DEFINE n == c.failures + 1
             b == [c EXCEPT !.failures = n, !.timer = FALSE]
  <2>1. d = SetAndBroadcast(b, "Offline")
    BY <1>2, <1>4 DEF HandleWatchStreamFailure
  <2>2. n \in Nat
    BY <1>1
  <2> HIDE DEF n
  <2>3. Shows(c, b)
    BY <2>2, TrackerShows
  <2>7. b.timer = FALSE
    BY DEF IsClient, Client
  <2> HIDE DEF b
  <2>4. IsClient(b)
    BY <2>3 DEF Shows, Tells
  <2>5. Shows(b, d) /\ d.online = "Offline" /\ d.timer = b.timer
    BY <2>1, <2>4, SetAndBroadcastShows DEF Online
  <2> HIDE DEF d
  <2>6. Shows(c, d)
    BY <2>3, <2>5, ShowsTransitive
  <2> QED  BY <2>5, <2>6, <2>7 DEF d
<1> QED  BY <1>3, <1>4

-----------------------------------------------------------------------------
(***************************************************************************)
(* The operators of WatchChangeAggregator change what is known of one      *)
(* target, and nothing of what is shown.                                   *)
(***************************************************************************)
IsCurrent(c, q) == q \in DOMAIN c.states /\ c.states[q].current

SameViews(c, d) == d.listeners = c.listeners /\ d.events = c.events /\ SameTracker(c, d)

Handled(c, d) ==
  /\ IsClient(d) /\ SameViews(c, d)
  /\ d.targets = c.targets /\ d.stream = c.stream /\ d.dropped = c.dropped

(* d differs from c in the target q only.                                  *)
Counts(c, d, q, outstanding) ==
  \A x \in Queries : Outstanding(d, x) = IF x = q THEN outstanding ELSE Outstanding(c, x)

OthersCurrent(c, d, q) == \A x \in Queries \ {q} : IsCurrent(d, x) <=> IsCurrent(c, x)

WithStates(c, f, resets, told, rewatched) ==
  [c EXCEPT !.states = f, !.resets = resets, !.told = told, !.rewatched = rewatched]

(* Such a change is one of the aggregator.                                 *)
LEMMA StatesChange ==
  ASSUME NEW c, IsClient(c), NEW f, DOMAIN f \subseteq Queries, f \in [DOMAIN f -> TargetState],
         NEW resets \in SUBSET Queries, NEW told \in SUBSET Queries,
         NEW rewatched \in SUBSET Queries,
         NEW d, d = WithStates(c, f, resets, told, rewatched)
  PROVE  /\ Handled(c, d)
         /\ d.states = f /\ d.resets = resets /\ d.told = told /\ d.rewatched = rewatched
<1>1. IsClient(d)
  BY DEF IsClient, Client, WithStates
<1>2. /\ SameViews(c, d)
      /\ d.targets = c.targets /\ d.stream = c.stream /\ d.dropped = c.dropped
  BY DEF SameViews, SameTracker, IsClient, Client, WithStates
<1>3. d.states = f /\ d.resets = resets /\ d.told = told /\ d.rewatched = rewatched
  BY DEF IsClient, Client, WithStates
<1> QED  BY <1>1, <1>2, <1>3 DEF Handled

(* With s as the state of q, its outstanding answers and its currency are  *)
(* those of s, and the others' are theirs.                                 *)
LEMMA SetTarget ==
  ASSUME NEW c, IsClient(c), NEW q \in Queries, NEW s \in TargetState, NEW d,
         d.states = [x \in DOMAIN c.states \cup {q} |-> IF x = q THEN s ELSE c.states[x]]
  PROVE  /\ DOMAIN d.states \subseteq Queries /\ d.states \in [DOMAIN d.states -> TargetState]
         /\ Counts(c, d, q, s.outstanding) /\ OthersCurrent(c, d, q)
         /\ IsCurrent(d, q) <=> s.current
<1>1. DOMAIN c.states \subseteq Queries /\ c.states \in [DOMAIN c.states -> TargetState]
  BY Fields
<1>2. /\ DOMAIN d.states = DOMAIN c.states \cup {q} /\ d.states[q] = s
      /\ \A x \in DOMAIN c.states : x # q => d.states[x] = c.states[x]
  OBVIOUS
<1>3. DOMAIN d.states \subseteq Queries /\ d.states \in [DOMAIN d.states -> TargetState]
  BY <1>1
<1>4. Counts(c, d, q, s.outstanding)
  BY ONLY <1>2 DEF Counts, Outstanding
<1>5. OthersCurrent(c, d, q) /\ (IsCurrent(d, q) <=> s.current)
  BY ONLY <1>2 DEF OthersCurrent, IsCurrent
<1> QED  BY <1>3, <1>4, <1>5

(* The state of a target that is made when it is missing.                  *)
Ensured(c, q) == IF q \in DOMAIN c.states THEN c.states[q] ELSE NewTarget

(* It waits for the same answers and is current alike.                     *)
LEMMA EnsuredIs ==
  ASSUME NEW c, IsClient(c), NEW q \in Queries
  PROVE  /\ Ensured(c, q) \in TargetState
         /\ Ensured(c, q).outstanding = Outstanding(c, q)
         /\ Ensured(c, q).current \in BOOLEAN
         /\ Ensured(c, q).current <=> IsCurrent(c, q)
         /\ Outstanding(c, q) \in Int
<1>1. DOMAIN c.states \subseteq Queries /\ c.states \in [DOMAIN c.states -> TargetState]
  BY Fields
<1>2. NewTarget \in TargetState /\ NewTarget.outstanding = 0
  BY DEF NewTarget, TargetState
<1>3. CASE q \in DOMAIN c.states
  <2>1. Ensured(c, q) = c.states[q] /\ Ensured(c, q) \in TargetState
    BY <1>1, <1>3 DEF Ensured
  <2>2. Outstanding(c, q) = c.states[q].outstanding /\ (IsCurrent(c, q) <=> c.states[q].current)
    BY <1>3 DEF Outstanding, IsCurrent
  <2> QED  BY <2>1, <2>2 DEF TargetState
<1>4. CASE q \notin DOMAIN c.states
  <2>1. Ensured(c, q) = NewTarget
    BY <1>4 DEF Ensured
  <2>2. Outstanding(c, q) = 0 /\ ~IsCurrent(c, q)
    BY <1>4 DEF Outstanding, IsCurrent
  <2>3. Ensured(c, q).outstanding = 0 /\ Ensured(c, q) \in TargetState
    BY <1>2, <2>1
  <2>4. ~Ensured(c, q).current
    BY <2>1 DEF NewTarget
  <2>5. Ensured(c, q).current \in BOOLEAN
    BY <2>3 DEF TargetState
  <2> QED  BY <2>2, <2>3, <2>4, <2>5
<1> QED  BY <1>3, <1>4

(* EnsureTargetState sets the state of q and no other.                     *)
LEMMA EnsureTargetStateIs ==
  ASSUME NEW c, IsClient(c), NEW q \in Queries
  PROVE  EnsureTargetState(c, q)
           = [c EXCEPT !.states = [x \in DOMAIN c.states \cup {q} |->
                                     IF x = q THEN Ensured(c, q) ELSE c.states[x]]]
<1> DEFINE f == [x \in DOMAIN c.states \cup {q} |->
                   IF x \in DOMAIN c.states THEN c.states[x] ELSE NewTarget]
           g == [x \in DOMAIN c.states \cup {q} |-> IF x = q THEN Ensured(c, q) ELSE c.states[x]]
<1>1. f = g
  BY DEF Ensured
<1>2. EnsureTargetState(c, q) = [c EXCEPT !.states = f]
  BY DEF EnsureTargetState
<1> HIDE DEF f
<1> QED  BY <1>1, <1>2

(* A change of one target's state, and of the history.                     *)
WithTarget(c, q, s, resets, told, rewatched) ==
  WithStates(c, [x \in DOMAIN c.states \cup {q} |-> IF x = q THEN s ELSE c.states[x]],
             resets, told, rewatched)

(* Such a change is about q alone.                                         *)
LEMMA TargetChange ==
  ASSUME NEW c, IsClient(c), NEW q \in Queries, NEW s \in TargetState,
         NEW resets \in SUBSET Queries, NEW told \in SUBSET Queries,
         NEW rewatched \in SUBSET Queries,
         NEW d, d = WithTarget(c, q, s, resets, told, rewatched)
  PROVE  /\ Handled(c, d) /\ Counts(c, d, q, s.outstanding) /\ OthersCurrent(c, d, q)
         /\ IsCurrent(d, q) <=> s.current
         /\ q \in DOMAIN d.states /\ d.states[q] = s
         /\ d.resets = resets /\ d.told = told /\ d.rewatched = rewatched
<1> DEFINE f == [x \in DOMAIN c.states \cup {q} |-> IF x = q THEN s ELSE c.states[x]]
<1>1. d = WithStates(c, f, resets, told, rewatched)
  BY DEF WithTarget
<1>2. DOMAIN f = DOMAIN c.states \cup {q}
  OBVIOUS
<1>3. DOMAIN f \subseteq Queries /\ f \in [DOMAIN f -> TargetState]
  BY Fields
<1> HIDE DEF f
<1>4. Handled(c, d) /\ d.states = f /\ d.resets = resets /\ d.told = told /\ d.rewatched = rewatched
  BY <1>1, <1>3, StatesChange
<1>5. /\ Counts(c, d, q, s.outstanding) /\ OthersCurrent(c, d, q)
      /\ IsCurrent(d, q) <=> s.current
  BY ONLY <1>4, IsClient(c), q \in Queries, s \in TargetState, SetTarget DEF f
<1>6. q \in DOMAIN f /\ f[q] = s
  BY DEF f
<1> QED  BY <1>4, <1>5, <1>6

-----------------------------------------------------------------------------
(* One state of a target in the place of another.                          *)
LEMMA ReplaceTarget ==
  ASSUME NEW c, IsClient(c), NEW q \in Queries, NEW s, NEW told, NEW d,
         d = [EnsureTargetState(c, q) EXCEPT !.states[q] = s, !.told = told]
  PROVE  d = WithTarget(c, q, s, c.resets, told, c.rewatched)
<1> DEFINE f == [x \in DOMAIN c.states \cup {q} |-> IF x = q THEN Ensured(c, q) ELSE c.states[x]]
           g == [x \in DOMAIN c.states \cup {q} |-> IF x = q THEN s ELSE c.states[x]]
<1>1. EnsureTargetState(c, q) = [c EXCEPT !.states = f]
  BY EnsureTargetStateIs
<1>2. [f EXCEPT ![q] = s] = g
  OBVIOUS
<1> HIDE DEF f, g
<1>3. d = [c EXCEPT !.states = g, !.told = told]
  BY <1>1, <1>2 DEF IsClient, Client
<1>4. [c EXCEPT !.states = g, !.told = told]
        = [c EXCEPT !.states = g, !.resets = c.resets, !.told = told, !.rewatched = c.rewatched]
  BY DEF IsClient, Client
<1> QED  BY <1>3, <1>4 DEF g, WithTarget, WithStates

(* A target whose state is made when it is missing.                        *)
LEMMA EnsuredTarget ==
  ASSUME NEW c, IsClient(c), NEW q \in Queries
  PROVE  /\ Handled(c, EnsureTargetState(c, q)) /\ IsClient(EnsureTargetState(c, q))
         /\ q \in DOMAIN EnsureTargetState(c, q).states
         /\ EnsureTargetState(c, q).states[q] = Ensured(c, q)
         /\ EnsureTargetState(c, q).told = c.told
         /\ EnsureTargetState(c, q).rewatched = c.rewatched
         /\ Counts(c, EnsureTargetState(c, q), q, Outstanding(c, q))
         /\ OthersCurrent(c, EnsureTargetState(c, q), q)
         /\ IsCurrent(EnsureTargetState(c, q), q) <=> IsCurrent(c, q)
<1> DEFINE e == EnsureTargetState(c, q)
           f == [x \in DOMAIN c.states \cup {q} |-> IF x = q THEN Ensured(c, q) ELSE c.states[x]]
<1>1. e = [c EXCEPT !.states = f]
  BY EnsureTargetStateIs
<1> HIDE DEF e
<1> HIDE DEF f
<1>2. [c EXCEPT !.states = f]
        = [c EXCEPT !.states = f, !.resets = c.resets, !.told = c.told, !.rewatched = c.rewatched]
  BY DEF IsClient, Client
<1>3. e = WithTarget(c, q, Ensured(c, q), c.resets, c.told, c.rewatched)
  BY <1>1, <1>2 DEF f, WithTarget, WithStates
<1>4. /\ Ensured(c, q) \in TargetState /\ Ensured(c, q).outstanding = Outstanding(c, q)
      /\ Ensured(c, q).current <=> IsCurrent(c, q)
  BY EnsuredIs
<1>5. c.resets \in SUBSET Queries /\ c.told \in SUBSET Queries /\ c.rewatched \in SUBSET Queries
  BY Fields
<1>6. /\ Handled(c, e) /\ Counts(c, e, q, Ensured(c, q).outstanding) /\ OthersCurrent(c, e, q)
      /\ IsCurrent(e, q) <=> Ensured(c, q).current
      /\ q \in DOMAIN e.states /\ e.states[q] = Ensured(c, q)
      /\ e.told = c.told /\ e.rewatched = c.rewatched
  BY <1>3, <1>4, <1>5, TargetChange
<1>7. IsClient(e)
  BY <1>6 DEF Handled
<1>8. Counts(c, e, q, Outstanding(c, q)) /\ (IsCurrent(e, q) <=> IsCurrent(c, q))
  BY <1>4, <1>6
<1> QED  BY <1>6, <1>7, <1>8 DEF e

(* HandleAdded and HandleRemoved, before the last answer is looked for.    *)
TakeAnswer(c, q, told) ==
  [EnsureTargetState(c, q) EXCEPT !.states[q].outstanding = @ - 1, !.told = told]

(* One answer less is waited for, and the target is as current as it was.  *)
LEMMA AnswerTaken ==
  ASSUME NEW c, IsClient(c), NEW q \in Queries, NEW told \in SUBSET Queries, NEW d,
         d = TakeAnswer(c, q, told)
  PROVE  /\ Handled(c, d) /\ Counts(c, d, q, Outstanding(c, q) - 1) /\ OthersCurrent(c, d, q)
         /\ IsCurrent(d, q) <=> IsCurrent(c, q)
         /\ q \in DOMAIN d.states /\ d.told = told /\ d.rewatched = c.rewatched
<1> DEFINE e == EnsureTargetState(c, q)
           s == [Ensured(c, q) EXCEPT !.outstanding = @ - 1]
<1>1. /\ Ensured(c, q) \in TargetState /\ Ensured(c, q).outstanding = Outstanding(c, q)
      /\ Ensured(c, q).current \in BOOLEAN
      /\ Ensured(c, q).current <=> IsCurrent(c, q)
      /\ Outstanding(c, q) \in Int
  BY EnsuredIs
<1>2. s \in TargetState /\ s.outstanding = Outstanding(c, q) - 1
  BY <1>1 DEF TargetState
<1>3. s.current = Ensured(c, q).current
  BY <1>1 DEF TargetState
<1>4. IsClient(e) /\ q \in DOMAIN e.states /\ e.states[q] = Ensured(c, q)
  BY EnsuredTarget
<1>5. d = [e EXCEPT !.states[q] = s, !.told = told]
  BY <1>4 DEF IsClient, Client, TakeAnswer
<1> HIDE DEF s
<1>6. d = WithTarget(c, q, s, c.resets, told, c.rewatched)
  BY <1>5, ReplaceTarget
<1>7. c.resets \in SUBSET Queries /\ c.rewatched \in SUBSET Queries
  BY Fields
<1>8. /\ Handled(c, d) /\ Counts(c, d, q, s.outstanding) /\ OthersCurrent(c, d, q)
      /\ IsCurrent(d, q) <=> s.current
      /\ q \in DOMAIN d.states /\ d.told = told /\ d.rewatched = c.rewatched
  BY ONLY <1>2, <1>6, <1>7, TargetChange, IsClient(c), q \in Queries, told \in SUBSET Queries
<1>9. Counts(c, d, q, Outstanding(c, q) - 1)
  BY <1>2, <1>8
<1>10. IsCurrent(d, q) <=> IsCurrent(c, q)
  BY <1>1, <1>3, <1>8
<1> QED  BY <1>8, <1>9, <1>10

-----------------------------------------------------------------------------
(* What the aggregator does in two steps it does.                          *)
LEMMA HandledTransitive ==
  ASSUME NEW c, NEW d, NEW e, Handled(c, d), Handled(d, e)
  PROVE  Handled(c, e)
BY DEF Handled, SameViews, SameTracker

(* It may do nothing.                                                      *)
LEMMA HandledNothing ==
  ASSUME NEW c, IsClient(c)
  PROVE  Handled(c, c)
BY DEF Handled, SameViews, SameTracker

(* Of two counts of q the second one stands.                               *)
LEMMA CountsTransitive ==
  ASSUME NEW c, NEW d, NEW e, NEW q, NEW m, NEW n, Counts(c, d, q, m), Counts(d, e, q, n)
  PROVE  Counts(c, e, q, n)
BY DEF Counts

(* The other targets stay as they are through both steps.                  *)
LEMMA OthersTransitive ==
  ASSUME NEW c, NEW d, NEW e, NEW q, OthersCurrent(c, d, q), OthersCurrent(d, e, q)
  PROVE  OthersCurrent(c, e, q)
BY DEF OthersCurrent

(* A known target's state, set in place.                                   *)
LEMMA InPlace ==
  ASSUME NEW c, IsClient(c), NEW q \in DOMAIN c.states, NEW s, NEW d,
         d = [c EXCEPT !.states[q] = s]
  PROVE  d = WithTarget(c, q, s, c.resets, c.told, c.rewatched)
<1> DEFINE f == [c.states EXCEPT ![q] = s]
           g == [x \in DOMAIN c.states \cup {q} |-> IF x = q THEN s ELSE c.states[x]]
<1>1. f = g
  <2>1. DOMAIN c.states \cup {q} = DOMAIN c.states
    OBVIOUS
  <2>2. c.states \in [DOMAIN c.states -> TargetState]
    BY Fields
  <2> QED  BY <2>1, <2>2
<1>2. d = [c EXCEPT !.states = f]
  BY DEF IsClient, Client
<1> HIDE DEF f, g
<1>3. d = [c EXCEPT !.states = g, !.resets = c.resets, !.told = c.told, !.rewatched = c.rewatched]
  BY <1>1, <1>2 DEF IsClient, Client
<1> QED  BY <1>3 DEF g, WithTarget, WithStates

(* RemoveTarget, with a change of the history.                             *)
ForgetTarget(c, q, rewatched) == [RemoveTarget(c, q) EXCEPT !.rewatched = rewatched]

(* A removed target waits for nothing and is not current.                  *)
LEMMA TargetRemoved ==
  ASSUME NEW c, IsClient(c), NEW q \in Queries, NEW rewatched \in SUBSET Queries, NEW d,
         d = ForgetTarget(c, q, rewatched)
  PROVE  /\ Handled(c, d) /\ Counts(c, d, q, 0) /\ OthersCurrent(c, d, q) /\ ~IsCurrent(d, q)
         /\ d.told = c.told /\ d.rewatched = rewatched
<1> DEFINE f == Restrict(c.states, DOMAIN c.states \ {q})
<1>1. DOMAIN c.states \subseteq Queries /\ c.states \in [DOMAIN c.states -> TargetState]
  BY Fields
<1>2. f = [x \in DOMAIN c.states \ {q} |-> c.states[x]]
  BY DEF Restrict
<1>3. DOMAIN f = DOMAIN c.states \ {q} /\ \A x \in DOMAIN f : f[x] = c.states[x]
  BY <1>2
<1>4. d = [c EXCEPT !.states = f, !.rewatched = rewatched]
  BY DEF RemoveTarget, ForgetTarget
<1> HIDE DEF f
<1>5. DOMAIN f \subseteq Queries /\ f \in [DOMAIN f -> TargetState]
  BY <1>1, <1>2
<1>6. d = WithStates(c, f, c.resets, c.told, rewatched)
  BY <1>4 DEF IsClient, Client, WithStates
<1>7. c.resets \in SUBSET Queries /\ c.told \in SUBSET Queries
  BY Fields
<1>8. Handled(c, d)
  BY <1>5, <1>6, <1>7, StatesChange
<1>9. d.states = f /\ d.told = c.told /\ d.rewatched = rewatched
  BY <1>4 DEF IsClient, Client
<1>10. Counts(c, d, q, 0)
  BY ONLY <1>3, <1>9 DEF Counts, Outstanding
<1>11. OthersCurrent(c, d, q) /\ ~IsCurrent(d, q)
  BY ONLY <1>3, <1>9 DEF OthersCurrent, IsCurrent
<1> QED  BY <1>8, <1>9, <1>10, <1>11

(* HandleAdded: one answer less, and what the target was told is           *)
(* forgotten.                                                              *)
LEMMA HandleAddedDoes ==
  ASSUME NEW c, IsClient(c), NEW q \in Queries, NEW d, d = HandleAdded(c, q)
  PROVE  /\ Handled(c, d) /\ Counts(c, d, q, Outstanding(c, q) - 1) /\ OthersCurrent(c, d, q)
         /\ IsCurrent(d, q) <=> IsCurrent(c, q)
         /\ d.told = c.told \ {q} /\ d.rewatched = c.rewatched
<1> DEFINE told == c.told \ {q}
           e == EnsureTargetState(c, q)
           a == TakeAnswer(c, q, told)
           s == ClearPendingChanges(a.states[q])
           n == Outstanding(c, q) - 1
<1>1. told \in SUBSET Queries /\ e.told = c.told
  BY Fields, EnsuredTarget
<1>2. a = [e EXCEPT !.states[q].outstanding = @ - 1, !.told = @ \ {q}]
  BY <1>1 DEF TakeAnswer
<1> HIDE DEF a, e, told
<1>3. d = IF IsPending(a, q) THEN a ELSE [a EXCEPT !.states[q] = ClearPendingChanges(@)]
  BY <1>2 DEF HandleAdded, e
<1>4. /\ Handled(c, a) /\ Counts(c, a, q, n) /\ OthersCurrent(c, a, q)
      /\ IsCurrent(a, q) <=> IsCurrent(c, q)
      /\ q \in DOMAIN a.states /\ a.told = told /\ a.rewatched = c.rewatched
  BY <1>1, AnswerTaken DEF a
<1>5. CASE IsPending(a, q)
  BY <1>3, <1>4, <1>5 DEF told
<1>6. CASE ~IsPending(a, q)
  <2>1. IsClient(a)
    BY <1>4 DEF Handled
  <2> HIDE DEF n
  <2>2. a.states[q] \in TargetState
    BY <1>4, <2>1, Fields
  <2>3. /\ s \in TargetState /\ s.outstanding = a.states[q].outstanding
        /\ s.current = a.states[q].current
    BY <2>2 DEF TargetState, ClearPendingChanges
  <2>4. d = [a EXCEPT !.states[q] = s]
    BY <1>3, <1>6
  <2> HIDE DEF s
  <2>5. d = WithTarget(a, q, s, a.resets, a.told, a.rewatched)
    BY <1>4, <2>1, <2>4, InPlace
  <2>6. a.resets \in SUBSET Queries /\ a.told \in SUBSET Queries /\ a.rewatched \in SUBSET Queries
    BY <2>1, Fields
  <2>7. /\ Handled(a, d) /\ Counts(a, d, q, s.outstanding) /\ OthersCurrent(a, d, q)
        /\ IsCurrent(d, q) <=> s.current
        /\ d.told = a.told /\ d.rewatched = a.rewatched
    BY ONLY <2>1, <2>3, <2>5, <2>6, q \in Queries, TargetChange
  <2>8. s.outstanding = n
    BY <1>4, <2>3 DEF Counts, Outstanding
  <2>9. s.current <=> IsCurrent(a, q)
    BY <1>4, <2>3 DEF IsCurrent
  <2>10. Handled(c, d) /\ Counts(c, d, q, n) /\ OthersCurrent(c, d, q)
    BY <1>4, <2>7, <2>8, HandledTransitive, CountsTransitive, OthersTransitive
  <2> QED  BY <1>4, <2>7, <2>9, <2>10 DEF told, n
<1> QED  BY <1>5, <1>6

(* HandleRemoved: one answer less, and with the last one the target is     *)
(* forgotten.                                                              *)
LEMMA HandleRemovedDoes ==
  ASSUME NEW c, IsClient(c), NEW q \in Queries, NEW d, d = HandleRemoved(c, q)
  PROVE  /\ Handled(c, d) /\ Counts(c, d, q, Outstanding(c, q) - 1) /\ OthersCurrent(c, d, q)
         /\ IF Outstanding(c, q) = 1 THEN ~IsCurrent(d, q)
            ELSE (IsCurrent(d, q) <=> IsCurrent(c, q)) /\ d.rewatched = c.rewatched
         /\ d.told = c.told /\ c.rewatched \ {q} \subseteq d.rewatched
<1> DEFINE told == c.told
           e == EnsureTargetState(c, q)
           a == TakeAnswer(c, q, told)
           n == Outstanding(c, q) - 1
           rewatched == a.rewatched \ {q}
<1>1. told \in SUBSET Queries /\ e.told = c.told /\ IsClient(e)
  BY Fields, EnsuredTarget
<1>2. a = [e EXCEPT !.states[q].outstanding = @ - 1]
  BY <1>1 DEF IsClient, Client, TakeAnswer
<1> HIDE DEF a, e, told
<1>3. d = IF IsPending(a, q) THEN a ELSE [RemoveTarget(a, q) EXCEPT !.rewatched = @ \ {q}]
  BY <1>2 DEF HandleRemoved, e
<1>4. /\ Handled(c, a) /\ Counts(c, a, q, n) /\ OthersCurrent(c, a, q)
      /\ IsCurrent(a, q) <=> IsCurrent(c, q)
      /\ q \in DOMAIN a.states /\ a.told = told /\ a.rewatched = c.rewatched
  BY <1>1, AnswerTaken DEF a
<1>5. IsPending(a, q) <=> n # 0
  BY <1>4 DEF IsPending, Counts
<1>6. Outstanding(c, q) \in Int
  BY EnsuredIs
<1>7. CASE IsPending(a, q)
  <2>1. Outstanding(c, q) # 1 /\ d = a
    BY <1>3, <1>5, <1>6, <1>7
  <2> QED  BY <1>4, <2>1 DEF told
<1>8. CASE ~IsPending(a, q)
  <2>1. Outstanding(c, q) = 1 /\ n = 0
    BY <1>5, <1>6, <1>8
  <2>2. IsClient(a)
    BY <1>4 DEF Handled
  <2>3. RemoveTarget(a, q).rewatched = a.rewatched
    BY <2>2 DEF RemoveTarget, IsClient, Client
  <2>4. d = ForgetTarget(a, q, rewatched)
    BY <1>3, <1>8, <2>3 DEF ForgetTarget
  <2>5. rewatched \in SUBSET Queries
    BY <2>2, Fields
  <2> HIDE DEF rewatched
  <2>6. /\ Handled(a, d) /\ Counts(a, d, q, 0) /\ OthersCurrent(a, d, q) /\ ~IsCurrent(d, q)
        /\ d.told = a.told /\ d.rewatched = rewatched
    BY <2>2, <2>4, <2>5, TargetRemoved
  <2>7. Handled(c, d) /\ Counts(c, d, q, n) /\ OthersCurrent(c, d, q)
    BY <1>4, <2>1, <2>6, HandledTransitive, CountsTransitive, OthersTransitive
  <2> QED  BY <1>4, <2>1, <2>6, <2>7 DEF told, rewatched
<1> QED  BY <1>7, <1>8

-----------------------------------------------------------------------------
(* A change that answers nothing makes a target current only by what the   *)
(* backend says of an active one.                                          *)
Quiet(c, d, q) ==
  /\ Handled(c, d) /\ Counts(c, d, q, Outstanding(c, q)) /\ OthersCurrent(c, d, q)
  /\ IsCurrent(d, q) => IsCurrent(c, q) \/ (IsActive(c, q) /\ q \in d.told)
  /\ d.rewatched = c.rewatched /\ c.told \subseteq d.told

(* Nothing at all is quiet.                                                *)
LEMMA QuietNothing ==
  ASSUME NEW c, IsClient(c), NEW q \in Queries
  PROVE  Quiet(c, c, q)
<1>1. Handled(c, c)
  BY HandledNothing
<1>2. Counts(c, c, q, Outstanding(c, q))
  BY DEF Counts
<1>3. OthersCurrent(c, c, q)
  BY DEF OthersCurrent
<1> QED  BY <1>1, <1>2, <1>3 DEF Quiet

(* So is EnsureTargetState.                                                *)
LEMMA QuietEnsure ==
  ASSUME NEW c, IsClient(c), NEW q \in Queries
  PROVE  Quiet(c, EnsureTargetState(c, q), q)
<1> DEFINE e == EnsureTargetState(c, q)
<1>1. /\ Handled(c, e) /\ e.told = c.told /\ e.rewatched = c.rewatched
      /\ Counts(c, e, q, Outstanding(c, q)) /\ OthersCurrent(c, e, q)
      /\ IsCurrent(e, q) <=> IsCurrent(c, q)
  BY EnsuredTarget
<1> HIDE DEF e
<1>2. Quiet(c, e, q)
  BY <1>1 DEF Quiet
<1> QED  BY <1>2 DEF e

SetEnsured(c, q, s, told) == [EnsureTargetState(c, q) EXCEPT !.states[q] = s, !.told = told]

(* So is another state that waits for the same answers, and is current     *)
(* only if it was or was told so.                                          *)
LEMMA QuietSet ==
  ASSUME NEW c, IsClient(c), NEW q \in Queries, NEW s \in TargetState,
         s.outstanding = Outstanding(c, q), NEW told \in SUBSET Queries, c.told \subseteq told,
         s.current => IsCurrent(c, q) \/ (IsActive(c, q) /\ q \in told),
         NEW d, d = SetEnsured(c, q, s, told)
  PROVE  Quiet(c, d, q)
<1>1. d = WithTarget(c, q, s, c.resets, told, c.rewatched)
  BY ReplaceTarget DEF SetEnsured
<1>2. c.resets \in SUBSET Queries /\ c.rewatched \in SUBSET Queries
  BY Fields
<1>3. /\ Handled(c, d) /\ Counts(c, d, q, s.outstanding) /\ OthersCurrent(c, d, q)
      /\ IsCurrent(d, q) <=> s.current
      /\ d.told = told /\ d.rewatched = c.rewatched
  BY ONLY <1>1, <1>2, IsClient(c), q \in Queries, s \in TargetState, told \in SUBSET Queries,
          TargetChange
<1> QED  BY <1>3 DEF Quiet

(* HandleCurrent: an active target is current, and told so.                *)
LEMMA HandleCurrentIsQuiet ==
  ASSUME NEW c, IsClient(c), NEW q \in Queries
  PROVE  Quiet(c, HandleCurrent(c, q), q)
<1> DEFINE e == EnsureTargetState(c, q)
           d == HandleCurrent(c, q)
           s == [Ensured(c, q) EXCEPT !.current = TRUE, !.changed = TRUE]
           told == c.told \cup {q}
<1>1. CASE IsActive(c, q)
  <2>1. IsClient(e) /\ q \in DOMAIN e.states /\ e.states[q] = Ensured(c, q) /\ e.told = c.told
    BY EnsuredTarget
  <2>2. Ensured(c, q) \in TargetState /\ Ensured(c, q).outstanding = Outstanding(c, q)
    BY EnsuredIs
  <2>3. s \in TargetState /\ s.outstanding = Outstanding(c, q)
    BY <2>2 DEF TargetState
  <2>4. told \in SUBSET Queries /\ c.told \subseteq told /\ q \in told
    BY Fields
  <2>5. d = [e EXCEPT !.states[q].current = TRUE, !.states[q].changed = TRUE, !.told = @ \cup {q}]
    BY <1>1 DEF HandleCurrent
  <2> HIDE DEF e
  <2>6. d = SetEnsured(c, q, s, told)
    <3>1. d = [e EXCEPT !.states[q] = [Ensured(c, q) EXCEPT !.current = TRUE, !.changed = TRUE],
                        !.told = c.told \cup {q}]
      BY ONLY <2>1, <2>5 DEF IsClient, Client
    <3> QED  BY <3>1 DEF SetEnsured, e
  <2> HIDE DEF d, s, told
  <2>7. Quiet(c, d, q)
    BY <1>1, <2>3, <2>4, <2>6, QuietSet
  <2> QED  BY <2>7 DEF d
<1>2. CASE ~IsActive(c, q)
  BY <1>2, QuietEnsure DEF HandleCurrent
<1> QED  BY <1>1, <1>2

(* HandleDocument: the target has changed, and is as current as it was.    *)
LEMMA HandleDocumentIsQuiet ==
  ASSUME NEW c, IsClient(c), NEW q \in Queries
  PROVE  Quiet(c, HandleDocument(c, q), q)
<1> DEFINE e == EnsureTargetState(c, q)
           d == HandleDocument(c, q)
           s == [Ensured(c, q) EXCEPT !.documents = TRUE, !.changed = TRUE]
<1>1. CASE IsActive(c, q)
  <2>1. IsClient(e) /\ q \in DOMAIN e.states /\ e.states[q] = Ensured(c, q) /\ e.told = c.told
    BY EnsuredTarget
  <2>2. /\ Ensured(c, q) \in TargetState /\ Ensured(c, q).outstanding = Outstanding(c, q)
        /\ Ensured(c, q).current <=> IsCurrent(c, q)
    BY EnsuredIs
  <2>3. /\ s \in TargetState /\ s.outstanding = Outstanding(c, q)
        /\ s.current = Ensured(c, q).current
    BY <2>2 DEF TargetState
  <2>4. c.told \in SUBSET Queries
    BY Fields
  <2>5. d = [e EXCEPT !.states[q].documents = TRUE, !.states[q].changed = TRUE]
    BY <1>1 DEF HandleDocument
  <2> HIDE DEF e
  <2>9. d = [e EXCEPT !.states[q] = s]
    BY <2>1, <2>5 DEF IsClient, Client
  <2> HIDE DEF d, s
  <2>6. d = SetEnsured(c, q, s, c.told)
    BY <2>1, <2>9 DEF SetEnsured, e, IsClient, Client
  <2>8. s.current => IsCurrent(c, q) \/ (IsActive(c, q) /\ q \in c.told)
    BY <2>2, <2>3
  <2>10. c.told \subseteq c.told
    OBVIOUS
  <2>7. Quiet(c, d, q)
    BY <2>3, <2>4, <2>6, <2>8, <2>10, QuietSet
  <2> QED  BY <2>7 DEF d
<1>2. CASE ~IsActive(c, q)
  BY <1>2, QuietNothing DEF HandleDocument
<1> QED  BY <1>1, <1>2

(* A reset target is that of an active one: it waits for nothing.          *)
ResetState == [NewTarget EXCEPT !.documents = TRUE]

(* It is not current, and waits for nothing.                               *)
LEMMA ResetStateIs ==
  /\ ResetState \in TargetState /\ ResetState.outstanding = 0 /\ ~ResetState.current
<1>1. ~ResetState.current
  BY DEF ResetState, NewTarget
<1>2. ResetState.outstanding = 0
  BY DEF ResetState, NewTarget
<1>3. NewTarget \in TargetState
  BY DEF NewTarget, TargetState
<1>4. ResetState \in TargetState
  BY <1>3 DEF ResetState, TargetState
<1> QED  BY <1>1, <1>2, <1>4

(* HandleReset: an active target is made anew.                             *)
LEMMA HandleResetIsQuiet ==
  ASSUME NEW c, IsClient(c), NEW q \in Queries
  PROVE  Quiet(c, HandleReset(c, q), q)
<1> DEFINE e == EnsureTargetState(c, q)
           d == HandleReset(c, q)
<1>1. CASE IsActive(c, q)
  <2>1. IsClient(e) /\ e.told = c.told
    BY EnsuredTarget
  <2>2. d = [e EXCEPT !.states[q] = ResetState]
    BY <1>1 DEF HandleReset, ResetTarget, ResetState
  <2> HIDE DEF e
  <2>3. d = SetEnsured(c, q, ResetState, c.told)
    BY <2>1, <2>2 DEF SetEnsured, e, IsClient, Client
  <2> HIDE DEF d
  <2>4. Outstanding(c, q) = 0
    BY <1>1 DEF IsActive, IsPending
  <2>5. c.told \in SUBSET Queries
    BY Fields
  <2>6. Quiet(c, d, q)
    BY <2>3, <2>4, <2>5, ResetStateIs, QuietSet
  <2> QED  BY <2>6 DEF d
<1>2. CASE ~IsActive(c, q)
  BY <1>2, QuietEnsure DEF HandleReset
<1> QED  BY <1>1, <1>2

(* HandleFilter: an active target is made anew, to be watched again.       *)
LEMMA HandleFilterIsQuiet ==
  ASSUME NEW c, IsClient(c), NEW q \in Queries
  PROVE  Quiet(c, HandleFilter(c, q), q)
<1> DEFINE d == HandleFilter(c, q)
           resets == c.resets \cup {q}
<1>0. /\ resets \in SUBSET Queries /\ c.told \in SUBSET Queries /\ c.rewatched \in SUBSET Queries
      /\ DOMAIN c.states \subseteq Queries /\ c.states \in [DOMAIN c.states -> TargetState]
  BY Fields
<1>1. CASE IsActive(c, q) /\ q \in DOMAIN c.states
  <2> DEFINE f == [c.states EXCEPT ![q] = ResetState]
             g == [x \in DOMAIN c.states \cup {q} |-> IF x = q THEN ResetState ELSE c.states[x]]
  <2>1. f = g
    BY <1>0, <1>1
  <2>2. d = [c EXCEPT !.states = f, !.resets = resets]
    BY <1>1 DEF HandleFilter, ResetTarget, ResetState, IsClient, Client
  <2> HIDE DEF d, f, g, resets
  <2>3. d = WithStates(c, g, resets, c.told, c.rewatched)
    BY <2>1, <2>2 DEF WithStates, IsClient, Client
  <2>4. d = WithTarget(c, q, ResetState, resets, c.told, c.rewatched)
    BY <2>3 DEF WithTarget, g
  <2>5. Outstanding(c, q) = 0
    BY <1>1 DEF IsActive, IsPending
  <2>6. /\ Handled(c, d) /\ Counts(c, d, q, ResetState.outstanding) /\ OthersCurrent(c, d, q)
        /\ IsCurrent(d, q) <=> ResetState.current
        /\ d.told = c.told /\ d.rewatched = c.rewatched
    BY ONLY <1>0, <2>4, IsClient(c), q \in Queries, ResetStateIs, TargetChange
  <2>7. Quiet(c, d, q)
    BY <2>5, <2>6, ResetStateIs DEF Quiet
  <2> QED  BY <2>7 DEF d
<1>2. CASE IsActive(c, q) /\ q \notin DOMAIN c.states
  <2>1. [c.states EXCEPT ![q] = ResetState] = c.states
    BY <1>0, <1>2
  <2>2. d = [c EXCEPT !.states = [c.states EXCEPT ![q] = ResetState], !.resets = resets]
    BY <1>2 DEF HandleFilter, ResetTarget, ResetState, IsClient, Client
  <2> HIDE DEF d, resets
  <2>3. d = WithStates(c, c.states, resets, c.told, c.rewatched)
    BY <2>1, <2>2 DEF WithStates, IsClient, Client
  <2>4. Handled(c, d) /\ d.states = c.states /\ d.told = c.told /\ d.rewatched = c.rewatched
    BY <1>0, <2>3, StatesChange
  <2>6. Counts(c, d, q, Outstanding(c, q))
    BY ONLY <2>4 DEF Counts, Outstanding
  <2>7. OthersCurrent(c, d, q) /\ (IsCurrent(d, q) <=> IsCurrent(c, q))
    BY ONLY <2>4 DEF OthersCurrent, IsCurrent
  <2>5. Quiet(c, d, q)
    BY <2>4, <2>6, <2>7 DEF Quiet
  <2> QED  BY <2>5 DEF d
<1>3. CASE ~IsActive(c, q)
  BY <1>3, QuietNothing DEF HandleFilter
<1> QED  BY <1>1, <1>2, <1>3

-----------------------------------------------------------------------------
(***************************************************************************)
(* The requests that are sent, and what ends and starts the stream.        *)
(***************************************************************************)
LEMMA StreamFields ==
  ASSUME NEW c, IsClient(c)
  PROVE  /\ c.stream.out \in Seq(Request) /\ c.stream.in \in Seq(Message)
         /\ c.stream.idle \in BOOLEAN /\ c.stream.news \in BOOLEAN
         /\ c.stream.state \in {"Initial", "Starting", "Open", "Error", "Backoff"}
         /\ c.stream.watched \in [Queries -> {"no", "added", "current"}]
BY Fields DEF Stream, Request

(* Only the stream is another.                                             *)
WithStream(c, stream) == [c EXCEPT !.stream = stream]

(* Such a change leaves the rest of the client alone.                      *)
LEMMA StreamChange ==
  ASSUME NEW c, IsClient(c), NEW stream \in Stream, NEW d, d = WithStream(c, stream)
  PROVE  /\ IsClient(d) /\ SameViews(c, d) /\ d.stream = stream
         /\ d.targets = c.targets /\ d.states = c.states /\ d.resets = c.resets
         /\ d.told = c.told /\ d.rewatched = c.rewatched /\ d.dropped = c.dropped
<1>1. IsClient(d)
  BY DEF IsClient, Client, WithStream
<1>2. /\ SameViews(c, d) /\ d.stream = stream
      /\ d.targets = c.targets /\ d.states = c.states /\ d.resets = c.resets
      /\ d.told = c.told /\ d.rewatched = c.rewatched /\ d.dropped = c.dropped
  BY DEF IsClient, Client, WithStream, SameViews, SameTracker
<1> QED  BY <1>1, <1>2

(* Requests are on the stream, and counted.                                *)
Requested(c, d, kinds, qs) ==
  /\ d.told = c.told /\ d.dropped = c.dropped
  /\ d.stream.state = c.stream.state /\ d.stream.in = c.stream.in
  /\ d.stream.out = c.stream.out \o Requests(kinds, qs)
  /\ \A x \in Queries : Outstanding(d, x) = Outstanding(c, x) + IF x \in qs THEN Len(kinds) ELSE 0
  /\ \A x \in Queries : IsCurrent(d, x) <=> IsCurrent(c, x)
  /\ c.rewatched \subseteq d.rewatched
  /\ \A x \in qs : (kinds[Len(kinds)] = "Watch" /\ Outstanding(c, x) + Len(kinds) # 1)
                      => x \in d.rewatched

Sent(c, d, kinds, qs) ==
  /\ IsClient(d) /\ SameViews(c, d) /\ d.targets = c.targets /\ Requested(c, d, kinds, qs)
  /\ d.stream.idle <=> (c.stream.idle /\ qs = {})

(* SendRequests: each request is on the stream, behind the others, and     *)
(* counted.                                                                *)
LEMMA SendRequestsDoes ==
  ASSUME NEW c, IsClient(c), NEW kinds \in KindLists, NEW qs \in SUBSET Queries
  PROVE  Sent(c, SendRequests(c, kinds, qs), kinds, qs)
<1> DEFINE d == SendRequests(c, kinds, qs)
           n == Len(kinds)
           f == [q \in DOMAIN c.states \cup qs |->
                   IF q \in qs THEN [EnsureTargetState(c, q).states[q] EXCEPT !.outstanding = @ + n]
                   ELSE c.states[q]]
           g == [q \in DOMAIN c.states \cup qs |->
                   IF q \in qs THEN [Ensured(c, q) EXCEPT !.outstanding = @ + n] ELSE c.states[q]]
           again == {q \in qs : /\ kinds[n] = "Watch"
                                /\ Outstanding(c, q) + n # 1}
           rewatched == c.rewatched \cup again
           r == Requests(kinds, qs)
           stream == [c.stream EXCEPT !.out = c.stream.out \o r,
                                      !.idle = c.stream.idle /\ qs = {}]
           m == WithStates(c, f, c.resets, c.told, rewatched)
<1>1. n \in {1, 2}
  BY DEF KindLists
<1>2. r \in Seq(Request)
  BY RequestsAre
<1>3. f = g
  <2>1. \A q \in qs : EnsureTargetState(c, q).states[q] = Ensured(c, q)
    BY EnsuredTarget
  <2> QED  BY <2>1
<1>4. d = [c EXCEPT !.states = f, !.rewatched = rewatched, !.stream.out = @ \o r,
                    !.stream.idle = @ /\ qs = {}]
  BY DEF SendRequests
<1> HIDE DEF n, f, r, d
<1>5. \A q \in qs : /\ Ensured(c, q) \in TargetState
                    /\ Ensured(c, q).outstanding = Outstanding(c, q)
                    /\ Ensured(c, q).current <=> IsCurrent(c, q)
                    /\ Outstanding(c, q) \in Int
  BY EnsuredIs
<1>6. DOMAIN c.states \subseteq Queries /\ c.states \in [DOMAIN c.states -> TargetState]
  BY Fields
<1>7. \A q \in qs : /\ [Ensured(c, q) EXCEPT !.outstanding = @ + n] \in TargetState
                    /\ [Ensured(c, q) EXCEPT !.outstanding = @ + n].outstanding
                         = Outstanding(c, q) + n
                    /\ [Ensured(c, q) EXCEPT !.outstanding = @ + n].current
                         = Ensured(c, q).current
  BY <1>1, <1>5 DEF TargetState
<1>8. DOMAIN g \subseteq Queries /\ g \in [DOMAIN g -> TargetState]
  BY <1>6, <1>7
<1>9. /\ DOMAIN g = DOMAIN c.states \cup qs
      /\ \A q \in qs : g[q] = [Ensured(c, q) EXCEPT !.outstanding = @ + n]
      /\ \A q \in DOMAIN c.states \ qs : g[q] = c.states[q]
  OBVIOUS
<1> HIDE DEF g
<1>10. rewatched \in SUBSET Queries /\ c.resets \in SUBSET Queries /\ c.told \in SUBSET Queries
  BY Fields
<1>11. again \subseteq rewatched /\ c.rewatched \subseteq rewatched
  OBVIOUS
<1>12. \A x \in qs : (kinds[n] = "Watch" /\ Outstanding(c, x) + n # 1) => x \in again
  OBVIOUS
<1> HIDE DEF again
<1> HIDE DEF rewatched
<1>13. /\ Handled(c, m) /\ m.states = g /\ m.told = c.told /\ m.rewatched = rewatched
  <2> HIDE DEF m
  <2> QED  BY <1>3, <1>8, <1>10, StatesChange DEF m
<1>14. IsClient(m) /\ m.stream = c.stream
  BY <1>13 DEF Handled
<1>15. stream \in Stream /\ stream.state = c.stream.state /\ stream.in = c.stream.in
       /\ stream.out = c.stream.out \o r
       /\ (stream.idle <=> (c.stream.idle /\ qs = {}))
  <2> DEFINE out  == c.stream.out \o r
             idle == c.stream.idle /\ qs = {}
  <2>1. c.stream \in Stream
    BY Fields
  <2>2. out \in Seq(Request) /\ idle \in BOOLEAN
    BY <1>2, StreamFields, ConcatProperties
  <2>3. stream = [c.stream EXCEPT !.out = out, !.idle = idle]
    OBVIOUS
  <2> HIDE DEF out, idle, stream
  <2>4. /\ stream \in Stream /\ stream.state = c.stream.state /\ stream.in = c.stream.in
        /\ stream.out = out
    BY <2>1, <2>2, <2>3 DEF Stream, Request
  <2>5. stream.idle = idle
    BY <2>1, <2>3 DEF Stream
  <2>6. stream.idle <=> idle
    BY <2>2, <2>5
  <2> QED  BY <2>4, <2>6 DEF out, idle
<1>16. d = WithStream(m, stream)
  BY <1>4 DEF WithStream, WithStates, IsClient, Client
<1> HIDE DEF m, stream
<1>17. /\ IsClient(d) /\ SameViews(m, d) /\ d.stream = stream
       /\ d.targets = m.targets /\ d.states = m.states
       /\ d.told = m.told /\ d.rewatched = m.rewatched /\ d.dropped = m.dropped
  BY <1>14, <1>15, <1>16, StreamChange
<1>18. SameViews(c, d)
  BY <1>13, <1>17 DEF Handled, SameViews, SameTracker
<1>19. ASSUME NEW x \in Queries
       PROVE  /\ Outstanding(d, x) = Outstanding(c, x) + IF x \in qs THEN n ELSE 0
              /\ IsCurrent(d, x) <=> IsCurrent(c, x)
  <2>0. d.states = g
    BY <1>13, <1>17
  <2>1. CASE x \in qs
    <3>1. Outstanding(d, x) = g[x].outstanding /\ (IsCurrent(d, x) <=> g[x].current)
      BY <1>9, <2>0, <2>1 DEF Outstanding, IsCurrent
    <3>2. g[x].outstanding = Outstanding(c, x) + n
      BY <1>7, <1>9, <2>1
    <3>3. g[x].current = Ensured(c, x).current
      BY <1>7, <1>9, <2>1
    <3> QED  BY <1>5, <2>1, <3>1, <3>2, <3>3
  <2>2. CASE x \notin qs
    <3>1. x \in DOMAIN g <=> x \in DOMAIN c.states
      BY <1>9, <2>2
    <3>2. x \in DOMAIN c.states => g[x] = c.states[x]
      BY <1>9, <2>2
    <3>3. Outstanding(d, x) = Outstanding(c, x) /\ (IsCurrent(d, x) <=> IsCurrent(c, x))
      BY ONLY <2>0, <3>1, <3>2 DEF Outstanding, IsCurrent
    <3>4. Outstanding(c, x) \in Int
      BY EnsuredIs
    <3> QED  BY <2>2, <3>3, <3>4
  <2> QED  BY <2>1, <2>2
<1>20. \A x \in qs : (kinds[n] = "Watch" /\ Outstanding(c, x) + n # 1) => x \in d.rewatched
  BY <1>11, <1>12, <1>13, <1>17
<1>21. c.rewatched \subseteq d.rewatched
  BY <1>11, <1>13, <1>17
<1>22. /\ d.targets = c.targets /\ d.told = c.told /\ d.dropped = c.dropped
       /\ d.stream.state = c.stream.state /\ d.stream.in = c.stream.in
       /\ d.stream.out = c.stream.out \o r
       /\ d.stream.idle <=> (c.stream.idle /\ qs = {})
  BY <1>13, <1>15, <1>17 DEF Handled
<1>23. Sent(c, d, kinds, qs)
  BY <1>17, <1>18, <1>19, <1>20, <1>21, <1>22 DEF Sent, Requested, n, r
<1> QED  BY <1>23 DEF d

(* What changes the views alone keeps the stream and what is known of it.  *)
LEMMA ShownRequested ==
  ASSUME NEW c, NEW d, NEW e, NEW kinds, NEW qs, Requested(c, d, kinds, qs), SameWire(d, e)
  PROVE  Requested(c, e, kinds, qs)
<1>1. \A x \in Queries : Outstanding(e, x) = Outstanding(d, x)
  BY DEF SameWire, Outstanding
<1>2. \A x \in Queries : IsCurrent(e, x) <=> IsCurrent(d, x)
  BY DEF SameWire, IsCurrent
<1>3. /\ e.told = d.told /\ e.dropped = d.dropped /\ e.stream = d.stream
      /\ e.rewatched = d.rewatched
  BY DEF SameWire
<1> QED  BY <1>1, <1>2, <1>3 DEF Requested

-----------------------------------------------------------------------------
(***************************************************************************)
(* What each task keeps: the assertions of the client, and that nothing is *)
(* left of a stream that has ended.                                        *)
(***************************************************************************)
Clean(c) ==
  /\ ~c.stream.idle /\ c.stream.out = <<>> /\ c.stream.in = <<>> /\ ~c.stream.news
  /\ \A q \in Queries : c.stream.watched[q] = "no"
  /\ c.states = <<>>

Base(c) ==
  /\ IsClient(c)
  /\ c.timer => c.online = "Unknown" /\ c.failures = 0
  /\ c.online = "Online" => c.failures = 0
  /\ c.stream.idle => IsOpen(c) /\ c.targets = {}
  /\ ~IsOpen(c) => Clean(c)

Sound(c) ==
  /\ Base(c)
  /\ c.timer => IsStarted(c)
  /\ c.targets # {} => IsStarted(c)

(* A closed stream is empty.                                               *)
LEMMA ClosedIs ==
  ASSUME NEW state \in {"Initial", "Starting", "Open", "Error", "Backoff"}
  PROVE  /\ Closed(state) \in Stream /\ Closed(state).state = state /\ ~Closed(state).idle
         /\ Closed(state).out = <<>> /\ Closed(state).in = <<>> /\ ~Closed(state).news
         /\ \A q \in Queries : Closed(state).watched[q] = "no"
<1>1. Closed(state) \in Stream
  BY DEF Closed, Stream
<1>2. ~Closed(state).idle /\ ~Closed(state).news
  BY DEF Closed
<1> QED  BY <1>1, <1>2 DEF Closed

(* Without a stream no target waits for an answer, and none is current.    *)
LEMMA CleanIs ==
  ASSUME NEW c, Clean(c)
  PROVE  \A q \in Queries : Outstanding(c, q) = 0 /\ ~IsCurrent(c, q)
<1>1. DOMAIN c.states = {}
  BY DEF Clean
<1> QED  BY <1>1 DEF Outstanding, IsCurrent

(* The views and the online state alone keep Base, given the assertions.   *)
LEMMA ShownBase ==
  ASSUME NEW c, NEW d, Base(c), Shows(c, d),
         d.timer => d.online = "Unknown" /\ d.failures = 0,
         d.online = "Online" => d.failures = 0
  PROVE  Base(d)
<1>1. IsClient(d) /\ d.stream = c.stream /\ d.targets = c.targets /\ d.states = c.states
  BY DEF Shows, Tells, SameWire
<1> QED  BY <1>1 DEF Base, IsOpen, Clean

(* CloseStream: nothing is left of the stream.                             *)
LEMMA CloseStreamDoes ==
  ASSUME NEW c, IsClient(c), NEW state \in {"Initial", "Error"}, NEW d, d = CloseStream(c, state)
  PROVE  /\ IsClient(d) /\ SameViews(c, d) /\ d.targets = c.targets
         /\ Clean(d) /\ d.stream.state = state
<1> DEFINE k == Closed(state)
<1>1. k \in Stream /\ k.state = state
  BY ClosedIs
<1>2. d = [c EXCEPT !.stream = k, !.states = <<>>, !.resets = {},
                    !.told = {}, !.rewatched = {}, !.dropped = {}]
  BY DEF CloseStream
<1> HIDE DEF k
<1>3. /\ SameViews(c, d) /\ d.targets = c.targets
      /\ d.stream = k /\ d.states = <<>>
  BY <1>2 DEF IsClient, Client, SameViews, SameTracker
<1>4. IsClient(d)
  <2>1. DOMAIN <<>> = {} /\ <<>> \in [{} -> TargetState]
    OBVIOUS
  <2>2. {} \in SUBSET Queries
    OBVIOUS
  <2> QED  BY <1>1, <1>2, <2>1, <2>2 DEF IsClient, Client
<1>5. Clean(d)
  <2>1. /\ ~k.idle /\ k.out = <<>> /\ k.in = <<>> /\ ~k.news
        /\ \A q \in Queries : k.watched[q] = "no"
    BY ClosedIs DEF k
  <2> QED  BY <1>3, <2>1 DEF Clean
<1> QED  BY <1>1, <1>3, <1>4, <1>5

(* StartWatchStream: a stream that is needed is started, with the timer.   *)
LEMMA StartWatchStreamDoes ==
  ASSUME NEW c, Base(c), ~IsStarted(c), NEW d, d = StartWatchStream(c)
  PROVE  Sound(d) /\ Tells(c, d) /\ d.targets = c.targets /\ IsStarted(d) /\ ~IsOpen(d)
<1> DEFINE state == IF c.stream.state = "Error" THEN "Backoff" ELSE "Starting"
           stream == [c.stream EXCEPT !.state = state]
           b == WithStream(c, stream)
<1>1. IsClient(c) /\ Clean(c)
  BY DEF Base, IsOpen, IsStarted
<1>2. state \in {"Starting", "Backoff"}
  OBVIOUS
<1>3. d = HandleWatchStreamStart(b)
  BY <1>1 DEF StartWatchStream, WithStream, IsClient, Client
<1> HIDE DEF state
<1>4. /\ stream \in Stream /\ stream.state = state /\ stream.idle = c.stream.idle
      /\ stream.out = c.stream.out /\ stream.in = c.stream.in
      /\ stream.watched = c.stream.watched /\ stream.news = c.stream.news
  <2>1. c.stream \in Stream
    BY <1>1, Fields
  <2> QED  BY <1>2, <2>1 DEF Stream
<1> HIDE DEF b, stream
<1>5. /\ IsClient(b) /\ SameViews(c, b) /\ b.stream = stream
      /\ b.targets = c.targets /\ b.states = c.states
  BY <1>1, <1>4, StreamChange DEF b
<1>6. Clean(b) /\ b.stream.state \in {"Starting", "Backoff"} /\ ~b.stream.idle
  <2>1. Clean(b)
    BY <1>1, <1>4, <1>5 DEF Clean
  <2> QED  BY <1>2, <1>4, <1>5, <2>1 DEF Clean
<1>7. b.timer = c.timer /\ b.online = c.online /\ b.failures = c.failures
  BY <1>5 DEF SameViews, SameTracker
<1>8. Base(b) /\ IsStarted(b) /\ ~IsOpen(b)
  BY <1>5, <1>6, <1>7 DEF Base, IsStarted, IsOpen
<1>9. /\ Shows(b, d)
      /\ IF b.failures # 0 THEN d = b ELSE d.online = "Unknown" /\ d.failures = 0 /\ d.timer = TRUE
  BY <1>3, <1>5, HandleWatchStreamStartShows
<1>10. /\ d.timer => d.online = "Unknown" /\ d.failures = 0
       /\ d.online = "Online" => d.failures = 0
  BY <1>8, <1>9 DEF Base
<1>11. Base(d)
  BY <1>8, <1>9, <1>10, ShownBase
<1>12. IsStarted(d) /\ ~IsOpen(d) /\ d.targets = c.targets
  BY <1>5, <1>8, <1>9 DEF Shows, SameWire, IsStarted, IsOpen
<1>13. Tells(c, d)
  <2>1. Tells(c, b)
    BY <1>1, <1>5, TellsNothing DEF SameViews
  <2>2. Tells(b, d)
    BY <1>9 DEF Shows
  <2> QED  BY <1>1, <2>1, <2>2, TellsTransitive
<1> QED  BY <1>11, <1>12, <1>13 DEF Sound

-----------------------------------------------------------------------------
(* The same is known of the stream and its targets.                        *)
SameStream(c, d) ==
  /\ d.stream = c.stream /\ d.states = c.states
  /\ d.told = c.told /\ d.rewatched = c.rewatched /\ d.dropped = c.dropped

(* The same answers are waited for, and the same targets are current.      *)
LEMMA SameStreamKnows ==
  ASSUME NEW c, NEW d, SameStream(c, d)
  PROVE  \A x \in Queries : /\ Outstanding(d, x) = Outstanding(c, x)
                            /\ IsCurrent(d, x) <=> IsCurrent(c, x)
BY DEF SameStream, Outstanding, IsCurrent

(* Requests after a change that leaves the stream alone.                   *)
LEMMA RequestedFrom ==
  ASSUME NEW c, NEW d, NEW e, NEW kinds, NEW qs \in SUBSET Queries,
         SameStream(c, d), Requested(d, e, kinds, qs)
  PROVE  Requested(c, e, kinds, qs)
<1>1. \A x \in Queries : /\ Outstanding(d, x) = Outstanding(c, x)
                         /\ IsCurrent(d, x) <=> IsCurrent(c, x)
  BY SameStreamKnows
<1> QED  BY <1>1 DEF Requested, SameStream

WithTargets(c, targets) == [c EXCEPT !.targets = targets]

(* Another set of targets leaves the rest of the client alone.             *)
LEMMA TargetsChange ==
  ASSUME NEW c, IsClient(c), NEW targets \in SUBSET Queries, NEW d, d = WithTargets(c, targets)
  PROVE  /\ IsClient(d) /\ SameViews(c, d) /\ SameStream(c, d) /\ d.targets = targets
         /\ Tells(c, d)
<1>1. IsClient(d)
  BY DEF IsClient, Client, WithTargets
<1>2. SameViews(c, d) /\ SameStream(c, d) /\ d.targets = targets /\ d.events = c.events
      /\ d.listeners = c.listeners
  BY DEF IsClient, Client, WithTargets, SameViews, SameTracker, SameStream
<1> QED  BY <1>1, <1>2, TellsNothing

(* The tracker's assertions follow the client through what it does not     *)
(* touch.                                                                  *)
LEMMA TrackerKept ==
  ASSUME NEW c, NEW d, Base(c), SameViews(c, d)
  PROVE  /\ d.timer => d.online = "Unknown" /\ d.failures = 0
         /\ d.online = "Online" => d.failures = 0
         /\ d.timer => c.timer
BY DEF Base, SameViews, SameTracker

(* The same listeners and events: nobody is told anything.                 *)
LEMMA ViewsTell ==
  ASSUME NEW c, NEW d, IsClient(c), IsClient(d), SameViews(c, d)
  PROVE  Tells(c, d)
<1>1. d.listeners = c.listeners /\ d.events = c.events
  BY DEF SameViews
<1> QED  BY <1>1, TellsNothing

WatchOnce == <<"Watch">>
UnwatchOnce == <<"Unwatch">>
Again == <<"Unwatch", "Watch">>

(* ListenTarget: the target is added, and is watched if the stream is      *)
(* open.                                                                   *)
LEMMA ListenTargetDoes ==
  ASSUME NEW c, Sound(c), NEW q \in Queries, NEW d, d = ListenTarget(c, q)
  PROVE  /\ Sound(d) /\ Tells(c, d) /\ d.targets = c.targets \cup {q}
         /\ IF IsOpen(c) THEN Requested(c, d, WatchOnce, {q}) ELSE ~IsOpen(d)
<1> DEFINE targets == c.targets \cup {q}
           b == WithTargets(c, targets)
<1>1. d = CASE ShouldStartWatchStream(b) -> StartWatchStream(b)
            [] IsOpen(c) -> SendWatchRequests(b, {q})
            [] OTHER -> b
  BY DEF ListenTarget, WithTargets
<1>2. IsClient(c) /\ Base(c)
  BY DEF Sound, Base
<1>3. targets \in SUBSET Queries /\ targets # {}
  BY <1>2, Fields
<1> HIDE DEF targets, b
<1>4. /\ IsClient(b) /\ SameViews(c, b) /\ SameStream(c, b) /\ b.targets = targets
      /\ Tells(c, b)
  BY <1>2, <1>3, TargetsChange DEF b
<1>5. b.stream = c.stream /\ b.states = c.states
  BY <1>4 DEF SameStream
<1>6. /\ b.timer => b.online = "Unknown" /\ b.failures = 0
      /\ b.online = "Online" => b.failures = 0
      /\ b.timer => c.timer
  BY <1>2, <1>4, TrackerKept
<1>7. ~IsOpen(b) => Clean(b)
  BY <1>2, <1>5 DEF Base, IsOpen, Clean
<1>8. CASE ~IsStarted(b)
  <2>1. ShouldStartWatchStream(b) /\ ~IsOpen(c)
    BY <1>3, <1>4, <1>5, <1>8 DEF ShouldStartWatchStream, IsStarted, IsOpen
  <2>2. d = StartWatchStream(b)
    BY <1>1, <2>1
  <2>3. Base(b)
    <3>1. ~IsOpen(b)
      BY <1>8 DEF IsStarted, IsOpen
    <3> QED  BY <1>4, <1>6, <1>7, <3>1 DEF Base, Clean
  <2>4. Sound(d) /\ Tells(b, d) /\ d.targets = b.targets /\ ~IsOpen(d)
    BY <1>8, <2>2, <2>3, StartWatchStreamDoes
  <2>5. Tells(c, d)
    BY <1>2, <1>4, <2>4, TellsTransitive
  <2> QED  BY <1>4, <2>1, <2>4, <2>5 DEF targets
<1>9. CASE IsOpen(c)
  <2>1. IsStarted(b) /\ IsOpen(b)
    BY <1>5, <1>9 DEF IsStarted, IsOpen
  <2>2. d = SendRequests(b, WatchOnce, {q})
    BY <1>1, <1>9, <2>1 DEF ShouldStartWatchStream, SendWatchRequests, WatchOnce
  <2>3. WatchOnce \in KindLists /\ {q} \in SUBSET Queries
    BY DEF WatchOnce, KindLists
  <2>4. Sent(b, d, WatchOnce, {q})
    BY <1>4, <2>2, <2>3, SendRequestsDoes
  <2>5. /\ IsClient(d) /\ SameViews(b, d) /\ d.targets = targets
        /\ d.stream.state = b.stream.state /\ ~d.stream.idle
    BY <1>4, <2>4 DEF Sent, Requested
  <2>6. Tells(c, d)
    BY <1>2, <1>4, <2>5, ViewsTell, TellsTransitive
  <2>7. IsOpen(d) /\ IsStarted(d)
    BY <2>1, <2>5 DEF IsOpen, IsStarted
  <2>8. Sound(d)
    BY <1>6, <2>5, <2>7 DEF Sound, Base, SameViews, SameTracker
  <2>9. Requested(c, d, WatchOnce, {q})
    BY <1>4, <2>3, <2>4, RequestedFrom DEF Sent
  <2> QED  BY <1>9, <2>5, <2>6, <2>8, <2>9 DEF targets
<1>10. CASE IsStarted(b) /\ ~IsOpen(c)
  <2>1. d = b
    BY <1>1, <1>10 DEF ShouldStartWatchStream
  <2>2. Clean(b) /\ ~IsOpen(b)
    BY <1>5, <1>7, <1>10 DEF IsOpen
  <2>3. Sound(d)
    BY <1>4, <1>6, <1>10, <2>1, <2>2 DEF Sound, Base, Clean
  <2> QED  BY <1>4, <1>10, <2>1, <2>2, <2>3 DEF targets
<1> QED  BY <1>8, <1>9, <1>10

(* UnlistenTarget: the target is removed, and is unwatched if the stream   *)
(* is open.                                                                *)
LEMMA UnlistenTargetDoes ==
  ASSUME NEW c, Sound(c), NEW q \in Queries, NEW d, d = UnlistenTarget(c, q)
  PROVE  /\ Sound(d) /\ Tells(c, d) /\ d.targets = c.targets \ {q}
         /\ IF IsOpen(c) THEN Requested(c, d, UnwatchOnce, {q}) ELSE ~IsOpen(d)
<1> DEFINE targets == c.targets \ {q}
           b == WithTargets(c, targets)
           sent == IF IsOpen(c) THEN SendUnwatchRequest(b, q) ELSE b
<1>1. d = CASE sent.targets # {} -> sent
            [] sent.targets = {} /\ IsOpen(c) -> [sent EXCEPT !.stream.idle = TRUE]
            [] OTHER -> UpdateState(sent, "Unknown")
  BY DEF UnlistenTarget, WithTargets
<1>2. IsClient(c) /\ Base(c)
  BY DEF Sound, Base
<1>3. targets \in SUBSET Queries /\ (targets # {} => c.targets # {})
  BY <1>2, Fields
<1> HIDE DEF targets, b
<1>4. /\ IsClient(b) /\ SameViews(c, b) /\ SameStream(c, b) /\ b.targets = targets
      /\ Tells(c, b)
  BY <1>2, <1>3, TargetsChange DEF b
<1>5. b.stream = c.stream /\ b.states = c.states
  BY <1>4 DEF SameStream
<1>6. /\ b.timer => b.online = "Unknown" /\ b.failures = 0
      /\ b.online = "Online" => b.failures = 0
      /\ b.timer => c.timer
  BY <1>2, <1>4, TrackerKept
<1>7. CASE IsOpen(c)
  <2>1. sent = SendRequests(b, UnwatchOnce, {q})
    BY <1>7 DEF SendUnwatchRequest, UnwatchOnce
  <2>2. UnwatchOnce \in KindLists /\ {q} \in SUBSET Queries
    BY DEF UnwatchOnce, KindLists
  <2> HIDE DEF sent
  <2>3. Sent(b, sent, UnwatchOnce, {q})
    BY <1>4, <2>1, <2>2, SendRequestsDoes
  <2>4. /\ IsClient(sent) /\ SameViews(b, sent) /\ sent.targets = targets
        /\ sent.stream.state = b.stream.state /\ ~sent.stream.idle
    BY <1>4, <2>3 DEF Sent, Requested
  <2>5. Tells(c, sent)
    BY <1>2, <1>4, <2>4, ViewsTell, TellsTransitive
  <2>6. IsOpen(sent) /\ IsStarted(sent)
    BY <1>5, <1>7, <2>4 DEF IsOpen, IsStarted
  <2>7. Requested(c, sent, UnwatchOnce, {q})
    BY <1>4, <2>2, <2>3, RequestedFrom DEF Sent
  <2>8. /\ sent.timer => sent.online = "Unknown" /\ sent.failures = 0
        /\ sent.online = "Online" => sent.failures = 0
    BY <1>6, <2>4 DEF SameViews, SameTracker
  <2>9. CASE targets # {}
    <3>1. d = sent
      BY <1>1, <2>4, <2>9
    <3>2. Sound(d)
      BY <2>4, <2>6, <2>8, <3>1 DEF Sound, Base
    <3> QED  BY <1>7, <2>4, <2>5, <2>7, <3>1, <3>2 DEF targets
  <2>10. CASE targets = {}
    <3> DEFINE yes == TRUE
               stream == [sent.stream EXCEPT !.idle = yes]
    <3>1. d = WithStream(sent, stream)
      BY <1>1, <1>7, <2>4, <2>10 DEF WithStream, IsClient, Client
    <3>2. sent.stream \in Stream /\ yes \in BOOLEAN
      BY <2>4, Fields
    <3> HIDE DEF yes
    <3>3. /\ stream \in Stream /\ stream.state = sent.stream.state
          /\ stream.out = sent.stream.out /\ stream.in = sent.stream.in
      BY <3>2 DEF Stream
    <3> HIDE DEF stream
    <3>4. /\ IsClient(d) /\ SameViews(sent, d) /\ d.stream = stream
          /\ d.targets = sent.targets /\ d.states = sent.states
          /\ d.told = sent.told /\ d.rewatched = sent.rewatched /\ d.dropped = sent.dropped
      BY <2>4, <3>1, <3>3, StreamChange
    <3>5. IsOpen(d) /\ IsStarted(d)
      BY <2>6, <3>3, <3>4 DEF IsOpen, IsStarted
    <3>6. Sound(d)
      BY <2>4, <2>8, <2>10, <3>4, <3>5 DEF Sound, Base, SameViews, SameTracker
    <3>7. Tells(c, d)
      BY <1>2, <2>4, <2>5, <3>4, ViewsTell, TellsTransitive
    <3>8. Requested(c, d, UnwatchOnce, {q})
      <4>1. \A x \in Queries : /\ Outstanding(d, x) = Outstanding(sent, x)
                               /\ IsCurrent(d, x) <=> IsCurrent(sent, x)
        BY <3>4 DEF Outstanding, IsCurrent
      <4> QED  BY <2>7, <3>3, <3>4, <4>1 DEF Requested
    <3> QED  BY <1>7, <2>4, <3>4, <3>6, <3>7, <3>8 DEF targets
  <2> QED  BY <2>9, <2>10
<1>8. CASE ~IsOpen(c)
  <2>1. sent = b
    BY <1>8
  <2> HIDE DEF sent
  <2>2. Clean(b) /\ ~IsOpen(b)
    BY <1>2, <1>5, <1>8 DEF Base, IsOpen, Clean
  <2>3. Base(b)
    BY <1>4, <1>6, <2>2 DEF Base, Clean
  <2>4. CASE targets # {}
    <3>1. d = b
      BY <1>1, <1>4, <2>1, <2>4
    <3>2. IsStarted(b)
      BY <1>3, <1>5, <2>4 DEF Sound, IsStarted
    <3>3. Sound(d)
      BY <2>3, <3>1, <3>2 DEF Sound
    <3> QED  BY <1>4, <1>8, <2>2, <3>1, <3>3 DEF targets
  <2>5. CASE targets = {}
    <3>1. d = UpdateState(b, "Unknown")
      BY <1>1, <1>4, <1>8, <2>1, <2>5
    <3>2. "Unknown" \in Online
      BY DEF Online
    <3>3. Shows(b, d) /\ d.online = "Unknown" /\ d.failures = 0 /\ d.timer = FALSE
      BY ONLY <1>4, <3>1, <3>2, UpdateStateShows
    <3>4. Base(d)
      BY <2>3, <3>3, ShownBase
    <3>5. d.targets = targets /\ ~IsOpen(d)
      BY <1>4, <2>2, <3>3 DEF Shows, SameWire, IsOpen
    <3>6. Sound(d)
      BY <2>5, <3>3, <3>4, <3>5 DEF Sound
    <3>7. Tells(c, d)
      BY <1>2, <1>4, <3>3, TellsTransitive DEF Shows
    <3> QED  BY <1>8, <3>5, <3>6, <3>7 DEF targets
  <2> QED  BY <2>4, <2>5
<1> QED  BY <1>7, <1>8

-----------------------------------------------------------------------------
(* The stream is open: every target is watched.                            *)
LEMMA OpenedDoes ==
  ASSUME NEW c, Sound(c), c.stream.state = "Starting",
         NEW d, d = OnWatchStreamOpen([c EXCEPT !.stream.state = "Open"])
  PROVE  /\ Sound(d) /\ Tells(c, d) /\ d.targets = c.targets /\ IsOpen(d)
         /\ d.stream.out = Requests(WatchOnce, c.targets) /\ d.stream.in = <<>>
         /\ \A x \in Queries : Outstanding(d, x) = IF x \in c.targets THEN 1 ELSE 0
         /\ \A x \in Queries : ~IsCurrent(d, x)
<1> DEFINE stream == [c.stream EXCEPT !.state = "Open"]
           b == WithStream(c, stream)
           ts == c.targets
<1>1. IsClient(c) /\ Base(c) /\ Clean(c)
  BY DEF Sound, Base, IsOpen
<1>2. [c EXCEPT !.stream.state = "Open"] = b
  BY <1>1 DEF WithStream, IsClient, Client
<1> HIDE DEF b
<1>3. c.stream \in Stream
  BY <1>1, Fields
<1>4. /\ stream \in Stream /\ stream.state = "Open" /\ ~stream.idle
      /\ stream.out = <<>> /\ stream.in = <<>>
  BY <1>1, <1>3 DEF Stream, Clean
<1> HIDE DEF stream
<1>5. /\ IsClient(b) /\ SameViews(c, b) /\ b.stream = stream
      /\ b.targets = ts /\ b.states = c.states
  BY <1>1, <1>4, StreamChange DEF b
<1>6. ts \in SUBSET Queries
  BY <1>1, Fields
<1> HIDE DEF ts
<1>7. d = SendRequests(b, WatchOnce, ts)
  BY <1>2, <1>5 DEF OnWatchStreamOpen, SendWatchRequests, WatchOnce
<1>8. WatchOnce \in KindLists /\ Len(WatchOnce) = 1
  BY DEF WatchOnce, KindLists
<1>9. Sent(b, d, WatchOnce, ts)
  BY <1>5, <1>6, <1>7, <1>8, SendRequestsDoes
<1>10. \A x \in Queries : Outstanding(b, x) = 0 /\ ~IsCurrent(b, x)
  <2>1. DOMAIN b.states = {}
    BY <1>1, <1>5 DEF Clean
  <2> QED  BY <2>1 DEF Outstanding, IsCurrent
<1>11. /\ IsClient(d) /\ SameViews(b, d) /\ d.targets = ts
       /\ d.stream.state = "Open" /\ ~d.stream.idle /\ d.stream.in = <<>>
       /\ d.stream.out = <<>> \o Requests(WatchOnce, ts)
  BY <1>4, <1>5, <1>9 DEF Sent, Requested
<1>12. d.stream.out = Requests(WatchOnce, ts)
  <2>1. Requests(WatchOnce, ts) \in Seq(Request)
    BY <1>6, <1>8, RequestsAre
  <2> DEFINE r == Requests(WatchOnce, ts)
  <2> HIDE DEF r
  <2>2. <<>> \o r = r
    BY <2>1 DEF r
  <2> QED  BY <1>11, <2>2 DEF r
<1>13. \A x \in Queries : Outstanding(d, x) = IF x \in ts THEN 1 ELSE 0
  BY <1>8, <1>9, <1>10 DEF Sent, Requested
<1>14. \A x \in Queries : ~IsCurrent(d, x)
  BY <1>9, <1>10 DEF Sent, Requested
<1>15. Tells(c, d)
  BY <1>1, <1>5, <1>11, ViewsTell, TellsTransitive
<1>16. IsOpen(d) /\ IsStarted(d)
  BY <1>11 DEF IsOpen, IsStarted
<1>17. /\ d.timer => d.online = "Unknown" /\ d.failures = 0
       /\ d.online = "Online" => d.failures = 0
  BY <1>1, <1>5, <1>11 DEF Base, SameViews, SameTracker
<1>18. Sound(d)
  BY <1>11, <1>16, <1>17 DEF Sound, Base
<1> QED  BY <1>11, <1>12, <1>13, <1>14, <1>15, <1>16, <1>18 DEF ts

(* What ends the stream, or goes on to open it, shows what was shown.      *)
Ended(c, d) == Sound(d) /\ Tells(c, d) /\ d.targets = c.targets /\ ~IsOpen(d)

(* OnWatchStreamClose, after an error: the stream is restarted if it is    *)
(* needed.                                                                 *)
LEMMA StreamFinishDoes ==
  ASSUME NEW c, Sound(c), NEW d, d = OnWatchStreamClose(CloseStream(c, "Error"))
  PROVE  Ended(c, d)
<1> DEFINE b == CloseStream(c, "Error")
<1>1. IsClient(c) /\ Base(c)
  BY DEF Sound, Base
<1>2. IF ShouldStartWatchStream(b) THEN d = StartWatchStream(HandleWatchStreamFailure(b))
      ELSE d = UpdateState(b, "Unknown")
  BY DEF OnWatchStreamClose
<1>3. /\ IsClient(b) /\ SameViews(c, b) /\ b.targets = c.targets
      /\ Clean(b) /\ b.stream.state = "Error"
  BY <1>1, CloseStreamDoes
<1> HIDE DEF b
<1>4. Tells(c, b)
  BY <1>1, <1>3, ViewsTell
<1>5. ~IsOpen(b) /\ ~IsStarted(b) /\ ~b.stream.idle
  BY <1>3 DEF IsOpen, IsStarted, Clean
<1>6. /\ b.timer => b.online = "Unknown" /\ b.failures = 0
      /\ b.online = "Online" => b.failures = 0
  BY <1>1, <1>3, TrackerKept
<1>7. Base(b)
  BY <1>3, <1>5, <1>6 DEF Base
<1>8. CASE ShouldStartWatchStream(b)
  <2> DEFINE e == HandleWatchStreamFailure(b)
  <2>1. Shows(b, e) /\ e.online # "Online" /\ e.timer = FALSE
    BY <1>3, <1>6, HandleWatchStreamFailureShows
  <2>2. d = StartWatchStream(e)
    BY <1>2, <1>8
  <2> HIDE DEF e
  <2>3. Base(e)
    BY <1>7, <2>1, ShownBase
  <2>4. ~IsStarted(e) /\ e.targets = c.targets
    BY <1>3, <1>5, <2>1 DEF Shows, SameWire, IsStarted
  <2>5. Sound(d) /\ Tells(e, d) /\ d.targets = e.targets /\ ~IsOpen(d)
    BY <2>2, <2>3, <2>4, StartWatchStreamDoes
  <2>6. Tells(c, e)
    BY <1>1, <1>4, <2>1, TellsTransitive DEF Shows
  <2>7. Tells(c, d)
    BY <1>1, <2>5, <2>6, TellsTransitive
  <2> QED  BY <2>4, <2>5, <2>7 DEF Ended
<1>9. CASE ~ShouldStartWatchStream(b)
  <2>1. b.targets = {}
    BY <1>5, <1>9 DEF ShouldStartWatchStream
  <2>2. "Unknown" \in Online /\ d = UpdateState(b, "Unknown")
    BY <1>2, <1>9 DEF Online
  <2>3. Shows(b, d) /\ d.online = "Unknown" /\ d.failures = 0 /\ d.timer = FALSE
    BY ONLY <1>3, <2>2, UpdateStateShows
  <2>4. Base(d)
    BY <1>7, <2>3, ShownBase
  <2>5. d.targets = c.targets /\ d.targets = {} /\ ~IsOpen(d)
    BY <1>3, <1>5, <2>1, <2>3 DEF Shows, SameWire, IsOpen
  <2>6. Sound(d)
    BY <2>3, <2>4, <2>5 DEF Sound
  <2>7. Tells(c, d)
    BY <1>1, <1>4, <2>3, TellsTransitive DEF Shows
  <2> QED  BY <2>5, <2>6, <2>7 DEF Ended
<1> QED  BY <1>8, <1>9

(* IdleTimeout, and the first half of RestartNetwork.                      *)
LEMMA StoppedDoes ==
  ASSUME NEW c, Base(c), NEW d, d = UpdateState(CloseStream(c, "Initial"), "Unknown")
  PROVE  /\ Base(d) /\ Tells(c, d) /\ d.targets = c.targets /\ ~IsStarted(d) /\ ~IsOpen(d)
         /\ d.timer = FALSE
<1> DEFINE b == CloseStream(c, "Initial")
<1>1. IsClient(c)
  BY DEF Base
<1>2. d = UpdateState(b, "Unknown") /\ "Unknown" \in Online
  BY DEF Online
<1>3. /\ IsClient(b) /\ SameViews(c, b) /\ b.targets = c.targets
      /\ Clean(b) /\ b.stream.state = "Initial"
  BY <1>1, CloseStreamDoes
<1> HIDE DEF b
<1>4. ~IsOpen(b) /\ ~IsStarted(b) /\ ~b.stream.idle
  BY <1>3 DEF IsOpen, IsStarted, Clean
<1>5. /\ b.timer => b.online = "Unknown" /\ b.failures = 0
      /\ b.online = "Online" => b.failures = 0
  BY <1>3, TrackerKept
<1>6. Base(b)
  BY <1>3, <1>4, <1>5 DEF Base
<1>7. Shows(b, d) /\ d.online = "Unknown" /\ d.failures = 0 /\ d.timer = FALSE
  BY ONLY <1>2, <1>3, UpdateStateShows
<1>8. Base(d)
  BY <1>6, <1>7, ShownBase
<1>9. d.targets = c.targets /\ ~IsStarted(d) /\ ~IsOpen(d)
  BY <1>3, <1>4, <1>7 DEF Shows, SameWire, IsStarted, IsOpen
<1>10. Tells(c, d)
  <2>1. Tells(c, b)
    BY <1>1, <1>3, ViewsTell
  <2> QED  BY <1>1, <1>7, <2>1, TellsTransitive DEF Shows
<1> QED  BY <1>7, <1>8, <1>9, <1>10

(* The step of IdleTimeout: a stream without targets ends.                 *)
LEMMA IdleTimeoutDoes ==
  ASSUME NEW c, Sound(c), c.stream.idle,
         NEW d, d = UpdateState(CloseStream(c, "Initial"), "Unknown")
  PROVE  Ended(c, d)
<1>1. Base(c) /\ c.targets = {}
  BY DEF Sound, Base
<1>2. /\ Base(d) /\ Tells(c, d) /\ d.targets = c.targets /\ ~IsOpen(d)
      /\ d.timer = FALSE
  BY <1>1, StoppedDoes
<1> QED  BY <1>1, <1>2 DEF Sound, Ended

(* RestartNetwork: the stream ends, and starts again if it is needed.      *)
LEMMA RestartNetworkDoes ==
  ASSUME NEW c, Sound(c), NEW d, d = RestartNetwork(c)
  PROVE  Ended(c, d)
<1> DEFINE b == UpdateState(CloseStream(c, "Initial"), "Unknown")
<1>1. Base(c) /\ IsClient(c)
  BY DEF Sound, Base
<1>2. IF ShouldStartWatchStream(b) THEN d = StartWatchStream(b) ELSE d = b
  BY DEF RestartNetwork
<1>3. /\ Base(b) /\ Tells(c, b) /\ b.targets = c.targets /\ ~IsStarted(b) /\ ~IsOpen(b)
      /\ b.timer = FALSE
  BY <1>1, StoppedDoes
<1> HIDE DEF b
<1>4. CASE ShouldStartWatchStream(b)
  <2>1. Sound(d) /\ Tells(b, d) /\ d.targets = b.targets /\ ~IsOpen(d)
    BY <1>2, <1>3, <1>4, StartWatchStreamDoes
  <2>2. Tells(c, d)
    BY <1>1, <1>3, <2>1, TellsTransitive
  <2> QED  BY <1>3, <2>1, <2>2 DEF Ended
<1>5. CASE ~ShouldStartWatchStream(b)
  <2>1. d = b /\ b.targets = {}
    BY <1>2, <1>3, <1>5 DEF ShouldStartWatchStream
  <2> QED  BY <1>3, <2>1 DEF Sound, Ended
<1> QED  BY <1>4, <1>5

(* The step of BackoffElapsed: the stream is about to start.               *)
LEMMA BackoffElapsedDoes ==
  ASSUME NEW c, Sound(c), c.stream.state = "Backoff",
         NEW d, d = [c EXCEPT !.stream.state = "Starting"]
  PROVE  Ended(c, d)
<1> DEFINE stream == [c.stream EXCEPT !.state = "Starting"]
<1>1. IsClient(c) /\ Base(c) /\ Clean(c) /\ IsStarted(c)
  BY DEF Sound, Base, IsOpen, IsStarted
<1>2. d = WithStream(c, stream)
  BY <1>1 DEF WithStream, IsClient, Client
<1>3. c.stream \in Stream
  BY <1>1, Fields
<1>4. /\ stream \in Stream /\ stream.state = "Starting" /\ stream.idle = c.stream.idle
      /\ stream.out = c.stream.out /\ stream.in = c.stream.in
      /\ stream.watched = c.stream.watched /\ stream.news = c.stream.news
  BY <1>3 DEF Stream
<1> HIDE DEF stream
<1>5. /\ IsClient(d) /\ SameViews(c, d) /\ d.stream = stream
      /\ d.targets = c.targets /\ d.states = c.states
  BY ONLY <1>1, <1>2, <1>4, StreamChange
<1>6. IsStarted(d) /\ ~IsOpen(d) /\ Clean(d) /\ ~d.stream.idle
  BY <1>1, <1>4, <1>5 DEF IsStarted, IsOpen, Clean
<1>7. /\ d.timer => d.online = "Unknown" /\ d.failures = 0
      /\ d.online = "Online" => d.failures = 0
  BY <1>1, <1>5, TrackerKept
<1>8. Sound(d)
  BY <1>5, <1>6, <1>7 DEF Sound, Base
<1>9. Tells(c, d)
  BY <1>1, <1>5, ViewsTell
<1> QED  BY <1>5, <1>6, <1>8, <1>9 DEF Ended

(* The step of OnlineStateTimeout: the client is offline, and its          *)
(* listeners are told.                                                     *)
LEMMA OnlineStateTimeoutDoes ==
  ASSUME NEW c, Sound(c), NEW d, d = SetAndBroadcast([c EXCEPT !.timer = FALSE], "Offline")
  PROVE  Sound(d) /\ Shows(c, d)
<1> DEFINE b == [c EXCEPT !.failures = c.failures, !.timer = FALSE]
<1>1. IsClient(c) /\ Base(c)
  BY DEF Sound, Base
<1>2. c.failures \in Nat
  BY <1>1, Fields
<1>3. [c EXCEPT !.timer = FALSE] = b
  BY <1>1 DEF IsClient, Client
<1>4. Shows(c, b)
  BY <1>1, <1>2, TrackerShows
<1>5. b.failures = c.failures /\ b.timer = FALSE
  BY <1>1 DEF IsClient, Client
<1> HIDE DEF b
<1>6. IsClient(b) /\ "Offline" \in Online /\ d = SetAndBroadcast(b, "Offline")
  BY <1>3, <1>4 DEF Shows, Tells, Online
<1>7. Shows(b, d) /\ d.online = "Offline" /\ d.timer = b.timer
  BY <1>6, SetAndBroadcastShows
<1>8. Shows(c, d)
  BY <1>1, <1>4, <1>7, ShowsTransitive
<1>9. Base(d)
  BY <1>1, <1>5, <1>7, <1>8, ShownBase
<1>10. d.targets = c.targets /\ (IsStarted(d) <=> IsStarted(c))
  BY <1>8 DEF Shows, SameWire, IsStarted
<1>11. Sound(d)
  BY <1>5, <1>7, <1>9, <1>10 DEF Sound
<1> QED  BY <1>8, <1>11

-----------------------------------------------------------------------------
ErrorFor == [g \in Gets |-> "error"]

(* ProcessTargetError: the listeners of the target are told and forgotten. *)
Rejected(c, d, q) ==
  /\ d.stream = c.stream /\ d.told = c.told /\ d.rewatched = c.rewatched
  /\ d.dropped = c.dropped \cup {q}
  /\ \A x \in Queries \ {q} : /\ Outstanding(d, x) = Outstanding(c, x)
                              /\ IsCurrent(d, x) <=> IsCurrent(c, x)
  /\ IF q \in c.targets
     THEN /\ d.targets = c.targets \ {q}
          /\ d.listeners = [c.listeners EXCEPT ![q] = {}]
          /\ Posted(c.events, c.listeners[q], ErrorFor, d.events)
     ELSE d.targets = c.targets /\ d.listeners = c.listeners /\ d.events = c.events

(* ProcessTargetError keeps the client's assertions and forgets one target *)
(* with its listeners.                                                     *)
LEMMA ProcessTargetErrorDoes ==
  ASSUME NEW c, Sound(c), NEW q \in Queries, NEW d, d = ProcessTargetError(c, q)
  PROVE  Sound(d) /\ Rejected(c, d, q)
<1> DEFINE dropped == c.dropped \cup {q}
<1>1. IsClient(c) /\ Base(c)
  BY DEF Sound, Base
<1>2. dropped \in SUBSET Queries
  BY <1>1, Fields
<1> HIDE DEF dropped
<1>3. CASE q \notin c.targets
  <2>1. d = [c EXCEPT !.dropped = dropped]
    BY <1>3 DEF ProcessTargetError, dropped
  <2>2. IsClient(d)
    BY <1>1, <1>2, <2>1 DEF IsClient, Client
  <2>3. /\ d.stream = c.stream /\ d.told = c.told /\ d.rewatched = c.rewatched
        /\ d.dropped = dropped /\ d.states = c.states
        /\ d.targets = c.targets /\ d.listeners = c.listeners /\ d.events = c.events
        /\ d.timer = c.timer /\ d.online = c.online /\ d.failures = c.failures
    BY <1>1, <2>1 DEF IsClient, Client
  <2>4. Sound(d)
    BY ONLY Sound(c), <2>2, <2>3 DEF Sound, Base, IsOpen, IsStarted, Clean
  <2>5. \A x \in Queries : /\ Outstanding(d, x) = Outstanding(c, x)
                           /\ IsCurrent(d, x) <=> IsCurrent(c, x)
    BY ONLY <2>3 DEF Outstanding, IsCurrent
  <2>6. Rejected(c, d, q)
    BY <1>3, <2>3, <2>5 DEF Rejected, dropped
  <2> QED  BY <2>4, <2>6
<1>4. CASE q \in c.targets
  <2> DEFINE gone == ForgetTarget(c, q, c.rewatched)
             events == Post(c.events, c.listeners[q], ErrorFor)
             targets == c.targets \ {q}
             listeners == [c.listeners EXCEPT ![q] = {}]
  <2>1. c.rewatched \in SUBSET Queries
    BY <1>1, Fields
  <2>2. RemoveTarget(c, q) = gone
    BY <1>1 DEF ForgetTarget, RemoveTarget, IsClient, Client
  <2>3. d = [RemoveTarget(c, q) EXCEPT !.targets = c.targets \ {q},
                 !.listeners = [c.listeners EXCEPT ![q] = {}],
                 !.events = Post(c.events, c.listeners[q], ErrorFor),
                 !.dropped = c.dropped \cup {q}]
    BY <1>1, <1>4 DEF ProcessTargetError, RemoveTarget, ErrorFor, IsClient, Client
  <2>4. /\ Handled(c, gone) /\ OthersCurrent(c, gone, q) /\ Counts(c, gone, q, 0)
        /\ gone.told = c.told /\ gone.rewatched = c.rewatched
    BY <1>1, <2>1, TargetRemoved
  <2>5. Posted(c.events, c.listeners[q], ErrorFor, events)
    <3>1. c.events \in Seq(GetEvent) /\ c.listeners[q] \in SUBSET Gets
      BY <1>1, Fields
    <3>2. ErrorFor \in [Gets -> {"synced", "cached", "error"}]
      BY DEF ErrorFor
    <3> QED  BY <3>1, <3>2, PostIs
  <2>6. events \in Seq(GetEvent)
    BY <2>5 DEF Posted
  <2>7. targets \in SUBSET Queries /\ listeners \in [Queries -> SUBSET Gets]
    BY <1>1, Fields
  <2> HIDE DEF gone, events, targets, listeners
  <2>8. IsClient(gone) /\ SameViews(c, gone) /\ gone.stream = c.stream
    BY <2>4 DEF Handled
  <2>9. d = [gone EXCEPT !.targets = targets, !.listeners = listeners,
                         !.events = events, !.dropped = dropped]
    BY <2>2, <2>3 DEF targets, listeners, events, dropped
  <2>10. IsClient(d)
    BY <1>2, <2>6, <2>7, <2>8, <2>9 DEF IsClient, Client, GetEvent
  <2>11. /\ d.stream = gone.stream /\ d.told = gone.told /\ d.rewatched = gone.rewatched
         /\ d.dropped = dropped /\ d.states = gone.states
         /\ d.targets = targets /\ d.listeners = listeners /\ d.events = events
         /\ d.timer = gone.timer /\ d.online = gone.online /\ d.failures = gone.failures
    BY <2>8, <2>9 DEF IsClient, Client
  <2>12. \A x \in Queries : /\ Outstanding(d, x) = Outstanding(gone, x)
                            /\ IsCurrent(d, x) <=> IsCurrent(gone, x)
    BY ONLY <2>11 DEF Outstanding, IsCurrent
  <2>13. \A x \in Queries \ {q} : /\ Outstanding(d, x) = Outstanding(c, x)
                                  /\ IsCurrent(d, x) <=> IsCurrent(c, x)
    BY <2>4, <2>12 DEF Counts, OthersCurrent
  <2>14. Rejected(c, d, q)
    BY <1>4, <2>4, <2>5, <2>8, <2>11, <2>13 DEF Rejected, targets, listeners, dropped
  <2>15. Sound(d)
    <3>1. /\ d.timer = c.timer /\ d.online = c.online /\ d.failures = c.failures
          /\ d.stream = c.stream
      BY <2>8, <2>11 DEF SameViews, SameTracker
    <3>2. ~c.stream.idle /\ IsStarted(c)
      BY <1>1, <1>4 DEF Base, Sound
    <3>3. ~IsOpen(d) => Clean(d)
      <4>1. SUFFICES ASSUME ~IsOpen(d) PROVE Clean(d)
        OBVIOUS
      <4>2. Clean(c)
        BY <1>1, <3>1, <4>1 DEF Base, IsOpen
      <4>3. gone.states = <<>>
        <5>1. DOMAIN c.states = {}
          BY <4>2 DEF Clean
        <5>2. gone.states = [x \in DOMAIN c.states \ {q} |-> c.states[x]]
          BY <1>1 DEF gone, ForgetTarget, RemoveTarget, Restrict, IsClient, Client
        <5> QED  BY <5>1, <5>2
      <4> QED  BY <2>11, <3>1, <4>2, <4>3 DEF Clean
    <3>4. IsStarted(d)
      BY <3>1, <3>2 DEF IsStarted
    <3> QED  BY <1>1, <2>10, <3>1, <3>2, <3>3, <3>4 DEF Sound, Base
  <2> QED  BY <2>14, <2>15
<1> QED  BY <1>3, <1>4

(* The same answers are waited for, and the same targets are current.      *)
SameCounts(c, d) ==
  /\ d.stream = c.stream /\ d.told = c.told /\ d.rewatched = c.rewatched /\ d.dropped = c.dropped
  /\ \A x \in Queries : /\ Outstanding(d, x) = Outstanding(c, x)
                        /\ IsCurrent(d, x) <=> IsCurrent(c, x)

(* Requests after a change that leaves the counts alone.                   *)
LEMMA RequestedAfter ==
  ASSUME NEW c, NEW d, NEW e, NEW kinds, NEW qs \in SUBSET Queries,
         SameCounts(c, d), Requested(d, e, kinds, qs)
  PROVE  Requested(c, e, kinds, qs)
BY DEF Requested, SameCounts

(* RaiseWatchSnapshot: the targets that are watched again are the only     *)
(* ones with requests.                                                     *)
LEMMA RaiseWatchSnapshotDoes ==
  ASSUME NEW c, Sound(c), IsOpen(c), NEW d, d = RaiseWatchSnapshot(c)
  PROVE  /\ Sound(d) /\ Tells(c, d) /\ d.targets = c.targets
         /\ \E qs \in SUBSET c.targets : Requested(c, d, Again, qs)
<1> DEFINE event   == {q \in DOMAIN c.states : IsActive(c, q) /\ c.states[q].changed}
           f       == [q \in DOMAIN c.states |->
                         IF q \in event THEN ClearPendingChanges(c.states[q]) ELSE c.states[q]]
           created == WithStates(c, f, {}, c.told, c.rewatched)
           qs      == c.resets \cap c.targets
           resent  == SendRequests(created, Again, qs)
           current == [q \in Queries |->
                         IF q \in event THEN c.states[q].current ELSE resent.current[q]]
           applied == [resent EXCEPT !.current = current]
           shown   == {q \in event : c.states[q].documents \/ c.current[q] # applied.current[q]}
<1>1. IsClient(c) /\ Base(c)
  BY DEF Sound, Base
<1>2. [c EXCEPT !.states = f, !.resets = {}] = created
  BY <1>1 DEF WithStates, IsClient, Client
<1>3. d = OnViewSnapshots(applied, shown)
  BY <1>2 DEF RaiseWatchSnapshot, Again
<1>4. /\ DOMAIN c.states \subseteq Queries /\ c.states \in [DOMAIN c.states -> TargetState]
      /\ c.told \in SUBSET Queries /\ c.rewatched \in SUBSET Queries
      /\ qs \in SUBSET Queries /\ qs \in SUBSET c.targets
  BY <1>1, Fields
<1>5. \A q \in DOMAIN c.states :
        /\ ClearPendingChanges(c.states[q]) \in TargetState
        /\ ClearPendingChanges(c.states[q]).outstanding = c.states[q].outstanding
        /\ ClearPendingChanges(c.states[q]).current = c.states[q].current
  BY <1>4 DEF ClearPendingChanges, TargetState
<1>6. event \subseteq DOMAIN c.states
  OBVIOUS
<1>7. shown \subseteq event
  OBVIOUS
<1> HIDE DEF event
<1>8. /\ DOMAIN f = DOMAIN c.states /\ f \in [DOMAIN f -> TargetState]
      /\ \A q \in DOMAIN c.states : /\ f[q].outstanding = c.states[q].outstanding
                                    /\ f[q].current = c.states[q].current
  BY <1>4, <1>5
<1> HIDE DEF f, created, qs
<1>9. Handled(c, created) /\ created.states = f /\ created.told = c.told
      /\ created.rewatched = c.rewatched
  BY <1>1, <1>4, <1>8, StatesChange DEF created
<1>10. IsClient(created) /\ SameViews(c, created) /\ created.targets = c.targets
       /\ created.stream = c.stream
  BY <1>9 DEF Handled
<1>11. SameCounts(c, created)
  <2>1. \A x \in Queries : Outstanding(created, x) = Outstanding(c, x)
    BY ONLY <1>8, <1>9 DEF Outstanding
  <2>2. \A x \in Queries : IsCurrent(created, x) <=> IsCurrent(c, x)
    BY ONLY <1>8, <1>9 DEF IsCurrent
  <2> QED  BY <1>9, <2>1, <2>2 DEF SameCounts, Handled
<1>12. Again \in KindLists
  BY DEF Again, KindLists
<1>13. Sent(created, resent, Again, qs)
  BY <1>4, <1>10, <1>12, SendRequestsDoes
<1> HIDE DEF resent
<1>14. /\ IsClient(resent) /\ SameViews(created, resent) /\ resent.targets = c.targets
       /\ Requested(created, resent, Again, qs)
       /\ resent.stream.idle => created.stream.idle
  BY <1>10, <1>13 DEF Sent
<1>15. current \in [Queries -> BOOLEAN]
  <2>1. resent.current \in [Queries -> BOOLEAN]
    BY <1>14, Fields
  <2>2. \A q \in event : c.states[q].current \in BOOLEAN
    BY <1>4, <1>6 DEF TargetState
  <2> QED  BY <2>1, <2>2
<1> HIDE DEF current, shown
<1>16. IsClient(applied) /\ SameViews(resent, applied) /\ SameWire(resent, applied)
  BY <1>14, <1>15 DEF IsClient, Client, SameViews, SameTracker, SameWire
<1> HIDE DEF applied
<1>17. shown \in SUBSET Queries
  BY <1>4, <1>6, <1>7
<1>18. Shows(applied, d) /\ SameTracker(applied, d)
  BY <1>3, <1>16, <1>17, OnViewSnapshotsShows
<1>19. IsClient(d)
  BY <1>18 DEF Shows, Tells
<1>20. Tells(c, d)
  <2>1. Tells(c, created)
    BY <1>1, <1>10, ViewsTell
  <2>2. Tells(created, resent)
    BY <1>10, <1>14, ViewsTell
  <2>3. Tells(resent, applied)
    BY <1>14, <1>16, ViewsTell
  <2>4. Tells(c, resent)
    BY <1>1, <2>1, <2>2, TellsTransitive
  <2>5. Tells(c, applied)
    BY <1>1, <2>3, <2>4, TellsTransitive
  <2> QED  BY <1>1, <1>18, <2>5, TellsTransitive DEF Shows
<1>21. Requested(c, d, Again, qs)
  <2>1. Requested(created, applied, Again, qs)
    BY <1>14, <1>16, ShownRequested
  <2>2. Requested(created, d, Again, qs)
    BY <1>18, <2>1, ShownRequested DEF Shows
  <2> QED  BY <1>4, <1>11, <2>2, RequestedAfter
<1>22. /\ d.timer = c.timer /\ d.online = c.online /\ d.failures = c.failures
  BY <1>10, <1>14, <1>16, <1>18 DEF SameViews, SameTracker
<1>23. d.targets = c.targets /\ d.stream = resent.stream
  BY <1>14, <1>16, <1>18 DEF Shows, SameWire
<1>24. IsOpen(d) /\ IsStarted(d)
  BY <1>21 DEF Requested, IsOpen, IsStarted
<1>25. d.stream.idle => c.stream.idle
  BY <1>10, <1>14, <1>23
<1>26. Sound(d)
  BY <1>1, <1>19, <1>22, <1>23, <1>24, <1>25 DEF Sound, Base
<1> QED  BY <1>4, <1>20, <1>21, <1>23, <1>26

-----------------------------------------------------------------------------
(***************************************************************************)
(* OnWatchStreamChange: the message is taken off the stream, the client is *)
(* online, and the message is handled.                                     *)
(***************************************************************************)
SameKnown(c, d) ==
  /\ d.targets = c.targets /\ d.states = c.states
  /\ d.told = c.told /\ d.rewatched = c.rewatched /\ d.dropped = c.dropped

Received(c, b) ==
  /\ Sound(b) /\ Tells(c, b) /\ SameKnown(c, b) /\ IsOpen(c) /\ IsOpen(b)
  /\ b.stream.out = c.stream.out /\ b.stream.in = Tail(c.stream.in)

(* Only an open stream has messages.                                       *)
LEMMA InOfOpen ==
  ASSUME NEW c, Sound(c), c.stream.in # <<>>
  PROVE  IsOpen(c)
BY DEF Sound, Base, Clean

(* The message is taken, and whoever it brings online is told.             *)
LEMMA ReceivedIs ==
  ASSUME NEW c, Sound(c), c.stream.in # <<>>, NEW b,
         b = UpdateState(WithStream(c, [c.stream EXCEPT !.in = Tail(@)]), "Online")
  PROVE  Received(c, b)
<1> DEFINE stream == [c.stream EXCEPT !.in = Tail(@)]
           a == WithStream(c, stream)
<1>1. IsClient(c) /\ Base(c) /\ IsOpen(c)
  BY InOfOpen DEF Sound, Base
<1>2. c.stream \in Stream /\ c.stream.in \in Seq(Message)
  BY <1>1, Fields, StreamFields
<1>3. Tail(c.stream.in) \in Seq(Message)
  BY <1>2
<1>4. /\ stream \in Stream /\ stream.in = Tail(c.stream.in) /\ stream.out = c.stream.out
      /\ stream.state = c.stream.state /\ stream.idle = c.stream.idle
  BY <1>2, <1>3 DEF Stream
<1>5. b = UpdateState(a, "Online") /\ "Online" \in Online
  BY DEF Online
<1> HIDE DEF stream
<1>6. /\ IsClient(a) /\ SameViews(c, a) /\ a.stream = stream
      /\ a.targets = c.targets /\ a.states = c.states
      /\ a.told = c.told /\ a.rewatched = c.rewatched /\ a.dropped = c.dropped
  BY <1>1, <1>4, StreamChange
<1> HIDE DEF a
<1>7. Shows(a, b) /\ b.online = "Online" /\ b.failures = 0 /\ b.timer = FALSE
  BY ONLY <1>5, <1>6, UpdateStateShows
<1>8. IsClient(b) /\ SameWire(a, b) /\ Tells(a, b)
  BY <1>7 DEF Shows, Tells
<1>9. SameKnown(c, b) /\ b.stream = stream
  BY <1>6, <1>8 DEF SameKnown, SameWire
<1>10. IsOpen(b) /\ IsStarted(b)
  BY <1>1, <1>4, <1>9 DEF IsOpen, IsStarted
<1>11. b.stream.idle => b.targets = {}
  BY <1>1, <1>4, <1>9 DEF Base, SameKnown
<1>12. Sound(b)
  BY <1>7, <1>8, <1>10, <1>11 DEF Sound, Base
<1>13. Tells(c, b)
  BY <1>1, <1>6, <1>8, ViewsTell, TellsTransitive
<1> QED  BY <1>1, <1>4, <1>9, <1>10, <1>12, <1>13 DEF Received

(* The aggregator's operators keep the client's assertions.                *)
LEMMA HandledSound ==
  ASSUME NEW b, NEW d, Sound(b), IsOpen(b), Handled(b, d)
  PROVE  Sound(d) /\ Tells(b, d) /\ IsOpen(d)
<1>1. IsClient(b) /\ Base(b) /\ IsClient(d)
  BY DEF Sound, Base, Handled
<1>2. SameViews(b, d) /\ d.stream = b.stream /\ d.targets = b.targets
  BY DEF Handled
<1>3. Tells(b, d)
  BY <1>1, <1>2, ViewsTell
<1>4. IsOpen(d) /\ IsStarted(d)
  BY <1>2 DEF IsOpen, IsStarted
<1>5. /\ d.timer => d.online = "Unknown" /\ d.failures = 0
      /\ d.online = "Online" => d.failures = 0
  BY <1>1, <1>2, TrackerKept
<1>6. d.stream.idle => d.targets = {}
  BY <1>1, <1>2 DEF Base
<1>7. Sound(d)
  BY <1>1, <1>4, <1>5, <1>6 DEF Sound, Base
<1> QED  BY <1>3, <1>4, <1>7

(* A message is a snapshot or about a target.                              *)
LEMMA MessageIs ==
  ASSUME NEW c, IsClient(c), c.stream.in # <<>>
  PROVE  /\ Head(c.stream.in) \in Message
         /\ Head(c.stream.in).kind \in {"Added", "Removed", "Error", "Current", "Document",
                                        "Reset", "Filter", "Snapshot"}
         /\ Head(c.stream.in).kind # "Snapshot" => Head(c.stream.in).target \in Queries
<1>1. c.stream.in \in Seq(Message)
  BY StreamFields
<1>2. Head(c.stream.in) \in Message
  BY <1>1
<1> QED  BY <1>2 DEF Message

Answers == {"Added", "Removed"}

(* What the message m makes of b.                                          *)
Dispatched(b, d, m) ==
  /\ Sound(d) /\ IsOpen(d)
  /\ m.kind = "Error" => Rejected(b, d, m.target)
  /\ m.kind # "Error" => Tells(b, d) /\ d.targets = b.targets
  /\ m.kind \in Answers =>
       /\ Handled(b, d) /\ Counts(b, d, m.target, Outstanding(b, m.target) - 1)
       /\ OthersCurrent(b, d, m.target)
  /\ m.kind = "Added" =>
       /\ IsCurrent(d, m.target) <=> IsCurrent(b, m.target)
       /\ d.told = b.told \ {m.target} /\ d.rewatched = b.rewatched
  /\ m.kind = "Removed" =>
       /\ IF Outstanding(b, m.target) = 1 THEN ~IsCurrent(d, m.target)
          ELSE (IsCurrent(d, m.target) <=> IsCurrent(b, m.target)) /\ d.rewatched = b.rewatched
       /\ d.told = b.told /\ b.rewatched \ {m.target} \subseteq d.rewatched
  /\ m.kind = "Snapshot" => \E qs \in SUBSET b.targets : Requested(b, d, Again, qs)
  /\ m.kind \notin Answers \cup {"Error", "Snapshot"} => Quiet(b, d, m.target)

(* The step of OnWatchStreamChange.                                        *)
LEMMA HandleChangeDoes ==
  ASSUME NEW c, Sound(c), c.stream.in # <<>>, NEW d,
         d = HandleChange([c EXCEPT !.stream.in = Tail(@)], Head(c.stream.in))
  PROVE  \E b : Received(c, b) /\ Dispatched(b, d, Head(c.stream.in))
<1> DEFINE m == Head(c.stream.in)
           b == UpdateState(WithStream(c, [c.stream EXCEPT !.in = Tail(@)]), "Online")
<1>1. IsClient(c)
  BY DEF Sound, Base
<1>2. [c EXCEPT !.stream.in = Tail(@)] = WithStream(c, [c.stream EXCEPT !.in = Tail(@)])
  BY <1>1 DEF WithStream, IsClient, Client
<1>3. /\ m.kind \in {"Added", "Removed", "Error", "Current", "Document",
                     "Reset", "Filter", "Snapshot"}
      /\ m.kind # "Snapshot" => m.target \in Queries
  BY <1>1, MessageIs
<1>4. Received(c, b)
  BY ReceivedIs
<1>5. /\ m.kind = "Added" => d = HandleAdded(b, m.target)
      /\ m.kind = "Removed" => d = HandleRemoved(b, m.target)
      /\ m.kind = "Error" => d = ProcessTargetError(b, m.target)
      /\ m.kind = "Current" => d = HandleCurrent(b, m.target)
      /\ m.kind = "Document" => d = HandleDocument(b, m.target)
      /\ m.kind = "Reset" => d = HandleReset(b, m.target)
      /\ m.kind = "Filter" => d = HandleFilter(b, m.target)
      /\ m.kind = "Snapshot" => d = RaiseWatchSnapshot(b)
  BY <1>2, Zenon DEF HandleChange
<1> HIDE DEF b, m
<1>6. Sound(b) /\ IsOpen(b) /\ IsClient(b)
  BY <1>4 DEF Received, Sound, Base
<1>7. CASE m.kind = "Added"
  <2>1. d = HandleAdded(b, m.target) /\ m.target \in Queries
    BY <1>3, <1>5, <1>7
  <2>2. /\ Handled(b, d) /\ Counts(b, d, m.target, Outstanding(b, m.target) - 1)
        /\ OthersCurrent(b, d, m.target)
        /\ IsCurrent(d, m.target) <=> IsCurrent(b, m.target)
        /\ d.told = b.told \ {m.target} /\ d.rewatched = b.rewatched
    BY ONLY <1>6, <2>1, HandleAddedDoes
  <2>3. Sound(d) /\ Tells(b, d) /\ IsOpen(d) /\ d.targets = b.targets
    BY <1>6, <2>2, HandledSound DEF Handled
  <2>4. Dispatched(b, d, m)
    BY <1>7, <2>2, <2>3 DEF Dispatched, Answers
  <2> QED  BY <1>4, <2>4 DEF m
<1>8. CASE m.kind = "Removed"
  <2>1. d = HandleRemoved(b, m.target) /\ m.target \in Queries
    BY <1>3, <1>5, <1>8
  <2>2. /\ Handled(b, d) /\ Counts(b, d, m.target, Outstanding(b, m.target) - 1)
        /\ OthersCurrent(b, d, m.target)
        /\ IF Outstanding(b, m.target) = 1 THEN ~IsCurrent(d, m.target)
           ELSE (IsCurrent(d, m.target) <=> IsCurrent(b, m.target)) /\ d.rewatched = b.rewatched
        /\ d.told = b.told /\ b.rewatched \ {m.target} \subseteq d.rewatched
    BY ONLY <1>6, <2>1, HandleRemovedDoes
  <2>3. Sound(d) /\ Tells(b, d) /\ IsOpen(d) /\ d.targets = b.targets
    BY <1>6, <2>2, HandledSound DEF Handled
  <2>4. Dispatched(b, d, m)
    BY <1>8, <2>2, <2>3 DEF Dispatched, Answers
  <2> QED  BY <1>4, <2>4 DEF m
<1>9. CASE m.kind = "Error"
  <2>1. d = ProcessTargetError(b, m.target) /\ m.target \in Queries
    BY <1>3, <1>5, <1>9
  <2>2. Sound(d) /\ Rejected(b, d, m.target)
    BY <1>6, <2>1, ProcessTargetErrorDoes
  <2>3. IsOpen(d)
    BY <1>6, <2>2 DEF Rejected, IsOpen
  <2>4. Dispatched(b, d, m)
    BY <1>9, <2>2, <2>3 DEF Dispatched, Answers
  <2> QED  BY <1>4, <2>4 DEF m
<1>10. CASE m.kind = "Snapshot"
  <2>1. d = RaiseWatchSnapshot(b)
    BY <1>5, <1>10
  <2>2. /\ Sound(d) /\ Tells(b, d) /\ d.targets = b.targets
        /\ \E qs \in SUBSET b.targets : Requested(b, d, Again, qs)
    BY <1>6, <2>1, RaiseWatchSnapshotDoes
  <2>3. IsOpen(d)
    BY <1>6, <2>2 DEF Requested, IsOpen
  <2>4. Dispatched(b, d, m)
    BY <1>10, <2>2, <2>3 DEF Dispatched, Answers
  <2> QED  BY <1>4, <2>4 DEF m
<1>11. CASE m.kind \in {"Current", "Document", "Reset", "Filter"}
  <2>1. m.target \in Queries
    BY <1>3, <1>11
  <2>2. Quiet(b, d, m.target)
    BY <1>5, <1>6, <1>11, <2>1, HandleCurrentIsQuiet, HandleDocumentIsQuiet,
       HandleResetIsQuiet, HandleFilterIsQuiet
  <2>3. Sound(d) /\ Tells(b, d) /\ IsOpen(d) /\ d.targets = b.targets
    BY <1>6, <2>2, HandledSound DEF Quiet, Handled
  <2>4. Dispatched(b, d, m)
    BY <1>11, <2>2, <2>3 DEF Dispatched, Answers
  <2> QED  BY <1>4, <2>4 DEF m
<1> QED  BY <1>3, <1>7, <1>8, <1>9, <1>10, <1>11

-----------------------------------------------------------------------------
(***************************************************************************)
(* The tasks that add and remove a listener.                               *)
(***************************************************************************)
(* What the client asserts is about the stream, the targets and the        *)
(* tracker.                                                                *)
LEMMA WireSound ==
  ASSUME NEW c, NEW d, Sound(c), IsClient(d), SameWire(c, d), SameTracker(c, d)
  PROVE  Sound(d)
BY DEF Sound, Base, SameWire, SameTracker, IsOpen, IsStarted, Clean

(* Only what is listened to, shown and raised is another.                  *)
WithViews(c, listeners, current, events) ==
  [c EXCEPT !.listeners = listeners, !.current = current, !.events = events]

(* Such a change keeps the client's assertions.                            *)
LEMMA ViewsChange ==
  ASSUME NEW c, Sound(c), NEW listeners \in [Queries -> SUBSET Gets],
         NEW current \in [Queries -> BOOLEAN], NEW events \in Seq(GetEvent),
         NEW d, d = WithViews(c, listeners, current, events)
  PROVE  /\ Sound(d) /\ SameWire(c, d)
         /\ d.listeners = listeners /\ d.current = current /\ d.events = events
<1>1. IsClient(c)
  BY DEF Sound, Base
<1>2. IsClient(d)
  BY <1>1 DEF WithViews, IsClient, Client, GetEvent
<1>3. /\ SameWire(c, d) /\ SameTracker(c, d)
      /\ d.listeners = listeners /\ d.current = current /\ d.events = events
  BY <1>1 DEF WithViews, IsClient, Client, SameWire, SameTracker
<1> QED  BY <1>2, <1>3, WireSound

(* The client, told of a listener of q or of its removal.                  *)
Listens(c, d, q, gs) ==
  /\ Sound(d) /\ d.events = c.events /\ SameWire(c, d)
  /\ d.listeners = [c.listeners EXCEPT ![q] = gs]

(* The step of AddQueryListener.                                           *)
ListenerAdded(c, g) ==
  LET q     == QueryOf[g]
      first == c.listeners[q] = {}
      view  == [c EXCEPT !.listeners[q] = @ \cup {g}, !.current[q] = @ /\ ~first]
      shown == RaiseEvents(view, {h \in {g} : ShouldRaise(view, h)})
  IN  IF first THEN ListenTarget(shown, q) ELSE shown

Added(c, d, g) ==
  /\ Sound(d)
  /\ \E v : Listens(c, v, QueryOf[g], c.listeners[QueryOf[g]] \cup {g}) /\ Tells(v, d)
  /\ IF c.listeners[QueryOf[g]] = {}
     THEN /\ d.targets = c.targets \cup {QueryOf[g]}
          /\ IF IsOpen(c) THEN Requested(c, d, WatchOnce, {QueryOf[g]}) ELSE ~IsOpen(d)
     ELSE SameWire(c, d)

(* The listener is there and told, and the first one of a query adds its   *)
(* target.                                                                 *)
LEMMA ListenerAddedDoes ==
  ASSUME NEW c, Sound(c), NEW g \in Gets, NEW d, d = ListenerAdded(c, g)
  PROVE  Added(c, d, g)
<1> DEFINE q == QueryOf[g]
           first == c.listeners[q] = {}
           gs == c.listeners[q] \cup {g}
           listeners == [c.listeners EXCEPT ![q] = gs]
           current == [c.current EXCEPT ![q] = @ /\ ~first]
           view == [c EXCEPT !.listeners[q] = @ \cup {g}, !.current[q] = @ /\ ~first]
           who == {h \in {g} : ShouldRaise(view, h)}
           shown == RaiseEvents(view, who)
<1>1. IsClient(c) /\ q \in Queries
  BY GetAssumption DEF Sound, Base
<1>2. d = IF first THEN ListenTarget(shown, q) ELSE shown
  BY DEF ListenerAdded
<1>3. view = WithViews(c, listeners, current, c.events)
  BY <1>1 DEF WithViews, IsClient, Client
<1>4. /\ listeners \in [Queries -> SUBSET Gets] /\ g \in listeners[q]
      /\ current \in [Queries -> BOOLEAN] /\ c.events \in Seq(GetEvent)
  <2>1. /\ c.listeners \in [Queries -> SUBSET Gets] /\ c.current \in [Queries -> BOOLEAN]
        /\ c.events \in Seq(GetEvent)
    BY <1>1, Fields
  <2>2. listeners \in [Queries -> SUBSET Gets] /\ g \in listeners[q]
    BY <1>1, <2>1
  <2>3. current \in [Queries -> BOOLEAN]
    BY <1>1, <2>1
  <2> QED  BY <2>1, <2>2, <2>3
<1>5. who \in SUBSET {g}
  OBVIOUS
<1> HIDE DEF view, current, who, shown
<1>6. /\ Sound(view) /\ SameWire(c, view)
      /\ view.listeners = listeners /\ view.events = c.events
  <2> HIDE DEF listeners
  <2> QED  BY <1>3, <1>4, ViewsChange
<1>7. Listens(c, view, q, gs)
  BY <1>6 DEF Listens
<1>8. Shows(view, shown) /\ SameTracker(view, shown)
  <2>1. IsClient(view) /\ who \in SUBSET Gets
    BY <1>5, <1>6 DEF Sound, Base
  <2>2. \A h \in who : \E x \in Queries : h \in view.listeners[x]
    BY <1>1, <1>4, <1>5, <1>6
  <2> QED  BY <2>1, <2>2, RaiseEventsShows DEF shown
<1> HIDE DEF listeners, gs
<1>9. Tells(view, shown) /\ SameWire(view, shown) /\ IsClient(shown)
  BY <1>8 DEF Shows, Tells
<1>10. Sound(shown)
  BY <1>6, <1>8, <1>9, WireSound
<1>11. SameWire(c, shown)
  BY <1>6, <1>9 DEF SameWire
<1>12. CASE ~first
  <2>1. d = shown
    BY <1>2, <1>12
  <2> QED  BY <1>7, <1>9, <1>10, <1>11, <1>12, <2>1 DEF Added, gs
<1>13. CASE first
  <2>1. d = ListenTarget(shown, q)
    BY <1>2, <1>13
  <2>2. /\ Sound(d) /\ Tells(shown, d) /\ d.targets = shown.targets \cup {q}
        /\ IF IsOpen(shown) THEN Requested(shown, d, WatchOnce, {q}) ELSE ~IsOpen(d)
    BY <1>1, <1>10, <2>1, ListenTargetDoes
  <2>3. d.targets = c.targets \cup {q} /\ (IsOpen(shown) <=> IsOpen(c)) /\ SameStream(c, shown)
    BY <1>11, <2>2 DEF SameWire, SameStream, IsOpen
  <2>4. Requested(shown, d, WatchOnce, {q}) => Requested(c, d, WatchOnce, {q})
    <3>1. {q} \in SUBSET Queries
      BY <1>1
    <3> QED  BY <2>3, <3>1, RequestedFrom
  <2>5. Tells(view, d)
    <3>1. IsClient(view)
      BY <1>6 DEF Sound, Base
    <3> QED  BY <1>9, <2>2, <3>1, TellsTransitive
  <2> QED  BY <1>7, <1>13, <2>2, <2>3, <2>4, <2>5 DEF Added, gs
<1> QED  BY <1>12, <1>13

(* The step of RemoveQueryListener.                                        *)
ListenerRemoved(c, g) ==
  LET q    == QueryOf[g]
      left == [c EXCEPT !.listeners[q] = @ \ {g}]
  IN  IF c.listeners[q] # {} /\ left.listeners[q] = {} THEN UnlistenTarget(left, q) ELSE left

Removed(c, d, g) ==
  /\ Sound(d)
  /\ \E v : Listens(c, v, QueryOf[g], c.listeners[QueryOf[g]] \ {g}) /\ Tells(v, d)
  /\ IF c.listeners[QueryOf[g]] # {} /\ c.listeners[QueryOf[g]] \ {g} = {}
     THEN /\ d.targets = c.targets \ {QueryOf[g]}
          /\ IF IsOpen(c) THEN Requested(c, d, UnwatchOnce, {QueryOf[g]}) ELSE ~IsOpen(d)
     ELSE SameWire(c, d)

(* The listener is gone, and the last one of a query removes its target.   *)
LEMMA ListenerRemovedDoes ==
  ASSUME NEW c, Sound(c), NEW g \in Gets, NEW d, d = ListenerRemoved(c, g)
  PROVE  Removed(c, d, g)
<1> DEFINE q == QueryOf[g]
           gs == c.listeners[q] \ {g}
           listeners == [c.listeners EXCEPT ![q] = gs]
           left == [c EXCEPT !.listeners[q] = @ \ {g}]
           last == c.listeners[q] # {} /\ gs = {}
<1>1. IsClient(c) /\ q \in Queries
  BY GetAssumption DEF Sound, Base
<1>2. left = WithViews(c, listeners, c.current, c.events)
  BY <1>1 DEF WithViews, IsClient, Client
<1>3. /\ listeners \in [Queries -> SUBSET Gets] /\ listeners[q] = gs
      /\ c.current \in [Queries -> BOOLEAN] /\ c.events \in Seq(GetEvent)
  <2>1. /\ c.listeners \in [Queries -> SUBSET Gets] /\ c.current \in [Queries -> BOOLEAN]
        /\ c.events \in Seq(GetEvent)
    BY <1>1, Fields
  <2>2. listeners \in [Queries -> SUBSET Gets] /\ listeners[q] = gs
    BY <1>1, <2>1
  <2> QED  BY <2>1, <2>2
<1>4. d = IF c.listeners[q] # {} /\ left.listeners[q] = {} THEN UnlistenTarget(left, q) ELSE left
  BY DEF ListenerRemoved
<1> HIDE DEF left
<1>5. /\ Sound(left) /\ SameWire(c, left)
      /\ left.listeners = listeners /\ left.events = c.events
  <2> HIDE DEF listeners
  <2> QED  BY <1>1, <1>2, <1>3, ViewsChange
<1>6. Listens(c, left, q, gs)
  BY <1>5 DEF Listens
<1>7. d = IF last THEN UnlistenTarget(left, q) ELSE left
  BY <1>3, <1>4, <1>5
<1> HIDE DEF listeners, gs, last
<1>8. IsClient(left)
  BY <1>5 DEF Sound, Base
<1>9. CASE ~last
  <2>1. d = left /\ Tells(left, left)
    BY <1>7, <1>8, <1>9, TellsNothing
  <2> QED  BY <1>5, <1>6, <1>9, <2>1 DEF Removed, last, gs
<1>10. CASE last
  <2>1. d = UnlistenTarget(left, q)
    BY <1>7, <1>10
  <2>2. /\ Sound(d) /\ Tells(left, d) /\ d.targets = left.targets \ {q}
        /\ IF IsOpen(left) THEN Requested(left, d, UnwatchOnce, {q}) ELSE ~IsOpen(d)
    BY <1>1, <1>5, <2>1, UnlistenTargetDoes
  <2>3. d.targets = c.targets \ {q} /\ (IsOpen(left) <=> IsOpen(c)) /\ SameStream(c, left)
    BY <1>5, <2>2 DEF SameWire, SameStream, IsOpen
  <2>4. Requested(left, d, UnwatchOnce, {q}) => Requested(c, d, UnwatchOnce, {q})
    <3>1. {q} \in SUBSET Queries
      BY <1>1
    <3> QED  BY <2>3, <3>1, RequestedFrom
  <2> QED  BY <1>6, <1>10, <2>2, <2>3, <2>4 DEF Removed, last, gs
<1> QED  BY <1>9, <1>10

-----------------------------------------------------------------------------
(***************************************************************************)
(* The backend's messages, on an open stream.                              *)
(***************************************************************************)
Sends(c, kind, q, phase, rest) ==
  [c EXCEPT !.stream.out = rest,
            !.stream.in = Append(@, [kind |-> kind, target |-> q]),
            !.stream.watched[q] = phase,
            !.stream.news = TRUE]

(* The client has not noticed.                                             *)
Served(c, d) ==
  /\ Sound(d) /\ IsOpen(d) /\ SameViews(c, d) /\ Tells(c, d) /\ SameKnown(c, d)

(* Another stream that is open and as idle is not noticed.                 *)
LEMMA ServedIs ==
  ASSUME NEW c, Sound(c), IsOpen(c), NEW stream \in Stream,
         stream.state = c.stream.state, stream.idle = c.stream.idle,
         NEW d, d = WithStream(c, stream)
  PROVE  Served(c, d) /\ d.stream = stream
<1>1. IsClient(c) /\ Base(c)
  BY DEF Sound, Base
<1>2. /\ IsClient(d) /\ SameViews(c, d) /\ d.stream = stream
      /\ d.targets = c.targets /\ d.states = c.states
      /\ d.told = c.told /\ d.rewatched = c.rewatched /\ d.dropped = c.dropped
  BY <1>1, StreamChange
<1>3. Tells(c, d)
  BY <1>1, <1>2, ViewsTell
<1>4. IsOpen(d) /\ IsStarted(d)
  BY <1>2 DEF IsOpen, IsStarted
<1>5. /\ d.timer => d.online = "Unknown" /\ d.failures = 0
      /\ d.online = "Online" => d.failures = 0
  BY <1>1, <1>2, TrackerKept
<1>6. d.stream.idle => d.targets = {}
  BY <1>1, <1>2 DEF Base
<1>7. Sound(d)
  BY <1>2, <1>4, <1>5, <1>6 DEF Sound, Base
<1> QED  BY <1>2, <1>3, <1>4, <1>7 DEF Served, SameKnown

Says(kind, q) == [kind |-> kind, target |-> q]

Kinds == {"Added", "Removed", "Error", "Current", "Document", "Reset", "Filter"}
Phases == {"no", "added", "current"}

(* A message of the backend is behind the others.                          *)
LEMMA SendsDoes ==
  ASSUME NEW c, Sound(c), IsOpen(c),
         NEW kind \in Kinds, NEW q \in Queries, NEW phase \in Phases, NEW rest \in Seq(Request),
         NEW d, d = Sends(c, kind, q, phase, rest)
  PROVE  /\ Served(c, d) /\ d.stream.out = rest
         /\ d.stream.in = Append(c.stream.in, Says(kind, q))
<1> DEFINE m == [kind |-> kind, target |-> q]
           in == Append(c.stream.in, m)
           watched == [c.stream.watched EXCEPT ![q] = phase]
           stream == [c.stream EXCEPT !.out = rest, !.in = in, !.watched = watched, !.news = TRUE]
<1>1. IsClient(c)
  BY DEF Sound, Base
<1>2. /\ c.stream \in Stream /\ c.stream.in \in Seq(Message)
      /\ c.stream.watched \in [Queries -> {"no", "added", "current"}]
  BY <1>1, Fields, StreamFields
<1>3. m \in Message
  BY DEF Message, Kinds
<1>4. in \in Seq(Message)
  BY <1>2, <1>3
<1>5. watched \in [Queries -> {"no", "added", "current"}]
  BY <1>2 DEF Phases
<1>6. d = WithStream(c, [c.stream EXCEPT !.out = rest,
                           !.in = Append(c.stream.in, [kind |-> kind, target |-> q]),
                           !.watched = [c.stream.watched EXCEPT ![q] = phase], !.news = TRUE])
  BY <1>1, <1>2 DEF Sends, WithStream, IsClient, Client, Stream
<1>7. d = WithStream(c, stream)
  BY <1>6
<1> HIDE DEF m, in, watched
<1>8. /\ stream \in Stream /\ stream.state = c.stream.state /\ stream.idle = c.stream.idle
      /\ stream.out = rest /\ stream.in = in
  BY <1>2, <1>4, <1>5 DEF Stream, Request
<1> HIDE DEF stream
<1>9. Served(c, d) /\ d.stream = stream
  BY <1>7, <1>8, ServedIs
<1> QED  BY <1>8, <1>9 DEF in, m, Says

(* What is sent or watched shows that the stream is open.                  *)
LEMMA ServedIsOpen ==
  ASSUME NEW c, Sound(c),
         \/ c.stream.out # <<>>
         \/ c.stream.news
         \/ \E q \in Queries : c.stream.watched[q] # "no"
  PROVE  IsOpen(c)
BY DEF Sound, Base, Clean

SendsSnapshot(c) ==
  [c EXCEPT !.stream.in = Append(@, [kind |-> "Snapshot"]), !.stream.news = FALSE]

(* And so is its snapshot, which is about no target.                       *)
LEMMA SendsSnapshotDoes ==
  ASSUME NEW c, Sound(c), IsOpen(c), NEW d, d = SendsSnapshot(c)
  PROVE  /\ Served(c, d) /\ d.stream.out = c.stream.out
         /\ d.stream.in = Append(c.stream.in, [kind |-> "Snapshot"])
<1> DEFINE m == [kind |-> "Snapshot"]
           in == Append(c.stream.in, m)
           stream == [c.stream EXCEPT !.in = in, !.news = FALSE]
<1>1. IsClient(c)
  BY DEF Sound, Base
<1>2. c.stream \in Stream /\ c.stream.in \in Seq(Message)
  BY <1>1, Fields, StreamFields
<1>3. m \in Message
  BY DEF Message
<1>4. in \in Seq(Message)
  BY <1>2, <1>3
<1>5. d = WithStream(c, [c.stream EXCEPT !.in = Append(c.stream.in, [kind |-> "Snapshot"]),
                                          !.news = FALSE])
  BY <1>1, <1>2 DEF SendsSnapshot, WithStream, IsClient, Client, Stream
<1>6. d = WithStream(c, stream)
  BY <1>5
<1> HIDE DEF m, in
<1>7. /\ stream \in Stream /\ stream.state = c.stream.state /\ stream.idle = c.stream.idle
      /\ stream.out = c.stream.out /\ stream.in = in
  BY <1>2, <1>4 DEF Stream
<1> HIDE DEF stream
<1>8. Served(c, d) /\ d.stream = stream
  BY <1>6, <1>7, ServedIs
<1> QED  BY <1>7, <1>8 DEF in, m

-----------------------------------------------------------------------------
(***************************************************************************)
(* The steps, as what they do to the client.                               *)
(***************************************************************************)
Opened(c, d) ==
  /\ ~IsOpen(c) /\ Tells(c, d) /\ d.targets = c.targets /\ IsOpen(d)
  /\ d.stream.out = Requests(WatchOnce, c.targets) /\ d.stream.in = <<>>
  /\ \A x \in Queries : Outstanding(d, x) = IF x \in c.targets THEN 1 ELSE 0
  /\ \A x \in Queries : ~IsCurrent(d, x)

Changed(c, d) ==
  c.stream.in # <<>> /\ \E b : Received(c, b) /\ Dispatched(b, d, Head(c.stream.in))

(* The backend answers the first request with m, or says m unasked.        *)
Answering(c, m) ==
  /\ c.stream.out # <<>> /\ m.target = Head(c.stream.out).target
  /\ \/ m.kind = "Added" /\ Head(c.stream.out).kind = "Watch"
     \/ m.kind = "Removed" /\ Head(c.stream.out).kind = "Unwatch"
     \/ m.kind = "Error" /\ Head(c.stream.out).kind = "Watch"

ServedWith(c, d, m) ==
  /\ IsOpen(c) /\ Served(c, d) /\ m \in Message
  /\ d.stream.in = Append(c.stream.in, m)
  /\ \/ Answering(c, m) /\ d.stream.out = Tail(c.stream.out)
     \/ m.kind \notin Answers /\ d.stream.out = c.stream.out

Stepped(c, d) ==
  /\ Sound(d)
  /\ \/ Shows(c, d)
     \/ Ended(c, d)
     \/ Opened(c, d)
     \/ Changed(c, d)
     \/ \E m : ServedWith(c, d, m)

(* The tasks of the stream and its timers, and the backend's messages.     *)
Streams ==
  \/ OnStreamStart \/ BackoffElapsed \/ IdleTimeout \/ OnlineStateTimeout
  \/ OnWatchStreamChange \/ OnStreamFinish \/ Restart

Backends ==
  \/ BackendAnswers \/ BackendRejects
  \/ \E q \in Queries : BackendDrops(q) \/ BackendIsCurrent(q)
  \/ \E q \in Queries, kind \in {"Document", "Reset", "Filter"} : BackendChanges(kind, q)
  \/ BackendSnapshot

(* Next, in four tasks of the listeners and the two groups.                *)
LEMMA NextIs ==
  ASSUME Next
  PROVE  \/ \E g \in Gets : GetDocuments(g)
         \/ OnEvent
         \/ AddQueryListener
         \/ RemoveQueryListener
         \/ Streams
         \/ Backends
BY DEF Next, Streams, Backends

(* Each task of the stream is a step of the client, and leaves the queue   *)
(* and the app alone.                                                      *)
LEMMA StreamsStep ==
  ASSUME Sound(client), Streams
  PROVE  Stepped(client, client') /\ UNCHANGED <<workerQueue, appVars>>
<1> DEFINE c == client
           d == client'
<1>1. CASE OnStreamStart
  <2>1. /\ c.stream.state = "Starting"
        /\ d = OnWatchStreamOpen([c EXCEPT !.stream.state = "Open"])
        /\ UNCHANGED <<workerQueue, appVars>>
    BY <1>1 DEF OnStreamStart
  <2>2. ~IsOpen(c)
    BY <2>1 DEF IsOpen
  <2>3. /\ Sound(d) /\ Tells(c, d) /\ d.targets = c.targets /\ IsOpen(d)
        /\ d.stream.out = Requests(WatchOnce, c.targets) /\ d.stream.in = <<>>
        /\ \A x \in Queries : Outstanding(d, x) = IF x \in c.targets THEN 1 ELSE 0
        /\ \A x \in Queries : ~IsCurrent(d, x)
    BY ONLY Sound(client), <2>1, OpenedDoes
  <2>4. Opened(c, d)
    BY ONLY <2>2, <2>3 DEF Opened
  <2> QED  BY ONLY <2>1, <2>3, <2>4 DEF Stepped
<1>2. CASE BackoffElapsed
  <2>1. /\ c.stream.state = "Backoff" /\ d = [c EXCEPT !.stream.state = "Starting"]
        /\ UNCHANGED <<workerQueue, appVars>>
    BY <1>2 DEF BackoffElapsed
  <2>2. Ended(c, d)
    BY ONLY Sound(client), <2>1, BackoffElapsedDoes
  <2> QED  BY ONLY <2>1, <2>2 DEF Stepped, Ended
<1>3. CASE IdleTimeout
  <2>1. /\ c.stream.idle /\ d = UpdateState(CloseStream(c, "Initial"), "Unknown")
        /\ UNCHANGED <<workerQueue, appVars>>
    BY <1>3 DEF IdleTimeout
  <2>2. Ended(c, d)
    BY ONLY Sound(client), <2>1, IdleTimeoutDoes
  <2> QED  BY ONLY <2>1, <2>2 DEF Stepped, Ended
<1>4. CASE OnlineStateTimeout
  <2>1. /\ d = SetAndBroadcast([c EXCEPT !.timer = FALSE], "Offline")
        /\ UNCHANGED <<workerQueue, appVars>>
    BY <1>4 DEF OnlineStateTimeout
  <2>2. Sound(d) /\ Shows(c, d)
    BY ONLY Sound(client), <2>1, OnlineStateTimeoutDoes
  <2> QED  BY ONLY <2>1, <2>2 DEF Stepped
<1>5. CASE OnWatchStreamChange
  <2>1. /\ c.stream.in # <<>>
        /\ d = HandleChange([c EXCEPT !.stream.in = Tail(@)], Head(c.stream.in))
        /\ UNCHANGED <<workerQueue, appVars>>
    BY <1>5 DEF OnWatchStreamChange
  <2>2. \E b : Received(c, b) /\ Dispatched(b, d, Head(c.stream.in))
    BY ONLY Sound(client), <2>1, HandleChangeDoes
  <2>3. Sound(d)
    BY ONLY <2>2 DEF Dispatched
  <2>4. Changed(c, d)
    BY ONLY <2>1, <2>2 DEF Changed
  <2> QED  BY ONLY <2>1, <2>3, <2>4 DEF Stepped
<1>6. CASE OnStreamFinish
  <2>1. /\ d = OnWatchStreamClose(CloseStream(c, "Error"))
        /\ UNCHANGED <<workerQueue, appVars>>
    BY <1>6 DEF OnStreamFinish
  <2>2. Ended(c, d)
    BY ONLY Sound(client), <2>1, StreamFinishDoes
  <2> QED  BY ONLY <2>1, <2>2 DEF Stepped, Ended
<1>7. CASE Restart
  <2>1. d = RestartNetwork(c) /\ UNCHANGED <<workerQueue, appVars>>
    BY <1>7 DEF Restart
  <2>2. Ended(c, d)
    BY ONLY Sound(client), <2>1, RestartNetworkDoes
  <2> QED  BY ONLY <2>1, <2>2 DEF Stepped, Ended
<1> QED  BY <1>1, <1>2, <1>3, <1>4, <1>5, <1>6, <1>7 DEF Streams

(* A message of the backend that answers a request, or none.               *)
LEMMA SendsStep ==
  ASSUME NEW c, Sound(c), IsOpen(c),
         NEW kind \in Kinds, NEW q \in Queries, NEW phase \in Phases, NEW rest \in Seq(Request),
         NEW d, d = Sends(c, kind, q, phase, rest),
         \/ Answering(c, Says(kind, q)) /\ rest = Tail(c.stream.out)
         \/ kind \notin Answers /\ rest = c.stream.out
  PROVE  Stepped(c, d)
<1> DEFINE m == Says(kind, q)
<1>1. /\ Served(c, d) /\ d.stream.out = rest
      /\ d.stream.in = Append(c.stream.in, Says(kind, q))
  BY SendsDoes
<1>2. m \in Message /\ m.kind = kind
  BY DEF Says, Message, Kinds
<1>3. \/ Answering(c, m) /\ d.stream.out = Tail(c.stream.out)
      \/ m.kind \notin Answers /\ d.stream.out = c.stream.out
  BY <1>1, <1>2
<1>4. ServedWith(c, d, m)
  BY <1>1, <1>2, <1>3 DEF ServedWith
<1>5. Sound(d)
  BY <1>1 DEF Served
<1> HIDE DEF m
<1> QED  BY <1>4, <1>5 DEF Stepped

(* The first request on the stream.                                        *)
LEMMA RequestIs ==
  ASSUME NEW c, IsClient(c), c.stream.out # <<>>
  PROVE  /\ Head(c.stream.out).kind \in {"Watch", "Unwatch"}
         /\ Head(c.stream.out).target \in Queries
         /\ c.stream.out \in Seq(Request) /\ Tail(c.stream.out) \in Seq(Request)
<1>1. c.stream.out \in Seq(Request)
  BY StreamFields
<1>2. Head(c.stream.out) \in Request /\ Tail(c.stream.out) \in Seq(Request)
  BY <1>1
<1> QED  BY <1>1, <1>2 DEF Request

(* So is each message of the backend.                                      *)
LEMMA BackendsStep ==
  ASSUME Sound(client), Backends
  PROVE  Stepped(client, client') /\ UNCHANGED <<workerQueue, appVars>>
<1> DEFINE c == client
           d == client'
           r == Head(c.stream.out)
           t == Tail(c.stream.out)
<1>1. IsClient(c) /\ Sound(c)
  BY DEF Sound, Base
<1>2. c.stream.out \in Seq(Request)
  BY <1>1, StreamFields
<1>3. /\ {"Added", "Removed", "Error", "Current", "Document", "Reset", "Filter"} \subseteq Kinds
      /\ "no" \in Phases /\ "added" \in Phases /\ "current" \in Phases
  BY DEF Kinds, Phases
<1>4. CASE BackendAnswers
  <2>1. c.stream.out # <<>> /\ UNCHANGED <<workerQueue, appVars>>
    BY <1>4 DEF BackendAnswers, BackendSends, Sends
  <2>2. r.kind \in {"Watch", "Unwatch"} /\ r.target \in Queries /\ t \in Seq(Request)
    BY ONLY <1>1, <2>1, RequestIs
  <2>3. IsOpen(c)
    BY <2>1, ServedIsOpen
  <2>4. CASE r.kind = "Watch"
    <3>1. d = Sends(c, "Added", r.target, "added", t)
      BY <1>4, <2>4 DEF BackendAnswers, BackendSends, Sends
    <3>2. Answering(c, Says("Added", r.target)) /\ t = Tail(c.stream.out)
      BY <2>1, <2>4 DEF Answering, Says
    <3>3. Stepped(c, d)
      <4> HIDE DEF c, d, r, t
      <4> QED  BY <1>1, <1>3, <2>2, <2>3, <3>1, <3>2, SendsStep
    <3> QED  BY <2>1, <3>3
  <2>5. CASE r.kind = "Unwatch"
    <3>1. d = Sends(c, "Removed", r.target, "no", t)
      BY <1>4, <2>5 DEF BackendAnswers, BackendSends, Sends
    <3>2. Answering(c, Says("Removed", r.target)) /\ t = Tail(c.stream.out)
      BY <2>1, <2>5 DEF Answering, Says
    <3>3. Stepped(c, d)
      <4> HIDE DEF c, d, r, t
      <4> QED  BY <1>1, <1>3, <2>2, <2>3, <3>1, <3>2, SendsStep
    <3> QED  BY <2>1, <3>3
  <2> QED  BY <2>2, <2>4, <2>5
<1>5. CASE BackendRejects
  <2>1. /\ c.stream.out # <<>> /\ r.kind = "Watch" /\ UNCHANGED <<workerQueue, appVars>>
        /\ d = Sends(c, "Error", r.target, "no", t)
    BY <1>5 DEF BackendRejects, BackendSends, Sends
  <2>2. r.target \in Queries /\ t \in Seq(Request)
    BY ONLY <1>1, <2>1, RequestIs
  <2>3. IsOpen(c)
    BY <2>1, ServedIsOpen
  <2>4. Answering(c, Says("Error", r.target)) /\ t = Tail(c.stream.out)
    BY <2>1 DEF Answering, Says
  <2>5. Stepped(c, d)
    <3> HIDE DEF c, d, r, t
    <3> QED  BY <1>1, <1>3, <2>1, <2>2, <2>3, <2>4, SendsStep
  <2> QED  BY <2>1, <2>5
<1>6. ASSUME NEW q \in Queries, BackendDrops(q)
      PROVE  Stepped(c, d) /\ UNCHANGED <<workerQueue, appVars>>
  <2>1. /\ c.stream.watched[q] # "no" /\ UNCHANGED <<workerQueue, appVars>>
        /\ d = Sends(c, "Error", q, "no", c.stream.out)
    BY <1>6 DEF BackendDrops, BackendSends, Sends
  <2>2. IsOpen(c)
    BY <2>1, ServedIsOpen
  <2> QED  BY <1>2, <2>1, <2>2, <1>3, SendsStep DEF Answers
<1>7. ASSUME NEW q \in Queries, BackendIsCurrent(q)
      PROVE  Stepped(c, d) /\ UNCHANGED <<workerQueue, appVars>>
  <2>1. /\ c.stream.watched[q] # "no" /\ UNCHANGED <<workerQueue, appVars>>
        /\ d = Sends(c, "Current", q, "current", c.stream.out)
    BY <1>7 DEF BackendIsCurrent, BackendSends, Sends
  <2>2. IsOpen(c)
    BY <2>1, ServedIsOpen
  <2> QED  BY <1>2, <2>1, <2>2, <1>3, SendsStep DEF Answers
<1>8. ASSUME NEW q \in Queries, NEW kind \in {"Document", "Reset", "Filter"},
             BackendChanges(kind, q)
      PROVE  Stepped(c, d) /\ UNCHANGED <<workerQueue, appVars>>
  <2> DEFINE phase == IF kind = "Reset" THEN "added" ELSE c.stream.watched[q]
  <2>1. /\ c.stream.watched[q] # "no" /\ UNCHANGED <<workerQueue, appVars>>
        /\ d = Sends(c, kind, q, phase, c.stream.out)
    BY <1>8 DEF BackendChanges, BackendSends, Sends
  <2>2. IsOpen(c)
    BY <2>1, ServedIsOpen
  <2>3. phase \in Phases
    BY <1>1, StreamFields DEF Phases
  <2> HIDE DEF phase
  <2> QED  BY <1>2, <2>1, <2>2, <2>3, <1>3, SendsStep DEF Answers
<1>9. CASE BackendSnapshot
  <2> DEFINE m == [kind |-> "Snapshot"]
  <2>1. /\ c.stream.news /\ d = SendsSnapshot(c) /\ UNCHANGED <<workerQueue, appVars>>
    BY <1>9 DEF BackendSnapshot, SendsSnapshot
  <2>2. IsOpen(c)
    BY <2>1, ServedIsOpen
  <2>3. /\ Served(c, d) /\ d.stream.out = c.stream.out
        /\ d.stream.in = Append(c.stream.in, [kind |-> "Snapshot"])
    BY ONLY Sound(client), <2>1, <2>2, SendsSnapshotDoes
  <2>4. m \in Message /\ m.kind \notin Answers
    BY DEF Message, Answers
  <2>5. ServedWith(c, d, m)
    BY <2>2, <2>3, <2>4 DEF ServedWith
  <2>6. Sound(d)
    BY <2>3 DEF Served
  <2> HIDE DEF m, c, d
  <2> QED  BY <2>1, <2>5, <2>6 DEF Stepped, c, d
<1> QED  BY <1>4, <1>5, <1>6, <1>7, <1>8, <1>9 DEF Backends

-----------------------------------------------------------------------------
(***************************************************************************)
(* What is listened to, and by whom.                                       *)
(***************************************************************************)
(* Only the gets of A listen, each to its query, or are told.              *)
Heard(c, A) ==
  /\ \A q \in Queries : c.listeners[q] \subseteq {g \in A : QueryOf[g] = q}
  /\ \A i \in 1 .. Len(c.events) : c.events[i].get \in A

Agree(c) == c.targets = {q \in Queries : c.listeners[q] # {}}

(* The step of a task of the stream tells the listeners, or it rejects a   *)
(* target.                                                                 *)
Rejects(c, d) ==
  /\ c.stream.in # <<>> /\ Head(c.stream.in).kind = "Error"
  /\ Head(c.stream.in).target \in Queries
  /\ \E b : Received(c, b) /\ Rejected(b, d, Head(c.stream.in).target)

(* Unless a target is rejected, the listeners are told and the targets are *)
(* the same.                                                               *)
LEMMA SteppedViews ==
  ASSUME NEW c, NEW d, Sound(c), Stepped(c, d)
  PROVE  (Tells(c, d) /\ d.targets = c.targets) \/ Rejects(c, d)
<1>1. IsClient(c)
  BY DEF Sound, Base
<1>2. CASE Changed(c, d)
  <2> DEFINE m == Head(c.stream.in)
  <2>1. c.stream.in # <<>> /\ \E b : Received(c, b) /\ Dispatched(b, d, Head(c.stream.in))
    BY <1>2 DEF Changed
  <2>2. m.kind # "Snapshot" => m.target \in Queries
    BY <1>1, <2>1, MessageIs
  <2>3. PICK b : Received(c, b) /\ Dispatched(b, d, m)
    BY <2>1
  <2> HIDE DEF m
  <2>4. CASE m.kind = "Error"
    <3>1. Rejected(b, d, m.target) /\ m.target \in Queries
      BY <2>2, <2>3, <2>4 DEF Dispatched
    <3> QED  BY <2>1, <2>3, <2>4, <3>1 DEF Rejects, m
  <2>5. CASE m.kind # "Error"
    <3>1. Tells(b, d) /\ d.targets = b.targets
      BY <2>3, <2>5 DEF Dispatched
    <3>2. Tells(c, b) /\ b.targets = c.targets
      BY <2>3 DEF Received, SameKnown
    <3>3. Tells(c, d)
      BY <1>1, <3>1, <3>2, TellsTransitive
    <3> QED  BY <3>1, <3>2, <3>3
  <2> QED  BY <2>4, <2>5
<1>3. CASE Shows(c, d)
  BY <1>3 DEF Shows, SameWire
<1>4. CASE Ended(c, d)
  BY <1>4 DEF Ended
<1>5. CASE Opened(c, d)
  BY <1>5 DEF Opened
<1>6. CASE \E m : ServedWith(c, d, m)
  BY <1>6 DEF ServedWith, Served, SameKnown
<1> QED  BY <1>2, <1>3, <1>4, <1>5, <1>6 DEF Stepped

(* What tells the listeners tells gets that were called.                   *)
LEMMA TellsHeard ==
  ASSUME NEW c, NEW d, NEW A, IsClient(c), Heard(c, A), Tells(c, d)
  PROVE  Heard(d, A)
<1>1. d.listeners = c.listeners /\ EventsGrow(c, d) /\ IsClient(d)
  BY DEF Tells
<1>2. c.events \in Seq(GetEvent) /\ d.events \in Seq(GetEvent)
  BY <1>1, Fields
<1>3. Len(c.events) \in Nat /\ Len(d.events) \in Nat
  BY <1>2, LenProperties
<1>4. ASSUME NEW i \in 1 .. Len(d.events) PROVE d.events[i].get \in A
  <2>1. CASE i <= Len(c.events)
    <3>1. i \in 1 .. Len(c.events)
      BY <1>3, <2>1
    <3> QED  BY <1>1, <3>1 DEF EventsGrow, Heard
  <2>2. CASE i > Len(c.events)
    BY <1>1, <2>2 DEF EventsGrow, Heard
  <2> QED  BY <1>3, <2>1, <2>2
<1> QED  BY <1>1, <1>4 DEF Heard

(* So does the error of a target.                                          *)
LEMMA RejectedHeard ==
  ASSUME NEW c, NEW d, NEW A, NEW q \in Queries, IsClient(c), IsClient(d), Heard(c, A),
         Rejected(c, d, q)
  PROVE  Heard(d, A)
<1>1. CASE q \notin c.targets
  BY <1>1 DEF Rejected, Heard
<1>2. CASE q \in c.targets
  <2>1. /\ d.listeners = [c.listeners EXCEPT ![q] = {}]
        /\ Posted(c.events, c.listeners[q], ErrorFor, d.events)
    BY <1>2 DEF Rejected
  <2>2. \A x \in Queries : d.listeners[x] \subseteq c.listeners[x]
    <3>1. c.listeners \in [Queries -> SUBSET Gets]
      BY Fields
    <3> QED  BY <2>1, <3>1
  <2>3. ASSUME NEW i \in 1 .. Len(d.events) PROVE d.events[i].get \in A
    <3>1. Len(c.events) \in Nat /\ Len(d.events) \in Nat
      BY <2>1 DEF Posted
    <3>2. CASE i <= Len(c.events)
      <4>1. i \in 1 .. Len(c.events)
        BY <3>1, <3>2
      <4>2. d.events[i] = c.events[i]
        BY <2>1, <4>1 DEF Posted
      <4> QED  BY <4>1, <4>2 DEF Heard
    <3>3. CASE i > Len(c.events)
      <4>1. d.events[i].get \in c.listeners[q]
        BY <2>1, <3>3 DEF Posted
      <4> QED  BY <4>1 DEF Heard
    <3> QED  BY <3>1, <3>2, <3>3
  <2> QED  BY <2>2, <2>3 DEF Heard
<1> QED  BY <1>1, <1>2

(* So does every step of the client.                                       *)
LEMMA SteppedHeard ==
  ASSUME NEW c, NEW d, NEW A, Sound(c), Stepped(c, d), Heard(c, A)
  PROVE  Heard(d, A)
<1>1. IsClient(c) /\ IsClient(d)
  BY DEF Stepped, Sound, Base
<1>2. CASE Tells(c, d)
  BY <1>1, <1>2, TellsHeard
<1>3. CASE Rejects(c, d)
  <2> DEFINE q == Head(c.stream.in).target
  <2>1. PICK b : Received(c, b) /\ Rejected(b, d, q)
    BY <1>3 DEF Rejects
  <2>2. q \in Queries
    BY <1>3 DEF Rejects
  <2> HIDE DEF q
  <2>3. IsClient(b) /\ Tells(c, b)
    BY <2>1 DEF Received, Tells
  <2>4. Heard(b, A)
    BY <1>1, <2>3, TellsHeard
  <2> QED  BY <1>1, <2>1, <2>2, <2>3, <2>4, RejectedHeard
<1> QED  BY <1>2, <1>3, SteppedViews

(* A target and its listeners go together.                                 *)
LEMMA SteppedAgree ==
  ASSUME NEW c, NEW d, Sound(c), Stepped(c, d), Agree(c)
  PROVE  Agree(d)
<1>1. CASE Tells(c, d) /\ d.targets = c.targets
  BY <1>1 DEF Agree, Tells
<1>2. CASE Rejects(c, d)
  <2> DEFINE q == Head(c.stream.in).target
  <2>1. PICK b : Received(c, b) /\ Rejected(b, d, q)
    BY <1>2 DEF Rejects
  <2>2. q \in Queries
    BY <1>2 DEF Rejects
  <2> HIDE DEF q
  <2>3. IsClient(b) /\ b.listeners = c.listeners /\ b.targets = c.targets
    BY <2>1 DEF Received, Tells, SameKnown
  <2>4. b.listeners \in [Queries -> SUBSET Gets]
    BY <2>3, Fields
  <2>5. CASE q \notin b.targets
    BY <2>1, <2>3, <2>5 DEF Rejected, Agree
  <2>6. CASE q \in b.targets
    <3>1. d.targets = b.targets \ {q} /\ d.listeners = [b.listeners EXCEPT ![q] = {}]
      BY <2>1, <2>6 DEF Rejected
    <3> QED  BY <2>2, <2>3, <2>4, <3>1 DEF Agree
  <2> QED  BY <2>5, <2>6
<1> QED  BY <1>1, <1>2, SteppedViews

-----------------------------------------------------------------------------
(* The tasks of a queue are known by their place.                          *)
LEMMA TailIs ==
  ASSUME NEW S, NEW s \in Seq(S), s # <<>>
  PROVE  /\ Head(s) \in S /\ Head(s) = s[1] /\ Tail(s) \in Seq(S)
         /\ Len(s) \in Nat /\ Len(s) >= 1 /\ Len(Tail(s)) = Len(s) - 1
         /\ \A i \in 1 .. Len(s) - 1 : Tail(s)[i] = s[i + 1]
<1>1. Len(s) \in Nat /\ Len(s) >= 1 /\ Head(s) \in S /\ Head(s) = s[1] /\ Tail(s) \in Seq(S)
  OBVIOUS
<1>2. Len(Tail(s)) = Len(s) - 1 /\ \A i \in 1 .. Len(s) - 1 : Tail(s)[i] = s[i + 1]
  OBVIOUS
<1> QED  BY <1>1, <1>2

(* The members of a sequence with one more.                                *)
LEMMA AppendIs ==
  ASSUME NEW S, NEW s \in Seq(S), NEW e \in S
  PROVE  /\ Append(s, e) \in Seq(S) /\ Len(s) \in Nat /\ Len(Append(s, e)) = Len(s) + 1
         /\ \A i \in 1 .. Len(s) : Append(s, e)[i] = s[i]
         /\ Append(s, e)[Len(s) + 1] = e
OBVIOUS

(* The event at the head is taken.                                         *)
EventTaken(c, d) ==
  /\ c.events # <<>> /\ Sound(d) /\ SameWire(c, d)
  /\ d.listeners = c.listeners /\ d.events = Tail(c.events)

(* With the event taken, the client asserts what it did.                   *)
LEMMA EventTakenIs ==
  ASSUME NEW c, Sound(c), c.events # <<>>, NEW d, d = [c EXCEPT !.events = Tail(@)]
  PROVE  EventTaken(c, d)
<1> DEFINE events == Tail(c.events)
<1>1. IsClient(c)
  BY DEF Sound, Base
<1>2. /\ c.events \in Seq(GetEvent) /\ c.listeners \in [Queries -> SUBSET Gets]
      /\ c.current \in [Queries -> BOOLEAN]
  BY <1>1, Fields
<1>3. events \in Seq(GetEvent)
  BY <1>2, TailIs
<1>4. d = WithViews(c, c.listeners, c.current, events)
  BY <1>1 DEF WithViews, IsClient, Client
<1> HIDE DEF events
<1>5. /\ Sound(d) /\ SameWire(c, d)
      /\ d.listeners = c.listeners /\ d.events = events
  BY ONLY Sound(c), <1>2, <1>3, <1>4, ViewsChange
<1> QED  BY <1>5 DEF EventTaken, events

Task == [kind: {"add", "remove"}, get: Gets]

(* The queue, the gets that were called, and what they were answered.      *)
AppOK ==
  /\ asked \subseteq Gets /\ muted \subseteq asked
  /\ workerQueue \in Seq(Task)
  /\ \A i \in 1 .. Len(workerQueue) : workerQueue[i].get \in asked
  /\ answers \in [Gets -> Seq({"synced", "cached", "error"})]

BoundsOK == faults \in 0 .. MaxFaults /\ changes \in 0 .. MaxChanges

Sane ==
  /\ Sound(client) /\ Heard(client, asked) /\ Agree(client)
  /\ AppOK /\ BoundsOK

(* The task at the head of the queue is taken.                             *)
LEMMA TaskTaken ==
  ASSUME AppOK, workerQueue # <<>>, workerQueue' = Tail(workerQueue), UNCHANGED appVars
  PROVE  AppOK' /\ Head(workerQueue) \in Task /\ Head(workerQueue).get \in asked
<1>1. /\ asked \subseteq Gets /\ muted \subseteq asked /\ workerQueue \in Seq(Task)
      /\ \A i \in 1 .. Len(workerQueue) : workerQueue[i].get \in asked
      /\ answers \in [Gets -> Seq({"synced", "cached", "error"})]
      /\ asked' = asked /\ muted' = muted /\ answers' = answers
  BY DEF AppOK, appVars
<1>2. /\ Head(workerQueue) \in Task /\ Head(workerQueue) = workerQueue[1]
      /\ workerQueue' \in Seq(Task)
      /\ Len(workerQueue) \in Nat /\ Len(workerQueue) >= 1
      /\ Len(workerQueue') = Len(workerQueue) - 1
      /\ \A i \in 1 .. Len(workerQueue) - 1 : workerQueue'[i] = workerQueue[i + 1]
  BY <1>1, TailIs
<1>3. 1 \in 1 .. Len(workerQueue)
  BY <1>2
<1>4. \A i \in 1 .. Len(workerQueue') : workerQueue'[i].get \in asked'
  <2>1. ASSUME NEW i \in 1 .. Len(workerQueue') PROVE workerQueue'[i].get \in asked'
    <3>1. i \in 1 .. Len(workerQueue) - 1 /\ i + 1 \in 1 .. Len(workerQueue)
      BY <1>2
    <3>2. workerQueue'[i] = workerQueue[i + 1]
      BY <1>2, <3>1
    <3> QED  BY <1>1, <3>1, <3>2
  <2> QED  BY <2>1
<1>5. AppOK'
  BY <1>1, <1>2, <1>4 DEF AppOK
<1> QED  BY <1>1, <1>2, <1>3, <1>5

(* No step exceeds the bounds.                                             *)
LEMMA NextBounds ==
  ASSUME BoundsOK, Next
  PROVE  BoundsOK'
<1>1. MaxFaults \in Nat /\ MaxChanges \in Nat
  BY GetAssumption
<1>2. /\ faults' = faults \/ (faults < MaxFaults /\ faults' = faults + 1)
      /\ changes' = changes \/ (changes < MaxChanges /\ changes' = changes + 1)
  BY DEF Next, GetDocuments, OnEvent, AddQueryListener, RemoveQueryListener, OnStreamStart,
     BackoffElapsed, IdleTimeout, OnlineStateTimeout, OnWatchStreamChange, OnStreamFinish,
     Restart, BackendAnswers, BackendRejects, BackendDrops, BackendIsCurrent, BackendChanges,
     BackendSnapshot
<1> QED  BY <1>1, <1>2 DEF BoundsOK

-----------------------------------------------------------------------------
(***************************************************************************)
(* The first invariant: the types, what the client asserts, and that the   *)
(* listeners, the targets and the gets agree.                              *)
(* A listener that is added does not upset them.                           *)
(* A listener that is added does not upset them.                          *)
LEMMA AddedKeeps ==
  ASSUME NEW c, NEW d, NEW A, NEW g \in Gets, Sound(c), Heard(c, A), Agree(c), g \in A,
         Added(c, d, g)
  PROVE  Heard(d, A) /\ Agree(d)
<1> DEFINE q == QueryOf[g]
           gs == c.listeners[q] \cup {g}
<1>1. q \in Queries /\ IsClient(c)
  BY GetAssumption DEF Sound, Base
<1>2. c.listeners \in [Queries -> SUBSET Gets]
  BY <1>1, Fields
<1>3. PICK v : Listens(c, v, q, gs) /\ Tells(v, d)
  BY DEF Added
<1>4. /\ IsClient(v) /\ v.events = c.events /\ SameWire(c, v)
      /\ v.listeners = [c.listeners EXCEPT ![q] = gs]
  BY <1>3 DEF Listens, Sound, Base
<1>5. /\ v.listeners[q] = gs
      /\ \A x \in Queries \ {q} : v.listeners[x] = c.listeners[x]
  BY <1>1, <1>2, <1>4
<1>6. Heard(v, A)
  BY <1>4, <1>5 DEF Heard
<1>7. Heard(d, A) /\ d.listeners = v.listeners
  BY <1>3, <1>4, <1>6, TellsHeard DEF Tells
<1>8. CASE c.listeners[q] = {}
  <2>1. d.targets = c.targets \cup {q}
    BY <1>8 DEF Added
  <2> QED  BY <1>1, <1>5, <1>7, <2>1 DEF Agree
<1>9. CASE c.listeners[q] # {}
  <2>1. d.targets = c.targets
    BY <1>9 DEF Added, SameWire
  <2> QED  BY <1>1, <1>5, <1>7, <1>9, <2>1 DEF Agree
<1> QED  BY <1>7, <1>8, <1>9

(* Nor does its removal upset them.                                        *)
LEMMA RemovedKeeps ==
  ASSUME NEW c, NEW d, NEW A, NEW g \in Gets, Sound(c), Heard(c, A), Agree(c), Removed(c, d, g)
  PROVE  Heard(d, A) /\ Agree(d)
<1> DEFINE q == QueryOf[g]
           gs == c.listeners[q] \ {g}
<1>1. q \in Queries /\ IsClient(c)
  BY GetAssumption DEF Sound, Base
<1>2. c.listeners \in [Queries -> SUBSET Gets]
  BY <1>1, Fields
<1>3. PICK v : Listens(c, v, q, gs) /\ Tells(v, d)
  BY DEF Removed
<1>4. /\ IsClient(v) /\ v.events = c.events /\ SameWire(c, v)
      /\ v.listeners = [c.listeners EXCEPT ![q] = gs]
  BY <1>3 DEF Listens, Sound, Base
<1>5. /\ v.listeners[q] = gs
      /\ \A x \in Queries \ {q} : v.listeners[x] = c.listeners[x]
  BY <1>1, <1>2, <1>4
<1>6. Heard(v, A)
  BY <1>4, <1>5 DEF Heard
<1>7. Heard(d, A) /\ d.listeners = v.listeners
  BY <1>3, <1>4, <1>6, TellsHeard DEF Tells
<1>8. CASE c.listeners[q] # {} /\ gs = {}
  <2>1. d.targets = c.targets \ {q}
    BY <1>8 DEF Removed
  <2> QED  BY <1>1, <1>5, <1>7, <1>8, <2>1 DEF Agree
<1>9. CASE ~(c.listeners[q] # {} /\ gs = {})
  <2>1. d.targets = c.targets
    BY <1>9 DEF Removed, SameWire
  <2>2. gs = {} <=> c.listeners[q] = {}
    BY <1>9
  <2> HIDE DEF gs
  <2> QED  BY <1>1, <1>5, <1>7, <2>1, <2>2 DEF Agree
<1> QED  BY <1>7, <1>8, <1>9

(* More gets were called.                                                  *)
LEMMA HeardMore ==
  ASSUME NEW c, NEW A, NEW B, A \subseteq B, Heard(c, A)
  PROVE  Heard(c, B)
BY DEF Heard

(* It holds at first.                                                      *)
LEMMA InitSane ==
  ASSUME Init
  PROVE  Sane
<1> DEFINE c == client
<1>1. /\ c.listeners = [q \in Queries |-> {}] /\ c.raised = {} /\ c.events = <<>>
      /\ c.current = [q \in Queries |-> FALSE]
      /\ c.online = "Unknown" /\ c.failures = 0 /\ c.timer = FALSE
      /\ c.targets = {} /\ c.stream = Closed("Initial")
      /\ c.states = <<>> /\ c.resets = {}
      /\ c.told = {} /\ c.rewatched = {} /\ c.dropped = {}
  BY DEF Init
<1>2. IsClient(c)
  <2>1. Closed("Initial") \in Stream
    BY ClosedIs
  <2>2. DOMAIN c.states = {} /\ c.states \in [DOMAIN c.states -> TargetState]
    BY <1>1
  <2>3. c.events \in Seq([get: Gets, result: {"synced", "cached", "error"}])
    BY <1>1
  <2>4. c.listeners \in [Queries -> SUBSET Gets] /\ c.current \in [Queries -> BOOLEAN]
    BY <1>1
  <2> QED  BY <1>1, <2>1, <2>2, <2>3, <2>4 DEF Init, IsClient, Client, Online
<1>3. /\ c.stream.state = "Initial" /\ ~c.stream.idle /\ c.stream.out = <<>>
      /\ c.stream.in = <<>> /\ ~c.stream.news /\ \A q \in Queries : c.stream.watched[q] = "no"
  BY <1>1, ClosedIs
<1>4. Clean(c)
  BY <1>1, <1>3 DEF Clean
<1>5. Sound(c)
  BY <1>1, <1>2, <1>3, <1>4 DEF Sound, Base
<1>6. Heard(c, asked) /\ Agree(c)
  BY <1>1 DEF Heard, Agree
<1>7. AppOK
  BY DEF Init, AppOK, Task
<1>8. BoundsOK
  BY GetAssumption DEF Init, BoundsOK
<1> QED  BY <1>5, <1>6, <1>7, <1>8 DEF Sane

(* The step of each action, and that it keeps the first invariant.         *)
LEMMA GetDocumentsDoes ==
  ASSUME Sane, NEW g \in Gets, GetDocuments(g)
  PROVE  /\ g \notin asked /\ asked' = asked \cup {g}
         /\ workerQueue' = Append(workerQueue, [kind |-> "add", get |-> g])
         /\ UNCHANGED <<client, muted, answers>>
         /\ Sound(client') /\ Heard(client', asked') /\ Agree(client') /\ AppOK'
<1> DEFINE t == [kind |-> "add", get |-> g]
<1>1. /\ g \notin asked /\ asked' = asked \cup {g} /\ workerQueue' = Append(workerQueue, t)
      /\ client' = client /\ muted' = muted /\ answers' = answers
  BY DEF GetDocuments
<1>2. /\ asked \subseteq Gets /\ muted \subseteq asked /\ workerQueue \in Seq(Task)
      /\ \A i \in 1 .. Len(workerQueue) : workerQueue[i].get \in asked
      /\ answers \in [Gets -> Seq({"synced", "cached", "error"})]
  BY DEF Sane, AppOK
<1>3. t \in Task /\ t.get = g
  BY DEF Task
<1>4. /\ workerQueue' \in Seq(Task) /\ Len(workerQueue) \in Nat
      /\ Len(workerQueue') = Len(workerQueue) + 1
      /\ \A i \in 1 .. Len(workerQueue) : workerQueue'[i] = workerQueue[i]
      /\ workerQueue'[Len(workerQueue) + 1] = t
  <2> HIDE DEF t
  <2> QED  BY <1>1, <1>2, <1>3, AppendIs
<1>5. \A i \in 1 .. Len(workerQueue') : workerQueue'[i].get \in asked'
  <2>1. ASSUME NEW i \in 1 .. Len(workerQueue') PROVE workerQueue'[i].get \in asked'
    <3>1. i \in 1 .. Len(workerQueue) \/ i = Len(workerQueue) + 1
      BY <1>4
    <3> HIDE DEF t
    <3> QED  BY <1>1, <1>2, <1>3, <1>4, <3>1
  <2> QED  BY <2>1
<1>6. AppOK'
  BY <1>1, <1>2, <1>4, <1>5 DEF AppOK
<1>7. Sound(client') /\ Heard(client', asked') /\ Agree(client')
  BY <1>1, HeardMore DEF Sane
<1> QED  BY <1>1, <1>6, <1>7

(* OnEvent: the event is taken, and its get is one that was called.        *)
LEMMA OnEventDoes ==
  ASSUME Sane, OnEvent
  PROVE  /\ EventTaken(client, client') /\ Head(client.events) \in GetEvent
         /\ Head(client.events).get \in asked
         /\ Sound(client') /\ Heard(client', asked') /\ Agree(client') /\ AppOK'
<1> DEFINE c == client
           d == client'
           e == Head(client.events)
           t == [kind |-> "remove", get |-> e.get]
<1>1. /\ c.events # <<>> /\ d = [c EXCEPT !.events = Tail(@)] /\ asked' = asked
      /\ answers' = IF e.get \in muted THEN answers
                    ELSE [answers EXCEPT ![e.get] = Append(@, e.result)]
      /\ muted' = IF e.result = "error" THEN muted ELSE muted \cup {e.get}
      /\ workerQueue' = IF e.get \in muted \/ e.result = "error" THEN workerQueue
                        ELSE Append(workerQueue, t)
  BY DEF OnEvent
<1>2. Sound(c) /\ Heard(c, asked) /\ Agree(c) /\ IsClient(c)
  BY DEF Sane, Sound, Base
<1>3. EventTaken(c, d)
  BY ONLY <1>1, <1>2, EventTakenIs
<1>4. /\ e \in GetEvent /\ e = c.events[1]
      /\ Len(c.events) \in Nat /\ Len(c.events) >= 1 /\ Len(Tail(c.events)) = Len(c.events) - 1
      /\ \A i \in 1 .. Len(c.events) - 1 : Tail(c.events)[i] = c.events[i + 1]
  <2>1. c.events \in Seq(GetEvent) /\ c.events # <<>>
    BY <1>1, <1>2, Fields
  <2> QED  BY <2>1, TailIs
<1>5. d.events = Tail(c.events) /\ d.listeners = c.listeners /\ d.targets = c.targets /\ Sound(d)
  BY <1>3 DEF EventTaken, SameWire
<1>6. /\ asked \subseteq Gets /\ muted \subseteq asked /\ workerQueue \in Seq(Task)
      /\ \A i \in 1 .. Len(workerQueue) : workerQueue[i].get \in asked
      /\ answers \in [Gets -> Seq({"synced", "cached", "error"})]
  BY DEF Sane, AppOK
<1> HIDE DEF c, d, e
<1>7. \A i \in 1 .. Len(c.events) : c.events[i].get \in asked
  BY <1>2 DEF Heard
<1>8. e.get \in asked
  <2>1. 1 \in 1 .. Len(c.events)
    BY <1>4
  <2> QED  BY <1>4, <1>7, <2>1
<1>9. \A i \in 1 .. Len(d.events) : d.events[i].get \in asked
  <2>1. ASSUME NEW i \in 1 .. Len(d.events) PROVE d.events[i].get \in asked
    <3>1. i \in 1 .. Len(c.events) - 1 /\ i + 1 \in 1 .. Len(c.events)
      BY <1>4, <1>5
    <3>2. d.events[i] = c.events[i + 1]
      BY <1>4, <1>5, <3>1
    <3> QED  BY <1>7, <3>1, <3>2
  <2> QED  BY <2>1
<1>10. Heard(d, asked') /\ Agree(d)
  <2>1. Heard(d, asked)
    BY <1>2, <1>5, <1>9 DEF Heard
  <2>2. Agree(d)
    BY <1>2, <1>5 DEF Agree
  <2> QED  BY <1>1, <2>1, <2>2
<1>11. t \in Task /\ t.get = e.get
  BY <1>4 DEF Task, GetEvent
<1> HIDE DEF t
<1>12. workerQueue' \in Seq(Task) /\ \A i \in 1 .. Len(workerQueue') : workerQueue'[i].get \in asked'
  <2>1. CASE workerQueue' = workerQueue
    BY <1>1, <1>6, <2>1
  <2>2. CASE workerQueue' = Append(workerQueue, t)
    <3>1. /\ workerQueue' \in Seq(Task) /\ Len(workerQueue) \in Nat
          /\ Len(workerQueue') = Len(workerQueue) + 1
          /\ \A i \in 1 .. Len(workerQueue) : workerQueue'[i] = workerQueue[i]
          /\ workerQueue'[Len(workerQueue) + 1] = t
      BY <1>6, <1>11, <2>2, AppendIs
    <3>2. ASSUME NEW i \in 1 .. Len(workerQueue') PROVE workerQueue'[i].get \in asked'
      <4>1. i \in 1 .. Len(workerQueue) \/ i = Len(workerQueue) + 1
        BY <3>1
      <4> QED  BY <1>1, <1>6, <1>8, <1>11, <3>1, <4>1
    <3> QED  BY <3>1, <3>2
  <2> QED  BY <1>1, <2>1, <2>2
<1>13. answers' \in [Gets -> Seq({"synced", "cached", "error"})]
  <2> DEFINE R == {"synced", "cached", "error"}
  <2>1. e.get \in Gets /\ e.result \in R
    BY <1>4 DEF GetEvent
  <2>2. answers \in [Gets -> Seq(R)]
    BY <1>6
  <2> HIDE DEF R
  <2>3. Append(answers[e.get], e.result) \in Seq(R)
    BY <2>1, <2>2, AppendIs
  <2>4. answers' \in [Gets -> Seq(R)]
    BY <1>1, <2>1, <2>2, <2>3
  <2> QED  BY <2>4 DEF R
<1>14. muted' \subseteq asked'
  BY <1>1, <1>6, <1>8
<1>15. AppOK'
  BY <1>1, <1>6, <1>12, <1>13, <1>14 DEF AppOK
<1> QED  BY <1>3, <1>4, <1>5, <1>8, <1>10, <1>15 DEF c, d, e

(* AddQueryListener: the task is taken, and its listener added.            *)
LEMMA AddQueryListenerDoes ==
  ASSUME Sane, AddQueryListener
  PROVE  /\ workerQueue # <<>> /\ Head(workerQueue).kind = "add"
         /\ workerQueue' = Tail(workerQueue) /\ UNCHANGED appVars
         /\ Head(workerQueue).get \in asked
         /\ Added(client, client', Head(workerQueue).get)
         /\ Sound(client') /\ Heard(client', asked') /\ Agree(client') /\ AppOK'
<1> DEFINE g == Head(workerQueue).get
<1>1. /\ workerQueue # <<>> /\ Head(workerQueue).kind = "add"
      /\ workerQueue' = Tail(workerQueue) /\ UNCHANGED appVars
      /\ client' = ListenerAdded(client, g)
  BY DEF AddQueryListener, ListenerAdded
<1>2. Sound(client) /\ Heard(client, asked) /\ Agree(client) /\ AppOK /\ asked \subseteq Gets
  BY DEF Sane, AppOK
<1>3. AppOK' /\ g \in asked
  BY <1>1, <1>2, TaskTaken
<1>4. g \in Gets /\ asked' = asked
  BY <1>1, <1>2, <1>3 DEF appVars
<1> HIDE DEF g
<1>5. Added(client, client', g)
  BY ONLY <1>1, <1>2, <1>4, ListenerAddedDoes
<1>6. Sound(client')
  BY <1>5 DEF Added
<1>7. Heard(client', asked) /\ Agree(client')
  BY ONLY <1>2, <1>3, <1>4, <1>5, AddedKeeps
<1> QED  BY <1>1, <1>3, <1>4, <1>5, <1>6, <1>7 DEF g

(* RemoveQueryListener: the task is taken, and its listener removed.       *)
LEMMA RemoveQueryListenerDoes ==
  ASSUME Sane, RemoveQueryListener
  PROVE  /\ workerQueue # <<>> /\ Head(workerQueue).kind = "remove"
         /\ workerQueue' = Tail(workerQueue) /\ UNCHANGED appVars
         /\ Head(workerQueue).get \in asked
         /\ Removed(client, client', Head(workerQueue).get)
         /\ Sound(client') /\ Heard(client', asked') /\ Agree(client') /\ AppOK'
<1> DEFINE g == Head(workerQueue).get
<1>1. /\ workerQueue # <<>> /\ Head(workerQueue).kind = "remove"
      /\ workerQueue' = Tail(workerQueue) /\ UNCHANGED appVars
      /\ client' = ListenerRemoved(client, g)
  BY DEF RemoveQueryListener, ListenerRemoved
<1>2. Sound(client) /\ Heard(client, asked) /\ Agree(client) /\ AppOK /\ asked \subseteq Gets
  BY DEF Sane, AppOK
<1>3. AppOK' /\ g \in asked
  BY <1>1, <1>2, TaskTaken
<1>4. g \in Gets /\ asked' = asked
  BY <1>1, <1>2, <1>3 DEF appVars
<1> HIDE DEF g
<1>5. Removed(client, client', g)
  BY ONLY <1>1, <1>2, <1>4, ListenerRemovedDoes
<1>6. Sound(client')
  BY <1>5 DEF Removed
<1>7. Heard(client', asked) /\ Agree(client')
  BY ONLY <1>2, <1>4, <1>5, RemovedKeeps
<1> QED  BY <1>1, <1>3, <1>4, <1>5, <1>6, <1>7 DEF g

(* The stream's tasks and the backend's messages.                          *)
LEMMA ClientStepsDo ==
  ASSUME Sane, Streams \/ Backends
  PROVE  /\ Stepped(client, client') /\ UNCHANGED <<workerQueue, appVars>>
         /\ Sound(client') /\ Heard(client', asked') /\ Agree(client') /\ AppOK'
<1>1. Sound(client) /\ Heard(client, asked) /\ Agree(client) /\ AppOK
  BY DEF Sane
<1>2. Stepped(client, client') /\ UNCHANGED <<workerQueue, appVars>>
  BY <1>1, StreamsStep, BackendsStep
<1>3. Sound(client')
  BY <1>2 DEF Stepped
<1>4. Heard(client', asked) /\ Agree(client')
  BY <1>1, <1>2, SteppedHeard, SteppedAgree
<1>5. asked' = asked /\ AppOK'
  BY <1>1, <1>2 DEF AppOK, appVars
<1> QED  BY <1>2, <1>3, <1>4, <1>5

(* The first invariant is kept by every step.                              *)
LEMMA NextSane ==
  ASSUME Sane, [Next]_vars
  PROVE  Sane'
<1>1. CASE Next
  <2>1. Sound(client') /\ Heard(client', asked') /\ Agree(client') /\ AppOK'
    BY <1>1, NextIs, GetDocumentsDoes, OnEventDoes, AddQueryListenerDoes,
       RemoveQueryListenerDoes, ClientStepsDo
  <2>2. BoundsOK'
    BY <1>1, NextBounds DEF Sane
  <2> QED  BY <2>1, <2>2 DEF Sane
<1>2. CASE UNCHANGED vars
  BY <1>2 DEF vars, appVars, Sane, AppOK, BoundsOK
<1> QED  BY <1>1, <1>2

(* The first invariant holds in every state: the types, the client's       *)
(* assertions, and that listeners, targets and gets agree.                 *)
THEOREM SaneAlways == Spec => []Sane
<1>1. Init => Sane
  BY InitSane
<1>2. Sane /\ [Next]_vars => Sane'
  BY NextSane
<1> QED  BY <1>1, <1>2, PTL DEF Spec

(* Every variable has its type, the timer runs only while the state is     *)
(* unknown, and a stream that is needed is started and not about to close. *)
THEOREM ConsistentAlways == Spec => []Consistent
<1>1. ASSUME Sane PROVE Consistent
  <2>1. /\ IsClient(client) /\ Base(client) /\ Sound(client) /\ AppOK /\ BoundsOK
    BY <1>1 DEF Sane, Sound, Base
  <2>2. TypeOK
    <3>1. \A t \in ToSet(workerQueue) : t \in [kind: {"add", "remove"}, get: Gets]
      <4>1. workerQueue \in Seq(Task)
        BY <2>1 DEF AppOK
      <4>2. ToSet(workerQueue) \subseteq Task
        BY <4>1 DEF ToSet
      <4> QED  BY <4>2 DEF Task
    <3> QED  BY <2>1, <3>1 DEF TypeOK, IsClient, AppOK, BoundsOK
  <2>3. TimerOnlyWhileUnknown
    BY <2>1 DEF TimerOnlyWhileUnknown, Sound, Base
  <2>4. StreamWhileNeeded
    BY <2>1 DEF StreamWhileNeeded, Sound, Base
  <2> QED  BY <2>2, <2>3, <2>4 DEF Consistent
<1> QED  BY <1>1, SaneAlways, PTL

(* What is listened to is what the remote store has as its targets.        *)
THEOREM ListenersHaveTargetsAlways == Spec => []ListenersHaveTargets
<1>1. Sane => ListenersHaveTargets
  BY DEF Sane, Agree, ListenersHaveTargets
<1> QED  BY <1>1, SaneAlways, PTL

-----------------------------------------------------------------------------
(***************************************************************************)
(* The second invariant: where a get is.                                   *)
(***************************************************************************)
Awaits(queue, kind, g) ==
  \E i \in 1 .. Len(queue) : queue[i].kind = kind /\ queue[i].get = g

Single(queue, g) ==
  \A i, j \in 1 .. Len(queue) :
    queue[i].kind = "add" /\ queue[i].get = g /\ queue[j].kind = "add" /\ queue[j].get = g
      => i = j

Listening(c, g) == g \in c.listeners[QueryOf[g]]

Told(c, g) == \E i \in 1 .. Len(c.events) : c.events[i].get = g

Failed(c, g) == \E i \in 1 .. Len(c.events) : c.events[i].get = g /\ c.events[i].result = "error"

(* No event of g follows its error.                                        *)
ErrorIsLast(c, g) ==
  \A i, j \in 1 .. Len(c.events) :
    i < j /\ c.events[i].get = g /\ c.events[j].get = g => c.events[i].result # "error"

(* What is so of g, that was answered a, with the gets A asked and M muted.*)
Once(c, g, queue, A, M, a) ==
  /\ g \notin A => a = <<>>
  /\ Awaits(queue, "add", g) => ~Listening(c, g) /\ ~Told(c, g) /\ a = <<>> /\ g \notin M
  /\ Single(queue, g)
  /\ Listening(c, g) => ~Failed(c, g) /\ (g \notin M => a = <<>>)
  /\ ErrorIsLast(c, g)
  /\ Awaits(queue, "remove", g) => g \in M
  /\ g \in M => Len(a) = 1
  /\ Told(c, g) /\ g \notin M => a = <<>>
  /\ g \in A /\ a = <<>> => Listening(c, g) \/ Awaits(queue, "add", g) \/ Told(c, g)
  /\ a = <<>> \/ Len(a) = 1

AllOnce == \A g \in Gets : Once(client, g, workerQueue, asked, muted, answers[g])

(* What the queue awaits once its head is taken, or a task is behind it.   *)
LEMMA AwaitsTail ==
  ASSUME NEW s \in Seq(Task), s # <<>>, NEW g
  PROVE  /\ \A kind : Awaits(Tail(s), kind, g) => Awaits(s, kind, g)
         /\ \A kind : Awaits(s, kind, g) =>
              Awaits(Tail(s), kind, g) \/ (Head(s).kind = kind /\ Head(s).get = g)
         /\ Awaits(s, Head(s).kind, Head(s).get)
         /\ Single(s, g) => Single(Tail(s), g)
         /\ Single(s, g) /\ Head(s).kind = "add" /\ Head(s).get = g => ~Awaits(Tail(s), "add", g)
<1> DEFINE t == Tail(s)
           n == Len(s)
<1>1. /\ Head(s) = s[1] /\ n \in Nat /\ n >= 1 /\ Len(t) = n - 1
      /\ \A i \in 1 .. n - 1 : t[i] = s[i + 1]
  BY TailIs
<1> HIDE DEF t, n
<1>2. ASSUME NEW kind, Awaits(t, kind, g) PROVE Awaits(s, kind, g)
  <2>1. PICK i \in 1 .. Len(t) : t[i].kind = kind /\ t[i].get = g
    BY <1>2 DEF Awaits
  <2>2. i \in 1 .. n - 1 /\ i + 1 \in 1 .. n
    BY <1>1
  <2>3. t[i] = s[i + 1]
    BY <1>1, <2>2
  <2> QED  BY <2>1, <2>2, <2>3 DEF Awaits, n
<1>3. ASSUME NEW kind, Awaits(s, kind, g)
      PROVE  Awaits(t, kind, g) \/ (Head(s).kind = kind /\ Head(s).get = g)
  <2>1. PICK i \in 1 .. n : s[i].kind = kind /\ s[i].get = g
    BY <1>3 DEF Awaits, n
  <2>2. CASE i = 1
    BY <1>1, <2>1, <2>2
  <2>3. CASE i # 1
    <3>1. i - 1 \in 1 .. n - 1 /\ (i - 1) + 1 = i
      BY <1>1, <2>3
    <3>2. t[i - 1] = s[i] /\ i - 1 \in 1 .. Len(t)
      BY <1>1, <3>1
    <3> QED  BY <2>1, <3>2 DEF Awaits
  <2> QED  BY <2>2, <2>3
<1>4. Awaits(s, Head(s).kind, Head(s).get)
  <2>1. 1 \in 1 .. n
    BY <1>1
  <2> QED  BY <1>1, <2>1 DEF Awaits, n
<1>5. ASSUME Single(s, g) PROVE Single(t, g)
  <2>1. SUFFICES ASSUME NEW i \in 1 .. Len(t), NEW j \in 1 .. Len(t),
                        t[i].kind = "add", t[i].get = g, t[j].kind = "add", t[j].get = g
                 PROVE  i = j
    BY DEF Single
  <2>2. /\ i \in 1 .. n - 1 /\ j \in 1 .. n - 1 /\ i + 1 \in 1 .. n /\ j + 1 \in 1 .. n
    BY <1>1
  <2>3. t[i] = s[i + 1] /\ t[j] = s[j + 1]
    BY <1>1, <2>2
  <2>4. i + 1 = j + 1
    BY <1>5, <2>1, <2>2, <2>3 DEF Single, n
  <2> QED  BY <2>2, <2>4
<1>6. ASSUME Single(s, g), Head(s).kind = "add", Head(s).get = g PROVE ~Awaits(t, "add", g)
  <2>1. SUFFICES ASSUME Awaits(t, "add", g) PROVE FALSE
    OBVIOUS
  <2>2. PICK i \in 1 .. Len(t) : t[i].kind = "add" /\ t[i].get = g
    BY <2>1 DEF Awaits
  <2>3. i \in 1 .. n - 1 /\ i + 1 \in 1 .. n /\ 1 \in 1 .. n
    BY <1>1
  <2>4. t[i] = s[i + 1]
    BY <1>1, <2>3
  <2>5. i + 1 = 1
    BY <1>1, <1>6, <2>2, <2>3, <2>4 DEF Single, n
  <2> QED  BY <2>3, <2>5
<1> QED  BY <1>2, <1>3, <1>4, <1>5, <1>6 DEF t

(* What the queue awaits with one more task.                               *)
LEMMA AwaitsAppend ==
  ASSUME NEW s \in Seq(Task), NEW e \in Task, NEW g
  PROVE  /\ \A kind : Awaits(Append(s, e), kind, g)
                        <=> Awaits(s, kind, g) \/ (e.kind = kind /\ e.get = g)
         /\ Single(s, g) /\ (e.kind # "add" \/ e.get # g \/ ~Awaits(s, "add", g))
              => Single(Append(s, e), g)
<1> DEFINE t == Append(s, e)
           n == Len(s)
<1>1. /\ n \in Nat /\ Len(t) = n + 1 /\ t[n + 1] = e
      /\ \A i \in 1 .. n : t[i] = s[i]
  BY AppendIs
<1> HIDE DEF t, n
<1>2. \A i \in 1 .. n + 1 : i \in 1 .. n \/ i = n + 1
  BY <1>1
<1>3. n + 1 \in 1 .. n + 1 /\ \A i \in 1 .. n : i \in 1 .. n + 1
  BY <1>1
<1>4. ASSUME NEW kind
      PROVE  Awaits(t, kind, g) <=> Awaits(s, kind, g) \/ (e.kind = kind /\ e.get = g)
  <2>1. Awaits(t, kind, g) <=> \E i \in 1 .. n + 1 : t[i].kind = kind /\ t[i].get = g
    BY <1>1 DEF Awaits
  <2>2. Awaits(s, kind, g) <=> \E i \in 1 .. n : s[i].kind = kind /\ s[i].get = g
    BY DEF Awaits, n
  <2> QED  BY <1>1, <1>2, <1>3, <2>1, <2>2
<1>5. ASSUME Single(s, g), e.kind # "add" \/ e.get # g \/ ~Awaits(s, "add", g)
      PROVE  Single(t, g)
  <2>1. SUFFICES ASSUME NEW i \in 1 .. n + 1, NEW j \in 1 .. n + 1,
                        t[i].kind = "add", t[i].get = g, t[j].kind = "add", t[j].get = g
                 PROVE  i = j
    BY <1>1 DEF Single
  <2>2. CASE i \in 1 .. n /\ j \in 1 .. n
    BY <1>1, <1>5, <2>1, <2>2 DEF Single, n
  <2>3. CASE i = n + 1 /\ j = n + 1
    BY <2>3
  <2>4. CASE i \in 1 .. n /\ j = n + 1
    BY <1>1, <1>5, <2>1, <2>4 DEF Awaits, n
  <2>5. CASE i = n + 1 /\ j \in 1 .. n
    BY <1>1, <1>5, <2>1, <2>5 DEF Awaits, n
  <2> QED  BY <1>2, <2>2, <2>3, <2>4, <2>5
<1> QED  BY <1>4, <1>5 DEF t

(* A step that keeps g as it was but for further events, or that dismisses *)
(* it with an error.                                                       *)
Kept(c, d, g) ==
  /\ Listening(d, g) <=> Listening(c, g)
  /\ Told(c, g) => Told(d, g)
  /\ Told(d, g) => Told(c, g) \/ Listening(c, g)
  /\ Failed(d, g) => Failed(c, g)
  /\ ErrorIsLast(d, g)

Dismissed(c, d, g) == Listening(c, g) /\ ~Listening(d, g) /\ Told(d, g) /\ ErrorIsLast(d, g)

Orderly(c, g) == ErrorIsLast(c, g) /\ (Listening(c, g) => ~Failed(c, g))

(* What tells the listeners keeps every get.                               *)
LEMMA TellsKeeps ==
  ASSUME NEW c, NEW d, NEW A, NEW g \in Gets, IsClient(c), Heard(c, A), Tells(c, d), Orderly(c, g)
  PROVE  Kept(c, d, g)
<1> DEFINE m == Len(c.events)
           n == Len(d.events)
<1>1. d.listeners = c.listeners /\ EventsGrow(c, d) /\ IsClient(d)
  BY DEF Tells
<1>2. m \in Nat /\ n \in Nat
  <2>1. c.events \in Seq(GetEvent) /\ d.events \in Seq(GetEvent)
    BY <1>1, Fields
  <2> QED  BY <2>1, LenProperties
<1>3. /\ m <= n /\ \A i \in 1 .. m : d.events[i] = c.events[i]
      /\ \A i \in 1 .. n : i > m =>
           d.events[i].result # "error" /\ \E q \in Queries : d.events[i].get \in c.listeners[q]
  BY <1>1 DEF EventsGrow
<1>4. \A q \in Queries : g \in c.listeners[q] => Listening(c, g)
  BY DEF Heard, Listening
<1> HIDE DEF m, n
<1>5. \A i \in 1 .. n : i \in 1 .. m \/ i > m
  BY <1>2
<1>6. \A i \in 1 .. m : i \in 1 .. n
  BY <1>2, <1>3
<1>7. Listening(d, g) <=> Listening(c, g)
  BY <1>1 DEF Listening
<1>8. Told(c, g) => Told(d, g)
  BY <1>3, <1>6 DEF Told, m, n
<1>9. Told(d, g) => Told(c, g) \/ Listening(c, g)
  <2>1. SUFFICES ASSUME NEW i \in 1 .. n, d.events[i].get = g PROVE Told(c, g) \/ Listening(c, g)
    BY DEF Told, n
  <2>2. CASE i \in 1 .. m
    BY <1>3, <2>1, <2>2 DEF Told, m
  <2>3. CASE i > m
    BY <1>3, <1>4, <2>1, <2>3
  <2> QED  BY <1>5, <2>2, <2>3
<1>10. Failed(d, g) => Failed(c, g)
  <2>1. SUFFICES ASSUME NEW i \in 1 .. n, d.events[i].get = g, d.events[i].result = "error"
                 PROVE  Failed(c, g)
    BY DEF Failed, n
  <2>2. i \in 1 .. m
    BY <1>3, <1>5, <2>1
  <2> QED  BY <1>3, <2>1, <2>2 DEF Failed, m
<1>11. ErrorIsLast(d, g)
  <2>1. SUFFICES ASSUME NEW i \in 1 .. n, NEW j \in 1 .. n, i < j,
                        d.events[i].get = g, d.events[j].get = g, d.events[i].result = "error"
                 PROVE  FALSE
    BY DEF ErrorIsLast, n
  <2>2. i \in 1 .. m /\ c.events[i].get = g /\ c.events[i].result = "error"
    BY <1>3, <1>5, <2>1
  <2>3. Failed(c, g)
    BY <2>2 DEF Failed, m
  <2>4. CASE j \in 1 .. m
    <3>1. c.events[j].get = g
      BY <1>3, <2>1, <2>4
    <3> QED  BY <2>1, <2>2, <2>4, <3>1 DEF Orderly, ErrorIsLast, m
  <2>5. CASE j > m
    <3>1. Listening(c, g)
      BY <1>3, <1>4, <2>1, <2>5
    <3> QED  BY <2>3, <3>1 DEF Orderly
  <2> QED  BY <1>5, <2>4, <2>5
<1> QED  BY <1>7, <1>8, <1>9, <1>10, <1>11 DEF Kept

(* The error of a target keeps a get or dismisses it.                      *)
LEMMA RejectedMoves ==
  ASSUME NEW c, NEW d, NEW A, NEW g \in Gets, NEW q \in Queries, IsClient(c), Heard(c, A),
         Rejected(c, d, q), Orderly(c, g)
  PROVE  Kept(c, d, g) \/ Dismissed(c, d, g)
<1>1. CASE q \notin c.targets
  BY <1>1 DEF Rejected, Kept, Listening, Told, Failed, ErrorIsLast, Orderly
<1>2. CASE q \in c.targets
  <2> DEFINE m == Len(c.events)
             n == Len(d.events)
  <2>1. /\ d.listeners = [c.listeners EXCEPT ![q] = {}]
        /\ Posted(c.events, c.listeners[q], ErrorFor, d.events)
    BY <1>2 DEF Rejected
  <2>2. /\ m \in Nat /\ n \in Nat /\ m <= n
        /\ \A i \in 1 .. m : d.events[i] = c.events[i]
        /\ \A i \in 1 .. n : i > m => d.events[i].get \in c.listeners[q]
        /\ \A x \in c.listeners[q] : \E i \in 1 .. n : i > m /\ d.events[i].get = x
        /\ \A i, j \in 1 .. n : i > m /\ j > m /\ d.events[i].get = d.events[j].get => i = j
    BY <2>1 DEF Posted
  <2>3. c.listeners \in [Queries -> SUBSET Gets] /\ QueryOf[g] \in Queries
    BY GetAssumption, Fields
  <2>4. g \in c.listeners[q] => QueryOf[g] = q
    BY DEF Heard
  <2> HIDE DEF m, n
  <2>5. \A i \in 1 .. n : i \in 1 .. m \/ i > m
    BY <2>2
  <2>6. \A i \in 1 .. m : i \in 1 .. n
    BY <2>2
  <2>7. CASE g \in c.listeners[q]
    <3>1. Listening(c, g) /\ ~Listening(d, g)
      BY <2>1, <2>3, <2>4, <2>7 DEF Listening
    <3>2. Told(d, g)
      BY <2>2, <2>7 DEF Told, n
    <3>3. ErrorIsLast(d, g)
      <4>1. SUFFICES ASSUME NEW i \in 1 .. n, NEW j \in 1 .. n, i < j,
                            d.events[i].get = g, d.events[j].get = g, d.events[i].result = "error"
                     PROVE  FALSE
        BY DEF ErrorIsLast, n
      <4>2. CASE i \in 1 .. m
        <5>1. c.events[i].get = g /\ c.events[i].result = "error"
          BY <2>2, <4>1, <4>2
        <5>2. Failed(c, g)
          BY <4>2, <5>1 DEF Failed, m
        <5> QED  BY <3>1, <5>2 DEF Orderly
      <4>3. CASE i > m
        <5>1. j > m
          BY <2>2, <4>1, <4>3
        <5>2. i = j
          BY <2>2, <4>1, <4>3, <5>1
        <5> QED  BY <2>2, <4>1, <5>2
      <4> QED  BY <2>5, <4>2, <4>3
    <3> QED  BY <3>1, <3>2, <3>3 DEF Dismissed
  <2>8. CASE g \notin c.listeners[q]
    <3>1. Listening(d, g) <=> Listening(c, g)
      BY <2>1, <2>3, <2>8 DEF Listening
    <3>2. \A i \in 1 .. n : d.events[i].get = g => i \in 1 .. m /\ c.events[i] = d.events[i]
      BY <2>2, <2>5, <2>8
    <3>3. (Told(c, g) => Told(d, g)) /\ (Told(d, g) => Told(c, g))
      BY <2>2, <2>6, <3>2 DEF Told, m, n
    <3>4. Failed(d, g) => Failed(c, g)
      BY <3>2 DEF Failed, m, n
    <3>5. ErrorIsLast(d, g)
      BY <3>2 DEF Orderly, ErrorIsLast, m, n
    <3> QED  BY <3>1, <3>3, <3>4, <3>5 DEF Kept
  <2> QED  BY <2>7, <2>8
<1> QED  BY <1>1, <1>2

(* So does every step of the client.                                       *)
LEMMA SteppedMoves ==
  ASSUME NEW c, NEW d, NEW A, NEW g \in Gets, Sound(c), Heard(c, A), Stepped(c, d), Orderly(c, g)
  PROVE  Kept(c, d, g) \/ Dismissed(c, d, g)
<1>1. IsClient(c)
  BY DEF Sound, Base
<1>2. CASE Tells(c, d)
  BY <1>1, <1>2, TellsKeeps
<1>3. CASE Rejects(c, d)
  <2> DEFINE q == Head(c.stream.in).target
  <2>1. PICK b : Received(c, b) /\ Rejected(b, d, q)
    BY <1>3 DEF Rejects
  <2>2. q \in Queries
    BY <1>3 DEF Rejects
  <2> HIDE DEF q
  <2>3. IsClient(b) /\ Tells(c, b)
    BY <2>1 DEF Received, Tells
  <2>4. Kept(c, b, g) /\ Heard(b, A)
    BY <1>1, <2>3, TellsKeeps, TellsHeard
  <2>5. Orderly(b, g)
    BY <2>4 DEF Kept, Orderly
  <2>6. Kept(b, d, g) \/ Dismissed(b, d, g)
    BY <2>1, <2>2, <2>3, <2>4, <2>5, RejectedMoves
  <2> QED  BY <2>4, <2>6 DEF Kept, Dismissed
<1> QED  BY <1>2, <1>3, SteppedViews

(* And with either the get is called back once.                            *)
LEMMA OnceMoved ==
  ASSUME NEW c, NEW d, NEW g, NEW queue, NEW A, NEW M, NEW a, Once(c, g, queue, A, M, a),
         Kept(c, d, g) \/ Dismissed(c, d, g)
  PROVE  Once(d, g, queue, A, M, a)
BY DEF Once, Kept, Dismissed

(* A get that is to be called back once is in order.                       *)
LEMMA OnceOrderly ==
  ASSUME NEW c, NEW g, NEW queue, NEW A, NEW M, NEW a, Once(c, g, queue, A, M, a)
  PROVE  Orderly(c, g)
BY DEF Once, Orderly

(* A listener is added or removed by the task at the head of the queue.    *)
LEMMA OnceListens ==
  ASSUME NEW c, NEW v, NEW g \in Gets, NEW h \in Gets, NEW queue \in Seq(Task), queue # <<>>,
         NEW A, NEW M, NEW a, Once(c, h, queue, A, M, a), IsClient(c),
         Head(queue).get = g, g \in A,
         \/ /\ Head(queue).kind = "add"
            /\ Listens(c, v, QueryOf[g], c.listeners[QueryOf[g]] \cup {g})
         \/ /\ Head(queue).kind = "remove"
            /\ Listens(c, v, QueryOf[g], c.listeners[QueryOf[g]] \ {g})
  PROVE  Once(v, h, Tail(queue), A, M, a)
<1>1. /\ c.listeners \in [Queries -> SUBSET Gets] /\ QueryOf[g] \in Queries
      /\ QueryOf[h] \in Queries
  BY GetAssumption, Fields
<1>2. v.events = c.events
  BY DEF Listens
<1>3. /\ Told(v, h) <=> Told(c, h)
      /\ Failed(v, h) <=> Failed(c, h)
      /\ ErrorIsLast(v, h) <=> ErrorIsLast(c, h)
  BY <1>2 DEF Told, Failed, ErrorIsLast
<1>4. /\ \A kind : Awaits(Tail(queue), kind, h) => Awaits(queue, kind, h)
      /\ \A kind : Awaits(queue, kind, h) =>
           Awaits(Tail(queue), kind, h) \/ (Head(queue).kind = kind /\ Head(queue).get = h)
      /\ Awaits(queue, Head(queue).kind, g)
      /\ Single(queue, h) => Single(Tail(queue), h)
      /\ Single(queue, h) /\ Head(queue).kind = "add" /\ Head(queue).get = h
           => ~Awaits(Tail(queue), "add", h)
  BY AwaitsTail
<1>5. CASE Head(queue).kind = "add" /\ Listens(c, v, QueryOf[g], c.listeners[QueryOf[g]] \cup {g})
  <2>1. v.listeners = [c.listeners EXCEPT ![QueryOf[g]] = c.listeners[QueryOf[g]] \cup {g}]
    BY <1>5 DEF Listens
  <2>2. Listening(v, h) <=> Listening(c, h) \/ h = g
    BY <1>1, <2>1 DEF Listening
  <2>3. CASE h = g
    BY <1>3, <1>4, <1>5, <2>2, <2>3 DEF Once, Told, Failed
  <2>4. CASE h # g
    BY <1>3, <1>4, <2>2, <2>4 DEF Once
  <2> QED  BY <2>3, <2>4
<1>6. CASE Head(queue).kind = "remove" /\ Listens(c, v, QueryOf[g], c.listeners[QueryOf[g]] \ {g})
  <2>1. v.listeners = [c.listeners EXCEPT ![QueryOf[g]] = c.listeners[QueryOf[g]] \ {g}]
    BY <1>6 DEF Listens
  <2>2. Listening(v, h) <=> Listening(c, h) /\ h # g
    BY <1>1, <2>1 DEF Listening
  <2>3. CASE h = g
    <3>1. h \in M /\ Len(a) = 1
      BY <1>4, <1>6, <2>3 DEF Once
    <3>2. a # <<>>
      BY <3>1
    <3> QED  BY <1>3, <1>4, <1>6, <2>2, <2>3, <3>1, <3>2 DEF Once
  <2>4. CASE h # g
    BY <1>3, <1>4, <2>2, <2>4 DEF Once
  <2> QED  BY <2>3, <2>4
<1> QED  BY <1>5, <1>6

-----------------------------------------------------------------------------
(* The steps keep the second invariant.                                    *)
LEMMA GetDocumentsOnce ==
  ASSUME Sane, AllOnce, NEW g \in Gets, GetDocuments(g)
  PROVE  AllOnce'
<1> DEFINE t == [kind |-> "add", get |-> g]
<1>1. /\ g \notin asked /\ asked' = asked \cup {g} /\ workerQueue' = Append(workerQueue, t)
      /\ client' = client /\ muted' = muted /\ answers' = answers
  BY DEF GetDocuments
<1>2. /\ workerQueue \in Seq(Task) /\ muted \subseteq asked
      /\ \A i \in 1 .. Len(workerQueue) : workerQueue[i].get \in asked
      /\ Heard(client, asked)
  BY DEF Sane, AppOK
<1>3. t \in Task /\ t.kind = "add" /\ t.get = g
  BY DEF Task
<1> HIDE DEF t
<1>4. \A kind : ~Awaits(workerQueue, kind, g)
  BY <1>1, <1>2 DEF Awaits
<1>5. ~Listening(client, g) /\ ~Told(client, g)
  <2>1. QueryOf[g] \in Queries
    BY GetAssumption
  <2> QED  BY <1>1, <1>2, <2>1 DEF Heard, Listening, Told
<1>6. ASSUME NEW h \in Gets
      PROVE  Once(client, h, workerQueue', asked', muted, answers[h])
  <2>1. Once(client, h, workerQueue, asked, muted, answers[h])
    BY DEF AllOnce
  <2>2. /\ \A kind : Awaits(workerQueue', kind, h)
                       <=> Awaits(workerQueue, kind, h) \/ (t.kind = kind /\ t.get = h)
        /\ Single(workerQueue, h) /\ (t.kind # "add" \/ t.get # h \/ ~Awaits(workerQueue, "add", h))
             => Single(workerQueue', h)
    BY <1>1, <1>2, <1>3, AwaitsAppend
  <2>3. CASE h = g
    BY <1>1, <1>2, <1>3, <1>4, <1>5, <2>1, <2>2, <2>3 DEF Once
  <2>4. CASE h # g
    BY <1>1, <1>3, <2>1, <2>2, <2>4 DEF Once
  <2> QED  BY <2>3, <2>4
<1> QED  BY <1>1, <1>6 DEF AllOnce

(* An event is taken from the head.                                        *)
LEMMA ToldTail ==
  ASSUME NEW c, IsClient(c), NEW d, EventTaken(c, d), NEW g, ErrorIsLast(c, g)
  PROVE  /\ Listening(d, g) <=> Listening(c, g)
         /\ Told(d, g) => Told(c, g)
         /\ Told(c, g) => Told(d, g) \/ Head(c.events).get = g
         /\ Failed(d, g) => Failed(c, g)
         /\ ErrorIsLast(d, g)
         /\ Told(c, Head(c.events).get)
         /\ Head(c.events).get = g /\ Head(c.events).result = "error" =>
              Failed(c, g) /\ ~Told(d, g)
<1> DEFINE s == c.events
           t == d.events
           n == Len(s)
<1>1. s \in Seq(GetEvent) /\ s # <<>> /\ t = Tail(s) /\ d.listeners = c.listeners
  BY Fields DEF EventTaken
<1> HIDE DEF s, t
<1>2. /\ Head(s) = s[1] /\ n \in Nat /\ n >= 1 /\ Len(t) = n - 1
      /\ \A i \in 1 .. n - 1 : t[i] = s[i + 1]
  BY <1>1, TailIs
<1> HIDE DEF n
<1>3. \A i \in 1 .. n - 1 : i + 1 \in 1 .. n /\ 1 < i + 1
  BY <1>2
<1>4. \A i \in 1 .. n : i = 1 \/ (i - 1 \in 1 .. n - 1 /\ (i - 1) + 1 = i)
  BY <1>2
<1>5. 1 \in 1 .. n
  BY <1>2
<1>6. Listening(d, g) <=> Listening(c, g)
  BY <1>1 DEF Listening
<1>7. Told(d, g) => Told(c, g)
  BY <1>2, <1>3 DEF Told, s, t, n
<1>8. Told(c, g) => Told(d, g) \/ Head(s).get = g
  <2>1. SUFFICES ASSUME NEW i \in 1 .. n, s[i].get = g PROVE Told(d, g) \/ Head(s).get = g
    BY DEF Told, s, n
  <2>2. CASE i = 1
    BY <1>2, <2>1, <2>2
  <2>3. CASE i - 1 \in 1 .. n - 1 /\ (i - 1) + 1 = i
    <3>1. t[i - 1] = s[i] /\ i - 1 \in 1 .. Len(t)
      BY <1>2, <2>3
    <3> QED  BY <2>1, <3>1 DEF Told, t
  <2> QED  BY <1>4, <2>2, <2>3
<1>9. Failed(d, g) => Failed(c, g)
  BY <1>2, <1>3 DEF Failed, s, t, n
<1>10. ErrorIsLast(d, g)
  <2>1. SUFFICES ASSUME NEW i \in 1 .. n - 1, NEW j \in 1 .. n - 1, i < j,
                        t[i].get = g, t[j].get = g, t[i].result = "error"
                 PROVE  FALSE
    BY <1>2 DEF ErrorIsLast, t
  <2>2. i + 1 < j + 1 /\ i + 1 \in 1 .. n /\ j + 1 \in 1 .. n
    BY <1>3, <2>1
  <2>3. t[i] = s[i + 1] /\ t[j] = s[j + 1]
    BY <1>2
  <2> QED  BY <2>1, <2>2, <2>3 DEF ErrorIsLast, s, n
<1>11. Told(c, Head(s).get)
  BY <1>2, <1>5 DEF Told, s, n
<1>12. ASSUME Head(s).get = g, Head(s).result = "error" PROVE Failed(c, g) /\ ~Told(d, g)
  <2>1. Failed(c, g)
    BY <1>2, <1>5, <1>12 DEF Failed, s, n
  <2>2. SUFFICES ASSUME NEW i \in 1 .. n - 1, t[i].get = g PROVE FALSE
    BY <1>2, <2>1 DEF Told, t
  <2>3. t[i] = s[i + 1] /\ i + 1 \in 1 .. n /\ 1 < i + 1
    BY <1>2, <1>3
  <2> QED  BY <1>2, <1>5, <1>12, <2>2, <2>3 DEF ErrorIsLast, s, n
<1> QED  BY <1>6, <1>7, <1>8, <1>9, <1>10, <1>11, <1>12 DEF s

(* OnEvent: the get is called back, unless it is muted, and is to be       *)
(* removed.                                                                *)
LEMMA OnEventOnce ==
  ASSUME Sane, AllOnce, OnEvent
  PROVE  AllOnce'
<1> DEFINE c == client
           d == client'
           e == Head(client.events)
           g == e.get
           t == [kind |-> "remove", get |-> g]
<1>1. /\ asked' = asked
      /\ answers' = IF g \in muted THEN answers ELSE [answers EXCEPT ![g] = Append(@, e.result)]
      /\ muted' = IF e.result = "error" THEN muted ELSE muted \cup {g}
      /\ workerQueue' = IF g \in muted \/ e.result = "error" THEN workerQueue
                        ELSE Append(workerQueue, t)
  BY DEF OnEvent
<1>2. EventTaken(c, d) /\ e \in GetEvent /\ g \in asked
  BY OnEventDoes
<1>3. /\ workerQueue \in Seq(Task) /\ asked \subseteq Gets /\ IsClient(c)
      /\ answers \in [Gets -> Seq({"synced", "cached", "error"})]
  BY DEF Sane, AppOK, Sound, Base
<1>4. t \in Task /\ t.kind = "remove" /\ t.get = g
  BY <1>2 DEF Task, GetEvent
<1>5. g \in Gets /\ \A h \in Gets : h # g => answers'[h] = answers[h]
  BY <1>1, <1>2, <1>3
<1>6. g \notin muted => answers'[g] = Append(answers[g], e.result)
  BY <1>1, <1>3, <1>5
<1> HIDE DEF c, d, g, t
<1>7. ASSUME NEW h \in Gets
      PROVE  Once(d, h, workerQueue', asked', muted', answers'[h])
  <2>1. Once(c, h, workerQueue, asked, muted, answers[h])
    BY DEF AllOnce, c
  <2>2. ErrorIsLast(c, h)
    BY <2>1 DEF Once
  <2>3. /\ Listening(d, h) <=> Listening(c, h)
        /\ Told(d, h) => Told(c, h)
        /\ Told(c, h) => Told(d, h) \/ g = h
        /\ Failed(d, h) => Failed(c, h)
        /\ ErrorIsLast(d, h)
        /\ Told(c, g)
        /\ g = h /\ e.result = "error" => Failed(c, h) /\ ~Told(d, h)
    <3>1. /\ Listening(d, h) <=> Listening(c, h)
          /\ Told(d, h) => Told(c, h)
          /\ Told(c, h) => Told(d, h) \/ Head(c.events).get = h
          /\ Failed(d, h) => Failed(c, h)
          /\ ErrorIsLast(d, h)
          /\ Told(c, Head(c.events).get)
          /\ Head(c.events).get = h /\ Head(c.events).result = "error" =>
               Failed(c, h) /\ ~Told(d, h)
      BY <1>2, <1>3, <2>2, ToldTail
    <3>2. g = Head(c.events).get /\ e = Head(c.events)
      BY DEF g, c
    <3> HIDE DEF e
    <3> QED  BY <3>1, <3>2
  <2>4. /\ \A kind : Awaits(Append(workerQueue, t), kind, h)
                       <=> Awaits(workerQueue, kind, h) \/ (t.kind = kind /\ t.get = h)
        /\ Single(workerQueue, h) /\ (t.kind # "add" \/ t.get # h \/ ~Awaits(workerQueue, "add", h))
             => Single(Append(workerQueue, t), h)
    BY <1>3, <1>4, AwaitsAppend
  <2>5. /\ Awaits(workerQueue', "add", h) <=> Awaits(workerQueue, "add", h)
        /\ Awaits(workerQueue', "remove", h) =>
             Awaits(workerQueue, "remove", h) \/ (h = g /\ g \in muted')
        /\ Single(workerQueue, h) => Single(workerQueue', h)
    <3>1. CASE workerQueue' = workerQueue
      BY <3>1
    <3>2. CASE workerQueue' = Append(workerQueue, t) /\ g \in muted'
      BY <1>4, <2>4, <3>2
    <3> HIDE DEF e
    <3> QED  BY <1>1, <3>1, <3>2
  <2> HIDE DEF e
  <2>6. CASE h # g
    BY <1>1, <1>5, <2>1, <2>3, <2>5, <2>6 DEF Once
  <2>7. CASE h = g /\ g \in muted
    <3>1. answers' = answers /\ g \in muted'
      BY <1>1, <2>7
    <3>2. Len(answers[h]) = 1 /\ ~Awaits(workerQueue, "add", h)
      BY <2>1, <2>7 DEF Once
    <3>3. answers[h] # <<>>
      BY <3>2
    <3> QED  BY <1>1, <1>2, <2>1, <2>3, <2>5, <2>7, <3>1, <3>2, <3>3 DEF Once
  <2>8. CASE h = g /\ g \notin muted
    <3>1. answers[h] = <<>> /\ ~Awaits(workerQueue, "add", h)
      BY <2>1, <2>3, <2>8 DEF Once
    <3>2. answers'[h] = Append(<<>>, e.result)
      BY <1>6, <2>8, <3>1
    <3>3. Len(answers'[h]) = 1 /\ answers'[h] # <<>>
      BY <3>2
    <3>4. CASE e.result = "error"
      <4>1. Failed(c, h) /\ ~Told(d, h) /\ muted' = muted
        BY <1>1, <2>3, <2>8, <3>4
      <4>2. ~Listening(d, h) /\ ~Awaits(workerQueue, "remove", h)
        BY <2>1, <2>3, <2>8, <4>1 DEF Once
      <4> QED  BY <1>1, <1>2, <2>1, <2>3, <2>5, <2>8, <3>1, <3>3, <4>1, <4>2 DEF Once
    <3>5. CASE e.result # "error"
      <4>1. h \in muted'
        BY <1>1, <2>8, <3>5
      <4> QED  BY <1>1, <1>2, <2>1, <2>3, <2>5, <2>8, <3>1, <3>3, <4>1 DEF Once
    <3> QED  BY <3>4, <3>5
  <2> QED  BY <2>6, <2>7, <2>8
<1> QED  BY <1>7 DEF AllOnce, d

(* The tasks that add and remove listeners.                                *)
LEMMA ListenerTaskOnce ==
  ASSUME Sane, AllOnce, AddQueryListener \/ RemoveQueryListener
  PROVE  AllOnce'
<1> DEFINE c == client
           d == client'
           g == Head(workerQueue).get
           q == QueryOf[g]
<1>1. /\ workerQueue # <<>> /\ workerQueue' = Tail(workerQueue) /\ UNCHANGED appVars
      /\ g \in asked
      /\ \/ Head(workerQueue).kind = "add" /\ Added(c, d, g)
         \/ Head(workerQueue).kind = "remove" /\ Removed(c, d, g)
  BY AddQueryListenerDoes, RemoveQueryListenerDoes
<1>2. /\ workerQueue \in Seq(Task) /\ asked \subseteq Gets /\ IsClient(c) /\ Heard(c, asked)
      /\ asked' = asked /\ muted' = muted /\ answers' = answers
  BY <1>1 DEF Sane, AppOK, Sound, Base, appVars
<1>3. g \in Gets /\ q \in Queries
  BY <1>1, <1>2, GetAssumption
<1> HIDE DEF c, d, g
<1>4. PICK v : /\ Tells(v, d)
               /\ \/ Head(workerQueue).kind = "add" /\ Listens(c, v, q, c.listeners[q] \cup {g})
                  \/ Head(workerQueue).kind = "remove" /\ Listens(c, v, q, c.listeners[q] \ {g})
  BY <1>1 DEF Added, Removed
<1>5. IsClient(v) /\ Heard(v, asked)
  <2>1. c.listeners \in [Queries -> SUBSET Gets]
    BY <1>2, Fields
  <2>2. /\ IsClient(v) /\ v.events = c.events
        /\ \A x \in Queries : v.listeners[x] \subseteq c.listeners[x] \cup (IF x = q THEN {g} ELSE {})
    BY <1>3, <1>4, <2>1 DEF Listens, Sound, Base
  <2> QED  BY <1>1, <1>2, <2>2 DEF Heard
<1>6. ASSUME NEW h \in Gets
      PROVE  Once(d, h, workerQueue', asked, muted, answers[h])
  <2>1. Once(c, h, workerQueue, asked, muted, answers[h])
    BY DEF AllOnce, c
  <2>2. Head(workerQueue).get = g
    BY DEF g
  <2>3. Once(v, h, workerQueue', asked, muted, answers[h])
    BY <1>1, <1>2, <1>3, <1>4, <2>1, <2>2, OnceListens
  <2>4. Orderly(v, h)
    BY <2>3, OnceOrderly
  <2>5. Kept(v, d, h)
    BY <1>4, <1>5, <2>4, TellsKeeps
  <2> QED  BY <2>3, <2>5, OnceMoved
<1> QED  BY <1>2, <1>6 DEF AllOnce, d

(* The second invariant is kept by every step.                             *)
LEMMA NextOnce ==
  ASSUME Sane, AllOnce, [Next]_vars
  PROVE  AllOnce'
<1>1. CASE Streams \/ Backends
  <2>1. Stepped(client, client') /\ UNCHANGED <<workerQueue, appVars>>
    BY <1>1, ClientStepsDo
  <2>2. Sound(client) /\ Heard(client, asked)
    BY DEF Sane
  <2>3. /\ workerQueue' = workerQueue /\ asked' = asked /\ muted' = muted /\ answers' = answers
    BY <2>1 DEF appVars
  <2>4. ASSUME NEW g \in Gets
        PROVE  Once(client', g, workerQueue, asked, muted, answers[g])
    <3>1. Once(client, g, workerQueue, asked, muted, answers[g])
      BY DEF AllOnce
    <3>2. Orderly(client, g)
      BY <3>1, OnceOrderly
    <3>3. Kept(client, client', g) \/ Dismissed(client, client', g)
      BY <2>1, <2>2, <3>2, SteppedMoves
    <3> QED  BY <3>1, <3>3, OnceMoved
  <2> QED  BY <2>3, <2>4 DEF AllOnce
<1>2. CASE UNCHANGED vars
  BY <1>2 DEF vars, appVars, AllOnce
<1> QED  BY <1>1, <1>2, NextIs, GetDocumentsOnce, OnEventOnce, ListenerTaskOnce

(* The app is called back at most once for a get, and until then the get   *)
(* is somewhere.                                                           *)
THEOREM AnsweredOnceAlways == Spec => []AnsweredOnce
<1>1. Init => AllOnce
  <2>1. SUFFICES ASSUME Init, NEW g \in Gets
                 PROVE  Once(client, g, workerQueue, asked, muted, answers[g])
    BY DEF AllOnce
  <2>2. client.events = <<>> /\ client.listeners = [q \in Queries |-> {}]
    BY <2>1 DEF Init
  <2>3. workerQueue = <<>> /\ asked = {} /\ muted = {} /\ answers[g] = <<>>
    BY <2>1 DEF Init
  <2>4. QueryOf[g] \in Queries
    BY GetAssumption
  <2>5. ~Listening(client, g) /\ ~Told(client, g) /\ ~Failed(client, g) /\ ErrorIsLast(client, g)
    BY <2>2, <2>4 DEF Listening, Told, Failed, ErrorIsLast
  <2>6. ~Awaits(workerQueue, "add", g) /\ ~Awaits(workerQueue, "remove", g)
        /\ Single(workerQueue, g)
    BY <2>3 DEF Awaits, Single
  <2> QED  BY <2>3, <2>5, <2>6 DEF Once
<1>2. Sane /\ AllOnce /\ [Next]_vars => AllOnce'
  BY NextOnce
<1>3. ASSUME Sane, AllOnce PROVE AnsweredOnce
  <2>1. SUFFICES ASSUME NEW g \in asked, Len(answers[g]) # 1
                 PROVE  /\ answers[g] = <<>>
                        /\ \/ g \in client.listeners[QueryOf[g]]
                           \/ [kind |-> "add", get |-> g] \in ToSet(workerQueue)
                           \/ \E e \in ToSet(client.events) : e.get = g
    BY DEF AnsweredOnce
  <2>2. g \in Gets /\ workerQueue \in Seq(Task) /\ client.events \in Seq(GetEvent)
    BY <1>3, Fields DEF Sane, AppOK, Sound, Base
  <2>3. Once(client, g, workerQueue, asked, muted, answers[g])
    BY <1>3, <2>2 DEF AllOnce
  <2>4. answers[g] = <<>>
    BY <2>1, <2>3 DEF Once
  <2>5. Listening(client, g) \/ Awaits(workerQueue, "add", g) \/ Told(client, g)
    BY <2>3, <2>4 DEF Once
  <2>6. CASE Listening(client, g)
    BY <2>4, <2>6 DEF Listening
  <2>7. CASE Awaits(workerQueue, "add", g)
    <3>1. PICK i \in 1 .. Len(workerQueue) : workerQueue[i].kind = "add" /\ workerQueue[i].get = g
      BY <2>7 DEF Awaits
    <3>2. workerQueue[i] \in Task /\ i \in DOMAIN workerQueue
      BY <2>2
    <3>3. workerQueue[i] = [kind |-> "add", get |-> g]
      BY <3>1, <3>2 DEF Task
    <3> QED  BY <2>4, <3>2, <3>3 DEF ToSet
  <2>8. CASE Told(client, g)
    <3>1. PICK i \in 1 .. Len(client.events) : client.events[i].get = g
      BY <2>8 DEF Told
    <3>2. i \in DOMAIN client.events
      BY <2>2
    <3>3. client.events[i] \in ToSet(client.events)
      BY <3>2 DEF ToSet
    <3> QED  BY <2>4, <3>1, <3>3
  <2> QED  BY <2>5, <2>6, <2>7, <2>8
<1> QED  BY <1>1, <1>2, <1>3, SaneAlways, PTL DEF Spec

-----------------------------------------------------------------------------
(***************************************************************************)
(* The requests and answers of a target, on the stream.                    *)
(***************************************************************************)
(* A message of the kind about q.                                          *)
Has(s, kind, q) == \E i \in 1 .. Len(s) : s[i].kind = kind /\ s[i].target = q

(* Whatever of the kind `one` is about q is followed by one of `another`.  *)
Undone(s, one, another, q) ==
  \A i \in 1 .. Len(s) : s[i].kind = one /\ s[i].target = q =>
    \E j \in 1 .. Len(s) : i < j /\ s[j].kind = another /\ s[j].target = q

(* Nothing is counted where nothing is.                                    *)
LEMMA CountZero ==
  ASSUME NEW S, NEW s \in Seq(S), NEW kinds, NEW q
  PROVE  /\ Count(s, kinds, q) \in Nat
         /\ Count(s, kinds, q) = 0 <=>
              \A i \in 1 .. Len(s) : ~(s[i].kind \in kinds /\ s[i].target = q)
<1> DEFINE A == {i \in DOMAIN s : s[i].kind \in kinds /\ s[i].target = q}
           n == Len(s)
<1>1. n \in Nat /\ DOMAIN s = 1 .. n
  OBVIOUS
<1>2. IsFiniteSet(A)
  <2>1. IsFiniteSet(1 .. n) /\ A \subseteq 1 .. n
    BY <1>1, FS_Interval
  <2> QED  BY <2>1, FS_Subset
<1>3. Cardinality(A) \in Nat /\ (Cardinality(A) = 0 <=> A = {})
  BY <1>2, FS_CardinalityType, FS_EmptySet
<1>4. A = {} <=> \A i \in 1 .. n : ~(s[i].kind \in kinds /\ s[i].target = q)
  BY <1>1
<1> QED  BY <1>3, <1>4 DEF Count

(* Sequences joined.                                                       *)
LEMMA HasConcat ==
  ASSUME NEW S, NEW s \in Seq(S), NEW t \in Seq(S), NEW kind, NEW q
  PROVE  Has(s \o t, kind, q) <=> Has(s, kind, q) \/ Has(t, kind, q)
<1> DEFINE m == Len(s)
           n == Len(t)
           u == s \o t
<1>1. /\ m \in Nat /\ n \in Nat /\ Len(u) = m + n
      /\ \A i \in 1 .. m : u[i] = s[i]
      /\ \A i \in 1 .. n : u[m + i] = t[i]
  OBVIOUS
<1> HIDE DEF m, n, u
<1>2. /\ \A i \in 1 .. m : i \in 1 .. m + n
      /\ \A i \in 1 .. n : m + i \in 1 .. m + n
      /\ \A i \in 1 .. m + n : i \in 1 .. m \/ (i - m \in 1 .. n /\ m + (i - m) = i)
  BY <1>1
<1>3. ASSUME Has(u, kind, q) PROVE Has(s, kind, q) \/ Has(t, kind, q)
  <2>1. PICK i \in 1 .. m + n : u[i].kind = kind /\ u[i].target = q
    BY <1>1, <1>3 DEF Has
  <2>2. CASE i \in 1 .. m
    BY <1>1, <2>1, <2>2 DEF Has, m
  <2>3. CASE i - m \in 1 .. n /\ m + (i - m) = i
    <3>1. u[i] = t[i - m]
      BY <1>1, <2>3
    <3> QED  BY <2>1, <2>3, <3>1 DEF Has, n
  <2> QED  BY <1>2, <2>2, <2>3
<1>4. ASSUME Has(s, kind, q) PROVE Has(u, kind, q)
  BY <1>1, <1>2, <1>4 DEF Has, m
<1>5. ASSUME Has(t, kind, q) PROVE Has(u, kind, q)
  <2>1. PICK i \in 1 .. n : t[i].kind = kind /\ t[i].target = q
    BY <1>5 DEF Has, n
  <2>2. m + i \in 1 .. m + n /\ u[m + i] = t[i]
    BY <1>1, <1>2
  <2> QED  BY <1>1, <2>1, <2>2 DEF Has
<1> QED  BY <1>3, <1>4, <1>5 DEF u

(* Nothing is done anew behind s, and what s leaves done is undone there.  *)
LEMMA UndoneConcat ==
  ASSUME NEW S, NEW s \in Seq(S), NEW t \in Seq(S), NEW one, NEW another, NEW q, ~Has(t, one, q),
         Undone(s, one, another, q) \/ Has(t, another, q)
  PROVE  Undone(s \o t, one, another, q)
<1> DEFINE m == Len(s)
           n == Len(t)
           u == s \o t
<1>1. /\ m \in Nat /\ n \in Nat /\ Len(u) = m + n
      /\ \A i \in 1 .. m : u[i] = s[i]
      /\ \A i \in 1 .. n : u[m + i] = t[i]
  OBVIOUS
<1> HIDE DEF m, n, u
<1>2. /\ \A i \in 1 .. m : i \in 1 .. m + n
      /\ \A i \in 1 .. n : m + i \in 1 .. m + n
      /\ \A i \in 1 .. m + n : i \in 1 .. m \/ (i - m \in 1 .. n /\ m + (i - m) = i)
      /\ \A i \in 1 .. m, j \in 1 .. n : i < m + j
  BY <1>1
<1>3. SUFFICES ASSUME NEW i \in 1 .. m + n, u[i].kind = one, u[i].target = q
               PROVE  \E j \in 1 .. m + n : i < j /\ u[j].kind = another /\ u[j].target = q
  BY <1>1 DEF Undone, u
<1>4. i \in 1 .. m /\ s[i].kind = one /\ s[i].target = q
  <2>1. SUFFICES ASSUME i - m \in 1 .. n, m + (i - m) = i PROVE FALSE
    BY <1>1, <1>2, <1>3
  <2>2. u[i] = t[i - m]
    BY <1>1, <2>1
  <2> QED  BY <1>3, <2>1, <2>2 DEF Has, n
<1>5. CASE Undone(s, one, another, q)
  <2>1. PICK j \in 1 .. m : i < j /\ s[j].kind = another /\ s[j].target = q
    BY <1>4, <1>5 DEF Undone, m
  <2> QED  BY <1>1, <1>2, <2>1
<1>6. CASE Has(t, another, q)
  <2>1. PICK j \in 1 .. n : t[j].kind = another /\ t[j].target = q
    BY <1>6 DEF Has, n
  <2>2. u[m + j] = t[j] /\ m + j \in 1 .. m + n /\ i < m + j
    BY <1>1, <1>2, <1>4
  <2> QED  BY <2>1, <2>2
<1> QED  BY <1>5, <1>6

(* One message behind the others.                                          *)
LEMMA AppendMessage ==
  ASSUME NEW S, NEW s \in Seq(S), NEW e \in S, NEW one, NEW another, NEW q
  PROVE  /\ Has(Append(s, e), one, q) <=> Has(s, one, q) \/ (e.kind = one /\ e.target = q)
         /\ (~(e.kind = one /\ e.target = q) /\ Undone(s, one, another, q))
              => Undone(Append(s, e), one, another, q)
         /\ (e.kind = another /\ e.kind # one /\ e.target = q)
              => Undone(Append(s, e), one, another, q)
<1> DEFINE t == <<e>>
<1>1. Append(s, e) = s \o t /\ t \in Seq(S)
  OBVIOUS
<1>2. \A kind : Has(t, kind, q) <=> (e.kind = kind /\ e.target = q)
  BY DEF Has
<1> HIDE DEF t
<1>3. Has(s \o t, one, q) <=> Has(s, one, q) \/ Has(t, one, q)
  BY <1>1, HasConcat
<1>4. ~Has(t, one, q) /\ (Undone(s, one, another, q) \/ Has(t, another, q))
        => Undone(s \o t, one, another, q)
  BY <1>1, UndoneConcat
<1> QED  BY <1>1, <1>2, <1>3, <1>4

(* The message at the head is taken.                                       *)
LEMMA TailMessage ==
  ASSUME NEW S, NEW s \in Seq(S), s # <<>>, NEW one, NEW another, NEW q
  PROVE  /\ Has(s, one, q) <=> Has(Tail(s), one, q) \/ (Head(s).kind = one /\ Head(s).target = q)
         /\ Undone(s, one, another, q) =>
              /\ Undone(Tail(s), one, another, q)
              /\ Head(s).kind = one /\ Head(s).target = q => Has(Tail(s), another, q)
<1> DEFINE t == Tail(s)
           n == Len(s)
<1>1. /\ Head(s) = s[1] /\ n \in Nat /\ n >= 1 /\ Len(t) = n - 1
      /\ \A i \in 1 .. n - 1 : t[i] = s[i + 1]
  BY TailIs
<1> HIDE DEF t, n
<1>2. /\ \A i \in 1 .. n - 1 : i + 1 \in 1 .. n /\ 1 < i + 1
      /\ \A i \in 1 .. n : i = 1 \/ (i - 1 \in 1 .. n - 1 /\ (i - 1) + 1 = i)
      /\ \A i, j \in 1 .. n : i < j => j - 1 \in 1 .. n - 1 /\ (j - 1) + 1 = j /\ i - 1 < j - 1
      /\ 1 \in 1 .. n
  BY <1>1
<1>3. \A i \in 1 .. n : i - 1 \in 1 .. n - 1 => t[i - 1] = s[i]
  BY <1>1, <1>2
<1>4. Has(t, one, q) => Has(s, one, q)
  <2>1. SUFFICES ASSUME NEW i \in 1 .. n - 1, t[i].kind = one, t[i].target = q PROVE Has(s, one, q)
    BY <1>1 DEF Has
  <2>2. t[i] = s[i + 1] /\ i + 1 \in 1 .. n
    BY <1>1, <1>2
  <2> QED  BY <2>1, <2>2 DEF Has, n
<1>5. Head(s).kind = one /\ Head(s).target = q => Has(s, one, q)
  BY <1>1, <1>2 DEF Has, n
<1>6. Has(s, one, q) => Has(t, one, q) \/ (Head(s).kind = one /\ Head(s).target = q)
  <2>1. SUFFICES ASSUME NEW i \in 1 .. n, s[i].kind = one, s[i].target = q
                 PROVE  Has(t, one, q) \/ (Head(s).kind = one /\ Head(s).target = q)
    BY DEF Has, n
  <2>2. CASE i = 1
    BY <1>1, <2>1, <2>2
  <2>3. CASE i - 1 \in 1 .. n - 1
    <3>1. t[i - 1] = s[i] /\ i - 1 \in 1 .. Len(t)
      BY <1>1, <1>3, <2>3
    <3> QED  BY <2>1, <3>1 DEF Has
  <2> QED  BY <1>2, <2>2, <2>3
<1>7. ASSUME Undone(s, one, another, q) PROVE Undone(t, one, another, q)
  <2>1. SUFFICES ASSUME NEW i \in 1 .. n - 1, t[i].kind = one, t[i].target = q
                 PROVE  \E j \in 1 .. n - 1 : i < j /\ t[j].kind = another /\ t[j].target = q
    BY <1>1 DEF Undone
  <2>2. s[i + 1].kind = one /\ s[i + 1].target = q /\ i + 1 \in 1 .. n
    BY <1>1, <1>2, <2>1
  <2>3. PICK j \in 1 .. n : i + 1 < j /\ s[j].kind = another /\ s[j].target = q
    BY <1>7, <2>2 DEF Undone, n
  <2>4. j - 1 \in 1 .. n - 1 /\ i < j - 1
    BY <1>1, <2>3
  <2> QED  BY <1>3, <2>3, <2>4
<1>8. ASSUME Undone(s, one, another, q), Head(s).kind = one, Head(s).target = q
      PROVE  Has(t, another, q)
  <2>1. PICK j \in 1 .. n : 1 < j /\ s[j].kind = another /\ s[j].target = q
    BY <1>1, <1>2, <1>8 DEF Undone, n
  <2>2. t[j - 1] = s[j] /\ j - 1 \in 1 .. Len(t)
    BY <1>1, <1>2, <1>3, <2>1
  <2> QED  BY <2>1, <2>2 DEF Has
<1> QED  BY <1>4, <1>5, <1>6, <1>7, <1>8 DEF t

(* The requests for qs are about nothing else.                             *)
LEMMA RequestsHave ==
  ASSUME NEW kinds \in KindLists, NEW qs \in SUBSET Queries, NEW q
  PROVE  /\ Requests(kinds, qs) \in Seq(Request)
         /\ q \notin qs => ~Has(Requests(kinds, qs), "Watch", q)
                            /\ ~Has(Requests(kinds, qs), "Unwatch", q)
         /\ q \in qs /\ kinds = UnwatchOnce =>
              Has(Requests(kinds, qs), "Unwatch", q) /\ ~Has(Requests(kinds, qs), "Watch", q)
<1> DEFINE r == Requests(kinds, qs)
           both == {"Watch", "Unwatch"}
<1>1. r \in Seq(Request) /\ Count(r, both, q) = IF q \in qs THEN Len(kinds) ELSE 0
  BY RequestsAre
<1>2. Count(r, both, q) = 0 <=> \A i \in 1 .. Len(r) : ~(r[i].kind \in both /\ r[i].target = q)
  <2> HIDE DEF r, both
  <2> QED  BY <1>1, CountZero
<1>3. ASSUME kinds = UnwatchOnce, NEW i \in 1 .. Len(r) PROVE r[i].kind = "Unwatch"
  <2> DEFINE s == SetToSeq(qs)
  <2>1. Len(s) \in Nat
    <3>1. IsFiniteSet(qs)
      BY GetAssumption, FS_Subset
    <3> QED  BY <3>1, SetInOrder
  <2> HIDE DEF s
  <2>2. r = [k \in 1 .. 1 * Len(s) |->
              [kind |-> kinds[((k - 1) % 1) + 1], target |-> s[((k - 1) \div 1) + 1]]]
    BY <1>3 DEF Requests, UnwatchOnce, s
  <2>3. i \in 1 .. 1 * Len(s)
    <3>1. DOMAIN r = 1 .. 1 * Len(s) /\ DOMAIN r = 1 .. Len(r)
      <4>1. DOMAIN r = 1 .. 1 * Len(s)
        BY <2>2
      <4> HIDE DEF r
      <4>2. DOMAIN r = 1 .. Len(r)
        BY <1>1
      <4> QED  BY <4>1, <4>2
    <3> QED  BY <3>1
  <2>4. ((i - 1) % 1) + 1 = 1
    BY <2>1, <2>3
  <2> HIDE DEF r
  <2>5. r[i].kind = kinds[1]
    BY <2>2, <2>3, <2>4
  <2> QED  BY <1>3, <2>5 DEF UnwatchOnce
<1> HIDE DEF r
<1>4. q \notin qs => ~Has(r, "Watch", q) /\ ~Has(r, "Unwatch", q)
  BY <1>1, <1>2 DEF Has
<1>5. ASSUME q \in qs, kinds = UnwatchOnce PROVE Has(r, "Unwatch", q) /\ ~Has(r, "Watch", q)
  <2>1. Count(r, both, q) = 1
    BY <1>1, <1>5 DEF UnwatchOnce
  <2>2. Has(r, "Unwatch", q)
    BY <1>2, <1>3, <1>5, <2>1 DEF Has
  <2>3. ~Has(r, "Watch", q)
    BY <1>3, <1>5 DEF Has
  <2> QED  BY <2>2, <2>3
<1> QED  BY <1>1, <1>4, <1>5 DEF r

-----------------------------------------------------------------------------
(***************************************************************************)
(* How the count of a target's answers follows the answers that are to     *)
(* come, and what is known of a target that had no error.                  *)
(***************************************************************************)
Requesting == {"Watch", "Unwatch"}

Expect(c, q) == Count(c.stream.out, Requesting, q) + Count(c.stream.in, Answers, q)

(* Both are counted, and a request to unwatch q, or its answer, is among   *)
(* them.                                                                   *)
LEMMA ExpectIs ==
  ASSUME NEW c, IsClient(c), NEW q
  PROVE  /\ c.stream.out \in Seq(Request) /\ c.stream.in \in Seq(Message)
         /\ Count(c.stream.out, Requesting, q) \in Nat
         /\ Count(c.stream.in, Answers, q) \in Nat /\ Expect(c, q) \in Nat
         /\ Has(c.stream.out, "Unwatch", q) \/ Has(c.stream.in, "Removed", q) => Expect(c, q) # 0
<1>1. c.stream.out \in Seq(Request) /\ c.stream.in \in Seq(Message)
  BY StreamFields
<1>2. /\ Count(c.stream.out, Requesting, q) \in Nat
      /\ Count(c.stream.out, Requesting, q) = 0 =>
           \A i \in 1 .. Len(c.stream.out) :
             ~(c.stream.out[i].kind \in Requesting /\ c.stream.out[i].target = q)
  BY <1>1, CountZero
<1>3. /\ Count(c.stream.in, Answers, q) \in Nat
      /\ Count(c.stream.in, Answers, q) = 0 =>
           \A i \in 1 .. Len(c.stream.in) :
             ~(c.stream.in[i].kind \in Answers /\ c.stream.in[i].target = q)
  BY <1>1, CountZero
<1>4. Has(c.stream.out, "Unwatch", q) => Count(c.stream.out, Requesting, q) # 0
  BY <1>2 DEF Has, Requesting
<1>5. Has(c.stream.in, "Removed", q) => Count(c.stream.in, Answers, q) # 0
  BY <1>3 DEF Has, Answers
<1> QED  BY <1>1, <1>2, <1>3, <1>4, <1>5 DEF Expect

(* The count and the answers to come change alike.                         *)
Even(c, d, q) == Outstanding(d, q) + Expect(c, q) = Outstanding(c, q) + Expect(d, q)

(* The count is a number.                                                  *)
LEMMA OutstandingIs ==
  ASSUME NEW c, IsClient(c), NEW q \in Queries
  PROVE  Outstanding(c, q) \in Int
BY EnsuredIs

(* Requests are counted as they are sent.                                  *)
LEMMA RequestedEven ==
  ASSUME NEW c, NEW d, IsClient(c), IsClient(d), NEW kinds \in KindLists,
         NEW qs \in SUBSET Queries, Requested(c, d, kinds, qs), NEW q \in Queries
  PROVE  /\ Even(c, d, q) /\ d.stream.in = c.stream.in
         /\ Outstanding(d, q) = Outstanding(c, q) + IF q \in qs THEN Len(kinds) ELSE 0
         /\ Outstanding(c, q) \in Int
<1> DEFINE r == Requests(kinds, qs)
           n == IF q \in qs THEN Len(kinds) ELSE 0
<1>1. /\ d.stream.in = c.stream.in /\ d.stream.out = c.stream.out \o r
      /\ Outstanding(d, q) = Outstanding(c, q) + n
  BY DEF Requested
<1>2. r \in Seq(Request) /\ Count(r, Requesting, q) = n
  BY RequestsAre DEF Requesting
<1>3. c.stream.out \in Seq(Request)
  BY StreamFields
<1> HIDE DEF r, n
<1>4. /\ Count(c.stream.out, Requesting, q) \in Nat /\ Count(r, Requesting, q) \in Nat
      /\ Count(d.stream.out, Requesting, q)
           = Count(c.stream.out, Requesting, q) + Count(r, Requesting, q)
  BY <1>1, <1>2, <1>3, CountConcat
<1>5. Count(c.stream.in, Answers, q) \in Nat
  BY ExpectIs
<1>6. Outstanding(c, q) \in Int
  BY OutstandingIs
<1>7. Even(c, d, q)
  BY <1>1, <1>2, <1>4, <1>5, <1>6 DEF Even, Expect
<1> QED  BY <1>1, <1>6, <1>7 DEF n

(* What is known of the target q, unless it had an error.                  *)
Knows(c, q) ==
  /\ Outstanding(c, q) >= Expect(c, q)
  /\ q \notin c.targets =>
       /\ Undone(c.stream.out, "Watch", "Unwatch", q)
       /\ Undone(c.stream.in, "Added", "Removed", q) \/ Has(c.stream.out, "Unwatch", q)
       /\ IsCurrent(c, q) => Outstanding(c, q) # 0
  /\ q \in c.targets /\ IsCurrent(c, q) =>
       q \in c.rewatched \/ (Outstanding(c, q) = 0 /\ q \in c.told)

(* Nothing is known of a stream that is not open.                          *)
LEMMA CleanKnows ==
  ASSUME NEW c, IsClient(c), Clean(c), NEW q \in Queries
  PROVE  Knows(c, q)
<1>1. c.stream.out = <<>> /\ c.stream.in = <<>>
  BY DEF Clean
<1>2. Outstanding(c, q) = 0 /\ ~IsCurrent(c, q)
  BY CleanIs
<1>3. Expect(c, q) = 0
  BY <1>1, CountNone DEF Expect
<1>4. Undone(<<>>, "Watch", "Unwatch", q) /\ Undone(<<>>, "Added", "Removed", q)
  BY DEF Undone
<1> QED  BY <1>1, <1>2, <1>3, <1>4 DEF Knows

(* The same stream, and the same known of it.                              *)
LEMMA SameKnows ==
  ASSUME NEW c, NEW d, SameWire(c, d), NEW q \in Queries
  PROVE  (Knows(c, q) => Knows(d, q)) /\ Even(c, d, q) /\ d.stream = c.stream
<1>1. SameStream(c, d) /\ d.targets = c.targets
  BY DEF SameWire, SameStream
<1>2. /\ Outstanding(d, q) = Outstanding(c, q) /\ (IsCurrent(d, q) <=> IsCurrent(c, q))
      /\ d.stream = c.stream /\ Expect(d, q) = Expect(c, q)
      /\ d.told = c.told /\ d.rewatched = c.rewatched
  BY <1>1, SameStreamKnows DEF SameStream, Expect
<1> QED  BY <1>1, <1>2 DEF Knows, Even

(* Requests for other targets.                                             *)
LEMMA OthersRequested ==
  ASSUME NEW c, NEW d, IsClient(c), IsClient(d), NEW kinds \in KindLists,
         NEW qs \in SUBSET Queries, Requested(c, d, kinds, qs),
         NEW q \in Queries, q \notin qs, q \in d.targets <=> q \in c.targets, Knows(c, q)
  PROVE  Knows(d, q)
<1> DEFINE r == Requests(kinds, qs)
<1>1. /\ Even(c, d, q) /\ d.stream.in = c.stream.in
      /\ Outstanding(d, q) = Outstanding(c, q) /\ Outstanding(c, q) \in Int
  BY RequestedEven
<1>2. /\ d.stream.out = c.stream.out \o r /\ d.told = c.told /\ c.rewatched \subseteq d.rewatched
      /\ IsCurrent(d, q) <=> IsCurrent(c, q)
  BY DEF Requested
<1>3. r \in Seq(Request) /\ ~Has(r, "Watch", q)
  BY RequestsHave
<1>4. c.stream.out \in Seq(Request) /\ Expect(c, q) \in Nat /\ Expect(d, q) \in Nat
  BY ExpectIs
<1>5. Expect(d, q) = Expect(c, q)
  BY <1>1, <1>4 DEF Even
<1> HIDE DEF r
<1>6. Has(d.stream.out, "Unwatch", q) <=> Has(c.stream.out, "Unwatch", q) \/ Has(r, "Unwatch", q)
  BY <1>2, <1>3, <1>4, HasConcat
<1>7. Undone(c.stream.out, "Watch", "Unwatch", q) => Undone(d.stream.out, "Watch", "Unwatch", q)
  BY <1>2, <1>3, <1>4, UndoneConcat
<1> QED  BY <1>1, <1>2, <1>5, <1>6, <1>7 DEF Knows

(* RemoteStore::Listen: a target that was not watched.                     *)
LEMMA ListenKnows ==
  ASSUME NEW c, NEW d, IsClient(c), IsClient(d), NEW q \in Queries, q \notin c.targets,
         d.targets = c.targets \cup {q}, Requested(c, d, WatchOnce, {q}),
         NEW x \in Queries, Knows(c, x)
  PROVE  Knows(d, x)
<1>1. WatchOnce \in KindLists /\ {q} \in SUBSET Queries
  BY DEF WatchOnce, KindLists
<1>2. CASE x # q
  BY <1>1, <1>2, OthersRequested
<1>3. CASE x = q
  <2>1. /\ Even(c, d, q) /\ Outstanding(c, q) \in Int
        /\ Outstanding(d, q) = Outstanding(c, q) + Len(WatchOnce)
    BY <1>1, RequestedEven
  <2>2. Len(WatchOnce) = 1 /\ WatchOnce[1] = "Watch"
    BY DEF WatchOnce
  <2>3. Expect(c, q) \in Nat /\ Expect(d, q) \in Nat
    BY ExpectIs
  <2>4. Outstanding(d, q) >= Expect(d, q)
    BY <1>3, <2>1, <2>2, <2>3 DEF Knows, Even
  <2>5. ASSUME IsCurrent(d, q) PROVE q \in d.rewatched
    <3>1. IsCurrent(c, q)
      BY <2>5 DEF Requested
    <3>2. Outstanding(c, q) + 1 # 1
      BY <1>3, <2>1, <3>1 DEF Knows
    <3> QED  BY <2>2, <3>2 DEF Requested
  <2> QED  BY <1>3, <2>4, <2>5 DEF Knows
<1> QED  BY <1>2, <1>3

(* RemoteStore::StopListening.                                             *)
LEMMA UnlistenKnows ==
  ASSUME NEW c, NEW d, IsClient(c), IsClient(d), NEW q \in Queries,
         d.targets = c.targets \ {q}, Requested(c, d, UnwatchOnce, {q}),
         NEW x \in Queries, Knows(c, x)
  PROVE  Knows(d, x)
<1>1. UnwatchOnce \in KindLists /\ {q} \in SUBSET Queries
  BY DEF UnwatchOnce, KindLists
<1>2. CASE x # q
  BY <1>1, <1>2, OthersRequested
<1>3. CASE x = q
  <2> DEFINE r == Requests(UnwatchOnce, {q})
  <2>1. /\ Even(c, d, q) /\ Outstanding(c, q) \in Int
        /\ Outstanding(d, q) = Outstanding(c, q) + Len(UnwatchOnce)
    BY <1>1, RequestedEven
  <2>2. Len(UnwatchOnce) = 1
    BY DEF UnwatchOnce
  <2>3. Expect(c, q) \in Nat /\ Expect(d, q) \in Nat /\ c.stream.out \in Seq(Request)
    BY ExpectIs
  <2>4. Outstanding(d, q) >= Expect(d, q) /\ Outstanding(d, q) # 0
    BY <1>3, <2>1, <2>2, <2>3 DEF Knows, Even
  <2>5. r \in Seq(Request) /\ Has(r, "Unwatch", q) /\ ~Has(r, "Watch", q)
    BY <1>1, RequestsHave
  <2>6. d.stream.out = c.stream.out \o r
    BY DEF Requested
  <2> HIDE DEF r
  <2>7. Undone(d.stream.out, "Watch", "Unwatch", q)
    BY <2>3, <2>5, <2>6, UndoneConcat
  <2>8. Has(d.stream.out, "Unwatch", q)
    BY <2>3, <2>5, <2>6, HasConcat
  <2> QED  BY <1>3, <2>4, <2>7, <2>8 DEF Knows
<1> QED  BY <1>2, <1>3

(* RaiseWatchSnapshot: targets that are watched anew.                      *)
LEMMA AgainKnows ==
  ASSUME NEW c, NEW d, IsClient(c), IsClient(d), NEW qs \in SUBSET c.targets,
         d.targets = c.targets, Requested(c, d, Again, qs),
         NEW x \in Queries, Knows(c, x)
  PROVE  Knows(d, x)
<1>1. Again \in KindLists /\ qs \in SUBSET Queries
  BY Fields DEF Again, KindLists
<1>2. CASE x \notin qs
  BY <1>1, <1>2, OthersRequested
<1>3. CASE x \in qs
  <2>1. /\ Even(c, d, x) /\ Outstanding(c, x) \in Int
        /\ Outstanding(d, x) = Outstanding(c, x) + Len(Again)
    BY <1>1, <1>3, RequestedEven
  <2>2. Len(Again) = 2 /\ Again[2] = "Watch"
    BY DEF Again
  <2>3. Expect(c, x) \in Nat /\ Expect(d, x) \in Nat
    BY ExpectIs
  <2>4. Outstanding(d, x) >= Expect(d, x) /\ Outstanding(c, x) + 2 # 1
    BY <2>1, <2>2, <2>3 DEF Knows, Even
  <2>5. x \in d.rewatched
    BY <1>3, <2>2, <2>4 DEF Requested
  <2> QED  BY <1>3, <2>4, <2>5 DEF Knows
<1> QED  BY <1>2, <1>3

-----------------------------------------------------------------------------
(* What one step makes of the count of q, and of what is known of it.      *)
Follows(c, d, q) ==
  \/ ~IsOpen(d)
  \/ Outstanding(d, q) = Expect(d, q)
  \/ Has(d.stream.in, "Error", q)
  \/ c.stream.in # <<>> /\ Head(c.stream.in).kind = "Error" /\ Head(c.stream.in).target = q
  \/ /\ IsOpen(c) /\ Even(c, d, q)
     /\ Has(c.stream.in, "Error", q) => Has(d.stream.in, "Error", q)

Learns(c, d, q) == q \in c.dropped \/ Knows(c, q) => q \in d.dropped \/ Knows(d, q)

(* The stream has just been opened.                                        *)
LEMMA OpenedKnows ==
  ASSUME NEW c, NEW d, Sound(c), IsClient(d), Opened(c, d), NEW q \in Queries
  PROVE  Knows(d, q) /\ Outstanding(d, q) = Expect(d, q)
<1> DEFINE ts == c.targets
           r == Requests(WatchOnce, ts)
<1>1. /\ d.targets = ts /\ d.stream.out = r /\ d.stream.in = <<>>
      /\ Outstanding(d, q) = IF q \in ts THEN 1 ELSE 0
      /\ ~IsCurrent(d, q)
  BY DEF Opened
<1>2. ts \in SUBSET Queries /\ WatchOnce \in KindLists /\ Len(WatchOnce) = 1
  BY Fields DEF Sound, Base, WatchOnce, KindLists
<1> HIDE DEF ts
<1>3. Count(r, Requesting, q) = IF q \in ts THEN 1 ELSE 0
  BY <1>2, RequestsAre DEF Requesting
<1>4. q \notin ts => ~Has(r, "Watch", q)
  BY <1>2, RequestsHave
<1> HIDE DEF r
<1>5. Outstanding(d, q) = Expect(d, q) /\ Expect(d, q) \in Nat
  <2>1. Count(<<>>, Answers, q) = 0
    BY CountNone
  <2>2. Expect(d, q) = Count(r, Requesting, q) + Count(<<>>, Answers, q)
    BY <1>1 DEF Expect
  <2> DEFINE n == IF q \in ts THEN 1 ELSE 0
  <2>3. n \in Nat /\ Outstanding(d, q) = n /\ Count(r, Requesting, q) = n
    BY <1>1, <1>3
  <2> HIDE DEF n
  <2>4. Expect(d, q) = n + 0
    BY <2>1, <2>2, <2>3
  <2> QED  BY <2>3, <2>4
<1>6. Undone(<<>>, "Added", "Removed", q)
  BY DEF Undone
<1>7. q \notin ts => Undone(r, "Watch", "Unwatch", q)
  BY <1>4 DEF Has, Undone
<1> QED  BY <1>1, <1>5, <1>6, <1>7 DEF Knows

(* The aggregator knows nothing of a message before it is received.        *)
LEMMA SameKnownIs ==
  ASSUME NEW c, NEW d, SameKnown(c, d), NEW q
  PROVE  /\ Outstanding(d, q) = Outstanding(c, q) /\ (IsCurrent(d, q) <=> IsCurrent(c, q))
         /\ d.told = c.told /\ d.rewatched = c.rewatched /\ d.targets = c.targets
         /\ d.dropped = c.dropped
BY DEF SameKnown, Outstanding, IsCurrent

(* A message of the backend answers a request with an answer, or an error  *)
(* takes the answer's place.                                               *)
LEMMA ServedCounts ==
  ASSUME NEW c, NEW d, NEW m, IsClient(c), ServedWith(c, d, m), NEW q \in Queries
  PROVE  /\ Expect(c, q) \in Nat /\ Expect(d, q) \in Nat
         /\ Expect(d, q) = Expect(c, q) \/ (Expect(d, q) = Expect(c, q) - 1
                                             /\ m.kind = "Error" /\ m.target = q)
<1> DEFINE out == c.stream.out
           in == c.stream.in
<1>1. out \in Seq(Request) /\ in \in Seq(Message) /\ m \in Message
      /\ d.stream.in = Append(in, m) /\ IsClient(d)
  BY StreamFields DEF ServedWith, Served, Sound, Base
<1>2. Expect(c, q) \in Nat /\ Expect(d, q) \in Nat
  BY <1>1, ExpectIs
<1> DEFINE a == IF m.kind \in Answers /\ m.target = q THEN 1 ELSE 0
<1> HIDE DEF out, in
<1>3. Count(in, Answers, q) \in Nat /\ Count(d.stream.in, Answers, q) = Count(in, Answers, q) + a
  BY <1>1, CountAppend
<1>4. CASE m.kind \notin Answers /\ d.stream.out = out
  <2>1. Expect(d, q) = Expect(c, q)
    BY <1>3, <1>4 DEF Expect, in, out
  <2> QED  BY <1>2, <2>1
<1>5. CASE Answering(c, m) /\ d.stream.out = Tail(out)
  <2> DEFINE b == IF Head(out).kind \in Requesting /\ Head(out).target = q THEN 1 ELSE 0
  <2>1. /\ out # <<>> /\ m.target = Head(out).target
        /\ Head(out).kind \in Requesting
        /\ m.kind \in Answers \/ m.kind = "Error"
        /\ m.kind = "Error" => m.kind \notin Answers
    BY <1>5 DEF Answering, Requesting, Answers, out
  <2>2. /\ Count(Tail(out), Requesting, q) \in Nat
        /\ Count(out, Requesting, q) = Count(Tail(out), Requesting, q) + b
    BY <1>1, <2>1, CountTail
  <2>3. /\ Expect(c, q) = Count(out, Requesting, q) + Count(in, Answers, q)
        /\ Expect(d, q) = Count(Tail(out), Requesting, q) + Count(d.stream.in, Answers, q)
    BY <1>5 DEF Expect, out, in
  <2>4. CASE m.target # q
    BY <1>2, <1>3, <2>1, <2>2, <2>3, <2>4
  <2>5. CASE m.target = q /\ m.kind \in Answers
    BY <1>2, <1>3, <2>1, <2>2, <2>3, <2>5
  <2>6. CASE m.target = q /\ m.kind = "Error"
    BY <1>2, <1>3, <2>1, <2>2, <2>3, <2>6
  <2> QED  BY <2>1, <2>4, <2>5, <2>6
<1> QED  BY <1>4, <1>5 DEF ServedWith, out

(* The backend's messages.                                                 *)
LEMMA ServedStep ==
  ASSUME NEW c, NEW d, NEW m, IsClient(c), ServedWith(c, d, m), NEW q \in Queries
  PROVE  Follows(c, d, q) /\ Learns(c, d, q)
<1> DEFINE out == c.stream.out
           in == c.stream.in
<1>1. /\ out \in Seq(Request) /\ in \in Seq(Message) /\ m \in Message
      /\ d.stream.in = Append(in, m) /\ IsClient(d) /\ SameKnown(c, d) /\ IsOpen(c)
  BY StreamFields DEF ServedWith, Served, Sound, Base
<1>2. /\ Outstanding(d, q) = Outstanding(c, q) /\ (IsCurrent(d, q) <=> IsCurrent(c, q))
      /\ d.told = c.told /\ d.rewatched = c.rewatched /\ d.targets = c.targets
      /\ d.dropped = c.dropped
  BY <1>1, SameKnownIs
<1>3. /\ Expect(c, q) \in Nat /\ Expect(d, q) \in Nat
      /\ Expect(d, q) = Expect(c, q) \/ (Expect(d, q) = Expect(c, q) - 1
                                             /\ m.kind = "Error" /\ m.target = q)
  BY ServedCounts
<1>4. Outstanding(c, q) \in Int
  BY OutstandingIs
<1> HIDE DEF out, in
<1>5. /\ Has(d.stream.in, "Error", q) <=> Has(in, "Error", q) \/ (m.kind = "Error" /\ m.target = q)
      /\ (~(m.kind = "Added" /\ m.target = q) /\ Undone(in, "Added", "Removed", q))
           => Undone(d.stream.in, "Added", "Removed", q)
      /\ m.kind = "Removed" /\ m.target = q => Undone(d.stream.in, "Added", "Removed", q)
  <2>1. Has(Append(in, m), "Error", q) <=> Has(in, "Error", q) \/ (m.kind = "Error" /\ m.target = q)
    BY ONLY <1>1, AppendMessage
  <2>2. (~(m.kind = "Added" /\ m.target = q) /\ Undone(in, "Added", "Removed", q))
           => Undone(Append(in, m), "Added", "Removed", q)
    BY ONLY <1>1, AppendMessage
  <2>3. (m.kind = "Removed" /\ m.kind # "Added" /\ m.target = q)
           => Undone(Append(in, m), "Added", "Removed", q)
    BY ONLY <1>1, AppendMessage
  <2> QED  BY <1>1, <2>1, <2>2, <2>3
<1>6. Follows(c, d, q)
  <2>1. CASE m.kind = "Error" /\ m.target = q
    BY <1>5, <2>1 DEF Follows
  <2>2. CASE ~(m.kind = "Error" /\ m.target = q)
    BY <1>1, <1>2, <1>3, <1>5, <2>2 DEF Follows, Even, in
  <2> QED  BY <2>1, <2>2
<1>7. ASSUME Knows(c, q) PROVE Knows(d, q)
  <2>1. Outstanding(d, q) >= Expect(d, q)
    BY <1>2, <1>3, <1>4, <1>7 DEF Knows
  <2>2. ASSUME q \notin c.targets
        PROVE  /\ Undone(d.stream.out, "Watch", "Unwatch", q)
               /\ Undone(d.stream.in, "Added", "Removed", q) \/ Has(d.stream.out, "Unwatch", q)
    <3>1. /\ Undone(out, "Watch", "Unwatch", q)
          /\ Undone(in, "Added", "Removed", q) \/ Has(out, "Unwatch", q)
      BY <1>7, <2>2 DEF Knows, out, in
    <3>2. CASE m.kind \notin Answers /\ d.stream.out = out
      BY <1>5, <3>1, <3>2 DEF Answers
    <3>3. CASE Answering(c, m) /\ d.stream.out = Tail(out)
      <4>1. /\ out # <<>> /\ m.target = Head(out).target
            /\ \/ m.kind = "Added" /\ Head(out).kind = "Watch"
               \/ m.kind = "Removed" /\ Head(out).kind = "Unwatch"
               \/ m.kind = "Error" /\ Head(out).kind = "Watch"
        BY <3>3 DEF Answering, out
      <4>2. Has(out, "Unwatch", q) =>
              Has(Tail(out), "Unwatch", q) \/ (Head(out).kind = "Unwatch" /\ Head(out).target = q)
        BY <1>1, <4>1, TailMessage
      <4>3. /\ Undone(Tail(out), "Watch", "Unwatch", q)
            /\ Head(out).kind = "Watch" /\ Head(out).target = q => Has(Tail(out), "Unwatch", q)
        BY <1>1, <3>1, <4>1, TailMessage
      <4> QED  BY <1>5, <3>1, <3>3, <4>1, <4>2, <4>3
    <3> QED  BY <3>2, <3>3 DEF ServedWith, out
  <2>3. q \notin c.targets /\ IsCurrent(c, q) => Outstanding(c, q) # 0
    BY <1>7 DEF Knows
  <2>4. q \in c.targets /\ IsCurrent(c, q) =>
          q \in c.rewatched \/ (Outstanding(c, q) = 0 /\ q \in c.told)
    BY <1>7 DEF Knows
  <2> QED  BY <1>2, <2>1, <2>2, <2>3, <2>4 DEF Knows
<1> QED  BY <1>2, <1>6, <1>7 DEF Learns

(* The message is taken, and is no answer for q.                           *)
LEMMA ReceivedKnows ==
  ASSUME NEW c, NEW b, IsClient(c), c.stream.in # <<>>, Received(c, b), NEW q \in Queries
  PROVE  LET m == Head(c.stream.in)
             a == IF m.kind \in Answers /\ m.target = q THEN 1 ELSE 0
         IN  /\ Expect(c, q) \in Nat /\ Expect(b, q) \in Nat /\ Expect(c, q) = Expect(b, q) + a
             /\ Outstanding(b, q) = Outstanding(c, q) /\ Outstanding(c, q) \in Int
             /\ Has(c.stream.in, "Error", q) =>
                  Has(b.stream.in, "Error", q) \/ (m.kind = "Error" /\ m.target = q)
             /\ a = 0 /\ Knows(c, q) => Knows(b, q)
<1> DEFINE m == Head(c.stream.in)
           in == c.stream.in
           a == IF m.kind \in Answers /\ m.target = q THEN 1 ELSE 0
<1>1. /\ in \in Seq(Message) /\ in # <<>> /\ IsClient(b) /\ m = Head(in)
      /\ b.stream.in = Tail(in) /\ b.stream.out = c.stream.out /\ SameKnown(c, b)
  BY StreamFields DEF Received, Sound, Base
<1>2. /\ Outstanding(b, q) = Outstanding(c, q) /\ (IsCurrent(b, q) <=> IsCurrent(c, q))
      /\ b.told = c.told /\ b.rewatched = c.rewatched /\ b.targets = c.targets
  BY <1>1, SameKnownIs
<1>3. Outstanding(c, q) \in Int /\ Expect(c, q) \in Nat /\ Expect(b, q) \in Nat
      /\ Count(c.stream.out, Requesting, q) \in Nat
  BY <1>1, OutstandingIs, ExpectIs
<1> HIDE DEF m, in
<1>4. /\ Count(Tail(in), Answers, q) \in Nat
      /\ Count(in, Answers, q) = Count(Tail(in), Answers, q) + a
  BY <1>1, CountTail
<1>5. Expect(c, q) = Expect(b, q) + a
  <2>1. /\ Expect(c, q) = Count(c.stream.out, Requesting, q) + Count(in, Answers, q)
        /\ Expect(b, q) = Count(c.stream.out, Requesting, q) + Count(Tail(in), Answers, q)
    BY <1>1 DEF Expect, in
  <2>2. a \in Nat
    OBVIOUS
  <2> HIDE DEF a
  <2> QED  BY <1>3, <1>4, <2>1, <2>2
<1>6. Has(in, "Error", q) => Has(Tail(in), "Error", q) \/ (m.kind = "Error" /\ m.target = q)
  BY <1>1, TailMessage
<1>7. Undone(in, "Added", "Removed", q) => Undone(Tail(in), "Added", "Removed", q)
  BY <1>1, TailMessage
<1> HIDE DEF a
<1>8. ASSUME a = 0, Knows(c, q) PROVE Knows(b, q)
  <2>1. Expect(b, q) = Expect(c, q)
    BY <1>3, <1>5, <1>8
  <2> QED  BY <1>1, <1>2, <1>7, <1>8, <2>1 DEF Knows, in
<1> QED  BY <1>1, <1>2, <1>3, <1>5, <1>6, <1>8 DEF a, m, in

(* The same stream, count and currency, with all that was known.           *)
LEMMA HandledKnows ==
  ASSUME NEW b, NEW d, NEW q, Knows(b, q), d.stream = b.stream,
         q \in d.targets <=> q \in b.targets, Outstanding(d, q) = Outstanding(b, q),
         IsCurrent(d, q) => IsCurrent(b, q) \/ (IsActive(b, q) /\ q \in d.told),
         q \in b.rewatched => q \in d.rewatched, q \in b.told => q \in d.told
  PROVE  Knows(d, q)
<1>1. Expect(d, q) = Expect(b, q)
  BY DEF Expect
<1> QED  BY <1>1 DEF Knows, IsActive, IsPending

(* A message that is no answer for q.                                      *)
LEMMA DispatchedKnows ==
  ASSUME NEW b, NEW d, NEW m, Sound(b), Dispatched(b, d, m),
         m.kind # "Snapshot" => m.target \in Queries, NEW q \in Queries,
         ~(m.kind \in Answers /\ m.target = q), ~(m.kind = "Error" /\ m.target = q)
  PROVE  /\ Even(b, d, q) /\ d.stream.in = b.stream.in
         /\ b.dropped \subseteq d.dropped
         /\ Knows(b, q) => Knows(d, q)
<1>1. IsClient(b) /\ IsClient(d)
  BY DEF Sound, Base, Dispatched
<1>2. CASE m.kind = "Snapshot"
  <2>1. PICK qs \in SUBSET b.targets : Requested(b, d, Again, qs)
    BY <1>2 DEF Dispatched
  <2>2. d.targets = b.targets
    BY <1>2 DEF Dispatched
  <2>3. Again \in KindLists /\ qs \in SUBSET Queries
    BY <1>1, Fields DEF Again, KindLists
  <2>4. Even(b, d, q) /\ d.stream.in = b.stream.in
    BY <1>1, <2>1, <2>3, RequestedEven
  <2>5. Knows(b, q) => Knows(d, q)
    BY <1>1, <2>1, <2>2, AgainKnows
  <2>6. d.dropped = b.dropped
    BY <2>1 DEF Requested
  <2> QED  BY <2>4, <2>5, <2>6
<1>3. CASE m.kind # "Snapshot"
  <2> DEFINE t == m.target
  <2>1. t \in Queries
    BY <1>3
  <2>2. /\ d.stream = b.stream /\ Outstanding(d, q) = Outstanding(b, q)
        /\ q \in d.targets <=> q \in b.targets
        /\ IsCurrent(d, q) => IsCurrent(b, q) \/ (IsActive(b, q) /\ q \in d.told)
        /\ q \in b.rewatched => q \in d.rewatched
        /\ q \in b.told => q \in d.told
        /\ b.dropped \subseteq d.dropped
    <3>1. CASE m.kind = "Error"
      <4>1. Rejected(b, d, t) /\ q # t
        BY <3>1 DEF Dispatched
      <4> QED  BY <3>1, <4>1 DEF Rejected
    <3>2. CASE m.kind = "Added"
      <4>1. /\ Handled(b, d) /\ Counts(b, d, t, Outstanding(b, t) - 1) /\ OthersCurrent(b, d, t)
            /\ d.told = b.told \ {t} /\ d.rewatched = b.rewatched /\ q # t
        BY <3>2 DEF Dispatched, Answers
      <4> QED  BY <4>1 DEF Handled, Counts, OthersCurrent
    <3>3. CASE m.kind = "Removed"
      <4>1. /\ Handled(b, d) /\ Counts(b, d, t, Outstanding(b, t) - 1) /\ OthersCurrent(b, d, t)
            /\ d.told = b.told /\ b.rewatched \ {t} \subseteq d.rewatched /\ q # t
        BY <3>3 DEF Dispatched, Answers
      <4> QED  BY <4>1 DEF Handled, Counts, OthersCurrent
    <3>4. CASE m.kind \notin Answers \cup {"Error", "Snapshot"}
      <4>1. Quiet(b, d, t)
        BY <3>4 DEF Dispatched
      <4>2. /\ Handled(b, d) /\ d.rewatched = b.rewatched /\ b.told \subseteq d.told
            /\ Outstanding(d, q) = Outstanding(b, q)
        BY <4>1 DEF Quiet, Counts
      <4>3. CASE q = t
        BY <4>1, <4>2, <4>3 DEF Quiet, Handled
      <4>4. CASE q # t
        BY <4>1, <4>2, <4>4 DEF Quiet, Handled, OthersCurrent
      <4> QED  BY <4>3, <4>4
    <3> QED  BY <1>3, <3>1, <3>2, <3>3, <3>4 DEF Answers
  <2>3. Knows(b, q) => Knows(d, q)
    BY <2>2, HandledKnows
  <2>4. Even(b, d, q)
    BY <2>2 DEF Even, Expect
  <2> QED  BY <2>2, <2>3, <2>4
<1> QED  BY <1>2, <1>3

(* OnWatchStreamChange, for the target the message answers and for others. *)
LEMMA AnsweredStep ==
  ASSUME NEW c, NEW b, NEW d, IsClient(c), c.stream.in # <<>>, Received(c, b),
         Dispatched(b, d, Head(c.stream.in)), NEW q \in Queries,
         Head(c.stream.in).kind \in Answers, Head(c.stream.in).target = q
  PROVE  /\ Even(c, d, q) /\ d.stream.in = b.stream.in /\ d.dropped = b.dropped
         /\ Knows(c, q) => Knows(d, q)
<1> DEFINE m == Head(c.stream.in)
           in == c.stream.in
<1>1. m.kind \in Answers /\ m.target = q /\ Dispatched(b, d, m)
  OBVIOUS
<1>2. /\ Expect(c, q) \in Nat /\ Expect(b, q) \in Nat /\ Expect(c, q) = Expect(b, q) + 1
      /\ Outstanding(b, q) = Outstanding(c, q) /\ Outstanding(c, q) \in Int
  BY ReceivedKnows
<1>3. /\ in \in Seq(Message) /\ in # <<>> /\ IsClient(b) /\ m = Head(in)
      /\ b.stream.in = Tail(in) /\ b.stream.out = c.stream.out /\ SameKnown(c, b)
  BY StreamFields DEF Received, Sound, Base
<1>4. /\ IsCurrent(b, q) <=> IsCurrent(c, q)
      /\ b.told = c.told /\ b.rewatched = c.rewatched /\ b.targets = c.targets
  BY <1>3, SameKnownIs
<1> HIDE DEF m
<1>5. Handled(b, d) /\ Counts(b, d, q, Outstanding(b, q) - 1)
  BY <1>1 DEF Dispatched
<1>6. /\ d.stream = b.stream /\ d.targets = b.targets /\ d.dropped = b.dropped /\ IsClient(d)
      /\ Outstanding(d, q) = Outstanding(c, q) - 1
  BY <1>2, <1>5 DEF Handled, Counts
<1>7. Expect(d, q) = Expect(b, q)
  BY <1>6 DEF Expect
<1>8. Even(c, d, q)
  BY <1>2, <1>6, <1>7 DEF Even
<1>9. /\ m.kind = "Added" =>
           /\ IsCurrent(d, q) <=> IsCurrent(b, q)
           /\ d.rewatched = b.rewatched
      /\ m.kind = "Removed" =>
           IF Outstanding(b, q) = 1 THEN ~IsCurrent(d, q)
           ELSE (IsCurrent(d, q) <=> IsCurrent(b, q)) /\ d.rewatched = b.rewatched
  BY <1>1 DEF Dispatched
<1>10. m.kind = "Added" \/ m.kind = "Removed"
  BY <1>1 DEF Answers
<1> HIDE DEF in
<1>11. ASSUME Knows(c, q) PROVE Knows(d, q)
  <2>1. Outstanding(d, q) >= Expect(d, q) /\ Outstanding(c, q) >= 1
    BY <1>2, <1>6, <1>7, <1>11 DEF Knows
  <2>2. IsCurrent(d, q) => IsCurrent(c, q) /\ d.rewatched = c.rewatched
    BY <1>4, <1>9, <1>10
  <2>3. ASSUME q \notin c.targets
        PROVE  /\ Undone(d.stream.out, "Watch", "Unwatch", q)
               /\ Undone(d.stream.in, "Added", "Removed", q) \/ Has(d.stream.out, "Unwatch", q)
               /\ IsCurrent(d, q) => Outstanding(d, q) # 0
    <3>1. /\ Undone(c.stream.out, "Watch", "Unwatch", q)
          /\ Undone(in, "Added", "Removed", q) \/ Has(c.stream.out, "Unwatch", q)
      BY <1>11, <2>3 DEF Knows, in
    <3>2. Undone(in, "Added", "Removed", q) =>
            /\ Undone(Tail(in), "Added", "Removed", q)
            /\ m.kind = "Added" => Has(Tail(in), "Removed", q)
      BY <1>1, <1>3, TailMessage
    <3>3. /\ Undone(d.stream.out, "Watch", "Unwatch", q)
          /\ Undone(d.stream.in, "Added", "Removed", q) \/ Has(d.stream.out, "Unwatch", q)
      BY <1>3, <1>6, <3>1, <3>2
    <3>4. ASSUME IsCurrent(d, q) PROVE Outstanding(d, q) # 0
      <4>1. CASE m.kind = "Added"
        <5>1. Has(d.stream.in, "Removed", q) \/ Has(d.stream.out, "Unwatch", q)
          BY <1>3, <1>6, <3>1, <3>2, <4>1
        <5>2. Expect(d, q) # 0 /\ Expect(d, q) \in Nat
          BY <1>6, <5>1, ExpectIs
        <5> QED  BY <1>2, <1>6, <2>1, <5>2
      <4>2. CASE m.kind = "Removed"
        <5>1. Outstanding(c, q) # 1
          BY <1>2, <1>9, <3>4, <4>2
        <5> QED  BY <1>2, <1>6, <5>1
      <4> QED  BY <1>10, <4>1, <4>2
    <3> QED  BY <3>3, <3>4
  <2>4. q \in c.targets /\ IsCurrent(d, q) => q \in d.rewatched
    <3>1. q \in c.targets /\ IsCurrent(c, q) =>
            q \in c.rewatched \/ (Outstanding(c, q) = 0 /\ q \in c.told)
      BY <1>11 DEF Knows
    <3> QED  BY <1>2, <2>1, <2>2, <3>1
  <2> QED  BY <1>4, <1>6, <2>1, <2>3, <2>4 DEF Knows
<1> QED  BY <1>6, <1>8, <1>11

(* A message is received: the three cases of the above.                    *)
LEMMA ChangedStep ==
  ASSUME NEW c, NEW d, Sound(c), Changed(c, d), NEW q \in Queries
  PROVE  Follows(c, d, q) /\ Learns(c, d, q)
<1> DEFINE m == Head(c.stream.in)
<1>1. c.stream.in # <<>> /\ \E b : Received(c, b) /\ Dispatched(b, d, Head(c.stream.in))
  BY DEF Changed
<1>2. PICK b : Received(c, b) /\ Dispatched(b, d, m)
  BY <1>1
<1>3. IsClient(c)
  BY DEF Sound, Base
<1>4. /\ m.kind # "Snapshot" => m.target \in Queries
  BY <1>1, <1>3, MessageIs
<1>5. Sound(b) /\ b.dropped = c.dropped /\ IsOpen(c)
  BY <1>2 DEF Received, SameKnown
<1>6. /\ Has(c.stream.in, "Error", q) =>
           Has(b.stream.in, "Error", q) \/ (m.kind = "Error" /\ m.target = q)
      /\ Outstanding(b, q) = Outstanding(c, q) /\ Outstanding(c, q) \in Int
      /\ Expect(c, q) \in Nat /\ Expect(b, q) \in Nat
  BY ONLY <1>1, <1>2, <1>3, q \in Queries, ReceivedKnows
<1>7. CASE m.kind \in Answers /\ m.target = q
  <2>1. /\ Even(c, d, q) /\ d.stream.in = b.stream.in /\ d.dropped = b.dropped
        /\ Knows(c, q) => Knows(d, q)
    BY ONLY <1>1, <1>2, <1>3, <1>7, q \in Queries, AnsweredStep
  <2>2. ~(m.kind = "Error" /\ m.target = q)
    BY <1>7 DEF Answers
  <2> QED  BY <1>5, <1>6, <2>1, <2>2 DEF Follows, Learns
<1>8. CASE m.kind = "Error" /\ m.target = q
  <2>1. d.dropped = b.dropped \cup {q}
    BY <1>2, <1>8 DEF Dispatched, Rejected
  <2> QED  BY <1>1, <1>8, <2>1 DEF Follows, Learns
<1>9. CASE ~(m.kind \in Answers /\ m.target = q) /\ ~(m.kind = "Error" /\ m.target = q)
  <2>1. Expect(c, q) = Expect(b, q) /\ (Knows(c, q) => Knows(b, q))
    <3>1. LET a == IF m.kind \in Answers /\ m.target = q THEN 1 ELSE 0
          IN  /\ Expect(c, q) = Expect(b, q) + a
              /\ a = 0 /\ Knows(c, q) => Knows(b, q)
      BY ONLY <1>1, <1>2, <1>3, q \in Queries, ReceivedKnows
    <3> HIDE DEF m
    <3>2. /\ Expect(c, q) = Expect(b, q) + 0
          /\ Knows(c, q) => Knows(b, q)
      BY <1>9, <3>1
    <3> QED  BY <1>6, <3>2
  <2> HIDE DEF m
  <2>2. /\ Even(b, d, q) /\ d.stream.in = b.stream.in
        /\ b.dropped \subseteq d.dropped
        /\ Knows(b, q) => Knows(d, q)
    BY ONLY <1>2, <1>4, <1>5, <1>9, q \in Queries, DispatchedKnows
  <2>3. Even(c, d, q)
    BY <1>6, <2>1, <2>2 DEF Even
  <2> QED  BY <1>5, <1>6, <1>9, <2>1, <2>2, <2>3 DEF Follows, Learns
<1> QED  BY <1>7, <1>8, <1>9

(* The same stream, or one that is not open.                               *)
LEMMA SameStep ==
  ASSUME NEW c, NEW d, Sound(c), IsClient(d), SameWire(c, d), NEW q \in Queries
  PROVE  Follows(c, d, q) /\ Learns(c, d, q)
<1>1. (Knows(c, q) => Knows(d, q)) /\ Even(c, d, q) /\ d.stream = c.stream
  BY SameKnows
<1>2. d.dropped = c.dropped
  BY DEF SameWire
<1>3. IsOpen(c) <=> IsOpen(d)
  BY <1>1 DEF IsOpen
<1> QED  BY <1>1, <1>2, <1>3 DEF Follows, Learns

(* Nothing is to come on a stream that is not open.                        *)
LEMMA ClosedStep ==
  ASSUME NEW c, NEW d, Sound(d), ~IsOpen(d), NEW q \in Queries
  PROVE  Follows(c, d, q) /\ Learns(c, d, q)
<1>1. IsClient(d) /\ Clean(d)
  BY DEF Sound, Base
<1>2. Knows(d, q)
  BY <1>1, CleanKnows
<1> QED  BY <1>2 DEF Follows, Learns

(* The tasks of the stream, its timers, and the backend.                   *)
LEMMA SteppedStep ==
  ASSUME NEW c, NEW d, Sound(c), Stepped(c, d), NEW q \in Queries
  PROVE  Follows(c, d, q) /\ Learns(c, d, q)
<1>1. Sound(d) /\ IsClient(c) /\ IsClient(d)
  BY DEF Stepped, Sound, Base
<1>2. CASE Shows(c, d)
  BY <1>1, <1>2, SameStep DEF Shows
<1>3. CASE Ended(c, d)
  BY <1>1, <1>3, ClosedStep DEF Ended
<1>4. CASE Opened(c, d)
  <2>1. Knows(d, q) /\ Outstanding(d, q) = Expect(d, q)
    BY <1>1, <1>4, OpenedKnows
  <2> QED  BY <2>1 DEF Follows, Learns
<1>5. CASE Changed(c, d)
  BY <1>5, ChangedStep
<1>6. CASE \E m : ServedWith(c, d, m)
  BY <1>1, <1>6, ServedStep
<1> QED  BY <1>2, <1>3, <1>4, <1>5, <1>6 DEF Stepped

(* Requests for a target, in the words of the two.                         *)
LEMMA RequestedStep ==
  ASSUME NEW c, NEW d, IsClient(c), IsClient(d), NEW kinds \in KindLists,
         NEW qs \in SUBSET Queries, Requested(c, d, kinds, qs), NEW q \in Queries,
         Knows(c, q) => Knows(d, q)
  PROVE  Follows(c, d, q) /\ Learns(c, d, q)
<1>1. Even(c, d, q) /\ d.stream.in = c.stream.in
  BY RequestedEven
<1>2. d.dropped = c.dropped /\ d.stream.state = c.stream.state
  BY DEF Requested
<1>3. IsOpen(c) <=> IsOpen(d)
  BY <1>2 DEF IsOpen
<1> QED  BY <1>1, <1>2, <1>3 DEF Follows, Learns

(* The first listener is added.                                            *)
LEMMA AddedStep ==
  ASSUME NEW c, NEW d, NEW g \in Gets, Sound(c), Agree(c), Added(c, d, g), NEW q \in Queries
  PROVE  Follows(c, d, q) /\ Learns(c, d, q)
<1> DEFINE t == QueryOf[g]
<1>1. Sound(d) /\ IsClient(c) /\ IsClient(d) /\ t \in Queries
  BY GetAssumption DEF Added, Sound, Base
<1>2. CASE c.listeners[t] # {}
  <2>1. SameWire(c, d)
    BY <1>2 DEF Added
  <2> QED  BY <1>1, <2>1, SameStep
<1>3. CASE c.listeners[t] = {}
  <2>1. /\ d.targets = c.targets \cup {t}
        /\ IF IsOpen(c) THEN Requested(c, d, WatchOnce, {t}) ELSE ~IsOpen(d)
    BY <1>3 DEF Added
  <2>2. t \notin c.targets
    BY <1>3 DEF Agree
  <2>3. CASE ~IsOpen(c)
    BY <1>1, <2>1, <2>3, ClosedStep
  <2>4. CASE IsOpen(c)
    <3>1. Requested(c, d, WatchOnce, {t})
      BY <2>1, <2>4
    <3>2. WatchOnce \in KindLists /\ {t} \in SUBSET Queries
      BY <1>1 DEF WatchOnce, KindLists
    <3> HIDE DEF t
    <3>3. Knows(c, q) => Knows(d, q)
      BY <1>1, <2>1, <2>2, <3>1, ListenKnows
    <3> QED  BY <1>1, <3>1, <3>2, <3>3, RequestedStep
  <2> QED  BY <2>3, <2>4
<1> QED  BY <1>2, <1>3

(* The last listener is removed.                                           *)
LEMMA RemovedStep ==
  ASSUME NEW c, NEW d, NEW g \in Gets, Sound(c), Removed(c, d, g), NEW q \in Queries
  PROVE  Follows(c, d, q) /\ Learns(c, d, q)
<1> DEFINE t == QueryOf[g]
           last == c.listeners[t] # {} /\ c.listeners[t] \ {g} = {}
<1>1. Sound(d) /\ IsClient(c) /\ IsClient(d) /\ t \in Queries
  BY GetAssumption DEF Removed, Sound, Base
<1>2. CASE ~last
  <2>1. SameWire(c, d)
    BY <1>2 DEF Removed
  <2> QED  BY <1>1, <2>1, SameStep
<1>3. CASE last
  <2>1. /\ d.targets = c.targets \ {t}
        /\ IF IsOpen(c) THEN Requested(c, d, UnwatchOnce, {t}) ELSE ~IsOpen(d)
    BY <1>3 DEF Removed
  <2>2. CASE ~IsOpen(c)
    BY <1>1, <2>1, <2>2, ClosedStep
  <2>3. CASE IsOpen(c)
    <3>1. Requested(c, d, UnwatchOnce, {t})
      BY <2>1, <2>3
    <3>2. UnwatchOnce \in KindLists /\ {t} \in SUBSET Queries
      BY <1>1 DEF UnwatchOnce, KindLists
    <3> HIDE DEF t
    <3>3. Knows(c, q) => Knows(d, q)
      BY <1>1, <2>1, <3>1, UnlistenKnows
    <3> QED  BY <1>1, <3>1, <3>2, <3>3, RequestedStep
  <2> QED  BY <2>2, <2>3
<1> QED  BY <1>2, <1>3

(* Every step.                                                             *)
LEMMA NextFollows ==
  ASSUME Sane, [Next]_vars, NEW q \in Queries
  PROVE  client' = client \/ (Follows(client, client', q) /\ Learns(client, client', q))
<1>1. Sound(client) /\ Agree(client) /\ asked \subseteq Gets
  BY DEF Sane, AppOK
<1>2. CASE \E g \in Gets : GetDocuments(g)
  BY <1>2 DEF GetDocuments
<1>3. CASE OnEvent
  <2>1. EventTaken(client, client')
    BY <1>3, OnEventDoes
  <2>2. SameWire(client, client') /\ IsClient(client')
    BY <2>1 DEF EventTaken, Sound, Base
  <2> QED  BY <1>1, <2>2, SameStep
<1>4. CASE AddQueryListener
  <2> DEFINE g == Head(workerQueue).get
  <2>1. g \in asked /\ Added(client, client', g)
    BY <1>4, AddQueryListenerDoes
  <2> HIDE DEF g
  <2> QED  BY <1>1, <2>1, AddedStep
<1>5. CASE RemoveQueryListener
  <2> DEFINE g == Head(workerQueue).get
  <2>1. g \in asked /\ Removed(client, client', g)
    BY <1>5, RemoveQueryListenerDoes
  <2> HIDE DEF g
  <2> QED  BY <1>1, <2>1, RemovedStep
<1>6. CASE Streams \/ Backends
  <2>1. Stepped(client, client')
    BY <1>6, ClientStepsDo
  <2> QED  BY <1>1, <2>1, SteppedStep
<1>7. CASE UNCHANGED vars
  BY <1>7 DEF vars
<1> QED  BY <1>2, <1>3, <1>4, <1>5, <1>6, <1>7, NextIs

(* An error of q is the same message wherever it is.                       *)
LEMMA ErrorIs ==
  ASSUME NEW m \in Message, NEW q, m.kind = "Error", m.target = q
  PROVE  m = [kind |-> "Error", target |-> q]
BY DEF Message

(* An error of q is among the messages.                                    *)
LEMMA ErrorAmong ==
  ASSUME NEW s \in Seq(Message), NEW q
  PROVE  Has(s, "Error", q) <=> [kind |-> "Error", target |-> q] \in ToSet(s)
<1> DEFINE e == [kind |-> "Error", target |-> q]
<1>1. DOMAIN s = 1 .. Len(s) /\ \A i \in 1 .. Len(s) : s[i] \in Message
  OBVIOUS
<1>2. e.kind = "Error" /\ e.target = q
  OBVIOUS
<1>3. \A m \in Message : m.kind = "Error" /\ m.target = q => m = e
  BY ErrorIs
<1> HIDE DEF e
<1>4. e \in ToSet(s) <=> \E i \in 1 .. Len(s) : s[i] = e
  BY <1>1 DEF ToSet
<1>5. Has(s, "Error", q) <=> \E i \in 1 .. Len(s) : s[i] = e
  BY <1>1, <1>2, <1>3 DEF Has
<1> QED  BY <1>4, <1>5 DEF e

(* The definition of the property, in the words of the proof.              *)
LEMMA MiscountedIs ==
  ASSUME Sound(client), NEW q
  PROVE  Miscounted(q) <=> /\ IsOpen(client)
                           /\ Outstanding(client, q) # Expect(client, q)
                           /\ ~Has(client.stream.in, "Error", q)
<1>1. client.stream.in \in Seq(Message)
  BY StreamFields DEF Sound, Base
<1>2. Expected(q) = Expect(client, q)
  BY DEF Expected, Expect, Requesting, Answers
<1> QED  BY <1>1, <1>2, ErrorAmong DEF Miscounted

(* And the same of the next state.                                         *)
LEMMA MiscountedNextIs ==
  ASSUME Sound(client'), NEW q
  PROVE  Miscounted(q)' <=> /\ IsOpen(client')
                            /\ Outstanding(client', q) # Expect(client', q)
                            /\ ~Has(client'.stream.in, "Error", q)
<1> DEFINE d == client'
<1>1. d.stream.in \in Seq(Message)
  BY StreamFields DEF Sound, Base
<1>2. Expected(q)' = Expect(d, q)
  BY DEF Expected, Expect, Requesting, Answers
<1>3. Has(d.stream.in, "Error", q) <=> [kind |-> "Error", target |-> q] \in ToSet(d.stream.in)
  BY <1>1, ErrorAmong
<1> QED  BY <1>2, <1>3 DEF Miscounted

(* The aggregator waits for as many answers as are to come, until an error *)
(* of the target is received.                                              *)
THEOREM CountedUnlessDroppedAlways == Spec => CountedUnlessDropped
<1>1. ASSUME Sane, Sane', [Next]_vars, NEW q \in Queries, ~Miscounted(q), Miscounted(q)'
      PROVE  /\ client.stream.in # <<>>
             /\ Head(client.stream.in) = [kind |-> "Error", target |-> q]
  <2> DEFINE c == client
             d == client'
  <2>1. Sound(c) /\ Sound(d) /\ IsClient(c) /\ IsClient(d)
    BY <1>1 DEF Sane, Sound, Base
  <2>2. ~IsOpen(c) \/ Outstanding(c, q) = Expect(c, q) \/ Has(c.stream.in, "Error", q)
    BY <1>1, <2>1, MiscountedIs
  <2>3. IsOpen(d) /\ Outstanding(d, q) # Expect(d, q) /\ ~Has(d.stream.in, "Error", q)
    BY <1>1, <2>1, MiscountedNextIs
  <2>4. d = c \/ Follows(c, d, q)
    BY <1>1, NextFollows
  <2> HIDE DEF c, d
  <2>5. d # c
    BY <2>2, <2>3
  <2>6. /\ Outstanding(c, q) \in Int /\ Outstanding(d, q) \in Int
        /\ Expect(c, q) \in Nat /\ Expect(d, q) \in Nat
    BY <1>1, <2>1, OutstandingIs, ExpectIs
  <2>7. ~(Outstanding(c, q) = Expect(c, q) /\ Even(c, d, q))
    BY <2>3, <2>6 DEF Even
  <2>8. c.stream.in # <<>> /\ Head(c.stream.in).kind = "Error" /\ Head(c.stream.in).target = q
    BY <2>2, <2>3, <2>4, <2>5, <2>7 DEF Follows
  <2>9. Head(c.stream.in) \in Message
    BY <2>1, <2>8, MessageIs
  <2>10. Head(c.stream.in) = [kind |-> "Error", target |-> q]
    BY <2>8, <2>9, ErrorIs
  <2> QED  BY <2>8, <2>10 DEF c
<1>2. Sane /\ Sane' /\ [Next]_vars =>
        [\A q \in Queries : ~Miscounted(q) /\ Miscounted(q)' =>
           client.stream.in # <<>> /\ Head(client.stream.in) = [kind |-> "Error", target |-> q]]_vars
  BY <1>1
<1> QED  BY <1>2, SaneAlways, PTL DEF Spec, CountedUnlessDropped

-----------------------------------------------------------------------------
(***************************************************************************)
(* The third invariant: what is known of the targets.                      *)
(***************************************************************************)
AllKnown == \A q \in Queries : q \in client.dropped \/ Knows(client, q)

(* A target that is current, and had no error on this stream, was told so  *)
(* since it was added or was watched again.                                *)
THEOREM CurrentWasToldAlways == Spec => []CurrentWasTold
<1>1. Init => AllKnown
  <2>1. SUFFICES ASSUME Init, NEW q \in Queries PROVE Knows(client, q)
    BY DEF AllKnown
  <2>2. Sane
    BY <2>1, InitSane
  <2>3. client.stream = Closed("Initial")
    BY <2>1 DEF Init
  <2>4. ~IsOpen(client)
    BY <2>3 DEF IsOpen, Closed
  <2>5. IsClient(client) /\ Clean(client)
    BY <2>2, <2>4 DEF Sane, Sound, Base
  <2> QED  BY <2>5, CleanKnows
<1>2. Sane /\ AllKnown /\ [Next]_vars => AllKnown'
  <2>1. SUFFICES ASSUME Sane, AllKnown, [Next]_vars, NEW q \in Queries
                 PROVE  q \in client'.dropped \/ Knows(client', q)
    BY DEF AllKnown
  <2>2. q \in client.dropped \/ Knows(client, q)
    BY <2>1 DEF AllKnown
  <2>3. client' = client \/ Learns(client, client', q)
    BY <2>1, NextFollows
  <2> QED  BY <2>2, <2>3 DEF Learns
<1>3. ASSUME Sane, AllKnown PROVE CurrentWasTold
  <2>1. SUFFICES ASSUME NEW q \in DOMAIN client.states, IsActive(client, q),
                        client.states[q].current, q \notin client.dropped
                 PROVE  q \in client.told \cup client.rewatched
    BY DEF CurrentWasTold
  <2>2. q \in Queries
    BY <1>3 DEF Sane, Sound, Base, IsClient
  <2>3. Knows(client, q)
    BY <1>3, <2>1, <2>2 DEF AllKnown
  <2>4. IsCurrent(client, q) /\ q \in client.targets
    BY <2>1 DEF IsCurrent, IsActive
  <2> QED  BY <2>3, <2>4 DEF Knows
<1> QED  BY <1>1, <1>2, <1>3, SaneAlways, PTL DEF Spec
=============================================================================
