---------------------------- MODULE WriteSyncProofs ----------------------------
(***************************************************************************)
(* Machine-checked proofs about WriteSync, for any users, any length of    *)
(* the pipeline and any number of writes and faults, and the proof that it *)
(* implements PendingWrites.                                               *)
(*                                                                         *)
(* The sequences are related place by place: the pipeline to the queue     *)
(* (FrontOf), what is on the stream to the pipeline (Correlated).  What is *)
(* on the stream carries what the backend knows back to the queue          *)
(* (Answered), so that a batch that leaves the front of the queue is       *)
(* settled, and the writes that have left are all older than those that    *)
(* have not (Settled).                                                     *)
(***************************************************************************)
EXTENDS WriteSync, SequenceTheorems, WellFoundedInduction, TLAPS

(* Queue q holds writes of u, with growing ids and numbers.                *)
InOrder(q, u) ==
  \A i \in DOMAIN q :
    /\ q[i].id \in 1 .. nextBatchId - 1
    /\ q[i].write \in DOMAIN written /\ written[q[i].write] = u
    /\ \A j \in DOMAIN q : i < j => q[i].id < q[j].id /\ q[i].write < q[j].write

Ordered == nextBatchId # 0 /\ \A u \in Users : InOrder(mutations[u], u)

(* p is the front of q, with room for no more.                             *)
FrontOf(p, q) ==
  /\ Len(p) <= Len(q) /\ Len(p) <= kMaxPendingWrites
  /\ Len(p) = Len(q) \/ Len(p) = kMaxPendingWrites
  /\ \A i \in DOMAIN p : p[i] = q[i]

InQueue(w) == \E i \in DOMAIN mutations[written[w]] : mutations[written[w]][i].write = w

(* A write that has left its queue is older than all that have not, and it *)
(* was refused, or committed and followed by no older one.                 *)
Settled ==
  \A w \in DOMAIN written : ~InQueue(w) =>
    /\ \A i \in DOMAIN mutations[written[w]] : w < mutations[written[w]][i].write
    /\ w \in refused \/ (w \in committed /\ w <= latest[written[w]])

(* What is under way on an open stream: the handshake, then the pipeline.  *)
Correlated(s, p) ==
  /\ ~IsOpen(s) => s = Closed(s.state)
  /\ IsOpen(s) /\ ~s.handshakeComplete =>
       /\ Len(s.in) + Len(s.out) <= 1
       /\ \A i \in DOMAIN s.in : s.in[i] = Handshake
       /\ \A i \in DOMAIN s.out : s.out[i] = Handshake
  /\ IsOpen(s) /\ s.handshakeComplete =>
       /\ Len(s.in) <= Len(p)
       /\ \A i \in DOMAIN s.in : s.in[i] = p[i]
       /\ s.end = "no" => /\ Len(s.in) + Len(s.out) = Len(p)
                          /\ \A i \in DOMAIN s.out : s.out[i] = p[Len(s.in) + i]

(* What is answered is committed, and what ended the stream is refused.    *)
Answered(s, p) ==
  /\ IsOpen(s) /\ s.handshakeComplete =>
       \A i \in DOMAIN s.in : /\ p[i].write \in committed
                              /\ p[i].write <= latest[currentUser]
  /\ s.end = "permanent" => /\ IsOpen(s) /\ s.handshakeComplete
                            /\ Len(s.in) < Len(p) /\ p[Len(s.in) + 1].write \in refused

(* A stream is started while it is needed, and shakes hands only then.     *)
Needed(s, p) ==
  /\ s.idle => IsOpen(s) /\ p = <<>>
  /\ p # <<>> => IsStarted(s)
  /\ IsStarted(s) /\ ~s.handshakeComplete => p # <<>>

Streaming ==
  /\ FrontOf(pipeline, mutations[currentUser])
  /\ Correlated(stream, pipeline) /\ Answered(stream, pipeline) /\ Needed(stream, pipeline)

IInv ==
  /\ TypeOK /\ Len(outcome) = Len(written)
  /\ Ordered /\ Settled /\ Streaming /\ CallbackHasBatch

-----------------------------------------------------------------------------
(* Naturals and sequences.                                                 *)

(* A set of naturals that is not empty has a least element.                *)
LEMMA LeastNat ==
  ASSUME NEW T, T \subseteq Nat, T # {}
  PROVE  \E x \in T : \A y \in T : x <= y
<1>1. IsWellFoundedOn(OpToRel(<, Nat), Nat)
  BY NatLessThanWellFounded
<1>2. PICK x \in T : \A y \in T : ~(<<y, x>> \in OpToRel(<, Nat))
  BY <1>1, WFMin, Zenon
<1>3. \A y \in T : ~(y < x)
  BY <1>2 DEF OpToRel
<1>4. x \in Nat /\ \A y \in T : y \in Nat
  BY <1>2
<1>5. \A y \in T : x <= y
  BY <1>3, <1>4
<1> QED  BY <1>2, <1>5

(* A bounded set of naturals that is not empty has a greatest element.     *)
LEMMA MaxNat ==
  ASSUME NEW S, S \subseteq Nat, S # {}, NEW n \in Nat, \A y \in S : y <= n
  PROVE  Max(S) \in S /\ \A y \in S : y <= Max(S)
<1> DEFINE B == {b \in Nat : \A y \in S : y <= b}
<1>1. PICK m \in B : \A b \in B : m <= b
  BY LeastNat, n \in B, B \subseteq Nat, Zenon
<1>2. m \in S
  <2> SUFFICES ASSUME m \notin S PROVE FALSE
    OBVIOUS
  <2>1. m # 0
    <3>1. PICK y \in S : TRUE
      OBVIOUS
    <3>2. y <= m /\ y \in Nat /\ y # m
      BY <1>1
    <3> QED  BY <3>2
  <2>2. m - 1 \in B
    BY <1>1, <2>1
  <2> QED  BY <1>1, <2>2
<1> QED  BY <1>1, <1>2 DEF Max

(* A queue is a function from 1 .. its length to batches.                  *)
LEMMA BatchSeq ==
  ASSUME NEW q \in Seq(Batch)
  PROVE  /\ DOMAIN q = 1 .. Len(q) /\ Len(q) \in Nat
         /\ \A i \in DOMAIN q : q[i] \in Batch /\ q[i].id \in Nat /\ q[i].write \in Nat
<1>1. DOMAIN q = 1 .. Len(q) /\ Len(q) \in Nat /\ \A i \in DOMAIN q : q[i] \in Batch
  BY LenProperties, ElementOfSeq
<1>2. \A b \in Batch : b.id \in Nat /\ b.write \in Nat
  BY DEF Batch
<1> QED  BY <1>1, <1>2

(* Min of a set of two.                                                    *)
LEMMA MinPair ==
  ASSUME NEW a \in Int, NEW b \in Int
  PROVE  Min({a, b}) = IF a <= b THEN a ELSE b
BY DEF Min

Ascending(q) == \A i, j \in DOMAIN q : i < j => q[i].id < q[j].id

(* In a queue in order, what is sought is at the place with smaller ids    *)
(* before it.                                                              *)
LEMMA SeekAt ==
  ASSUME NEW q \in Seq(Batch), Ascending(q), NEW n \in 0 .. Len(q), NEW id \in Int,
         n > 0 => q[n].id < id, n < Len(q) => q[n + 1].id >= id
  PROVE  Seek(q, id) = n + 1
<1>1. DOMAIN q = 1 .. Len(q) /\ Len(q) \in Nat /\ \A i \in DOMAIN q : q[i].id \in Nat
  BY BatchSeq
<1> DEFINE P(i) == /\ \A j \in 1 .. i - 1 : q[j].id < id
                   /\ i <= Len(q) => q[i].id >= id
<1>2. P(n + 1) /\ n + 1 \in 1 .. Len(q) + 1
  <2>1. n + 1 \in 1 .. Len(q) + 1 /\ (n + 1 <= Len(q) => q[n + 1].id >= id)
    BY <1>1
  <2>2. ASSUME NEW j \in 1 .. (n + 1) - 1 PROVE q[j].id < id
    <3>1. j \in DOMAIN q /\ n \in DOMAIN q /\ n > 0 /\ (j = n \/ j < n)
      BY <1>1
    <3>2. q[j].id = q[n].id \/ q[j].id < q[n].id
      BY <3>1 DEF Ascending
    <3> QED  BY <1>1, <3>1, <3>2
  <2> QED  BY <2>1, <2>2
<1>3. ASSUME NEW i \in 1 .. Len(q) + 1, P(i) PROVE i = n + 1
  <2>1. CASE i < n + 1
    BY <1>1, <1>2, <1>3, <2>1
  <2>2. CASE i > n + 1
    BY <1>1, <1>2, <1>3, <2>2
  <2> QED  BY <1>1, <2>1, <2>2
<1>4. Seek(q, id) = CHOOSE i \in 1 .. Len(q) + 1 : P(i)
  BY DEF Seek
<1> HIDE DEF P
<1> QED  BY <1>2, <1>3, <1>4

(* The first batch of a queue in order is removed.                         *)
LEMMA RemoveHead ==
  ASSUME NEW q \in Seq(Batch), Ascending(q), q # <<>>
  PROVE  RemoveMutationBatch(q, Head(q).id) = Tail(q)
<1>1. Seek(q, Head(q).id) = 1
  <2>1. Head(q) = q[1] /\ q[1].id \in Int /\ Len(q) \in Nat /\ Len(q) > 0
    BY BatchSeq
  <2> QED  BY <2>1, SeekAt
<1>2. RemoveAt(q, 1) = SubSeq(q, 1, 0) \o SubSeq(q, 2, Len(q))
  BY DEF RemoveAt
<1>3. SubSeq(q, 1, 0) = <<>> /\ SubSeq(q, 2, Len(q)) = Tail(q) /\ Tail(q) \in Seq(Batch)
  BY TailIsSubSeq, HeadTailProperties
<1>4. Tail(q) = <<>> \o Tail(q)
  BY <1>3, ConcatEmptySeq
<1>5. RemoveMutationBatch(q, Head(q).id) = RemoveAt(q, Seek(q, Head(q).id))
  BY DEF RemoveMutationBatch
<1> QED  BY <1>1, <1>2, <1>3, <1>4, <1>5

(* FillWritePipeline: a pipeline that is at the front of the queue becomes *)
(* the front of the queue, with room for no more.                          *)
LEMMA Filled ==
  ASSUME NEW q \in Seq(Batch), Ascending(q), NEW p \in Seq(Batch),
         Len(p) <= Len(q), Len(p) <= kMaxPendingWrites, \A i \in DOMAIN p : p[i] = q[i]
  PROVE  /\ Added(p, q) \in Seq(Batch) /\ p \o Added(p, q) \in Seq(Batch)
         /\ FrontOf(p \o Added(p, q), q)
         /\ Len(p \o Added(p, q)) = Len(p) + Len(Added(p, q))
         /\ \A i \in DOMAIN Added(p, q) : Added(p, q)[i] = (p \o Added(p, q))[Len(p) + i]
         /\ \A i \in DOMAIN p : (p \o Added(p, q))[i] = p[i]
<1> DEFINE n == Len(p)
           next == NextMutationBatches(p, q)
           room == kMaxPendingWrites - n
           m == Min({Len(next), room})
           a == Added(p, q)
           f == p \o a
<1>1. /\ n \in Nat /\ Len(q) \in Nat /\ kMaxPendingWrites \in Nat
      /\ n <= Len(q) /\ n <= kMaxPendingWrites
      /\ DOMAIN p = 1 .. n
  BY WriteAssumption, BatchSeq
<1>2. next = SubSeq(q, n + 1, Len(q))
  <2>1. CASE n = 0
    <3>1. p = <<>>
      BY <2>1
    <3>2. Seek(q, 0) = 0 + 1
      <4>1. 0 \in 0 .. Len(q) /\ 0 < Len(q) => q[0 + 1].id >= 0
        BY <1>1, BatchSeq
      <4> QED  BY <4>1, <1>1, SeekAt
    <3> QED  BY <2>1, <3>1, <3>2 DEF NextMutationBatches
  <2>2. CASE n > 0
    <3>1. p # <<>> /\ Last(p).id = q[n].id /\ q[n].id \in Nat
      BY <1>1, <2>2, BatchSeq DEF Last
    <3>2. n < Len(q) => q[n + 1].id >= q[n].id + 1
      <4> SUFFICES ASSUME n < Len(q) PROVE q[n + 1].id >= q[n].id + 1
        OBVIOUS
      <4>1. n \in DOMAIN q /\ n + 1 \in DOMAIN q /\ n < n + 1
        BY <1>1, <2>2
      <4>2. q[n].id < q[n + 1].id
        BY <4>1 DEF Ascending
      <4>3. q[n].id \in Nat /\ q[n + 1].id \in Nat
        BY <4>1, BatchSeq
      <4> QED  BY <4>2, <4>3
    <3>3. Seek(q, q[n].id + 1) = n + 1
      BY <1>1, <2>2, <3>1, <3>2, SeekAt
    <3> QED  BY <3>1, <3>3 DEF NextMutationBatches
  <2> QED  BY <1>1, <2>1, <2>2
<1>0. \A i \in 1 .. n : p[i] = q[i]
  BY <1>1
<1> HIDE DEF n, next
<1>3. next \in Seq(Batch) /\ Len(next) = Len(q) - n /\ \A i \in 1 .. Len(q) - n : next[i] = q[n + i]
  <2>1. n + 1 \in 1 .. Len(q) + 1 /\ Len(q) \in (n + 1) - 1 .. Len(q)
    BY <1>1
  <2>2. /\ SubSeq(q, n + 1, Len(q)) \in Seq(Batch)
        /\ Len(SubSeq(q, n + 1, Len(q))) = Len(q) - (n + 1) + 1
        /\ \A i \in 1 .. Len(q) - (n + 1) + 1 : SubSeq(q, n + 1, Len(q))[i] = q[(n + 1) + i - 1]
    BY <2>1, SubSeqProperties
  <2>3. next = SubSeq(q, n + 1, Len(q)) /\ Len(q) - (n + 1) + 1 = Len(q) - n
    BY <1>1, <1>2
  <2>4. \A i \in 1 .. Len(q) - n : (n + 1) + i - 1 = n + i
    BY <1>1
  <2> DEFINE r == SubSeq(q, n + 1, Len(q))
             k == Len(q) - (n + 1) + 1
  <2>5. r \in Seq(Batch) /\ Len(r) = k /\ \A i \in 1 .. k : r[i] = q[(n + 1) + i - 1]
    BY ONLY <2>2
  <2>6. next = r /\ k = Len(q) - n
    BY ONLY <2>3
  <2> HIDE DEF r, k
  <2> QED  BY ONLY <2>4, <2>5, <2>6
<1>4. m \in 0 .. Len(next) /\ m <= room /\ (m = Len(next) \/ m = room)
  <2>1. Len(next) \in Nat /\ room \in Nat
    BY ONLY <1>1, <1>3
  <2> HIDE DEF room
  <2>2. m = IF Len(next) <= room THEN Len(next) ELSE room
    BY ONLY <2>1, MinPair
  <2> HIDE DEF m
  <2> QED  BY ONLY <2>1, <2>2
<1>5. a = SubSeq(next, 1, m)
  BY DEF Added, next, n
<1> HIDE DEF a, m
<1>6. a \in Seq(Batch) /\ Len(a) = m /\ \A i \in 1 .. m : a[i] = q[n + i]
  <2>1. /\ SubSeq(next, 1, m) \in Seq(Batch)
        /\ Len(SubSeq(next, 1, m)) = m - 1 + 1
        /\ \A i \in 1 .. m - 1 + 1 : SubSeq(next, 1, m)[i] = next[1 + i - 1]
    BY <1>3, <1>4, SubSeqProperties
  <2>2. a \in Seq(Batch) /\ Len(a) = m /\ \A i \in 1 .. m : a[i] = next[i]
    BY <1>3, <1>4, <1>5, <2>1
  <2>3. \A i \in 1 .. m : i \in 1 .. Len(q) - n
    BY <1>1, <1>3, <1>4
  <2> QED  BY <1>3, <2>2, <2>3
<1>7. /\ f \in Seq(Batch) /\ Len(f) = n + m
      /\ \A i \in 1 .. n + m : f[i] = IF i <= n THEN p[i] ELSE a[i - n]
  BY <1>1, <1>4, <1>6, ConcatProperties DEF n
<1>8. DOMAIN f = 1 .. n + m /\ DOMAIN a = 1 .. m
  BY <1>6, <1>7, LenProperties
<1> HIDE DEF f
<1>9. m \in Nat /\ n + m <= Len(q) /\ n + m <= kMaxPendingWrites
      /\ (n + m = Len(q) \/ n + m = kMaxPendingWrites)
  BY <1>1, <1>3, <1>4
<1>10. \A i \in 1 .. n + m : f[i] = q[i]
  <2> SUFFICES ASSUME NEW i \in 1 .. n + m PROVE f[i] = q[i]
    OBVIOUS
  <2>1. CASE i <= n
    BY <1>0, <1>1, <1>7, <1>9, <2>1
  <2>2. CASE ~(i <= n)
    <3>1. i - n \in 1 .. m /\ n + (i - n) = i
      BY <1>1, <1>9, <2>2
    <3> QED  BY <1>6, <1>7, <2>2, <3>1
  <2> QED  BY <2>1, <2>2
<1>11. FrontOf(f, q)
  BY <1>7, <1>8, <1>9, <1>10 DEF FrontOf
<1>12. \A i \in DOMAIN a : a[i] = f[n + i]
  <2> SUFFICES ASSUME NEW i \in 1 .. m PROVE a[i] = f[n + i]
    BY <1>8
  <2>1. n + i \in 1 .. n + m
    BY <1>1, <1>9
  <2> QED  BY <1>6, <1>10, <2>1
<1>13. \A i \in DOMAIN p : f[i] = p[i]
  BY <1>1, <1>7, <1>9
<1> QED  BY <1>6, <1>7, <1>11, <1>12, <1>13 DEF a, f, n

-----------------------------------------------------------------------------
(* The stream.                                                             *)

(* Streams with equal fields are equal.                                    *)
LEMMA SameStream ==
  ASSUME NEW r \in Stream, NEW s \in Stream, r.state = s.state, r.idle = s.idle,
         r.handshakeComplete = s.handshakeComplete, r.out = s.out, r.in = s.in, r.end = s.end
  PROVE  r = s
BY DEF Stream

(* A closed stream has nothing under way.                                  *)
LEMMA ClosedStream ==
  ASSUME NEW x \in {"Initial", "Starting", "Error", "Backoff"}, NEW p
  PROVE  /\ Closed(x) \in Stream /\ Closed(x).state = x
         /\ ~Closed(x).handshakeComplete /\ ~Closed(x).idle /\ ~IsOpen(Closed(x))
         /\ Correlated(Closed(x), p) /\ Answered(Closed(x), p)
         /\ StartStream(Closed(x)) = Closed(IF x = "Error" THEN "Backoff" ELSE "Starting")
<1>1. <<>> \in Seq(Batch)
  OBVIOUS
<1>2. Closed(x) \in Stream
  BY <1>1 DEF Closed, Stream
<1>3. /\ Closed(x).state = x /\ Closed(x).end = "no"
      /\ ~Closed(x).handshakeComplete /\ ~Closed(x).idle /\ ~IsOpen(Closed(x))
  BY DEF Closed, IsOpen
<1>4. Correlated(Closed(x), p) /\ Answered(Closed(x), p)
  BY <1>3 DEF Correlated, Answered
<1>5. StartStream(Closed(x)) = Closed(IF x = "Error" THEN "Backoff" ELSE "Starting")
  <2> DEFINE y == IF x = "Error" THEN "Backoff" ELSE "Starting"
  <2>1. Closed(y) \in Stream
    BY <1>1 DEF Closed, Stream
  <2>2. StartStream(Closed(x)) = [Closed(x) EXCEPT !.state = y]
    BY <1>3 DEF StartStream
  <2>3. [Closed(x) EXCEPT !.state = y] \in Stream
    BY <1>2 DEF Stream
  <2>4. [Closed(x) EXCEPT !.state = y] = Closed(y)
    BY <2>1, <2>3, SameStream DEF Closed
  <2> QED  BY <2>2, <2>4
<1> QED  BY <1>2, <1>3, <1>4, <1>5

(* What FillWritePipeline does to the stream.                              *)
LEMMA FilledStreamIs ==
  ASSUME NEW p \in Seq(Batch), NEW q, NEW s \in Stream, Added(p, q) \in Seq(Batch)
  PROVE  LET a == Added(p, q)
             t == FilledStream(p, q, s)
         IN  /\ t \in Stream /\ t.in = s.in /\ t.end = s.end
             /\ t.handshakeComplete = s.handshakeComplete /\ (IsOpen(t) <=> IsOpen(s))
             /\ t.out = IF IsOpen(s) /\ s.handshakeComplete THEN s.out \o a ELSE s.out
             /\ p \o a # <<>> => IsStarted(t)
             /\ IsStarted(t) => IsStarted(s) \/ p \o a # <<>>
             /\ t.idle => (IsOpen(s) /\ p \o a = <<>>) \/ s.idle
             /\ IsOpen(s) /\ s.handshakeComplete /\ p = <<>> /\ p \o a # <<>> => ~t.idle
             /\ ~IsOpen(s) /\ s = Closed(s.state) => t = Closed(t.state)
<1> DEFINE a == Added(p, q)
           t == FilledStream(p, q, s)
           sent == IF IsOpen(s) /\ s.handshakeComplete THEN Send(s, a) ELSE s
           full == p \o a
<1>1. a \in Seq(Batch)
  OBVIOUS
<1>2. s.out \o a \in Seq(Batch) /\ s.out \in Seq(Batch) /\ s.out \o <<>> = s.out
  BY <1>1, ConcatProperties, ConcatEmptySeq DEF Stream
<1>3. p = <<>> /\ a = <<>> => full = <<>>
  OBVIOUS
<1>4. t = CASE full = <<>>                    -> MarkIdle(sent)
            [] full # <<>> /\ IsStarted(sent) -> sent
            [] OTHER                          -> StartStream(sent)
  BY DEF FilledStream
<1> HIDE DEF a, full, t
<1>5. /\ sent \in Stream /\ sent.in = s.in /\ sent.end = s.end /\ sent.state = s.state
      /\ sent.handshakeComplete = s.handshakeComplete
      /\ sent.out = IF IsOpen(s) /\ s.handshakeComplete THEN s.out \o a ELSE s.out
      /\ sent.idle => s.idle
      /\ IsOpen(s) /\ s.handshakeComplete /\ a # <<>> => ~sent.idle
      /\ ~IsOpen(s) => sent = s
  BY <1>2 DEF Send, Stream
<1> HIDE DEF sent
<1>6. CASE full = <<>>
  BY <1>4, <1>5, <1>6 DEF MarkIdle, Stream, IsOpen, IsStarted, a, full, t
<1>7. CASE full # <<>> /\ IsStarted(sent)
  <2>1. t = sent
    BY <1>4, <1>7
  <2> QED  BY <1>3, <1>5, <1>7, <2>1 DEF IsOpen, IsStarted, a, full, t
<1>8. CASE full # <<>> /\ ~IsStarted(sent)
  <2>1. t = StartStream(sent)
    BY <1>4, <1>8
  <2>2. sent.state \in {"Initial", "Error"}
    BY <1>5, <1>8 DEF IsStarted, Stream
  <2>3. /\ t \in Stream /\ t.in = sent.in /\ t.out = sent.out /\ t.end = sent.end /\ t.idle = sent.idle
        /\ t.handshakeComplete = sent.handshakeComplete /\ t.state \in {"Starting", "Backoff"}
    BY <1>5, <2>1, <2>2 DEF StartStream, Stream
  <2>5. ASSUME sent = Closed(sent.state) PROVE t = Closed(t.state)
    BY <2>1, <2>2, <2>3, <2>5, ClosedStream
  <2>4. ~IsOpen(t) /\ IsStarted(t) /\ ~IsOpen(s) /\ sent = s
    BY <1>5, <2>2, <2>3 DEF IsOpen, IsStarted
  <2> QED  BY <1>5, <1>8, <2>3, <2>4, <2>5 DEF a, full, t
<1> QED  BY <1>6, <1>7, <1>8

(* FillWritePipeline keeps what is on the stream in step with the          *)
(* pipeline.                                                               *)
LEMMA FillKeeps ==
  ASSUME NEW q \in Seq(Batch), Ascending(q), NEW p \in Seq(Batch), NEW s \in Stream,
         Len(p) <= Len(q), Len(p) <= kMaxPendingWrites, \A i \in DOMAIN p : p[i] = q[i],
         Correlated(s, p), Answered(s, p),
         s.idle => IsOpen(s) /\ p = <<>>,
         IsStarted(s) /\ ~s.handshakeComplete => p # <<>>
  PROVE  LET f == p \o Added(p, q)
             t == FilledStream(p, q, s)
         IN  /\ f \in Seq(Batch) /\ t \in Stream /\ FrontOf(f, q)
             /\ Correlated(t, f) /\ Answered(t, f) /\ Needed(t, f)
<1> DEFINE a == Added(p, q)
           f == p \o a
           t == FilledStream(p, q, s)
<1>1. /\ a \in Seq(Batch) /\ f \in Seq(Batch) /\ FrontOf(f, q)
      /\ Len(f) = Len(p) + Len(a)
      /\ \A i \in DOMAIN a : a[i] = f[Len(p) + i]
      /\ \A i \in DOMAIN p : f[i] = p[i]
  BY Filled
<1>2. /\ t \in Stream /\ t.in = s.in /\ t.end = s.end
      /\ t.handshakeComplete = s.handshakeComplete /\ (IsOpen(t) <=> IsOpen(s))
      /\ t.out = IF IsOpen(s) /\ s.handshakeComplete THEN s.out \o a ELSE s.out
      /\ f # <<>> => IsStarted(t)
      /\ IsStarted(t) => IsStarted(s) \/ f # <<>>
      /\ t.idle => (IsOpen(s) /\ f = <<>>) \/ s.idle
      /\ IsOpen(s) /\ s.handshakeComplete /\ p = <<>> /\ f # <<>> => ~t.idle
      /\ ~IsOpen(s) /\ s = Closed(s.state) => t = Closed(t.state)
  BY <1>1, FilledStreamIs
<1>3. p # <<>> => f # <<>>
  BY <1>1
<1> HIDE DEF a, f, t
<1> DEFINE nin == Len(s.in)
           nout == Len(s.out)
           np == Len(p)
           na == Len(a)
<1>4. /\ s.in \in Seq(Batch) /\ s.out \in Seq(Batch)
      /\ nin \in Nat /\ nout \in Nat /\ np \in Nat /\ na \in Nat
      /\ DOMAIN p = 1 .. np /\ DOMAIN a = 1 .. na
      /\ DOMAIN s.in = 1 .. nin /\ DOMAIN s.out = 1 .. nout
  BY <1>1, LenProperties DEF Stream
<1>5. /\ Len(f) = np + na
      /\ \A i \in 1 .. na : a[i] = f[np + i]
      /\ \A i \in 1 .. np : f[i] = p[i]
  BY <1>1, <1>4
<1>6. IsOpen(s) /\ s.handshakeComplete /\ s.end = "no" =>
        /\ Len(t.out) = nout + na /\ DOMAIN t.out = 1 .. nout + na
        /\ \A i \in 1 .. nout + na : t.out[i] = IF i <= nout THEN s.out[i] ELSE a[i - nout]
  BY <1>1, <1>2, <1>4, ConcatProperties, LenProperties
<1> HIDE DEF nin, nout, np, na
<1>7. ASSUME ~IsOpen(s)
      PROVE  Correlated(t, f) /\ Answered(t, f) /\ Needed(t, f)
  <2>1. ~IsOpen(t) /\ s = Closed(s.state) /\ t = Closed(t.state) /\ s.end # "permanent"
    BY <1>2, <1>7 DEF Correlated, Answered
  <2>2. ~s.handshakeComplete
    BY <2>1 DEF Closed
  <2>3. Correlated(t, f) /\ Answered(t, f)
    BY <1>2, <2>1 DEF Correlated, Answered
  <2>4. Needed(t, f)
    BY <1>2, <1>3, <1>7, <2>2 DEF Needed
  <2> QED  BY <2>3, <2>4
<1>8. ASSUME IsOpen(s), ~s.handshakeComplete
      PROVE  Correlated(t, f) /\ Answered(t, f) /\ Needed(t, f)
  <2>1. t.out = s.out /\ s.end # "permanent"
    BY <1>2, <1>8 DEF Answered
  <2>2. p # <<>> /\ f # <<>>
    BY <1>3, <1>8 DEF IsOpen, IsStarted
  <2>3. Correlated(t, f) /\ Answered(t, f)
    BY <1>2, <1>8, <2>1 DEF Correlated, Answered
  <2>4. Needed(t, f)
    BY <1>2, <1>8, <2>2 DEF Needed
  <2> QED  BY <2>3, <2>4
<1>9. ASSUME IsOpen(s), s.handshakeComplete
      PROVE  Correlated(t, f) /\ Answered(t, f) /\ Needed(t, f)
  <2>1. nin <= np /\ \A i \in 1 .. nin : s.in[i] = p[i]
    BY <1>4, <1>9 DEF Correlated, nin, np
  <2>2. \A i \in 1 .. nin : i \in 1 .. np /\ f[i] = p[i]
    BY <1>4, <1>5, <2>1
  <2>3. Len(t.in) = nin /\ nin <= Len(f) /\ \A i \in DOMAIN t.in : t.in[i] = f[i]
    <3>1. Len(t.in) = nin
      BY <1>2 DEF nin
    <3> QED  BY <1>2, <1>4, <1>5, <2>1, <2>2, <3>1
  <2>4. ASSUME s.end = "no"
        PROVE  nin + Len(t.out) = Len(f) /\ \A i \in DOMAIN t.out : t.out[i] = f[nin + i]
    <3>1. nin + nout = np /\ \A i \in 1 .. nout : s.out[i] = p[nin + i]
      BY <1>4, <1>9, <2>4 DEF Correlated, nin, nout, np
    <3>2. ASSUME NEW i \in 1 .. nout + na PROVE t.out[i] = f[nin + i]
      <4>1. CASE i <= nout
        <5>1. i \in 1 .. nout /\ nin + i \in 1 .. np
          BY <1>4, <3>1, <4>1
        <5> QED  BY <1>5, <1>6, <1>9, <2>4, <3>1, <3>2, <4>1, <5>1
      <4>2. CASE ~(i <= nout)
        <5>1. i - nout \in 1 .. na /\ np + (i - nout) = nin + i
          BY <1>4, <3>1, <4>2
        <5>2. t.out[i] = a[i - nout]
          BY <1>6, <1>9, <2>4, <3>2, <4>2
        <5> QED  BY <1>5, <5>1, <5>2
      <4> QED  BY <4>1, <4>2
    <3>3. nin + Len(t.out) = Len(f)
      <4>1. Len(t.out) = nout + na
        BY <1>6, <1>9, <2>4
      <4>2. Len(f) = np + na
        BY <1>5
      <4>3. nin \in Nat /\ nout \in Nat /\ np \in Nat /\ na \in Nat
        BY <1>4
      <4>4. nin + nout = np
        BY <3>1
      <4> QED  BY ONLY <4>1, <4>2, <4>3, <4>4
    <3> QED  BY <1>6, <1>9, <2>4, <3>2, <3>3
  <2>5. Correlated(t, f)
    BY <1>2, <1>9, <2>3, <2>4 DEF Correlated
  <2>6. ASSUME s.end = "permanent"
        PROVE  nin < Len(f) /\ f[nin + 1].write \in refused
    <3>1. nin < np /\ p[nin + 1].write \in refused
      BY <2>6 DEF Answered, nin, np
    <3>2. nin + 1 \in 1 .. np
      BY <1>4, <3>1
    <3> QED  BY <1>4, <1>5, <3>1, <3>2
  <2>7. \A i \in DOMAIN t.in : f[i].write \in committed /\ f[i].write <= latest[currentUser]
    BY <1>2, <1>4, <1>9, <2>2 DEF Answered
  <2>8. Answered(t, f)
    BY <1>2, <1>9, <2>3, <2>6, <2>7 DEF Answered
  <2>9. Needed(t, f)
    BY <1>2, <1>3, <1>9 DEF Needed, IsOpen
  <2> QED  BY <2>5, <2>8, <2>9
<1>10. Correlated(t, f) /\ Answered(t, f) /\ Needed(t, f)
  BY <1>7, <1>8, <1>9
<1> QED  BY <1>1, <1>2, <1>10 DEF a, f, t

-----------------------------------------------------------------------------
(* Steps of the stream, the connection and the backend.                    *)

(* What the invariant says of the pipeline's batches.                      *)
LEMMA PipelineBatches ==
  ASSUME IInv
  PROVE  /\ DOMAIN pipeline = 1 .. Len(pipeline) /\ Len(pipeline) \in Nat
         /\ Len(pipeline) <= Len(mutations[currentUser])
         /\ \A i \in DOMAIN pipeline :
              /\ i \in DOMAIN mutations[currentUser] /\ pipeline[i] = mutations[currentUser][i]
              /\ pipeline[i] # Handshake
              /\ pipeline[i].write \in DOMAIN written /\ written[pipeline[i].write] = currentUser
              /\ \A j \in DOMAIN pipeline : i < j => pipeline[i].write < pipeline[j].write
<1> DEFINE q == mutations[currentUser]
<1>1. /\ pipeline \in Seq(Batch) /\ q \in Seq(Batch)
      /\ InOrder(q, currentUser) /\ FrontOf(pipeline, q)
  BY DEF IInv, TypeOK, Ordered, Streaming
<1>2. /\ DOMAIN pipeline = 1 .. Len(pipeline) /\ Len(pipeline) \in Nat
      /\ DOMAIN q = 1 .. Len(q) /\ Len(q) \in Nat
  BY <1>1, LenProperties
<1> HIDE DEF q
<1>3. Len(pipeline) <= Len(q) /\ \A i \in DOMAIN pipeline : i \in DOMAIN q /\ pipeline[i] = q[i]
  <2>1. Len(pipeline) <= Len(q) /\ \A i \in DOMAIN pipeline : pipeline[i] = q[i]
    BY <1>1 DEF FrontOf
  <2>2. \A i \in 1 .. Len(pipeline) : i \in 1 .. Len(q)
    BY <1>2, <2>1
  <2> QED  BY <1>2, <2>1, <2>2
<1>4. \A i \in DOMAIN q : q[i].id # 0 /\ q[i].write \in DOMAIN written /\ written[q[i].write] = currentUser
  BY <1>1 DEF InOrder
<1>5. \A i, j \in DOMAIN q : i < j => q[i].write < q[j].write
  BY <1>1 DEF InOrder
<1>6. Handshake.id = 0
  BY DEF Handshake
<1> QED  BY <1>2, <1>3, <1>4, <1>5, <1>6 DEF q

(* A step that changes the stream alone.                                   *)
LEMMA OnlyStream ==
  ASSUME IInv, UNCHANGED <<clientVars, backendVars>>, faults' \in 0 .. MaxFaults,
         stream' \in Stream, Correlated(stream', pipeline), Answered(stream', pipeline),
         Needed(stream', pipeline)
  PROVE  IInv'
<1>1. TypeOK' /\ Len(outcome)' = Len(written)'
  BY DEF IInv, TypeOK, clientVars, backendVars
<1>2. Ordered' /\ Settled' /\ CallbackHasBatch'
  BY DEF IInv, Ordered, InOrder, Settled, InQueue, CallbackHasBatch, clientVars, backendVars
<1>3. Streaming'
  BY DEF IInv, Streaming, FrontOf, Correlated, Answered, Needed, clientVars, backendVars
<1> QED  BY <1>1, <1>2, <1>3 DEF IInv

(* The first request is taken and its answer is on its way.                *)
LEMMA TakenIs ==
  ASSUME stream \in Stream, stream.out # <<>>
  PROVE  /\ Taken \in Stream /\ Taken.state = stream.state /\ Taken.end = stream.end
         /\ Taken.idle = stream.idle /\ Taken.handshakeComplete = stream.handshakeComplete
         /\ Len(stream.in) \in Nat /\ Len(stream.out) \in Nat \ {0}
         /\ DOMAIN stream.in = 1 .. Len(stream.in) /\ DOMAIN stream.out = 1 .. Len(stream.out)
         /\ Len(Taken.in) = Len(stream.in) + 1 /\ DOMAIN Taken.in = 1 .. Len(stream.in) + 1
         /\ \A i \in 1 .. Len(stream.in) : Taken.in[i] = stream.in[i]
         /\ Taken.in[Len(stream.in) + 1] = stream.out[1] /\ Head(stream.out) = stream.out[1]
         /\ Len(Taken.out) = Len(stream.out) - 1 /\ DOMAIN Taken.out = 1 .. Len(stream.out) - 1
         /\ \A i \in 1 .. Len(stream.out) - 1 : Taken.out[i] = stream.out[i + 1]
<1> DEFINE in == stream.in
           out == stream.out
<1>1. in \in Seq(Batch) /\ out \in Seq(Batch) /\ out # <<>>
  BY DEF Stream
<1>2. /\ Taken.state = stream.state /\ Taken.end = stream.end
      /\ Taken.idle = stream.idle /\ Taken.handshakeComplete = stream.handshakeComplete
      /\ Taken.out = Tail(out) /\ Taken.in = Append(in, Head(out))
  BY DEF Stream, Taken
<1> HIDE DEF in, out
<1>3. Head(out) \in Batch /\ Tail(out) \in Seq(Batch) /\ Append(in, Head(out)) \in Seq(Batch)
  BY <1>1
<1>4. Taken \in Stream
  BY <1>3 DEF Taken, Stream, in, out
<1>5. /\ Len(in) \in Nat /\ Len(out) \in Nat \ {0}
      /\ DOMAIN in = 1 .. Len(in) /\ DOMAIN out = 1 .. Len(out)
      /\ Len(Append(in, Head(out))) = Len(in) + 1 /\ Len(Tail(out)) = Len(out) - 1
      /\ DOMAIN Append(in, Head(out)) = 1 .. Len(in) + 1 /\ DOMAIN Tail(out) = 1 .. Len(out) - 1
      /\ Head(out) = out[1] /\ Append(in, Head(out))[Len(in) + 1] = Head(out)
      /\ \A i \in 1 .. Len(in) : Append(in, Head(out))[i] = in[i]
      /\ \A i \in 1 .. Len(out) - 1 : Tail(out)[i] = out[i + 1]
  BY <1>1, <1>3
<1> QED  BY <1>2, <1>4, <1>5 DEF in, out

(* The stream opens and the handshake is on its way.                       *)
LEMMA ResumeKeeps == IInv /\ ResumeStartWithCredentials => IInv'
<1> SUFFICES ASSUME IInv, ResumeStartWithCredentials PROVE IInv'
  OBVIOUS
<1>1. stream \in Stream /\ stream.state = "Starting" /\ stream = Closed("Starting")
  BY DEF IInv, TypeOK, Streaming, Correlated, IsOpen, ResumeStartWithCredentials
<1>2. Handshake \in Batch /\ <<>> \o <<Handshake>> = <<Handshake>> /\ <<Handshake>> # <<>>
  BY DEF Handshake, Batch
<1>3. /\ stream'.state = "Open" /\ ~stream'.idle /\ ~stream'.handshakeComplete /\ stream'.end = "no"
      /\ stream'.in = <<>> /\ stream'.out = <<Handshake>> /\ stream' \in Stream
  <2>1. /\ stream.idle = FALSE /\ stream.handshakeComplete = FALSE /\ stream.end = "no"
        /\ stream.in = <<>> /\ stream.out = <<>>
    BY <1>1 DEF Closed
  <2>2. stream' = [[stream EXCEPT !.state = "Open"] EXCEPT !.out = @ \o <<Handshake>>, !.idle = FALSE]
    BY <1>2 DEF ResumeStartWithCredentials, Send
  <2>3. <<Handshake>> \in Seq(Batch)
    BY <1>2
  <2> QED  BY <1>1, <1>2, <2>1, <2>2, <2>3 DEF Stream
<1>4. pipeline # <<>>
  BY <1>1 DEF IInv, Streaming, Needed, IsStarted, Closed
<1>5. Correlated(stream', pipeline) /\ Answered(stream', pipeline)
  BY <1>3 DEF Correlated, Answered, IsOpen
<1>6. Needed(stream', pipeline)
  BY <1>3, <1>4 DEF Needed, IsStarted, IsOpen
<1>7. UNCHANGED <<clientVars, backendVars>> /\ faults' \in 0 .. MaxFaults
  BY DEF ResumeStartWithCredentials, IInv, TypeOK
<1> QED  BY <1>3, <1>5, <1>6, <1>7, OnlyStream

(* The stream starts again after the backoff.                              *)
LEMMA BackoffKeeps == IInv /\ BackoffElapsed => IInv'
<1> SUFFICES ASSUME IInv, BackoffElapsed PROVE IInv'
  OBVIOUS
<1>1. stream \in Stream /\ stream.state = "Backoff" /\ stream = Closed("Backoff")
  BY DEF IInv, TypeOK, Streaming, Correlated, IsOpen, BackoffElapsed
<1>2. stream' = Closed("Starting")
  <2>1. Closed("Starting") \in Stream
    BY ClosedStream
  <2>2. stream' \in Stream /\ stream'.state = "Starting" /\ stream'.idle = stream.idle
        /\ stream'.handshakeComplete = stream.handshakeComplete
        /\ stream'.out = stream.out /\ stream'.in = stream.in /\ stream'.end = stream.end
    BY <1>1 DEF BackoffElapsed, StartStream, Stream
  <2> QED  BY <1>1, <2>1, <2>2, SameStream DEF Closed
<1>3. pipeline # <<>>
  BY <1>1 DEF IInv, Streaming, Needed, IsStarted, Closed
<1>4. stream' \in Stream /\ Correlated(stream', pipeline) /\ Answered(stream', pipeline)
  BY <1>2, ClosedStream
<1>5. Needed(stream', pipeline)
  BY <1>2, <1>3, ClosedStream DEF Needed, IsStarted
<1>6. UNCHANGED <<clientVars, backendVars>> /\ faults' \in 0 .. MaxFaults
  BY DEF BackoffElapsed, IInv, TypeOK
<1> QED  BY <1>4, <1>5, <1>6, OnlyStream

(* The stream is closed as idle; nothing needs it.                         *)
LEMMA IdleKeeps == IInv /\ IdleTimeout => IInv'
<1> SUFFICES ASSUME IInv, IdleTimeout PROVE IInv'
  OBVIOUS
<1>1. pipeline = <<>> /\ stream' = Closed("Initial")
  BY DEF IInv, Streaming, Needed, IdleTimeout
<1>2. stream' \in Stream /\ Correlated(stream', pipeline) /\ Answered(stream', pipeline)
  BY <1>1, ClosedStream
<1>3. Needed(stream', pipeline)
  BY <1>1, ClosedStream DEF Needed, IsStarted
<1>4. UNCHANGED <<clientVars, backendVars>> /\ faults' \in 0 .. MaxFaults
  BY DEF IdleTimeout, IInv, TypeOK
<1> QED  BY <1>2, <1>3, <1>4, OnlyStream

(* The stream is closed after an error and starts again if it is needed.   *)
LEMMA RestartKeeps ==
  ASSUME IInv, RestartAfterError, faults' \in 0 .. MaxFaults
  PROVE  IInv'
<1>1. stream' = IF pipeline = <<>> THEN Closed("Error") ELSE Closed("Backoff")
  BY ClosedStream DEF RestartAfterError
<1>2. stream' \in Stream /\ Correlated(stream', pipeline) /\ Answered(stream', pipeline)
  BY <1>1, ClosedStream
<1>3. Needed(stream', pipeline)
  BY <1>1, ClosedStream DEF Needed, IsStarted
<1>4. UNCHANGED <<clientVars, backendVars>>
  BY DEF RestartAfterError
<1> QED  BY <1>2, <1>3, <1>4, OnlyStream

(* Two numbers with a sum of at most one.                                  *)
LEMMA AtMostOne ==
  \A a, b \in Nat : a + b <= 1 => /\ a \in Nat \ {0} => a = 1 /\ b = 0
                                  /\ b \in Nat \ {0} => a = 0 /\ b = 1
OBVIOUS

(* After the handshake the whole pipeline is sent.                         *)
LEMMA HandshakeKeeps == IInv /\ OnWriteStreamHandshakeComplete => IInv'
<1> SUFFICES ASSUME IInv, OnWriteStreamHandshakeComplete PROVE IInv'
  OBVIOUS
<1>1. /\ stream \in Stream /\ pipeline \in Seq(Batch) /\ stream.in # <<>> /\ ~stream.handshakeComplete
      /\ Correlated(stream, pipeline) /\ Answered(stream, pipeline) /\ Needed(stream, pipeline)
  BY DEF IInv, TypeOK, Streaming, OnWriteStreamHandshakeComplete
<1>2. IsOpen(stream)
  BY <1>1 DEF Correlated, Closed
<1>3. pipeline # <<>> /\ stream.end # "permanent"
  BY <1>1, <1>2 DEF Needed, IsOpen, IsStarted, Answered
<1>4. Tail(stream.in) = <<>> /\ stream.out = <<>>
  <2>1. stream.in \in Seq(Batch) /\ stream.out \in Seq(Batch)
    BY <1>1 DEF Stream
  <2>2. Len(stream.in) + Len(stream.out) <= 1
    BY <1>1, <1>2 DEF Correlated
  <2>3. Len(stream.in) \in Nat /\ Len(stream.in) \in Nat \ {0} /\ Len(stream.out) \in Nat
    BY <1>1, <2>1
  <2>4. Len(stream.in) = 1 /\ Len(stream.out) = 0
    BY <2>2, <2>3, AtMostOne, Zenon
  <2>5. ASSUME NEW x \in Seq(Batch), Len(x) = 0 PROVE x = <<>>
    BY <2>5, EmptySeq
  <2>6. ASSUME NEW x \in Seq(Batch), Len(x) = 1 PROVE Tail(x) = <<>>
    <3>1. Tail(x) \in Seq(Batch) /\ Len(Tail(x)) = Len(x) - 1
      BY <2>6, HeadTailProperties
    <3>2. Len(Tail(x)) = 0
      BY <2>6, <3>1
    <3> QED  BY <2>5, <3>1, <3>2
  <2> QED  BY <2>1, <2>4, <2>5, <2>6
<1>5. <<>> \o pipeline = pipeline
  BY <1>1, ConcatEmptySeq
<1>6. /\ stream'.state = "Open" /\ ~stream'.idle /\ stream'.handshakeComplete /\ stream'.end = stream.end
      /\ stream'.in = <<>> /\ stream'.out = pipeline /\ stream' \in Stream
  <2>1. stream' = [[stream EXCEPT !.in = Tail(@), !.handshakeComplete = TRUE]
                     EXCEPT !.out = @ \o pipeline, !.idle = FALSE]
    BY <1>3 DEF OnWriteStreamHandshakeComplete, Send
  <2>2. <<>> \in Seq(Batch)
    OBVIOUS
  <2> QED  BY <1>1, <1>2, <1>4, <1>5, <2>1, <2>2 DEF Stream, IsOpen
<1>7. Correlated(stream', pipeline) /\ Answered(stream', pipeline)
  <2>1. Len(pipeline) \in Nat /\ DOMAIN pipeline = 1 .. Len(pipeline) /\ Len(<<>>) = 0 /\ DOMAIN <<>> = {}
    BY <1>1, LenProperties
  <2>2. \A i \in DOMAIN pipeline : pipeline[i] = pipeline[0 + i]
    BY <2>1
  <2> QED  BY <1>3, <1>6, <2>1, <2>2 DEF Correlated, Answered, IsOpen
<1>8. Needed(stream', pipeline)
  BY <1>6 DEF Needed, IsStarted, IsOpen
<1>9. UNCHANGED <<clientVars, backendVars>> /\ faults' \in 0 .. MaxFaults
  BY DEF OnWriteStreamHandshakeComplete, IInv, TypeOK
<1> QED  BY <1>6, <1>7, <1>8, <1>9, OnlyStream

(* The first request on the stream is the handshake, or the first batch    *)
(* of the pipeline that is not answered.                                   *)
LEMMA FirstRequest ==
  ASSUME IInv, stream.out # <<>>, stream.end = "no"
  PROVE  /\ IsOpen(stream) /\ Head(stream.out) = stream.out[1]
         /\ Head(stream.out) = Handshake => ~stream.handshakeComplete
         /\ Head(stream.out) # Handshake =>
              /\ stream.handshakeComplete /\ Len(stream.in) + 1 \in DOMAIN pipeline
              /\ Head(stream.out) = pipeline[Len(stream.in) + 1]
<1>1. stream \in Stream /\ Correlated(stream, pipeline)
  BY DEF IInv, TypeOK, Streaming
<1>2. IsOpen(stream)
  BY <1>1 DEF Correlated, Closed
<1>3. /\ Len(stream.in) \in Nat /\ Len(stream.out) \in Nat \ {0} /\ Head(stream.out) = stream.out[1]
      /\ 1 \in DOMAIN stream.out
  BY <1>1, TakenIs
<1>4. CASE ~stream.handshakeComplete
  BY <1>1, <1>2, <1>3, <1>4 DEF Correlated
<1>5. CASE stream.handshakeComplete
  <2>1. /\ Len(stream.in) + Len(stream.out) = Len(pipeline)
        /\ stream.out[1] = pipeline[Len(stream.in) + 1]
    BY <1>1, <1>2, <1>3, <1>5 DEF Correlated
  <2>2. Len(stream.in) + 1 \in DOMAIN pipeline
    <3>1. DOMAIN pipeline = 1 .. Len(pipeline) /\ Len(pipeline) \in Nat
      BY PipelineBatches
    <3> DEFINE m == Len(stream.in)
               n == Len(stream.out)
    <3>2. m \in Nat /\ n \in Nat \ {0} /\ m + n = Len(pipeline)
      BY <1>3, <2>1
    <3> HIDE DEF m, n
    <3>3. m + 1 \in 1 .. Len(pipeline)
      BY <3>1, <3>2
    <3> QED  BY <3>1, <3>3 DEF m
  <2>3. pipeline[Len(stream.in) + 1] # Handshake
    BY <2>2, PipelineBatches
  <2> QED  BY <1>2, <1>3, <1>5, <2>1, <2>2, <2>3
<1> QED  BY <1>4, <1>5

(* The backend answers the handshake.                                      *)
LEMMA ShakesKeeps == IInv /\ BackendShakesHands => IInv'
<1> SUFFICES ASSUME IInv, BackendShakesHands PROVE IInv'
  OBVIOUS
<1>1. /\ stream \in Stream /\ stream.out # <<>> /\ stream.end = "no"
      /\ Head(stream.out) = Handshake /\ stream' = Taken
      /\ Correlated(stream, pipeline) /\ Needed(stream, pipeline)
  BY DEF IInv, TypeOK, Streaming, BackendShakesHands
<1>2. IsOpen(stream) /\ ~stream.handshakeComplete /\ stream.out[1] = Handshake
  BY <1>1, FirstRequest
<1>3. /\ Len(stream.in) + Len(stream.out) <= 1
      /\ \A i \in DOMAIN stream.in : stream.in[i] = Handshake
  BY <1>1, <1>2 DEF Correlated
<1>4. Len(stream.in) = 0 /\ Len(stream.out) = 1
  <2>1. Len(stream.in) \in Nat /\ Len(stream.out) \in Nat /\ Len(stream.out) \in Nat \ {0}
    BY <1>1, TakenIs
  <2> QED  BY <1>3, <2>1, AtMostOne, Zenon
<1>5. /\ Len(stream'.in) = 1 /\ DOMAIN stream'.in = 1 .. 1 /\ stream'.in[1] = Handshake
      /\ Len(stream'.out) = 0 /\ DOMAIN stream'.out = 1 .. 0 /\ stream' \in Stream
      /\ stream'.state = stream.state /\ stream'.end = "no" /\ stream'.idle = stream.idle
      /\ stream'.handshakeComplete = FALSE
  <2>1. stream'.in[0 + 1] = Handshake
    BY <1>1, <1>2, <1>4, TakenIs
  <2> QED  BY <1>1, <1>2, <1>4, <2>1, TakenIs
<1>6. Correlated(stream', pipeline) /\ Answered(stream', pipeline)
  BY <1>2, <1>5 DEF Correlated, Answered, IsOpen
<1>7. Needed(stream', pipeline)
  BY <1>1, <1>2, <1>5 DEF Needed, IsStarted, IsOpen
<1>8. UNCHANGED <<clientVars, backendVars>> /\ faults' \in 0 .. MaxFaults
  BY DEF BackendShakesHands, IInv, TypeOK
<1> QED  BY <1>5, <1>6, <1>7, <1>8, OnlyStream

(* The connection is lost, and with it some of the responses.              *)
LEMMA LostKeeps == IInv /\ ConnectionLost => IInv'
<1> SUFFICES ASSUME IInv, ConnectionLost PROVE IInv'
  OBVIOUS
<1>1. /\ stream \in Stream /\ IsOpen(stream) /\ stream.end = "no"
      /\ Correlated(stream, pipeline) /\ Answered(stream, pipeline) /\ Needed(stream, pipeline)
  BY DEF IInv, TypeOK, Streaming, ConnectionLost
<1>2. PICK n \in 0 .. Len(stream.in) :
        stream' = [stream EXCEPT !.in = SubSeq(@, 1, n), !.end = "transient"]
  BY DEF ConnectionLost
<1>3. /\ stream.in \in Seq(Batch) /\ stream.out \in Seq(Batch)
      /\ Len(stream.in) \in Nat /\ Len(stream.out) \in Nat /\ DOMAIN stream.in = 1 .. Len(stream.in)
  BY <1>1, LenProperties DEF Stream
<1>4. /\ SubSeq(stream.in, 1, n) \in Seq(Batch) /\ Len(SubSeq(stream.in, 1, n)) = n
      /\ \A i \in 1 .. n : SubSeq(stream.in, 1, n)[i] = stream.in[i]
  <2>1. 1 \in 1 .. Len(stream.in) + 1 /\ n \in 1 - 1 .. Len(stream.in)
    BY <1>3
  <2>2. /\ SubSeq(stream.in, 1, n) \in Seq(Batch)
        /\ Len(SubSeq(stream.in, 1, n)) = n - 1 + 1
        /\ \A i \in 1 .. n - 1 + 1 : SubSeq(stream.in, 1, n)[i] = stream.in[1 + i - 1]
    BY <1>3, <2>1, SubSeqProperties
  <2> QED  BY <1>3, <2>2
<1>5. /\ stream' \in Stream /\ stream'.in = SubSeq(stream.in, 1, n) /\ stream'.end = "transient"
      /\ stream'.out = stream.out /\ stream'.state = stream.state /\ stream'.idle = stream.idle
      /\ stream'.handshakeComplete = stream.handshakeComplete
  BY <1>1, <1>2, <1>4 DEF Stream
<1>6. /\ Len(stream'.in) = n /\ DOMAIN stream'.in = 1 .. n /\ n \in Nat /\ n <= Len(stream.in)
      /\ \A i \in 1 .. n : i \in DOMAIN stream.in /\ stream'.in[i] = stream.in[i]
  <2>1. n \in Nat /\ n <= Len(stream.in) /\ \A i \in 1 .. n : i \in DOMAIN stream.in
    BY <1>3
  <2>2. DOMAIN stream'.in = 1 .. n
    BY <1>4, <1>5, LenProperties
  <2> QED  BY <1>4, <1>5, <2>1, <2>2
<1>9. Needed(stream', pipeline) /\ UNCHANGED <<clientVars, backendVars>> /\ faults' \in 0 .. MaxFaults
  <2>1. faults < MaxFaults /\ faults' = faults + 1 /\ faults \in 0 .. MaxFaults /\ MaxFaults \in Nat
    BY WriteAssumption DEF ConnectionLost, IInv, TypeOK
  <2>2. faults' \in 0 .. MaxFaults
    BY <2>1
  <2> QED  BY <1>1, <1>5, <2>2 DEF Needed, IsStarted, IsOpen, ConnectionLost
<1>7. CASE ~stream.handshakeComplete
  <2>1. Correlated(stream', pipeline)
    <3>1. n + Len(stream.out) <= 1
      <4>1. Len(stream.in) + Len(stream.out) <= 1
        BY <1>1, <1>7 DEF Correlated
      <4> DEFINE l == Len(stream.in)
                 m == Len(stream.out)
      <4>2. l \in Nat /\ m \in Nat /\ n \in Nat /\ n <= l /\ l + m <= 1
        BY <1>3, <1>6, <4>1
      <4> HIDE DEF l, m
      <4>3. n + m <= 1
        BY <4>2
      <4> QED  BY <4>3 DEF m
    <3> QED  BY <1>1, <1>5, <1>6, <1>7, <3>1 DEF Correlated, IsOpen
  <2>2. Answered(stream', pipeline)
    BY <1>5, <1>7 DEF Answered
  <2> QED  BY <1>5, <1>9, <2>1, <2>2, OnlyStream
<1>8. CASE stream.handshakeComplete
  <2>1. Correlated(stream', pipeline)
    <3>1. n <= Len(pipeline)
      BY <1>1, <1>3, <1>6, <1>8, PipelineBatches DEF Correlated
    <3> QED  BY <1>1, <1>5, <1>6, <1>8, <3>1 DEF Correlated, IsOpen
  <2>2. Answered(stream', pipeline)
    BY <1>1, <1>5, <1>6, <1>8 DEF Answered
  <2> QED  BY <1>5, <1>9, <2>1, <2>2, OnlyStream
<1> QED  BY <1>7, <1>8

(* The backend takes the first batch that is not answered: what commits    *)
(* and refusals have in common.                                            *)
LEMMA TakesBatch ==
  ASSUME IInv, stream.out # <<>>, stream.end = "no", Head(stream.out) # Handshake
  PROVE  /\ IsOpen(stream) /\ stream.handshakeComplete
         /\ Len(stream.in) \in Nat /\ Len(stream.in) + 1 \in DOMAIN pipeline
         /\ Len(stream.in) < Len(pipeline)
         /\ Head(stream.out) = pipeline[Len(stream.in) + 1]
         /\ Head(stream.out).write \in DOMAIN written
         /\ written[Head(stream.out).write] = currentUser /\ currentUser \in Users
         /\ \E i \in DOMAIN mutations[currentUser] :
              mutations[currentUser][i].write = Head(stream.out).write
         /\ \A i \in DOMAIN stream.in :
              /\ i \in DOMAIN pipeline /\ i < Len(stream.in) + 1
              /\ pipeline[i].write < Head(stream.out).write
<1> DEFINE m == Len(stream.in)
           w == Head(stream.out).write
<1>1. stream \in Stream /\ Correlated(stream, pipeline) /\ currentUser \in Users
  BY DEF IInv, TypeOK, Streaming
<1>2. IsOpen(stream) /\ stream.handshakeComplete /\ m + 1 \in DOMAIN pipeline
      /\ Head(stream.out) = pipeline[m + 1]
  BY FirstRequest
<1>3. m \in Nat /\ DOMAIN stream.in = 1 .. m
  BY <1>1, TakenIs
<1>4. Len(pipeline) \in Nat /\ DOMAIN pipeline = 1 .. Len(pipeline)
  BY PipelineBatches
<1>5. /\ w = pipeline[m + 1].write /\ w \in DOMAIN written /\ written[w] = currentUser
      /\ m + 1 \in DOMAIN mutations[currentUser] /\ w = mutations[currentUser][m + 1].write
  BY <1>2, PipelineBatches
<1> HIDE DEF m, w
<1>6. m < Len(pipeline)
  BY <1>2, <1>3, <1>4
<1>7. ASSUME NEW i \in DOMAIN stream.in
      PROVE  i \in DOMAIN pipeline /\ i < m + 1 /\ pipeline[i].write < w
  <2>1. i \in DOMAIN pipeline /\ i < m + 1
    BY <1>3, <1>4, <1>6
  <2> QED  BY <1>2, <1>5, <2>1, PipelineBatches
<1> QED  BY <1>1, <1>2, <1>3, <1>5, <1>6, <1>7 DEF m, w

(* The backend commits the batch behind those it has answered.             *)
LEMMA CommitsKeeps == IInv /\ BackendCommits => IInv'
<1> SUFFICES ASSUME IInv, BackendCommits PROVE IInv'
  OBVIOUS
<1> DEFINE m == Len(stream.in)
           w == Head(stream.out).write
<1>1. /\ TypeOK /\ Len(outcome) = Len(written)
      /\ Ordered /\ Settled /\ Streaming /\ CallbackHasBatch
  BY DEF IInv
<1>2. /\ stream.out # <<>> /\ stream.end = "no" /\ Head(stream.out) # Handshake
      /\ committed' = committed \cup {w} /\ latest' = [latest EXCEPT ![written[w]] = w]
      /\ stream' = Taken /\ UNCHANGED <<clientVars, refused, faults>>
  BY DEF BackendCommits
<1>3. /\ IsOpen(stream) /\ stream.handshakeComplete
      /\ m \in Nat /\ m + 1 \in DOMAIN pipeline /\ m < Len(pipeline)
      /\ Head(stream.out) = pipeline[m + 1]
      /\ w \in DOMAIN written /\ written[w] = currentUser /\ currentUser \in Users
      /\ \E i \in DOMAIN mutations[currentUser] : mutations[currentUser][i].write = w
      /\ \A i \in DOMAIN stream.in : i \in DOMAIN pipeline /\ i < m + 1 /\ pipeline[i].write < w
  BY <1>2, TakesBatch
<1>4. stream \in Stream /\ stream' \in Stream
  BY <1>1, <1>2, TakenIs DEF TypeOK
<1>5. DOMAIN written = 1 .. Len(written) /\ Len(written) \in Nat /\ w \in 1 .. Len(written)
  BY <1>1, <1>3, LenProperties DEF TypeOK
<1>6. latest \in [Users -> 0 .. Len(written)] /\ latest'[currentUser] = w
      /\ \A u \in Users : u # currentUser => latest'[u] = latest[u]
  BY <1>1, <1>2, <1>3 DEF TypeOK
<1>7. TypeOK'
  <2>1. committed' \subseteq 1 .. Len(written)
    BY <1>1, <1>2, <1>5 DEF TypeOK
  <2>2. latest' \in [Users -> 0 .. Len(written)]
    BY <1>2, <1>3, <1>5, <1>6
  <2> QED  BY <1>1, <1>2, <1>4, <2>1, <2>2 DEF TypeOK, clientVars
<1>8. Ordered' /\ CallbackHasBatch' /\ Len(outcome)' = Len(written)'
  BY <1>1, <1>2 DEF Ordered, InOrder, CallbackHasBatch, clientVars
<1> HIDE DEF w
<1>9. Settled'
  <2> SUFFICES ASSUME NEW v \in DOMAIN written, ~InQueue(v)
               PROVE  /\ \A i \in DOMAIN mutations[written[v]] : v < mutations[written[v]][i].write
                      /\ v \in refused \/ (v \in committed' /\ v <= latest'[written[v]])
    BY <1>2 DEF Settled, InQueue, clientVars
  <2>1. /\ \A i \in DOMAIN mutations[written[v]] : v < mutations[written[v]][i].write
        /\ v \in refused \/ (v \in committed /\ v <= latest[written[v]])
    BY <1>1 DEF Settled
  <2>2. written[v] \in Users /\ v \in Nat /\ w \in Nat
    BY <1>1, <1>5 DEF TypeOK
  <2>3. CASE written[v] = currentUser
    <3>1. v < w
      BY <1>3, <2>1, <2>3
    <3> QED  BY <1>2, <1>6, <2>1, <2>2, <2>3, <3>1
  <2>4. CASE written[v] # currentUser
    BY <1>2, <1>6, <2>1, <2>2, <2>4
  <2> QED  BY <2>3, <2>4
<1>10. Streaming'
  <2>1. /\ Correlated(stream, pipeline) /\ Answered(stream, pipeline) /\ Needed(stream, pipeline)
        /\ FrontOf(pipeline, mutations[currentUser])
    BY <1>1 DEF Streaming
  <2>2. /\ stream'.state = stream.state /\ stream'.end = "no" /\ stream'.idle = stream.idle
        /\ stream'.handshakeComplete = stream.handshakeComplete
        /\ Len(stream.out) \in Nat \ {0} /\ DOMAIN stream.in = 1 .. m /\ DOMAIN stream.out = 1 .. Len(stream.out)
        /\ Len(stream'.in) = m + 1 /\ DOMAIN stream'.in = 1 .. m + 1
        /\ \A i \in 1 .. m : stream'.in[i] = stream.in[i]
        /\ stream'.in[m + 1] = stream.out[1] /\ Head(stream.out) = stream.out[1]
        /\ Len(stream'.out) = Len(stream.out) - 1 /\ DOMAIN stream'.out = 1 .. Len(stream.out) - 1
        /\ \A i \in 1 .. Len(stream.out) - 1 : stream'.out[i] = stream.out[i + 1]
    BY <1>2, <1>4, TakenIs
  <2>3. /\ m + Len(stream.out) = Len(pipeline)
        /\ \A i \in DOMAIN stream.in : stream.in[i] = pipeline[i]
        /\ \A i \in DOMAIN stream.out : stream.out[i] = pipeline[m + i]
    BY <1>2, <1>3, <2>1 DEF Correlated
  <2> DEFINE n == Len(stream.out)
  <2>4. Len(pipeline) \in Nat
    BY PipelineBatches
  <2> HIDE DEF m, n
  <2>5. ASSUME NEW i \in 1 .. m + 1 PROVE stream'.in[i] = pipeline[i]
    <3>1. CASE i = m + 1
      BY <1>3, <2>2, <3>1
    <3>2. CASE i # m + 1
      <4>1. i \in 1 .. m
        BY <1>3, <3>2
      <4> QED  BY <2>2, <2>3, <4>1
    <3> QED  BY <3>1, <3>2
  <2>6. \A i \in 1 .. n - 1 : stream'.out[i] = pipeline[(m + 1) + i]
    <3> SUFFICES ASSUME NEW i \in 1 .. n - 1 PROVE stream'.out[i] = pipeline[(m + 1) + i]
      OBVIOUS
    <3>1. n \in Nat
      BY <2>2 DEF n
    <3>2. i + 1 \in 1 .. n /\ m + (i + 1) = (m + 1) + i
      BY <1>3, <3>1
    <3>3. stream.out[i + 1] = pipeline[m + (i + 1)]
      BY <2>2, <2>3, <3>2 DEF n
    <3> QED  BY <2>2, <3>2, <3>3 DEF n
  <2>7. m + 1 <= Len(pipeline) /\ (m + 1) + (n - 1) = Len(pipeline) /\ n \in Nat
    <3>1. n \in Nat \ {0} /\ m + n = Len(pipeline)
      BY <2>2, <2>3 DEF n
    <3> QED  BY <1>3, <2>4, <3>1
  <2>8. Correlated(stream', pipeline)
    BY <1>3, <2>2, <2>5, <2>6, <2>7 DEF Correlated, IsOpen, n
  <2>9. ASSUME NEW i \in 1 .. m + 1
        PROVE  pipeline[i].write \in committed' /\ pipeline[i].write <= latest'[currentUser]
    <3>1. CASE i = m + 1
      BY <1>2, <1>3, <1>5, <1>6, <3>1 DEF w
    <3>2. CASE i # m + 1
      <4>1. i \in DOMAIN stream.in
        BY <1>3, <2>2, <3>2
      <4>2. pipeline[i].write \in committed
        BY <1>3, <2>1, <4>1 DEF Answered
      <4>3. pipeline[i].write < w /\ pipeline[i].write \in Nat
        <5>1. pipeline \in Seq(Batch)
          BY <1>1 DEF TypeOK
        <5> QED  BY <1>3, <4>1, <5>1, BatchSeq
      <4> QED  BY <1>2, <1>5, <1>6, <4>2, <4>3
    <3> QED  BY <3>1, <3>2
  <2>10. Needed(stream', pipeline)
    BY <2>1, <2>2 DEF Needed, IsStarted, IsOpen
  <2>11. pipeline' = pipeline /\ mutations' = mutations /\ currentUser' = currentUser
    BY <1>2 DEF clientVars
  <2>12. Answered(stream, pipeline)'
    BY <2>2, <2>9, <2>11 DEF Answered
  <2> QED  BY <2>1, <2>8, <2>10, <2>11, <2>12 DEF Streaming, FrontOf, Correlated, Needed
<1> QED  BY <1>7, <1>8, <1>9, <1>10 DEF IInv

(* The backend refuses the batch behind those it has answered.             *)
LEMMA RefusesKeeps == IInv /\ BackendRefuses => IInv'
<1> SUFFICES ASSUME IInv, BackendRefuses PROVE IInv'
  OBVIOUS
<1> DEFINE w == Head(stream.out).write
<1>1. /\ TypeOK /\ Len(outcome) = Len(written)
      /\ Ordered /\ Settled /\ Streaming /\ CallbackHasBatch
  BY DEF IInv
<1>2. /\ stream.out # <<>> /\ stream.end = "no" /\ Head(stream.out) # Handshake
      /\ faults < MaxFaults /\ faults' = faults + 1
      /\ refused' = refused \cup {w}
      /\ stream' = [stream EXCEPT !.out = Tail(@), !.end = "permanent"]
      /\ UNCHANGED <<clientVars, committed, latest>>
  BY DEF BackendRefuses
<1>3. /\ IsOpen(stream) /\ stream.handshakeComplete
      /\ Len(stream.in) + 1 \in DOMAIN pipeline /\ Len(stream.in) < Len(pipeline)
      /\ Head(stream.out) = pipeline[Len(stream.in) + 1] /\ w \in DOMAIN written
  BY <1>2, TakesBatch
<1>4. /\ stream' \in Stream /\ stream'.state = stream.state /\ stream'.idle = stream.idle
      /\ stream'.handshakeComplete = stream.handshakeComplete /\ stream'.in = stream.in
      /\ stream'.end = "permanent"
  <2>1. stream \in Stream
    BY <1>1 DEF TypeOK
  <2>2. Tail(stream.out) \in Seq(Batch)
    BY <1>2, <2>1, HeadTailProperties DEF Stream
  <2> QED  BY <1>2, <2>1, <2>2 DEF Stream
<1>5. TypeOK'
  <2>1. refused' \subseteq 1 .. Len(written)
    BY <1>1, <1>2, <1>3, LenProperties DEF TypeOK
  <2>2. faults' \in 0 .. MaxFaults
    BY <1>1, <1>2, WriteAssumption DEF TypeOK
  <2> QED  BY <1>1, <1>2, <1>4, <2>1, <2>2 DEF TypeOK, clientVars
<1>6. Ordered' /\ Settled' /\ CallbackHasBatch' /\ Len(outcome)' = Len(written)'
  BY <1>1, <1>2 DEF Ordered, InOrder, Settled, InQueue, CallbackHasBatch, clientVars
<1>7. Streaming'
  <2>1. /\ Correlated(stream, pipeline) /\ Answered(stream, pipeline) /\ Needed(stream, pipeline)
        /\ FrontOf(pipeline, mutations[currentUser])
    BY <1>1 DEF Streaming
  <2>2. /\ pipeline' = pipeline /\ mutations' = mutations /\ currentUser' = currentUser
        /\ committed' = committed /\ latest' = latest
    BY <1>2 DEF clientVars
  <2>3. Correlated(stream', pipeline)
    BY <1>3, <1>4, <2>1 DEF Correlated, IsOpen
  <2>4. Answered(stream, pipeline)'
    BY <1>2, <1>3, <1>4, <2>1, <2>2 DEF Answered, IsOpen
  <2>5. Needed(stream', pipeline)
    BY <1>4, <2>1 DEF Needed, IsStarted, IsOpen
  <2> QED  BY <2>1, <2>2, <2>3, <2>4, <2>5 DEF Streaming, FrontOf, Correlated, Needed
<1> QED  BY <1>5, <1>6, <1>7 DEF IInv

-----------------------------------------------------------------------------
(* The first batch leaves the queue.                                       *)

(* Places of a queue and of its tail.                                      *)
LEMMA TailPlaces ==
  ASSUME NEW q \in Seq(Batch), q # <<>>
  PROVE  /\ Tail(q) \in Seq(Batch) /\ Head(q) = q[1] /\ 1 \in DOMAIN q
         /\ Len(Tail(q)) = Len(q) - 1 /\ Len(q) \in Nat
         /\ DOMAIN q = 1 .. Len(q) /\ DOMAIN Tail(q) = 1 .. Len(q) - 1
         /\ \A i \in DOMAIN Tail(q) : i \in Nat /\ i + 1 \in DOMAIN q /\ Tail(q)[i] = q[i + 1]
         /\ \A i \in DOMAIN q : i \in Nat /\ (i = 1 \/ (\E j \in DOMAIN Tail(q) : q[i] = Tail(q)[j] /\ i > 1))
<1>1. /\ Tail(q) \in Seq(Batch) /\ Head(q) = q[1] /\ 1 \in DOMAIN q
      /\ Len(Tail(q)) = Len(q) - 1 /\ Len(q) \in Nat
      /\ DOMAIN q = 1 .. Len(q) /\ DOMAIN Tail(q) = 1 .. Len(q) - 1
      /\ \A i \in DOMAIN Tail(q) : i \in Nat /\ i + 1 \in DOMAIN q /\ Tail(q)[i] = q[i + 1]
  OBVIOUS
<1>2. ASSUME NEW i \in DOMAIN q, i # 1
      PROVE  \E j \in DOMAIN Tail(q) : q[i] = Tail(q)[j] /\ i > 1
  <2>1. i - 1 \in DOMAIN Tail(q) /\ i > 1 /\ (i - 1) + 1 = i
    BY <1>1, <1>2
  <2> QED  BY <1>1, <2>1
<1>3. \A i \in DOMAIN q : i \in Nat
  BY <1>1
<1> QED  BY <1>1, <1>2, <1>3

(* The first batch of the pipeline is the first of the queue.              *)
LEMMA FirstOfQueue ==
  ASSUME IInv, pipeline # <<>>
  PROVE  LET q == mutations[currentUser]
         IN  /\ currentUser \in Users /\ q \in Seq(Batch) /\ q # <<>> /\ Ascending(q)
             /\ Head(pipeline) = Head(q) /\ Head(q) = q[1] /\ 1 \in DOMAIN q
             /\ RemoveMutationBatch(q, Head(pipeline).id) = Tail(q)
             /\ q[1].write \in DOMAIN written /\ written[q[1].write] = currentUser
             /\ \A i \in DOMAIN q : i = 1 \/ (q[i].id # q[1].id /\ q[i].write # q[1].write)
<1> DEFINE q == mutations[currentUser]
<1>1. /\ pipeline \in Seq(Batch) /\ q \in Seq(Batch) /\ currentUser \in Users
      /\ InOrder(q, currentUser) /\ FrontOf(pipeline, q)
  BY DEF IInv, TypeOK, Ordered, Streaming
<1>2. Len(pipeline) \in Nat \ {0} /\ Len(q) \in Nat /\ Len(pipeline) <= Len(q)
  BY <1>1 DEF FrontOf
<1> HIDE DEF q
<1>3. q # <<>> /\ 1 \in DOMAIN pipeline
  BY <1>1, <1>2
<1>4. Head(pipeline) = pipeline[1] /\ pipeline[1] = q[1]
  BY <1>1, <1>3, TailPlaces DEF FrontOf
<1>5. Head(q) = q[1] /\ 1 \in DOMAIN q /\ DOMAIN q = 1 .. Len(q)
  BY <1>1, <1>3, TailPlaces
<1>6. Ascending(q)
  BY <1>1 DEF InOrder, Ascending
<1>7. RemoveMutationBatch(q, Head(pipeline).id) = Tail(q)
  BY <1>1, <1>3, <1>4, <1>5, <1>6, RemoveHead
<1>8. q[1].write \in DOMAIN written /\ written[q[1].write] = currentUser
  BY <1>1, <1>5 DEF InOrder
<1>9. ASSUME NEW i \in DOMAIN q, i # 1
      PROVE  q[i].id # q[1].id /\ q[i].write # q[1].write
  <2>1. 1 < i
    BY <1>2, <1>5, <1>9
  <2>2. q[1].id < q[i].id /\ q[1].write < q[i].write
    BY <1>1, <1>5, <2>1 DEF InOrder
  <2>3. q[1].id \in Nat /\ q[1].write \in Nat /\ q[i].id \in Nat /\ q[i].write \in Nat
    BY <1>1, <1>5, BatchSeq
  <2> QED  BY <2>2, <2>3
<1> QED  BY <1>1, <1>3, <1>4, <1>5, <1>6, <1>7, <1>8, <1>9 DEF q

(* NotifyUser calls the callback of the first batch, and no other.         *)
LEMMA NotifyIs ==
  ASSUME IInv, pipeline # <<>>, NEW result, NotifyUser(Head(pipeline).id, result)
  PROVE  LET b == Head(mutations[currentUser])
         IN  /\ callbacks' = [callbacks EXCEPT ![currentUser] = @ \ {b}]
             /\ outcome[b.write] = "waiting" <=> b \in callbacks[currentUser]
             /\ outcome' = [w \in DOMAIN outcome |->
                              IF w = b.write /\ b \in callbacks[currentUser] THEN result ELSE outcome[w]]
<1> DEFINE q == mutations[currentUser]
           b == Head(q)
           called == {c \in callbacks[currentUser] : c.id = b.id}
<1>1. /\ currentUser \in Users /\ b = q[1] /\ 1 \in DOMAIN q /\ Head(pipeline) = b
      /\ b.write \in DOMAIN written /\ written[b.write] = currentUser
      /\ \A i \in DOMAIN q : i = 1 \/ (q[i].id # b.id /\ q[i].write # b.write)
  BY FirstOfQueue
<1>2. /\ callbacks[currentUser] \subseteq ToSet(q)
      /\ outcome[b.write] = "waiting" <=> \E c \in callbacks[currentUser] : c.write = b.write
  BY <1>1 DEF IInv, CallbackHasBatch
<1>3. \A c \in callbacks[currentUser] : (c.id = b.id \/ c.write = b.write) => c = b
  BY <1>1, <1>2 DEF ToSet
<1>4. called = callbacks[currentUser] \cap {b}
  BY <1>3
<1>5. /\ callbacks' = [callbacks EXCEPT ![currentUser] = @ \ called]
      /\ outcome' = [w \in DOMAIN outcome |->
                       IF \E c \in called : c.write = w THEN result ELSE outcome[w]]
  BY <1>1 DEF NotifyUser
<1>6. callbacks[currentUser] \ called = callbacks[currentUser] \ {b}
  BY <1>4
<1>7. \A w : (\E c \in called : c.write = w) <=> (w = b.write /\ b \in callbacks[currentUser])
  BY <1>4
<1>8. outcome[b.write] = "waiting" <=> b \in callbacks[currentUser]
  BY <1>2, <1>3
<1> HIDE DEF b, called, q
<1>9. callbacks' = [callbacks EXCEPT ![currentUser] = @ \ {b}]
  BY <1>5, <1>6
<1>10. outcome' = [w \in DOMAIN outcome |->
                     IF w = b.write /\ b \in callbacks[currentUser] THEN result ELSE outcome[w]]
  BY <1>5, <1>7
<1> QED  BY <1>8, <1>9, <1>10 DEF b, q

(* A function on 1 .. n is a sequence of length n.                         *)
LEMMA FunSeq ==
  ASSUME NEW S, NEW n \in Nat, NEW f \in [1 .. n -> S]
  PROVE  f \in Seq(S) /\ Len(f) = n /\ DOMAIN f = 1 .. n
BY LenProperties

(* What bounds the ids of a queue place by place bounds them all.          *)
LEMMA InOrderAbove ==
  ASSUME NEW q \in Seq(Batch), NEW n \in Nat, \A i \in DOMAIN q : q[i].id \in 1 .. n - 1
  PROVE  \A id \in Ids(q) : id < n
<1> SUFFICES ASSUME NEW id \in Ids(q) PROVE id < n
  OBVIOUS
<1>1. PICK i \in DOMAIN q : id = q[i].id
  BY DEF Ids, ToSet
<1>2. id \in 1 .. n - 1
  BY <1>1
<1> QED  BY <1>2

(* What is left of a queue in order is in order.                           *)
LEMMA TailInOrder ==
  ASSUME NEW q \in Seq(Batch), q # <<>>, NEW u, InOrder(q, u)
  PROVE  InOrder(Tail(q), u) /\ Ascending(Tail(q))
<1>1. \A i \in DOMAIN Tail(q) : i \in Nat /\ i + 1 \in DOMAIN q /\ Tail(q)[i] = q[i + 1]
  BY TailPlaces
<1>2. ASSUME NEW i \in DOMAIN Tail(q)
      PROVE  /\ Tail(q)[i].id \in 1 .. nextBatchId - 1
             /\ Tail(q)[i].write \in DOMAIN written /\ written[Tail(q)[i].write] = u
  BY <1>1 DEF InOrder
<1>3. ASSUME NEW i \in DOMAIN Tail(q), NEW j \in DOMAIN Tail(q), i < j
      PROVE  Tail(q)[i].id < Tail(q)[j].id /\ Tail(q)[i].write < Tail(q)[j].write
  <2>1. i + 1 < j + 1
    BY <1>1, <1>3
  <2> QED  BY <1>1, <2>1 DEF InOrder
<1> QED  BY <1>2, <1>3 DEF InOrder, Ascending

(* The first batch of the pipeline, which is settled, leaves the pipeline  *)
(* and the queue, its callback is called and the pipeline is filled.       *)
LEMMA HeadLeaves ==
  ASSUME IInv, pipeline # <<>>, NEW result \in {"ok", "error"}, NEW s \in Stream,
         mutations' = [mutations EXCEPT ![currentUser] =
                         RemoveMutationBatch(mutations[currentUser], Head(pipeline).id)],
         NotifyUser(Head(pipeline).id, result),
         FillWritePipeline(Tail(pipeline),
                           RemoveMutationBatch(mutations[currentUser], Head(pipeline).id), s),
         UNCHANGED <<currentUser, nextBatchId, written, backendVars, faults>>,
         \/ Head(pipeline).write \in refused
         \/ Head(pipeline).write \in committed /\ Head(pipeline).write <= latest[currentUser],
         Correlated(s, Tail(pipeline)), Answered(s, Tail(pipeline)),
         s.idle => IsOpen(s) /\ Tail(pipeline) = <<>>,
         IsStarted(s) /\ ~s.handshakeComplete => Tail(pipeline) # <<>>
  PROVE  IInv'
<1> DEFINE q == mutations[currentUser]
           r == Tail(q)
           b == Head(q)
<1>1. /\ TypeOK /\ Len(outcome) = Len(written)
      /\ Ordered /\ Settled /\ Streaming /\ CallbackHasBatch
  BY DEF IInv
<1>2. /\ currentUser \in Users /\ q \in Seq(Batch) /\ q # <<>> /\ Ascending(q)
      /\ Head(pipeline) = b /\ b = q[1] /\ 1 \in DOMAIN q
      /\ RemoveMutationBatch(q, Head(pipeline).id) = r
      /\ b.write \in DOMAIN written /\ written[b.write] = currentUser
      /\ \A i \in DOMAIN q : i = 1 \/ (q[i].id # b.id /\ q[i].write # b.write)
  BY FirstOfQueue
<1>3. /\ mutations' = [mutations EXCEPT ![currentUser] = r]
      /\ FillWritePipeline(Tail(pipeline), r, s)
      /\ UNCHANGED <<currentUser, nextBatchId, written, committed, latest, refused, faults>>
  BY <1>2 DEF backendVars
<1>4. /\ r \in Seq(Batch) /\ Len(r) = Len(q) - 1 /\ Len(q) \in Nat
      /\ \A i \in DOMAIN r : i \in Nat /\ i + 1 \in DOMAIN q /\ r[i] = q[i + 1]
      /\ \A i \in DOMAIN q : i = 1 \/ (\E j \in DOMAIN r : q[i] = r[j])
  BY <1>2, TailPlaces
<1>5. InOrder(q, currentUser) /\ InOrder(r, currentUser) /\ Ascending(r)
  BY <1>1, <1>2, TailInOrder DEF Ordered
<1>6. /\ mutations \in [Users -> Seq(Batch)] /\ mutations'[currentUser] = r
      /\ \A u \in Users : u # currentUser => mutations'[u] = mutations[u]
  BY <1>1, <1>2, <1>3 DEF TypeOK
<1>7. /\ callbacks' = [callbacks EXCEPT ![currentUser] = @ \ {b}]
      /\ outcome[b.write] = "waiting" <=> b \in callbacks[currentUser]
      /\ outcome' = [w \in DOMAIN outcome |->
                       IF w = b.write /\ b \in callbacks[currentUser] THEN result ELSE outcome[w]]
  BY NotifyIs
<1>8. DOMAIN outcome = 1 .. Len(outcome) /\ Len(outcome) \in Nat /\ DOMAIN written = DOMAIN outcome
  BY <1>1, LenProperties DEF TypeOK
<1>9. outcome' \in Seq({"waiting", "ok", "error", "unknown"}) /\ Len(outcome') = Len(outcome)
  <2>1. \A w \in DOMAIN outcome : outcome[w] \in {"waiting", "ok", "error", "unknown"}
    BY <1>1, ElementOfSeq DEF TypeOK
  <2>2. outcome' \in [1 .. Len(outcome) -> {"waiting", "ok", "error", "unknown"}]
    BY <1>7, <1>8, <2>1
  <2> QED  BY <1>8, <2>2, FunSeq
<1>10. /\ pipeline' \in Seq(Batch) /\ stream' \in Stream /\ FrontOf(pipeline', r)
       /\ Correlated(stream', pipeline') /\ Answered(stream', pipeline') /\ Needed(stream', pipeline')
  <2> DEFINE p == Tail(pipeline)
  <2>1. /\ p \in Seq(Batch) /\ Len(p) = Len(pipeline) - 1 /\ Len(pipeline) \in Nat
        /\ \A i \in DOMAIN p : i \in Nat /\ i + 1 \in DOMAIN pipeline /\ p[i] = pipeline[i + 1]
        /\ DOMAIN p = 1 .. Len(pipeline) - 1
    BY <1>1, TailPlaces DEF TypeOK
  <2>2. /\ Len(pipeline) <= Len(q) /\ Len(pipeline) <= kMaxPendingWrites
        /\ \A i \in DOMAIN pipeline : pipeline[i] = q[i]
    BY <1>1 DEF Streaming, FrontOf
  <2>3. DOMAIN r = 1 .. Len(q) - 1
    BY <1>2, TailPlaces
  <2> HIDE DEF p, q, r
  <2>4. Len(p) <= Len(r) /\ Len(p) <= kMaxPendingWrites
    BY <1>4, <2>1, <2>2, WriteAssumption
  <2>5. \A i \in DOMAIN p : i \in DOMAIN r
    BY <1>4, <2>1, <2>2, <2>3
  <2>6. \A i \in DOMAIN p : p[i] = r[i]
    BY <1>4, <2>1, <2>2, <2>5
  <2>7. pipeline' = p \o Added(p, r) /\ stream' = FilledStream(p, r, s)
    BY <1>3 DEF FillWritePipeline, p
  <2>8. Correlated(s, p) /\ Answered(s, p) /\ (s.idle => IsOpen(s) /\ p = <<>>)
        /\ (IsStarted(s) /\ ~s.handshakeComplete => p # <<>>)
    BY DEF p
  <2> QED  BY <1>4, <1>5, <2>1, <2>4, <2>6, <2>7, <2>8, FillKeeps
<1> HIDE DEF b, r
<1>11. TypeOK'
  <2>1. mutations' \in [Users -> Seq(Batch)]
    BY <1>1, <1>3, <1>4 DEF TypeOK
  <2>2. \A u \in Users : \A id \in Ids(mutations'[u]) : id < nextBatchId
    <3>1. nextBatchId \in Nat /\ \A id \in Ids(r) : id < nextBatchId
      BY <1>1, <1>4, <1>5, InOrderAbove DEF TypeOK, InOrder
    <3> QED  BY <1>1, <1>6, <3>1 DEF TypeOK
  <2>3. callbacks' \in [Users -> SUBSET Batch]
    BY <1>1, <1>7 DEF TypeOK
  <2> QED  BY <1>1, <1>3, <1>9, <1>10, <2>1, <2>2, <2>3 DEF TypeOK
<1>12. Ordered'
  <2>1. \A u \in Users : InOrder(mutations'[u], u)
    BY <1>1, <1>5, <1>6 DEF Ordered
  <2> QED  BY <1>1, <1>3, <2>1 DEF Ordered, InOrder
<1>13. Settled'
  <2> SUFFICES ASSUME NEW w \in DOMAIN written,
                      ~ \E i \in DOMAIN mutations'[written[w]] : mutations'[written[w]][i].write = w
               PROVE  /\ \A i \in DOMAIN mutations'[written[w]] : w < mutations'[written[w]][i].write
                      /\ w \in refused \/ (w \in committed /\ w <= latest[written[w]])
    BY <1>3 DEF Settled, InQueue
  <2>1. CASE w = b.write
    <3>1. written[w] = currentUser /\ (w \in refused \/ (w \in committed /\ w <= latest[currentUser]))
      BY <1>2, <2>1
    <3>2. \A i \in DOMAIN r : w < r[i].write
      <4> SUFFICES ASSUME NEW i \in DOMAIN r PROVE w < r[i].write
        OBVIOUS
      <4>1. i + 1 \in DOMAIN q /\ r[i] = q[i + 1] /\ 1 < i + 1
        <5>1. i \in Nat /\ i + 1 \in DOMAIN q /\ r[i] = q[i + 1]
          BY <1>4
        <5>2. i # 0
          BY <1>4
        <5> QED  BY <5>1, <5>2
      <4>2. q[1].write < q[i + 1].write
        BY <1>2, <1>5, <4>1 DEF InOrder
      <4> QED  BY <1>2, <2>1, <4>1, <4>2
    <3> QED  BY <1>6, <3>1, <3>2
  <2>2. CASE w # b.write
    <3>1. ~InQueue(w)
      <4> SUFFICES ASSUME NEW i \in DOMAIN mutations[written[w]], mutations[written[w]][i].write = w
                   PROVE  FALSE
        BY DEF InQueue
      <4>1. CASE written[w] = currentUser
        <5>1. i # 1 /\ i \in DOMAIN q /\ q[i].write = w
          BY <1>2, <2>2, <4>1
        <5>2. PICK j \in DOMAIN r : q[i] = r[j]
          BY <1>4, <5>1
        <5> QED  BY <1>6, <4>1, <5>1, <5>2
      <4>2. CASE written[w] # currentUser
        <5>1. written[w] \in Users
          BY <1>1, ElementOfSeq DEF TypeOK
        <5> QED  BY <1>6, <4>2, <5>1
      <4> QED  BY <4>1, <4>2
    <3>2. /\ \A i \in DOMAIN mutations[written[w]] : w < mutations[written[w]][i].write
          /\ w \in refused \/ (w \in committed /\ w <= latest[written[w]])
      BY <1>1, <3>1 DEF Settled
    <3>3. \A i \in DOMAIN mutations'[written[w]] : w < mutations'[written[w]][i].write
      <4>1. CASE written[w] = currentUser
        <5>1. \A i \in DOMAIN q : w < q[i].write
          BY <3>2, <4>1
        <5> QED  BY <1>4, <1>6, <4>1, <5>1
      <4>2. CASE written[w] # currentUser
        <5>1. written[w] \in Users
          BY <1>1, ElementOfSeq DEF TypeOK
        <5> QED  BY <1>6, <3>2, <4>2, <5>1
      <4> QED  BY <4>1, <4>2
    <3> QED  BY <3>2, <3>3
  <2> QED  BY <2>1, <2>2
<1>14. Streaming'
  <2>1. Answered(stream, pipeline)'
    BY <1>3, <1>10 DEF Answered
  <2> QED  BY <1>3, <1>6, <1>10, <2>1 DEF Streaming, FrontOf, Correlated, Needed
<1>15. CallbackHasBatch'
  <2> SUFFICES ASSUME NEW u \in Users
               PROVE  /\ callbacks'[u] \subseteq ToSet(mutations'[u])
                      /\ \A w \in DOMAIN written : written[w] = u =>
                           (outcome'[w] = "waiting" <=> \E c \in callbacks'[u] : c.write = w)
    BY <1>3 DEF CallbackHasBatch
  <2>1. /\ callbacks[u] \subseteq ToSet(mutations[u])
        /\ \A w \in DOMAIN written : written[w] = u =>
             (outcome[w] = "waiting" <=> \E c \in callbacks[u] : c.write = w)
    BY <1>1 DEF CallbackHasBatch
  <2>2. callbacks \in [Users -> SUBSET Batch]
    BY <1>1 DEF TypeOK
  <2>3. CASE u # currentUser
    <3>1. callbacks'[u] = callbacks[u] /\ mutations'[u] = mutations[u]
      BY <1>2, <1>6, <1>7, <2>2, <2>3
    <3>2. \A w \in DOMAIN written : written[w] = u => outcome'[w] = outcome[w]
      BY <1>2, <1>7, <1>8, <2>3
    <3> QED  BY <2>1, <3>1, <3>2
  <2>4. CASE u = currentUser
    <3>1. callbacks'[u] = callbacks[u] \ {b} /\ mutations'[u] = r /\ mutations[u] = q
      BY <1>2, <1>6, <1>7, <2>2, <2>4
    <3>2. ASSUME NEW c \in callbacks'[u] PROVE c \in ToSet(r) /\ c.write # b.write
      <4>1. PICK i \in DOMAIN q : c = q[i]
        BY <2>1, <3>1 DEF ToSet
      <4>2. i # 1
        BY <1>2, <3>1, <4>1
      <4>3. PICK j \in DOMAIN r : q[i] = r[j]
        BY <1>4, <4>2
      <4> QED  BY <1>2, <4>1, <4>2, <4>3 DEF ToSet
    <3>3. ASSUME NEW w \in DOMAIN written, written[w] = u
          PROVE  outcome'[w] = "waiting" <=> \E c \in callbacks'[u] : c.write = w
      <4>1. CASE w = b.write
        <5>1. outcome'[w] # "waiting"
          BY <1>7, <1>8, <4>1
        <5> QED  BY <3>2, <4>1, <5>1
      <4>2. CASE w # b.write
        <5>1. outcome'[w] = outcome[w]
          BY <1>7, <1>8, <4>2
        <5> QED  BY <2>1, <3>1, <3>3, <4>2, <5>1
      <4> QED  BY <4>1, <4>2
    <3> QED  BY <3>1, <3>2, <3>3
  <2> QED  BY <2>3, <2>4
<1>16. Len(outcome)' = Len(written)'
  BY <1>1, <1>3, <1>9
<1> QED  BY <1>11, <1>12, <1>13, <1>14, <1>15, <1>16 DEF IInv

(* A response is there: it answers the first batch of the pipeline.        *)
LEMMA AnswerIsFirst ==
  ASSUME IInv, stream.in # <<>>, stream.handshakeComplete
  PROVE  /\ IsOpen(stream) /\ pipeline # <<>> /\ ~stream.idle
         /\ Head(pipeline).write \in committed /\ Head(pipeline).write <= latest[currentUser]
<1>1. /\ stream \in Stream /\ pipeline \in Seq(Batch)
      /\ Correlated(stream, pipeline) /\ Answered(stream, pipeline) /\ Needed(stream, pipeline)
  BY DEF IInv, TypeOK, Streaming
<1>2. IsOpen(stream)
  BY <1>1 DEF Correlated, Closed
<1>3. stream.in \in Seq(Batch) /\ 1 \in DOMAIN stream.in
  <2>1. stream.in \in Seq(Batch)
    BY <1>1 DEF Stream
  <2> QED  BY <2>1, TailPlaces
<1>4. pipeline # <<>>
  <2>1. Len(stream.in) <= Len(pipeline) /\ Len(stream.in) \in Nat \ {0}
    BY <1>1, <1>2, <1>3 DEF Correlated
  <2> DEFINE m == Len(stream.in)
  <2> HIDE DEF m
  <2>2. m <= Len(pipeline) /\ m \in Nat \ {0}
    BY <2>1 DEF m
  <2> QED  BY <2>2
<1>5. Head(pipeline) = pipeline[1]
  BY <1>1, <1>4, TailPlaces
<1> QED  BY <1>1, <1>2, <1>3, <1>4, <1>5 DEF Answered, Needed

(* When it is read, what is left under way is in step with what is left of *)
(* the pipeline.                                                           *)
LEMMA AnswerRead ==
  ASSUME IInv, stream.in # <<>>, stream.handshakeComplete
  PROVE  LET s == [stream EXCEPT !.in = Tail(@)]
             p == Tail(pipeline)
         IN  /\ s \in Stream /\ s.handshakeComplete /\ ~s.idle
             /\ Correlated(s, p) /\ Answered(s, p)
<1> DEFINE s == [stream EXCEPT !.in = Tail(@)]
           p == Tail(pipeline)
           in == stream.in
           out == stream.out
           m == Len(in)
           n == Len(out)
           k == Len(pipeline)
<1>1. /\ stream \in Stream /\ pipeline \in Seq(Batch)
      /\ Correlated(stream, pipeline) /\ Answered(stream, pipeline)
  BY DEF IInv, TypeOK, Streaming
<1>2. IsOpen(stream) /\ pipeline # <<>> /\ ~stream.idle
  BY AnswerIsFirst
<1>3. in \in Seq(Batch) /\ out \in Seq(Batch) /\ in # <<>>
  BY <1>1 DEF Stream
<1>4. /\ s \in Stream /\ s.handshakeComplete /\ ~s.idle /\ IsOpen(s) /\ s.end = stream.end
      /\ s.in = Tail(in) /\ s.out = out
  <2>1. Tail(in) \in Seq(Batch)
    BY <1>3, TailPlaces
  <2> QED  BY <1>1, <1>2, <2>1 DEF Stream, IsOpen
<1>5. /\ Len(s.in) = m - 1 /\ DOMAIN s.in = 1 .. m - 1 /\ m \in Nat \ {0} /\ DOMAIN in = 1 .. m
      /\ \A i \in 1 .. m - 1 : s.in[i] = in[i + 1]
      /\ n \in Nat /\ DOMAIN out = 1 .. n /\ Len(s.out) = n
  <2>1. Len(in) \in Nat \ {0} /\ Len(out) \in Nat /\ DOMAIN out = 1 .. Len(out)
    BY <1>3
  <2> QED  BY <1>3, <1>4, <2>1, TailPlaces
<1>6. /\ k \in Nat \ {0} /\ Len(p) = k - 1 /\ \A i \in 1 .. k - 1 : p[i] = pipeline[i + 1]
  <2>1. Len(pipeline) \in Nat \ {0}
    BY <1>1, <1>2
  <2> QED  BY <1>1, <1>2, <2>1, TailPlaces
<1>7. m <= k /\ \A i \in 1 .. m : in[i] = pipeline[i]
  BY <1>1, <1>2, <1>5 DEF Correlated
<1>8. stream.end = "no" => m + n = k /\ \A i \in 1 .. n : out[i] = pipeline[m + i]
  BY <1>1, <1>2, <1>5 DEF Correlated
<1>9. \A i \in 1 .. m : pipeline[i].write \in committed /\ pipeline[i].write <= latest[currentUser]
  BY <1>1, <1>2, <1>5 DEF Answered
<1>10. stream.end = "permanent" => m < k /\ pipeline[m + 1].write \in refused
  BY <1>1 DEF Answered
<1> HIDE DEF m, n, k, in, out, s, p
<1>11. \A i \in 1 .. m - 1 : i \in 1 .. k - 1 /\ i + 1 \in 1 .. m
  BY <1>5, <1>6, <1>7
<1>12. ASSUME stream.end = "no"
       PROVE  (m - 1) + n = k - 1 /\ \A i \in 1 .. n : out[i] = p[(m - 1) + i]
  <2>1. m + n = k
    BY <1>8, <1>12
  <2>2. ASSUME NEW i \in 1 .. n PROVE out[i] = p[(m - 1) + i]
    <3>1. (m - 1) + i \in 1 .. k - 1 /\ ((m - 1) + i) + 1 = m + i
      BY <1>5, <1>6, <2>1
    <3> QED  BY <1>6, <1>8, <1>12, <2>2, <3>1
  <2> QED  BY <1>5, <1>6, <2>1, <2>2
<1>13. ASSUME stream.end = "permanent"
       PROVE  m - 1 < k - 1 /\ p[(m - 1) + 1].write \in refused
  <2>1. m < k /\ m \in 1 .. k - 1 /\ (m - 1) + 1 = m
    BY <1>5, <1>6, <1>10, <1>13
  <2> QED  BY <1>5, <1>6, <1>10, <1>13, <2>1
<1>14. m - 1 <= k - 1
  BY <1>5, <1>6, <1>7
<1>15. Correlated(s, p)
  <2>1. \A i \in DOMAIN s.in : s.in[i] = p[i]
    BY <1>5, <1>6, <1>7, <1>11
  <2>2. Len(s.in) <= Len(p)
    BY <1>5, <1>6, <1>14
  <2>3. s.end = "no" => Len(s.in) + Len(s.out) = Len(p) /\ \A i \in DOMAIN s.out : s.out[i] = p[Len(s.in) + i]
    BY <1>4, <1>5, <1>6, <1>12
  <2> QED  BY <1>4, <2>1, <2>2, <2>3 DEF Correlated
<1>16. Answered(s, p)
  <2>1. \A i \in DOMAIN s.in : p[i].write \in committed /\ p[i].write <= latest[currentUser]
    BY <1>5, <1>6, <1>9, <1>11
  <2>2. s.end = "permanent" => Len(s.in) < Len(p) /\ p[Len(s.in) + 1].write \in refused
    BY <1>4, <1>5, <1>6, <1>13
  <2> QED  BY <1>4, <2>1, <2>2 DEF Answered
<1> QED  BY <1>4, <1>15, <1>16 DEF s, p

(* A response is read.                                                     *)
LEMMA ResultKeeps == IInv /\ OnWriteStreamMutationResult => IInv'
<1> SUFFICES ASSUME IInv, OnWriteStreamMutationResult PROVE IInv'
  OBVIOUS
<1> DEFINE s == [stream EXCEPT !.in = Tail(@)]
           queue == RemoveMutationBatch(mutations[currentUser], Head(pipeline).id)
<1>1. /\ stream.in # <<>> /\ stream.handshakeComplete
      /\ NotifyUser(Head(pipeline).id, "ok")
      /\ mutations' = [mutations EXCEPT ![currentUser] = queue]
      /\ FillWritePipeline(Tail(pipeline), queue, s)
      /\ UNCHANGED <<currentUser, nextBatchId, written, backendVars, faults>>
  BY DEF OnWriteStreamMutationResult
<1>2. /\ pipeline # <<>>
      /\ Head(pipeline).write \in committed /\ Head(pipeline).write <= latest[currentUser]
  BY <1>1, AnswerIsFirst
<1>3. /\ s \in Stream /\ s.handshakeComplete /\ ~s.idle
      /\ Correlated(s, Tail(pipeline)) /\ Answered(s, Tail(pipeline))
  BY <1>1, AnswerRead
<1> HIDE DEF s
<1> QED  BY <1>1, <1>2, <1>3, HeadLeaves

(* The first batch of the pipeline is blamed for a permanent error: it was *)
(* refused, or it is committed and its answer was not read.                *)
LEMMA Blamed ==
  ASSUME IInv, stream.end = "permanent", pipeline # <<>>
  PROVE  \/ Head(pipeline).write \in refused /\ stream.in = <<>>
         \/ /\ stream.in # <<>>
            /\ Head(pipeline).write \in committed /\ Head(pipeline).write <= latest[currentUser]
<1>1. stream \in Stream /\ pipeline \in Seq(Batch) /\ Answered(stream, pipeline)
  BY DEF IInv, TypeOK, Streaming
<1>2. IsOpen(stream) /\ stream.handshakeComplete /\ pipeline[Len(stream.in) + 1].write \in refused
  BY <1>1 DEF Answered
<1>3. CASE stream.in = <<>>
  <2>1. Len(stream.in) + 1 = 1
    BY <1>3
  <2>2. Head(pipeline) = pipeline[1]
    BY <1>1, TailPlaces
  <2> QED  BY <1>2, <1>3, <2>1, <2>2
<1>4. CASE stream.in # <<>>
  BY <1>2, <1>4, AnswerIsFirst
<1> QED  BY <1>3, <1>4

(* The stream has ended.                                                   *)
LEMMA CloseKeeps == IInv /\ OnWriteStreamClose => IInv'
<1> SUFFICES ASSUME IInv, OnWriteStreamClose PROVE IInv'
  OBVIOUS
<1>1. CASE stream.end = "permanent" /\ pipeline # <<>> /\ HandleWriteError
  <2> DEFINE queue == RemoveMutationBatch(mutations[currentUser], Head(pipeline).id)
  <2>1. /\ NotifyUser(Head(pipeline).id, "error")
        /\ mutations' = [mutations EXCEPT ![currentUser] = queue]
        /\ FillWritePipeline(Tail(pipeline), queue, Closed("Initial"))
        /\ UNCHANGED <<currentUser, nextBatchId, written, backendVars, faults>>
    BY <1>1 DEF HandleWriteError
  <2>2. \/ Head(pipeline).write \in refused
        \/ Head(pipeline).write \in committed /\ Head(pipeline).write <= latest[currentUser]
    BY <1>1, Blamed
  <2>3. /\ Closed("Initial") \in Stream /\ ~Closed("Initial").idle
        /\ Closed("Initial").state = "Initial"
        /\ Correlated(Closed("Initial"), Tail(pipeline))
        /\ Answered(Closed("Initial"), Tail(pipeline))
    BY ClosedStream
  <2>4. ~IsStarted(Closed("Initial"))
    BY <2>3 DEF IsStarted
  <2> QED  BY <1>1, <2>1, <2>2, <2>3, <2>4, HeadLeaves
<1>2. CASE RestartAfterError /\ UNCHANGED faults
  BY <1>2, RestartKeeps DEF IInv, TypeOK
<1> QED  BY <1>1, <1>2 DEF OnWriteStreamClose

(* There is no token.                                                      *)
LEMMA TokenKeeps == IInv /\ TokenFails => IInv'
<1> SUFFICES ASSUME IInv, TokenFails PROVE IInv'
  OBVIOUS
<1>1. faults' \in 0 .. MaxFaults
  BY WriteAssumption DEF IInv, TypeOK, TokenFails
<1> QED  BY <1>1, RestartKeeps DEF TokenFails

-----------------------------------------------------------------------------
(* A new write, another user, another process.                             *)

(* Places of a sequence with one more element.                             *)
LEMMA AppendPlaces ==
  ASSUME NEW S, NEW q \in Seq(S), NEW b \in S
  PROVE  /\ Append(q, b) \in Seq(S) /\ Len(Append(q, b)) = Len(q) + 1 /\ Len(q) \in Nat
         /\ DOMAIN q = 1 .. Len(q) /\ DOMAIN Append(q, b) = 1 .. Len(q) + 1
         /\ Append(q, b)[Len(q) + 1] = b
         /\ \A i \in DOMAIN q : i \in DOMAIN Append(q, b) /\ Append(q, b)[i] = q[i]
         /\ \A i \in DOMAIN Append(q, b) : i \in DOMAIN q \/ i = Len(q) + 1
<1>1. /\ Append(q, b) \in Seq(S) /\ Len(Append(q, b)) = Len(q) + 1 /\ Len(q) \in Nat
      /\ DOMAIN q = 1 .. Len(q) /\ DOMAIN Append(q, b) = 1 .. Len(q) + 1
      /\ Append(q, b)[Len(q) + 1] = b
      /\ \A i \in 1 .. Len(q) : Append(q, b)[i] = q[i]
  OBVIOUS
<1> QED  BY <1>1

(* What the invariant says of ids and numbers in use.                      *)
LEMMA IdsInUse ==
  ASSUME IInv, NEW u \in Users, NEW i \in DOMAIN mutations[u]
  PROVE  /\ mutations[u][i].id \in Nat /\ mutations[u][i].id < nextBatchId
         /\ mutations[u][i].write \in 1 .. Len(written)
<1>1. /\ InOrder(mutations[u], u) /\ nextBatchId \in Nat
      /\ DOMAIN written = 1 .. Len(written) /\ Len(written) \in Nat
  BY LenProperties DEF IInv, TypeOK, Ordered
<1>2. mutations[u][i].id \in 1 .. nextBatchId - 1 /\ mutations[u][i].write \in DOMAIN written
  BY <1>1 DEF InOrder
<1> QED  BY <1>1, <1>2

(* A new write has a new id and a new number.                              *)
LEMMA WriteKeeps == IInv /\ WriteMutations => IInv'
<1> SUFFICES ASSUME IInv, WriteMutations PROVE IInv'
  OBVIOUS
<1> DEFINE b == [id |-> nextBatchId, write |-> Len(written) + 1]
           q == mutations[currentUser]
           r == Append(q, b)
           N == Len(written)
<1>1. /\ TypeOK /\ Len(outcome) = Len(written)
      /\ Ordered /\ Settled /\ Streaming /\ CallbackHasBatch
  BY DEF IInv
<1>2. /\ mutations' = [mutations EXCEPT ![currentUser] = r]
      /\ nextBatchId' = nextBatchId + 1
      /\ callbacks' = [callbacks EXCEPT ![currentUser] =
                         IF \E c \in @ : c.id = b.id THEN @ ELSE @ \cup {b}]
      /\ FillWritePipeline(pipeline, r, stream)
      /\ written' = Append(written, currentUser)
      /\ outcome' = Append(outcome, "waiting")
      /\ UNCHANGED <<currentUser, committed, latest, refused, faults>>
  BY DEF WriteMutations, backendVars
<1>3. /\ currentUser \in Users /\ q \in Seq(Batch) /\ nextBatchId \in Nat \ {0} /\ N \in Nat
      /\ written \in Seq(Users) /\ outcome \in Seq({"waiting", "ok", "error", "unknown"})
      /\ mutations \in [Users -> Seq(Batch)] /\ callbacks \in [Users -> SUBSET Batch]
      /\ InOrder(q, currentUser)
  BY <1>1 DEF TypeOK, Ordered
<1>4. b \in Batch /\ b.id = nextBatchId /\ b.write = N + 1
  BY <1>3 DEF Batch
<1> HIDE DEF b
<1>5. /\ r \in Seq(Batch) /\ Len(r) = Len(q) + 1 /\ Len(q) \in Nat
      /\ DOMAIN q = 1 .. Len(q) /\ DOMAIN r = 1 .. Len(q) + 1 /\ r[Len(q) + 1] = b
      /\ \A i \in DOMAIN q : i \in DOMAIN r /\ r[i] = q[i]
      /\ \A i \in DOMAIN r : i \in DOMAIN q \/ i = Len(q) + 1
  BY <1>3, <1>4, AppendPlaces
<1>6. /\ written' \in Seq(Users) /\ Len(written') = N + 1
      /\ DOMAIN written = 1 .. N /\ DOMAIN written' = 1 .. N + 1 /\ written'[N + 1] = currentUser
      /\ \A w \in DOMAIN written : w \in DOMAIN written' /\ written'[w] = written[w]
      /\ \A w \in DOMAIN written' : w \in DOMAIN written \/ w = N + 1
  BY <1>2, <1>3, AppendPlaces
<1>7. /\ outcome' \in Seq({"waiting", "ok", "error", "unknown"}) /\ Len(outcome') = N + 1
      /\ outcome'[N + 1] = "waiting" /\ \A w \in DOMAIN written : outcome'[w] = outcome[w]
  <2>1. DOMAIN outcome = DOMAIN written
    BY <1>1, <1>3, LenProperties
  <2>2. "waiting" \in {"waiting", "ok", "error", "unknown"}
    OBVIOUS
  <2> QED  BY <1>1, <1>2, <1>3, <2>1, <2>2, AppendPlaces
<1>8. /\ mutations'[currentUser] = r
      /\ \A u \in Users : u # currentUser => mutations'[u] = mutations[u]
  BY <1>2, <1>3
<1>9. callbacks' = [callbacks EXCEPT ![currentUser] = @ \cup {b}]
  <2>1. ASSUME NEW c \in callbacks[currentUser] PROVE c.id # b.id
    <3>1. PICK i \in DOMAIN q : c = q[i]
      BY <1>1, <1>3 DEF CallbackHasBatch, ToSet
    <3>2. c.id \in Nat /\ c.id < nextBatchId
      BY <1>3, <3>1, IdsInUse
    <3> QED  BY <1>3, <1>4, <3>2
  <2> QED  BY <1>2, <2>1
<1>10. /\ \A i \in DOMAIN r :
            /\ r[i].id \in 1 .. nextBatchId' - 1
            /\ r[i].write \in DOMAIN written' /\ written'[r[i].write] = currentUser
            /\ \A j \in DOMAIN r : i < j => r[i].id < r[j].id /\ r[i].write < r[j].write
       /\ Ascending(r)
  <2>1. ASSUME NEW i \in DOMAIN r
        PROVE  /\ r[i].id \in 1 .. nextBatchId /\ r[i].write \in DOMAIN written'
               /\ written'[r[i].write] = currentUser
    <3>1. CASE i \in DOMAIN q
      <4>1. q[i].id \in 1 .. nextBatchId - 1 /\ q[i].write \in DOMAIN written /\ written[q[i].write] = currentUser
        BY <1>3, <3>1 DEF InOrder
      <4>2. q[i].id \in 1 .. nextBatchId
        BY <1>3, <4>1
      <4> QED  BY <1>5, <1>6, <3>1, <4>1, <4>2
    <3>2. CASE i = Len(q) + 1
      <4>1. nextBatchId \in 1 .. nextBatchId /\ N + 1 \in 1 .. N + 1
        BY <1>3
      <4> QED  BY <1>4, <1>5, <1>6, <3>2, <4>1
    <3> QED  BY <1>5, <3>1, <3>2
  <2>2. ASSUME NEW i \in DOMAIN r, NEW j \in DOMAIN r, i < j
        PROVE  r[i].id < r[j].id /\ r[i].write < r[j].write
    <3>1. i \in DOMAIN q
      BY <1>5, <2>2
    <3>2. CASE j \in DOMAIN q
      <4>1. q[i].id < q[j].id /\ q[i].write < q[j].write
        BY <1>3, <2>2, <3>1, <3>2 DEF InOrder
      <4> QED  BY <1>5, <3>1, <3>2, <4>1
    <3>3. CASE j = Len(q) + 1
      <4>1. q[i].id < nextBatchId /\ q[i].write \in 1 .. N
        BY <1>3, <3>1, IdsInUse
      <4>2. q[i].write < N + 1
        BY <1>3, <4>1
      <4> QED  BY <1>4, <1>5, <3>1, <3>3, <4>1, <4>2
    <3> QED  BY <1>5, <3>2, <3>3
  <2>3. nextBatchId' - 1 = nextBatchId
    BY <1>2, <1>3
  <2> QED  BY <2>1, <2>2, <2>3 DEF Ascending
<1>11. /\ pipeline' \in Seq(Batch) /\ stream' \in Stream /\ FrontOf(pipeline', r)
       /\ Correlated(stream', pipeline') /\ Answered(stream', pipeline') /\ Needed(stream', pipeline')
  <2>1. /\ pipeline \in Seq(Batch) /\ stream \in Stream
        /\ Len(pipeline) <= Len(q) /\ Len(pipeline) <= kMaxPendingWrites
        /\ \A i \in DOMAIN pipeline : pipeline[i] = q[i]
        /\ Correlated(stream, pipeline) /\ Answered(stream, pipeline) /\ Needed(stream, pipeline)
    BY <1>1 DEF TypeOK, Streaming, FrontOf
  <2>2. Len(pipeline) \in Nat /\ \A i \in DOMAIN pipeline : i \in DOMAIN q
    BY PipelineBatches
  <2>3. pipeline' = pipeline \o Added(pipeline, r) /\ stream' = FilledStream(pipeline, r, stream)
    BY <1>2 DEF FillWritePipeline
  <2> HIDE DEF q, r
  <2>4. Len(pipeline) <= Len(r) /\ \A i \in DOMAIN pipeline : pipeline[i] = r[i]
    BY <1>5, <2>1, <2>2
  <2>5. (stream.idle => IsOpen(stream) /\ pipeline = <<>>)
        /\ (IsStarted(stream) /\ ~stream.handshakeComplete => pipeline # <<>>)
    BY <2>1 DEF Needed
  <2> QED  BY <1>5, <1>10, <2>1, <2>3, <2>4, <2>5, FillKeeps
<1> HIDE DEF r
<1>12. TypeOK'
  <2>1. mutations' \in [Users -> Seq(Batch)]
    BY <1>2, <1>3, <1>5
  <2>2. \A u \in Users : \A id \in Ids(mutations'[u]) : id < nextBatchId'
    <3> SUFFICES ASSUME NEW u \in Users PROVE \A id \in Ids(mutations'[u]) : id < nextBatchId'
      OBVIOUS
    <3>1. nextBatchId' \in Nat
      BY <1>2, <1>3
    <3>2. CASE u = currentUser
      BY <1>5, <1>8, <1>10, <3>1, <3>2, InOrderAbove
    <3>3. CASE u # currentUser
      <4>1. \A i \in DOMAIN mutations[u] : mutations[u][i].id < nextBatchId'
                                           /\ mutations[u][i].id \in Nat
        BY <1>2, <1>3, IdsInUse
      <4> QED  BY <1>8, <3>3, <4>1 DEF Ids, ToSet
    <3> QED  BY <3>2, <3>3
  <2>3. callbacks' \in [Users -> SUBSET Batch]
    BY <1>3, <1>4, <1>9
  <2>4. committed' \subseteq 1 .. Len(written') /\ refused' \subseteq 1 .. Len(written')
    BY <1>1, <1>2, <1>3, <1>6 DEF TypeOK
  <2>5. latest' \in [Users -> 0 .. Len(written')]
    <3>1. latest \in [Users -> 0 .. N] /\ 0 .. N \subseteq 0 .. N + 1
      BY <1>1, <1>3 DEF TypeOK
    <3> QED  BY <1>2, <1>6, <3>1
  <2>6. nextBatchId' \in Nat /\ faults' \in 0 .. MaxFaults /\ currentUser' \in Users
    BY <1>1, <1>2, <1>3 DEF TypeOK
  <2> QED  BY <1>6, <1>7, <1>11, <2>1, <2>2, <2>3, <2>4, <2>5, <2>6 DEF TypeOK
<1>13. Ordered'
  <2>1. ASSUME NEW u \in Users PROVE InOrder(mutations[u], u)'
    <3>1. CASE u = currentUser
      BY <1>2, <1>8, <1>10, <3>1 DEF InOrder
    <3>2. CASE u # currentUser
      <4>1. InOrder(mutations[u], u) /\ mutations'[u] = mutations[u]
        BY <1>1, <1>8, <3>2 DEF Ordered
      <4>2. \A x \in 1 .. nextBatchId - 1 : x \in 1 .. nextBatchId' - 1
        BY <1>2, <1>3
      <4> QED  BY <1>6, <4>1, <4>2 DEF InOrder
    <3> QED  BY <3>1, <3>2
  <2>2. nextBatchId' # 0
    BY <1>2, <1>3
  <2> QED  BY <2>1, <2>2 DEF Ordered
<1>14. Settled'
  <2> SUFFICES ASSUME NEW w \in DOMAIN written',
                      ~ \E i \in DOMAIN mutations'[written'[w]] : mutations'[written'[w]][i].write = w
               PROVE  /\ \A i \in DOMAIN mutations'[written'[w]] : w < mutations'[written'[w]][i].write
                      /\ w \in refused \/ (w \in committed /\ w <= latest[written'[w]])
    BY <1>2 DEF Settled, InQueue
  <2>1. w # N + 1
    <3>1. Len(q) + 1 \in DOMAIN r /\ r[Len(q) + 1].write = N + 1
      BY <1>4, <1>5
    <3> QED  BY <1>6, <1>8, <3>1
  <2>2. w \in DOMAIN written /\ written'[w] = written[w] /\ written[w] \in Users /\ w \in 1 .. N
    BY <1>3, <1>6, <2>1, ElementOfSeq
  <2>3. ~InQueue(w)
    <3>1. CASE written[w] = currentUser
      <4>1. ~ \E i \in DOMAIN r : r[i].write = w
        BY <1>8, <2>2, <3>1
      <4>2. ~ \E i \in DOMAIN q : q[i].write = w
        BY <1>5, <4>1
      <4> QED  BY <3>1, <4>2 DEF InQueue
    <3>2. CASE written[w] # currentUser
      BY <1>8, <2>2, <3>2 DEF InQueue
    <3> QED  BY <3>1, <3>2
  <2>4. /\ \A i \in DOMAIN mutations[written[w]] : w < mutations[written[w]][i].write
        /\ w \in refused \/ (w \in committed /\ w <= latest[written[w]])
    BY <1>1, <2>2, <2>3 DEF Settled
  <2>5. \A i \in DOMAIN mutations'[written[w]] : w < mutations'[written[w]][i].write
    <3>1. CASE written[w] = currentUser
      <4>1. w < N + 1
        BY <1>3, <2>2
      <4>2. mutations'[written[w]] = r
        BY <1>8, <2>2, <3>1
      <4>3. \A i \in DOMAIN q : w < q[i].write
        BY <1>8, <2>4, <3>1
      <4>4. ASSUME NEW i \in DOMAIN r PROVE w < r[i].write
        <5>1. CASE i \in DOMAIN q
          BY <1>5, <4>3, <5>1
        <5>2. CASE i = Len(q) + 1
          BY <1>4, <1>5, <4>1, <5>2
        <5> QED  BY <1>5, <5>1, <5>2
      <4> QED  BY <4>2, <4>4
    <3>2. CASE written[w] # currentUser
      BY <1>8, <2>2, <2>4, <3>2
    <3> QED  BY <3>1, <3>2
  <2> QED  BY <2>2, <2>4, <2>5
<1>15. Streaming'
  <2>1. Answered(stream, pipeline)'
    BY <1>2, <1>11 DEF Answered
  <2>2. mutations'[currentUser'] = r
    BY <1>2, <1>8
  <2> QED  BY <1>11, <2>1, <2>2 DEF Streaming, FrontOf, Correlated, Needed
<1>16. CallbackHasBatch'
  <2> SUFFICES ASSUME NEW u \in Users
               PROVE  /\ callbacks'[u] \subseteq ToSet(mutations'[u])
                      /\ \A w \in DOMAIN written' : written'[w] = u =>
                           (outcome'[w] = "waiting" <=> \E c \in callbacks'[u] : c.write = w)
    BY DEF CallbackHasBatch
  <2>1. /\ callbacks[u] \subseteq ToSet(mutations[u])
        /\ \A w \in DOMAIN written : written[w] = u =>
             (outcome[w] = "waiting" <=> \E c \in callbacks[u] : c.write = w)
    BY <1>1 DEF CallbackHasBatch
  <2>2. CASE u # currentUser
    <3>1. callbacks'[u] = callbacks[u] /\ mutations'[u] = mutations[u]
      BY <1>3, <1>8, <1>9, <2>2
    <3>2. \A w \in DOMAIN written' : written'[w] = u =>
            w \in DOMAIN written /\ written[w] = u /\ outcome'[w] = outcome[w]
      BY <1>6, <1>7, <2>2
    <3> QED  BY <2>1, <3>1, <3>2
  <2>3. CASE u = currentUser
    <3>1. callbacks'[u] = callbacks[u] \cup {b} /\ mutations'[u] = r /\ mutations[u] = q
      BY <1>3, <1>8, <1>9, <2>3
    <3>2. ToSet(q) \subseteq ToSet(r) /\ b \in ToSet(r)
      <4>1. Len(q) + 1 \in DOMAIN r
        BY <1>5
      <4> QED  BY <1>5, <4>1 DEF ToSet
    <3>3. ASSUME NEW w \in DOMAIN written', written'[w] = u
          PROVE  outcome'[w] = "waiting" <=> \E c \in callbacks'[u] : c.write = w
      <4>1. CASE w = N + 1
        BY <1>4, <1>7, <3>1, <4>1
      <4>2. CASE w # N + 1
        <5>1. w \in DOMAIN written /\ written[w] = u /\ outcome'[w] = outcome[w]
          BY <1>6, <1>7, <3>3, <4>2
        <5> QED  BY <1>4, <2>1, <3>1, <4>2, <5>1
      <4> QED  BY <4>1, <4>2
    <3> QED  BY <2>1, <3>1, <3>2, <3>3
  <2> QED  BY <2>2, <2>3
<1>17. Len(outcome)' = Len(written)'
  BY <1>6, <1>7
<1> QED  BY <1>12, <1>13, <1>14, <1>15, <1>16, <1>17 DEF IInv

(* The id that is loaded from the queues is above all of theirs.           *)
LEMMA LoadedAbove ==
  ASSUME IInv
  PROVE  /\ LoadNextBatchId(mutations) \in Nat \ {0}
         /\ \A u \in Users : \A i \in DOMAIN mutations[u] :
              mutations[u][i].id < LoadNextBatchId(mutations)
<1> DEFINE S == {0} \cup UNION {Ids(mutations[u]) : u \in Users}
<1>1. nextBatchId \in Nat
  BY DEF IInv, TypeOK
<1>2. ASSUME NEW x \in S PROVE x \in Nat /\ x <= nextBatchId
  <2>1. CASE x = 0
    BY <1>1, <2>1
  <2>2. ASSUME NEW u \in Users, x \in Ids(mutations[u]) PROVE x \in Nat /\ x <= nextBatchId
    <3>1. PICK i \in DOMAIN mutations[u] : x = mutations[u][i].id
      BY <2>2 DEF Ids, ToSet
    <3>2. x \in Nat /\ x < nextBatchId
      BY <3>1, IdsInUse
    <3> QED  BY <1>1, <3>2
  <2> QED  BY <2>1, <2>2
<1>3. S \subseteq Nat /\ S # {}
  BY <1>2
<1>4. LoadNextBatchId(mutations) = 1 + Max(S)
  BY DEF LoadNextBatchId
<1>5. ASSUME NEW u \in Users, NEW i \in DOMAIN mutations[u] PROVE mutations[u][i].id \in S
  BY DEF Ids, ToSet
<1> HIDE DEF S
<1>6. Max(S) \in S /\ \A y \in S : y <= Max(S)
  BY <1>1, <1>2, <1>3, MaxNat
<1>7. Max(S) \in Nat
  BY <1>3, <1>6
<1>8. ASSUME NEW u \in Users, NEW i \in DOMAIN mutations[u]
      PROVE  mutations[u][i].id < LoadNextBatchId(mutations)
  <2>1. mutations[u][i].id \in Nat /\ mutations[u][i].id <= Max(S)
    BY <1>3, <1>5, <1>6
  <2> QED  BY <1>4, <1>7, <2>1
<1> QED  BY <1>4, <1>7, <1>8

(* The network starts again with the queue of u.                           *)
LEMMA NetworkRestarts ==
  ASSUME IInv, NEW u \in Users, currentUser' = u, RestartNetwork(mutations[u]),
         UNCHANGED <<mutations, written, backendVars>>,
         nextBatchId' \in Nat \ {0},
         \A v \in Users : \A i \in DOMAIN mutations[v] : mutations[v][i].id < nextBatchId',
         faults' \in 0 .. MaxFaults, callbacks' \in [Users -> SUBSET Batch],
         outcome' \in Seq({"waiting", "ok", "error", "unknown"}), Len(outcome') = Len(outcome),
         CallbackHasBatch'
  PROVE  IInv'
<1> DEFINE q == mutations[u]
           s == Closed("Initial")
<1>1. /\ TypeOK /\ Len(outcome) = Len(written) /\ Ordered /\ Settled
  BY DEF IInv
<1>2. mutations' = mutations /\ UNCHANGED <<written, committed, latest, refused>>
  BY DEF backendVars
<1>3. q \in Seq(Batch) /\ InOrder(q, u) /\ Ascending(q)
  BY <1>1 DEF TypeOK, Ordered, InOrder, Ascending
<1>4. /\ pipeline' \in Seq(Batch) /\ stream' \in Stream /\ FrontOf(pipeline', q)
      /\ Correlated(stream', pipeline') /\ Answered(stream', pipeline') /\ Needed(stream', pipeline')
  <2>1. /\ s \in Stream /\ ~s.idle /\ s.state = "Initial"
        /\ Correlated(s, <<>>) /\ Answered(s, <<>>)
    BY ClosedStream
  <2>2. ~IsStarted(s)
    BY <2>1 DEF IsStarted
  <2>3. pipeline' = <<>> \o Added(<<>>, q) /\ stream' = FilledStream(<<>>, q, s)
    BY DEF RestartNetwork, FillWritePipeline
  <2> HIDE DEF q, s
  <2>4. /\ <<>> \in Seq(Batch) /\ Len(<<>>) <= Len(q) /\ Len(<<>>) <= kMaxPendingWrites
        /\ \A i \in DOMAIN <<>> : <<>>[i] = q[i]
    BY <1>3, WriteAssumption
  <2> QED  BY <1>3, <2>1, <2>2, <2>3, <2>4, FillKeeps
<1>5. /\ ~IsOpen(stream') /\ stream'.end = "no"
  <2>1. s \in Stream /\ ~IsOpen(s) /\ s.end = "no"
    BY ClosedStream DEF Closed
  <2>2. Added(<<>>, q) \in Seq(Batch) /\ <<>> \in Seq(Batch)
    <3>1. /\ <<>> \in Seq(Batch) /\ Len(<<>>) <= Len(q) /\ Len(<<>>) <= kMaxPendingWrites
          /\ \A i \in DOMAIN <<>> : <<>>[i] = q[i]
      BY <1>3, WriteAssumption
    <3> QED  BY <1>3, <3>1, Filled
  <2>3. stream' = FilledStream(<<>>, q, s)
    BY DEF RestartNetwork, FillWritePipeline
  <2> HIDE DEF q, s
  <2> QED  BY <2>1, <2>2, <2>3, FilledStreamIs
<1>6. Answered(stream, pipeline)'
  BY <1>5 DEF Answered
<1>7. Streaming'
  <2>1. mutations'[currentUser'] = q
    BY <1>2
  <2> QED  BY <1>4, <1>6, <2>1 DEF Streaming, FrontOf, Correlated, Needed
<1>8. ASSUME NEW v \in Users, NEW i \in DOMAIN mutations[v]
      PROVE  mutations[v][i].id \in 1 .. nextBatchId' - 1
  <2>1. mutations[v][i].id \in 1 .. nextBatchId - 1 /\ nextBatchId \in Nat
    BY <1>1 DEF TypeOK, Ordered, InOrder
  <2> QED  BY <2>1
<1>9. Ordered'
  <2>1. \A v \in Users : InOrder(mutations[v], v)'
    BY <1>1, <1>2, <1>8 DEF Ordered, InOrder
  <2> QED  BY <2>1 DEF Ordered
<1>10. TypeOK'
  <2>1. ASSUME NEW v \in Users PROVE \A id \in Ids(mutations'[v]) : id < nextBatchId'
    <3>1. mutations[v] \in Seq(Batch)
      BY <1>1 DEF TypeOK
    <3> QED  BY <1>2, <1>8, <3>1, InOrderAbove
  <2> QED  BY <1>1, <1>2, <1>4, <2>1 DEF TypeOK
<1>11. Settled' /\ Len(outcome)' = Len(written)'
  BY <1>1, <1>2 DEF Settled, InQueue
<1> QED  BY <1>7, <1>9, <1>10, <1>11 DEF IInv

(* Another user, another token, another network.                           *)
LEMMA CredentialKeeps ==
  ASSUME IInv, NEW u \in Users, HandleCredentialChange(u)
  PROVE  IInv'
<1>1. nextBatchId \in Nat \ {0} /\ faults \in 0 .. MaxFaults
  BY DEF IInv, TypeOK, Ordered
<1>2. nextBatchId' \in Nat \ {0}
      /\ \A v \in Users : \A i \in DOMAIN mutations[v] : mutations[v][i].id < nextBatchId'
  <2>1. CASE u = currentUser
    BY <1>1, <2>1, IdsInUse DEF HandleCredentialChange
  <2>2. CASE u # currentUser
    BY <2>2, LoadedAbove DEF HandleCredentialChange
  <2> QED  BY <2>1, <2>2
<1>3. faults' \in 0 .. MaxFaults
  BY <1>1, WriteAssumption DEF HandleCredentialChange
<1>4. /\ callbacks' \in [Users -> SUBSET Batch] /\ Len(outcome') = Len(outcome)
      /\ outcome' \in Seq({"waiting", "ok", "error", "unknown"})
  BY DEF HandleCredentialChange, IInv, TypeOK
<1>5. CallbackHasBatch'
  BY DEF HandleCredentialChange, IInv, CallbackHasBatch
<1>6. /\ currentUser' = u /\ RestartNetwork(mutations[u])
      /\ UNCHANGED <<mutations, written, backendVars>>
  BY DEF HandleCredentialChange
<1> QED  BY <1>2, <1>3, <1>4, <1>5, <1>6, NetworkRestarts

(* Another process.                                                        *)
LEMMA RelaunchKeeps ==
  ASSUME IInv, NEW u \in Users, Relaunch(u)
  PROVE  IInv'
<1> DEFINE O == {"waiting", "ok", "error", "unknown"}
<1>1. outcome \in Seq(O) /\ faults \in 0 .. MaxFaults
  BY DEF IInv, TypeOK
<1>2. nextBatchId' \in Nat \ {0}
      /\ \A v \in Users : \A i \in DOMAIN mutations[v] : mutations[v][i].id < nextBatchId'
  BY LoadedAbove DEF Relaunch
<1>3. faults' \in 0 .. MaxFaults
  BY <1>1, WriteAssumption DEF Relaunch
<1>4. /\ callbacks' = [v \in Users |-> {}]
      /\ outcome' = [w \in DOMAIN outcome |->
                       IF outcome[w] = "waiting" THEN "unknown" ELSE outcome[w]]
      /\ currentUser' = u /\ RestartNetwork(mutations[u])
      /\ UNCHANGED <<mutations, written, backendVars>>
  BY DEF Relaunch
<1>5. outcome' \in Seq(O) /\ Len(outcome') = Len(outcome)
  <2>1. DOMAIN outcome = 1 .. Len(outcome) /\ Len(outcome) \in Nat /\ \A w \in DOMAIN outcome : outcome[w] \in O
    BY <1>1, LenProperties, ElementOfSeq
  <2>2. outcome' \in [1 .. Len(outcome) -> O]
    BY <1>4, <2>1
  <2> QED  BY <2>1, <2>2, FunSeq
<1>6. callbacks' \in [Users -> SUBSET Batch]
  BY <1>4
<1>7. CallbackHasBatch'
  <2>1. DOMAIN outcome = DOMAIN written
    BY LenProperties DEF IInv, TypeOK
  <2>2. \A w \in DOMAIN written : outcome'[w] # "waiting"
    BY <1>4, <2>1
  <2> QED  BY <1>4, <2>2 DEF CallbackHasBatch
<1> QED  BY <1>2, <1>3, <1>4, <1>5, <1>6, <1>7, NetworkRestarts

-----------------------------------------------------------------------------
(* The invariant.                                                          *)

(* At first all queues are empty and the stream is closed.                 *)
LEMMA InitIInv == Init => IInv
<1> SUFFICES ASSUME Init PROVE IInv
  OBVIOUS
<1>1. /\ currentUser \in Users /\ mutations = [u \in Users |-> <<>>] /\ nextBatchId = 1
      /\ callbacks = [u \in Users |-> {}] /\ pipeline = <<>> /\ stream = Closed("Initial")
      /\ written = <<>> /\ outcome = <<>> /\ committed = {} /\ refused = {}
      /\ latest = [u \in Users |-> 0] /\ faults = 0
  BY DEF Init
<1>2. \A u \in Users : mutations[u] = <<>>
  BY <1>1
<1>3. /\ stream \in Stream /\ stream.state = "Initial" /\ ~stream.idle
      /\ Correlated(stream, pipeline) /\ Answered(stream, pipeline)
  BY <1>1, ClosedStream
<1>4. TypeOK
  <2>1. mutations \in [Users -> Seq(Batch)] /\ callbacks \in [Users -> SUBSET Batch]
    BY <1>1
  <2>2. \A u \in Users : Ids(mutations[u]) = {}
    BY <1>2 DEF Ids, ToSet
  <2>3. Len(written) = 0 /\ latest \in [Users -> 0 .. 0]
    BY <1>1
  <2> QED  BY <1>1, <1>3, <2>1, <2>2, <2>3, WriteAssumption DEF TypeOK
<1>5. Ordered /\ Settled /\ CallbackHasBatch
  <2>1. Ordered
    BY <1>1, <1>2 DEF Ordered, InOrder
  <2>2. Settled
    BY <1>1 DEF Settled
  <2>3. CallbackHasBatch
    BY <1>1 DEF CallbackHasBatch
  <2> QED  BY <2>1, <2>2, <2>3
<1>6. Streaming
  <2>1. FrontOf(pipeline, mutations[currentUser])
    BY <1>1, <1>2, WriteAssumption DEF FrontOf
  <2>2. Needed(stream, pipeline)
    BY <1>1, <1>3 DEF Needed, IsStarted
  <2> QED  BY <1>3, <2>1, <2>2 DEF Streaming
<1> QED  BY <1>1, <1>4, <1>5, <1>6 DEF IInv

(* A step of somebody else.                                                *)
LEMMA StutterKeeps == IInv /\ UNCHANGED vars => IInv'
<1> SUFFICES ASSUME IInv, UNCHANGED vars PROVE IInv'
  OBVIOUS
<1>1. UNCHANGED <<clientVars, backendVars>> /\ stream' = stream /\ faults' = faults
  BY DEF vars
<1>2. /\ stream \in Stream /\ faults \in 0 .. MaxFaults
      /\ Correlated(stream, pipeline) /\ Answered(stream, pipeline) /\ Needed(stream, pipeline)
  BY DEF IInv, TypeOK, Streaming
<1> QED  BY <1>1, <1>2, OnlyStream

(* Every step keeps the invariant.                                         *)
LEMMA NextKeeps == IInv /\ [Next]_vars => IInv'
<1> SUFFICES ASSUME IInv, [Next]_vars PROVE IInv'
  OBVIOUS
<1>1. CASE WriteMutations
  BY <1>1, WriteKeeps
<1>2. CASE ResumeStartWithCredentials
  BY <1>2, ResumeKeeps
<1>3. CASE BackoffElapsed
  BY <1>3, BackoffKeeps
<1>4. CASE IdleTimeout
  BY <1>4, IdleKeeps
<1>5. CASE OnWriteStreamHandshakeComplete
  BY <1>5, HandshakeKeeps
<1>6. CASE OnWriteStreamMutationResult
  BY <1>6, ResultKeeps
<1>7. CASE OnStreamFinish
  BY <1>7, CloseKeeps DEF OnStreamFinish
<1>8. CASE OnOperationFailed
  BY <1>8, CloseKeeps DEF OnOperationFailed
<1>9. CASE TokenFails
  BY <1>9, TokenKeeps
<1>10. CASE BackendShakesHands
  BY <1>10, ShakesKeeps
<1>11. CASE BackendCommits
  BY <1>11, CommitsKeeps
<1>12. CASE BackendRefuses
  BY <1>12, RefusesKeeps
<1>13. CASE ConnectionLost
  BY <1>13, LostKeeps
<1>14. ASSUME NEW u \in Users, HandleCredentialChange(u) PROVE IInv'
  BY <1>14, CredentialKeeps
<1>15. ASSUME NEW u \in Users, Relaunch(u) PROVE IInv'
  BY <1>15, RelaunchKeeps
<1>16. CASE UNCHANGED vars
  BY <1>16, StutterKeeps
<1> QED  BY <1>1, <1>2, <1>3, <1>4, <1>5, <1>6, <1>7, <1>8, <1>9, <1>10, <1>11, <1>12, <1>13,
            <1>14, <1>15, <1>16 DEF Next

(* The inductive invariant holds in every state of every behaviour of the  *)
(* write path.                                                             *)
THEOREM Invariance == Spec => []IInv
<1>1. Init => IInv
  BY InitIInv
<1>2. IInv /\ [Next]_vars => IInv'
  BY NextKeeps
<1> QED  BY <1>1, <1>2, PTL DEF Spec

-----------------------------------------------------------------------------
(* What the runs check.                                                    *)

(* The first n elements of a queue.                                        *)
LEMMA PrefixIs ==
  ASSUME NEW q \in Seq(Batch), NEW n \in 0 .. Len(q)
  PROVE  /\ SubSeq(q, 1, n) \in Seq(Batch) /\ Len(SubSeq(q, 1, n)) = n
         /\ \A i \in 1 .. n : SubSeq(q, 1, n)[i] = q[i]
<1>1. Len(q) \in Nat /\ n \in Nat /\ \A i \in 1 .. n : q[i] \in Batch
  BY LenProperties, ElementOfSeq
<1>2. /\ SubSeq(q, 1, n) \in Seq(Batch)
      /\ Len(SubSeq(q, 1, n)) = IF 1 <= n THEN n - 1 + 1 ELSE 0
      /\ \A i \in 1 .. n - 1 + 1 : SubSeq(q, 1, n)[i] = q[1 + i - 1]
  BY <1>1, SubSeqProperties
<1> QED  BY <1>1, <1>2

(* FrontOf, place by place, is PipelineIsQueueFront, as sequences.         *)
LEMMA FrontIs == IInv => PipelineIsQueueFront
<1> SUFFICES ASSUME IInv PROVE PipelineIsQueueFront
  OBVIOUS
<1> DEFINE q == mutations[currentUser]
           n == Min({kMaxPendingWrites, Len(q)})
<1>1. q \in Seq(Batch) /\ pipeline \in Seq(Batch) /\ FrontOf(pipeline, q)
  BY DEF IInv, TypeOK, Streaming
<1>2. Len(q) \in Nat /\ kMaxPendingWrites \in Nat /\ Len(pipeline) \in Nat /\ DOMAIN pipeline = 1 .. Len(pipeline)
  BY <1>1, WriteAssumption, LenProperties
<1>3. n = IF kMaxPendingWrites <= Len(q) THEN kMaxPendingWrites ELSE Len(q)
  BY <1>2, MinPair
<1> HIDE DEF n, q
<1>4. Len(pipeline) = n /\ n \in 0 .. Len(q)
  <2> DEFINE a == Len(pipeline)
             c == Len(q)
  <2>1. a <= c /\ a <= kMaxPendingWrites /\ (a = c \/ a = kMaxPendingWrites)
    BY <1>1 DEF FrontOf
  <2>2. a \in Nat /\ c \in Nat /\ kMaxPendingWrites \in Nat
    BY <1>2
  <2>3. n = IF kMaxPendingWrites <= c THEN kMaxPendingWrites ELSE c
    BY <1>3
  <2> HIDE DEF a, c
  <2>4. a = n /\ n \in 0 .. c
    BY <2>1, <2>2, <2>3
  <2> QED  BY <2>4 DEF a, c
<1>5. /\ SubSeq(q, 1, n) \in Seq(Batch) /\ Len(SubSeq(q, 1, n)) = n
      /\ \A i \in 1 .. n : SubSeq(q, 1, n)[i] = q[i]
  BY <1>1, <1>4, PrefixIs
<1>6. \A i \in 1 .. n : pipeline[i] = q[i]
  BY <1>1, <1>2, <1>4 DEF FrontOf
<1>7. pipeline = SubSeq(q, 1, n)
  BY <1>1, <1>4, <1>5, <1>6, SeqEqual
<1> QED  BY <1>7 DEF PipelineIsQueueFront, q, n

(* Correlated, place by place, is ResultsCorrelate, as sequences.          *)
LEMMA ConsistentIs == IInv => Consistent
<1> SUFFICES ASSUME IInv PROVE Consistent
  OBVIOUS
<1> DEFINE in == stream.in
           out == stream.out
           m == Len(in)
           n == Len(out)
           k == Len(pipeline)
<1>1. /\ TypeOK /\ stream \in Stream /\ pipeline \in Seq(Batch)
      /\ Correlated(stream, pipeline) /\ Needed(stream, pipeline)
  BY DEF IInv, TypeOK, Streaming
<1>2. in \in Seq(Batch) /\ out \in Seq(Batch)
  BY <1>1 DEF Stream
<1>3. m \in Nat /\ n \in Nat /\ k \in Nat /\ DOMAIN in = 1 .. m /\ DOMAIN out = 1 .. n
  BY <1>1, <1>2, LenProperties
<1>4. ASSUME IsOpen(stream), stream.handshakeComplete, stream.end = "no"
      PROVE  in \o out = pipeline
  <2>1. /\ m + n = k /\ \A i \in 1 .. m : in[i] = pipeline[i]
        /\ \A i \in 1 .. n : out[i] = pipeline[m + i]
    BY <1>1, <1>3, <1>4 DEF Correlated
  <2>2. /\ in \o out \in Seq(Batch) /\ Len(in \o out) = m + n
        /\ \A i \in 1 .. m + n : (in \o out)[i] = IF i <= m THEN in[i] ELSE out[i - m]
    BY <1>2, ConcatProperties
  <2> HIDE DEF m, n, k, in, out
  <2>3. ASSUME NEW i \in 1 .. m + n PROVE (in \o out)[i] = pipeline[i]
    <3>1. CASE i <= m
      BY <1>3, <2>1, <2>2, <3>1
    <3>2. CASE ~(i <= m)
      <4>1. i - m \in 1 .. n /\ m + (i - m) = i
        BY <1>3, <3>2
      <4> QED  BY <2>1, <2>2, <2>3, <3>2, <4>1
    <3> QED  BY <3>1, <3>2
  <2>4. Len(pipeline) = m + n
    BY <2>1 DEF k
  <2> QED  BY <1>1, <2>2, <2>3, <2>4, SeqEqual
<1>5. ASSUME IsOpen(stream), stream.handshakeComplete
      PROVE  IsPrefix(in, pipeline)
  <2>1. m <= k /\ \A i \in 1 .. m : in[i] = pipeline[i]
    BY <1>1, <1>3, <1>5 DEF Correlated
  <2> HIDE DEF m, k
  <2>2. m \in 0 .. m /\ m \in 0 .. k
    BY <1>3, <2>1
  <2>3. /\ SubSeq(in, 1, m) \in Seq(Batch) /\ Len(SubSeq(in, 1, m)) = m
        /\ \A i \in 1 .. m : SubSeq(in, 1, m)[i] = in[i]
    BY <1>2, <2>2, PrefixIs DEF m
  <2>4. /\ SubSeq(pipeline, 1, m) \in Seq(Batch) /\ Len(SubSeq(pipeline, 1, m)) = m
        /\ \A i \in 1 .. m : SubSeq(pipeline, 1, m)[i] = pipeline[i]
    BY <1>1, <2>2, PrefixIs DEF k
  <2>5. SubSeq(in, 1, m) = SubSeq(pipeline, 1, m)
    BY <2>1, <2>3, <2>4, SeqEqual
  <2> QED  BY <2>1, <2>5 DEF IsPrefix, m, k
<1>6. ResultsCorrelate
  BY <1>1, <1>4, <1>5 DEF ResultsCorrelate, Correlated
<1>7. IdleOnlyWhenUnneeded
  BY <1>1 DEF IdleOnlyWhenUnneeded, Needed
<1> QED  BY <1>1, <1>6, <1>7 DEF Consistent

(* Settled is more than NoWriteLost and NewestWins say.                    *)
LEMMA SettledIs == IInv => NoWriteLost /\ NewestWins
<1> SUFFICES ASSUME IInv PROVE NoWriteLost /\ NewestWins
  OBVIOUS
<1>1. Settled
  BY DEF IInv
<1>2. NoWriteLost
  BY <1>1 DEF Settled, InQueue, NoWriteLost, ToSet
<1>3. NewestWins
  <2> SUFFICES ASSUME NEW u \in Users, mutations[u] = <<>>,
                      NEW w \in DOMAIN written, written[w] = u, w \notin refused
               PROVE  w <= latest[u]
    BY DEF NewestWins
  <2>1. ~InQueue(w)
    BY DEF InQueue
  <2> QED  BY <1>1, <2>1 DEF Settled
<1> QED  BY <1>2, <1>3

(* Every variable keeps its type, a response is always the answer to the   *)
(* first batch of the pipeline, and the stream is closed as idle only when *)
(* nothing needs it: what OnWriteStreamMutationResult and                  *)
(* OnWriteStreamClose rely on or assert.                                   *)
THEOREM ConsistentAlways == Spec => []Consistent
BY Invariance, ConsistentIs, PTL

(* FillWritePipeline leaves in the pipeline exactly the front of the queue *)
(* of the user who is signed in, through every retry, restart and change   *)
(* of user.                                                                *)
THEOREM PipelineAlwaysFront == Spec => []PipelineIsQueueFront
BY Invariance, FrontIs, PTL

(* A callback is kept exactly as long as somebody waits, and its batch is  *)
(* in the queue under its id, though ids are used again: NotifyUser calls  *)
(* nobody else's.                                                          *)
THEOREM CallbacksHaveBatches == Spec => []CallbackHasBatch
<1>1. IInv => CallbackHasBatch
  BY DEF IInv
<1> QED  BY <1>1, Invariance, PTL

(* A batch that RemoveMutationBatch removes is known to be committed or    *)
(* refused, so no accepted write is lost.                                  *)
THEOREM NeverLost == Spec => []NoWriteLost
BY Invariance, SettledIs, PTL

(* Writes that are sent again never leave an older value behind a newer    *)
(* one once the queue is empty.                                            *)
THEOREM NewestAlwaysWins == Spec => []NewestWins
BY Invariance, SettledIs, PTL

(* A step that ends with an error for a write.                             *)
LEMMA BlameStep ==
  ASSUME IInv, Next, NEW w \in DOMAIN outcome, outcome[w] = "waiting", outcome'[w] = "error"
  PROVE  w \in refused \/ (stream.in # <<>> /\ stream.out # <<>> /\ w \in committed)
<1>1. CASE UNCHANGED outcome
  BY <1>1
<1>2. CASE WriteMutations
  <2>1. outcome \in Seq({"waiting", "ok", "error", "unknown"}) /\ outcome' = Append(outcome, "waiting")
    BY <1>2 DEF IInv, TypeOK, WriteMutations
  <2>2. outcome'[w] = outcome[w]
    BY <2>1, AppendPlaces
  <2> QED  BY <2>2
<1>3. CASE OnWriteStreamMutationResult
  <2>1. stream.in # <<>> /\ stream.handshakeComplete /\ NotifyUser(Head(pipeline).id, "ok")
    BY <1>3 DEF OnWriteStreamMutationResult
  <2>2. pipeline # <<>>
    BY <2>1, AnswerIsFirst
  <2>3. outcome'[w] # "error"
    BY <2>1, <2>2, NotifyIs
  <2> QED  BY <2>3
<1>4. CASE stream.end = "permanent" /\ pipeline # <<>> /\ HandleWriteError
           /\ (stream.in = <<>> \/ stream.out # <<>>)
  <2>1. NotifyUser(Head(pipeline).id, "error")
    BY <1>4 DEF HandleWriteError
  <2>2. w = Head(mutations[currentUser]).write
    BY <1>4, <2>1, NotifyIs
  <2>3. w = Head(pipeline).write
    BY <1>4, <2>2, FirstOfQueue
  <2> QED  BY <1>4, <2>3, Blamed
<1>5. ASSUME NEW u \in Users, Relaunch(u) PROVE FALSE
  BY <1>5 DEF Relaunch
<1>6. OnWriteStreamClose => UNCHANGED outcome \/ (stream.end = "permanent" /\ pipeline # <<>> /\ HandleWriteError)
  BY DEF OnWriteStreamClose, RestartAfterError, clientVars
<1>7. CASE OnStreamFinish \/ OnOperationFailed
  BY <1>1, <1>4, <1>6, <1>7 DEF OnStreamFinish, OnOperationFailed
<1>8. CASE \/ ResumeStartWithCredentials \/ BackoffElapsed \/ IdleTimeout \/ TokenFails
           \/ OnWriteStreamHandshakeComplete
           \/ BackendShakesHands \/ BackendCommits \/ BackendRefuses \/ ConnectionLost
           \/ \E u \in Users : HandleCredentialChange(u)
  <2>1. UNCHANGED outcome
    BY <1>8 DEF ResumeStartWithCredentials, BackoffElapsed, IdleTimeout, TokenFails, RestartAfterError,
                OnWriteStreamHandshakeComplete, BackendShakesHands, BackendCommits, BackendRefuses,
                ConnectionLost, HandleCredentialChange, clientVars
  <2> QED  BY <1>1, <2>1
<1> QED  BY <1>2, <1>3, <1>5, <1>7, <1>8 DEF Next

(* HandleWriteError reports an error for a write that was refused, or for  *)
(* one that is stored and whose answer was dropped by OnOperationFailed;   *)
(* nothing else ever reports one.                                          *)
THEOREM BlameIsLimited == Spec => ErrorBlamesRefused
<1>1. IInv /\ [Next]_vars =>
        [\A w \in DOMAIN outcome :
           outcome[w] = "waiting" /\ outcome'[w] = "error" =>
             w \in refused \/ (stream.in # <<>> /\ stream.out # <<>> /\ w \in committed)]_vars
  BY BlameStep
<1> QED  BY <1>1, Invariance, PTL DEF Spec, ErrorBlamesRefused

-----------------------------------------------------------------------------
(* WriteSync implements PendingWrites.                                     *)

Queues == [u \in Users |-> WritesOf(mutations[u])]

(* The writes of a queue, place by place.                                  *)
LEMMA WritesOfIs ==
  ASSUME NEW q \in Seq(Batch)
  PROVE  /\ WritesOf(q) \in Seq(Nat) /\ Len(WritesOf(q)) = Len(q) /\ DOMAIN WritesOf(q) = 1 .. Len(q)
         /\ \A i \in 1 .. Len(q) : WritesOf(q)[i] = q[i].write
<1>1. DOMAIN q = 1 .. Len(q) /\ Len(q) \in Nat /\ \A i \in DOMAIN q : q[i].write \in Nat
  BY BatchSeq
<1>2. WritesOf(q) \in [1 .. Len(q) -> Nat] /\ \A i \in 1 .. Len(q) : WritesOf(q)[i] = q[i].write
  BY <1>1 DEF WritesOf
<1> QED  BY <1>1, <1>2, FunSeq

(* The writes of a queue with one batch more.                              *)
LEMMA WritesOfAppend ==
  ASSUME NEW q \in Seq(Batch), NEW b \in Batch
  PROVE  WritesOf(Append(q, b)) = Append(WritesOf(q), b.write)
<1> DEFINE n == Len(q)
           r == Append(q, b)
           x == WritesOf(r)
           y == Append(WritesOf(q), b.write)
<1>1. /\ r \in Seq(Batch) /\ Len(r) = n + 1 /\ n \in Nat /\ r[n + 1] = b
      /\ DOMAIN q = 1 .. n /\ \A i \in 1 .. n : r[i] = q[i]
  BY AppendPlaces
<1>2. /\ WritesOf(q) \in Seq(Nat) /\ Len(WritesOf(q)) = n /\ DOMAIN WritesOf(q) = 1 .. n
      /\ \A i \in 1 .. n : WritesOf(q)[i] = q[i].write
  BY WritesOfIs
<1>3. x \in Seq(Nat) /\ Len(x) = n + 1 /\ \A i \in 1 .. n + 1 : x[i] = r[i].write
  BY <1>1, WritesOfIs
<1>4. b.write \in Nat
  BY DEF Batch
<1>5. /\ y \in Seq(Nat) /\ Len(y) = n + 1 /\ y[n + 1] = b.write
      /\ \A i \in 1 .. n : y[i] = q[i].write
  BY <1>2, <1>4, AppendPlaces
<1> HIDE DEF x, y, r, n
<1>6. ASSUME NEW i \in 1 .. n + 1 PROVE x[i] = y[i]
  <2>1. CASE i = n + 1
    BY <1>1, <1>3, <1>5, <2>1
  <2>2. CASE i # n + 1
    <3>1. i \in 1 .. n
      BY <1>1, <2>2
    <3> QED  BY <1>1, <1>3, <1>5, <3>1
  <2> QED  BY <2>1, <2>2
<1>7. x = y
  BY <1>3, <1>5, <1>6, SeqEqual
<1> QED  BY <1>7 DEF x, y, r

(* The writes of a queue without its first batch.                          *)
LEMMA WritesOfTail ==
  ASSUME NEW q \in Seq(Batch), q # <<>>
  PROVE  /\ WritesOf(q) # <<>> /\ Head(WritesOf(q)) = Head(q).write
         /\ WritesOf(Tail(q)) = Tail(WritesOf(q))
<1> DEFINE n == Len(q)
           x == WritesOf(Tail(q))
           y == Tail(WritesOf(q))
<1>1. /\ Tail(q) \in Seq(Batch) /\ Len(Tail(q)) = n - 1 /\ n \in Nat \ {0} /\ Head(q) = q[1]
      /\ \A i \in 1 .. n - 1 : Tail(q)[i] = q[i + 1]
  BY TailPlaces
<1>2. /\ WritesOf(q) \in Seq(Nat) /\ Len(WritesOf(q)) = n
      /\ \A i \in 1 .. n : WritesOf(q)[i] = q[i].write
  BY WritesOfIs
<1>3. /\ x \in Seq(Nat) /\ Len(x) = n - 1 /\ \A i \in 1 .. n - 1 : x[i] = Tail(q)[i].write
  BY <1>1, WritesOfIs
<1> DEFINE v == WritesOf(q)
<1> HIDE DEF v, n
<1>4. v \in Seq(Nat) /\ Len(v) = n /\ v # <<>>
  BY <1>1, <1>2 DEF v
<1>5. /\ Head(v) = v[1] /\ Tail(v) \in Seq(Nat) /\ Len(Tail(v)) = n - 1
      /\ \A i \in 1 .. n - 1 : Tail(v)[i] = v[i + 1]
  BY <1>4, HeadTailProperties
<1>6. ASSUME NEW i \in 1 .. n - 1 PROVE x[i] = Tail(v)[i]
  <2>1. i + 1 \in 1 .. n
    BY <1>1
  <2>2. x[i] = Tail(q)[i].write /\ Tail(q)[i] = q[i + 1]
    BY ONLY <1>1, <1>3, i \in 1 .. n - 1
  <2>3. Tail(v)[i] = v[i + 1]
    BY ONLY <1>5, i \in 1 .. n - 1
  <2>4. v[i + 1] = q[i + 1].write
    BY ONLY <1>2, <2>1 DEF v
  <2> QED  BY ONLY <2>2, <2>3, <2>4
<1> HIDE DEF x
<1>7. x = Tail(v)
  BY <1>3, <1>5, <1>6, SeqEqual
<1>8. 1 \in 1 .. n
  BY <1>1
<1> QED  BY <1>1, <1>2, <1>4, <1>5, <1>7, <1>8 DEF v, x

(* The first batch that leaves is a write that is settled.                 *)
LEMMA LeavesSettles ==
  ASSUME IInv, pipeline # <<>>, NEW result \in {"ok", "error"},
         mutations' = [mutations EXCEPT ![currentUser] =
                         RemoveMutationBatch(mutations[currentUser], Head(pipeline).id)],
         NotifyUser(Head(pipeline).id, result),
         UNCHANGED <<currentUser, written, committed>>,
         result = "ok" => Head(pipeline).write \in committed
  PROVE  PW!Settle(result)
<1> DEFINE q == mutations[currentUser]
           w == Head(q).write
<1>1. /\ currentUser \in Users /\ q \in Seq(Batch) /\ q # <<>> /\ Head(pipeline) = Head(q)
      /\ RemoveMutationBatch(q, Head(pipeline).id) = Tail(q)
      /\ w \in DOMAIN written
  BY FirstOfQueue
<1>2. /\ outcome[w] = "waiting" <=> Head(q) \in callbacks[currentUser]
      /\ outcome' = [v \in DOMAIN outcome |->
                       IF v = w /\ Head(q) \in callbacks[currentUser] THEN result ELSE outcome[v]]
  BY NotifyIs
<1>3. /\ mutations \in [Users -> Seq(Batch)] /\ outcome \in Seq({"waiting", "ok", "error", "unknown"})
      /\ written \in Seq(Users) /\ Len(outcome) = Len(written)
  BY DEF IInv, TypeOK
<1>4. /\ WritesOf(q) # <<>> /\ Head(WritesOf(q)) = w /\ WritesOf(Tail(q)) = Tail(WritesOf(q))
  BY <1>1, WritesOfTail
<1>5. mutations' = [mutations EXCEPT ![currentUser] = Tail(q)]
  BY <1>1
<1> HIDE DEF q, w
<1>6. Queues[currentUser] = WritesOf(q)
  BY <1>1 DEF Queues, q
<1>7. Queues' = [Queues EXCEPT ![currentUser] = Tail(@)]
  <2>1. Queues' = [u \in Users |-> WritesOf(mutations'[u])]
    BY DEF Queues, WritesOf
  <2>2. mutations'[currentUser] = Tail(q) /\ \A u \in Users : u # currentUser => mutations'[u] = mutations[u]
    BY <1>1, <1>3, <1>5
  <2>3. \A u \in Users : WritesOf(mutations'[u]) = IF u = currentUser THEN Tail(Queues[u]) ELSE Queues[u]
    <3>1. \A u \in Users : Queues[u] = WritesOf(mutations[u])
      BY DEF Queues
    <3>2. WritesOf(mutations'[currentUser]) = Tail(Queues[currentUser])
      BY <1>4, <1>6, <2>2
    <3> QED  BY <2>2, <3>1, <3>2
  <2>4. DOMAIN Queues = Users
    BY DEF Queues
  <2> QED  BY <2>1, <2>3, <2>4
<1>8. outcome' = IF outcome[w] = "waiting" THEN [outcome EXCEPT ![w] = result] ELSE outcome
  <2>1. DOMAIN outcome = DOMAIN written /\ outcome = [v \in DOMAIN outcome |-> outcome[v]]
    BY <1>3, LenProperties
  <2> QED  BY <1>1, <1>2, <2>1
<1>9. PW!Hear(Head(Queues[currentUser]), result)
  BY <1>4, <1>6, <1>8 DEF PW!Hear
<1>10. result = "ok" => Head(Queues[currentUser]) \in committed
  BY <1>1, <1>4, <1>6 DEF w
<1>11. Queues[currentUser] # <<>> /\ Len(written)' = Len(written)
  BY <1>4, <1>6
<1> QED  BY <1>7, <1>9, <1>10, <1>11 DEF PW!Settle, Queues

(* WriteMutations is a Submit.                                             *)
LEMMA WriteSubmits == IInv /\ WriteMutations => PW!Submit
<1> SUFFICES ASSUME IInv, WriteMutations PROVE PW!Submit
  OBVIOUS
<1> DEFINE q == mutations[currentUser]
           b == [id |-> nextBatchId, write |-> Len(written) + 1]
<1>1. /\ mutations' = [mutations EXCEPT ![currentUser] = Append(q, b)]
      /\ written' = Append(written, currentUser) /\ outcome' = Append(outcome, "waiting")
      /\ UNCHANGED <<currentUser, committed>>
  BY DEF WriteMutations, backendVars
<1>2. /\ currentUser \in Users /\ mutations \in [Users -> Seq(Batch)] /\ q \in Seq(Batch)
      /\ nextBatchId \in Nat /\ written \in Seq(Users)
  BY DEF IInv, TypeOK
<1>3. Len(written') = Len(written) + 1 /\ Len(written) \in Nat
  BY <1>1, <1>2, AppendPlaces
<1>4. b \in Batch /\ b.write = Len(written')
  BY <1>2, <1>3 DEF Batch
<1>5. WritesOf(Append(q, b)) = Append(WritesOf(q), Len(written'))
  BY <1>2, <1>4, WritesOfAppend
<1> HIDE DEF q, b
<1>6. Queues' = [Queues EXCEPT ![currentUser] = Append(@, Len(written'))]
  <2>1. Queues' = [u \in Users |-> WritesOf(mutations'[u])]
    BY DEF Queues, WritesOf
  <2>2. mutations'[currentUser] = Append(q, b) /\ \A u \in Users : u # currentUser => mutations'[u] = mutations[u]
    BY <1>1, <1>2
  <2>3. Queues[currentUser] = WritesOf(q) /\ DOMAIN Queues = Users
    BY <1>2 DEF Queues, q
  <2>4. \A u \in Users : WritesOf(mutations'[u]) =
          IF u = currentUser THEN Append(Queues[u], Len(written')) ELSE Queues[u]
    BY <1>5, <2>2, <2>3 DEF Queues
  <2> QED  BY <2>1, <2>3, <2>4
<1> QED  BY <1>1, <1>3, <1>6 DEF PW!Submit, Queues

(* What the backend commits is a Commit.                                   *)
LEMMA CommitsCommit == IInv /\ BackendCommits => \E i \in DOMAIN Queues[currentUser] : PW!Commit(i)
<1> SUFFICES ASSUME IInv, BackendCommits PROVE \E i \in DOMAIN Queues[currentUser] : PW!Commit(i)
  OBVIOUS
<1> DEFINE q == mutations[currentUser]
           m == Len(stream.in)
           w == Head(stream.out).write
<1>1. /\ stream.out # <<>> /\ stream.end = "no" /\ Head(stream.out) # Handshake
      /\ committed' = committed \cup {w} /\ UNCHANGED <<currentUser, mutations, written, outcome>>
  BY DEF BackendCommits, clientVars
<1>2. /\ IsOpen(stream) /\ stream.handshakeComplete /\ m \in Nat /\ m + 1 \in DOMAIN pipeline
      /\ Head(stream.out) = pipeline[m + 1] /\ currentUser \in Users
  BY <1>1, TakesBatch
<1>3. stream \in Stream /\ q \in Seq(Batch) /\ Answered(stream, pipeline) /\ stream.in \in Seq(Batch)
  BY DEF IInv, TypeOK, Streaming, Stream
<1>4. DOMAIN stream.in = 1 .. m
  BY <1>3, LenProperties
<1>5. DOMAIN pipeline = 1 .. Len(pipeline) /\ Len(pipeline) \in Nat
      /\ \A i \in DOMAIN pipeline : i \in DOMAIN q /\ pipeline[i] = q[i]
  BY PipelineBatches
<1>6. \A i \in 1 .. m : pipeline[i].write \in committed
  BY <1>2, <1>3, <1>4 DEF Answered
<1>7. /\ DOMAIN WritesOf(q) = DOMAIN q /\ \A i \in DOMAIN q : WritesOf(q)[i] = q[i].write
      /\ Queues[currentUser] = WritesOf(q)
  BY <1>2 DEF Queues, WritesOf
<1> HIDE DEF q, m
<1>8. m + 1 \in DOMAIN WritesOf(q) /\ WritesOf(q)[m + 1] = w
  BY <1>2, <1>5, <1>7
<1>9. \A j \in 1 .. (m + 1) - 1 : WritesOf(q)[j] \in committed
  <2>1. \A j \in 1 .. (m + 1) - 1 : j \in 1 .. m /\ j \in DOMAIN pipeline
    BY <1>2, <1>5
  <2> QED  BY <1>5, <1>6, <1>7, <2>1
<1>10. Queues' = Queues /\ Len(written)' = Len(written)
  BY <1>1 DEF Queues, WritesOf
<1>11. PW!Commit(m + 1)
  BY <1>1, <1>7, <1>8, <1>9, <1>10 DEF PW!Commit, Queues
<1> QED  BY <1>7, <1>8, <1>11

(* Every step is one of PendingWrites or a stutter.                        *)
LEMMA StepImplements == IInv /\ [Next]_vars => [PW!Next]_(PW!vars)
<1> SUFFICES ASSUME IInv, [Next]_vars PROVE PW!Next \/ UNCHANGED PW!vars
  OBVIOUS
<1>1. ASSUME UNCHANGED <<currentUser, mutations, written, committed, outcome>> PROVE UNCHANGED PW!vars
  <2>1. Queues' = Queues /\ Len(written)' = Len(written)
    BY <1>1 DEF Queues, WritesOf
  <2> QED  BY <1>1, <2>1 DEF PW!vars, Queues
<1>2. ASSUME NEW result \in {"ok", "error"}, PW!Settle(result) PROVE PW!Next
  BY <1>2 DEF PW!Next
<1>3. CASE WriteMutations
  BY <1>3, WriteSubmits DEF PW!Next
<1>4. CASE BackendCommits
  BY <1>4, CommitsCommit DEF PW!Next, Queues
<1>5. CASE OnWriteStreamMutationResult
  <2>1. /\ stream.in # <<>> /\ stream.handshakeComplete
        /\ NotifyUser(Head(pipeline).id, "ok")
        /\ mutations' = [mutations EXCEPT ![currentUser] =
                           RemoveMutationBatch(mutations[currentUser], Head(pipeline).id)]
        /\ UNCHANGED <<currentUser, written, committed>>
    BY <1>5 DEF OnWriteStreamMutationResult, backendVars
  <2>2. pipeline # <<>> /\ Head(pipeline).write \in committed
    BY <2>1, AnswerIsFirst
  <2>3. PW!Settle("ok")
    BY <2>1, <2>2, LeavesSettles
  <2> QED  BY <1>2, <2>3
<1>6. CASE OnWriteStreamClose
  <2>1. CASE pipeline # <<>> /\ HandleWriteError
    <3>1. /\ NotifyUser(Head(pipeline).id, "error")
          /\ mutations' = [mutations EXCEPT ![currentUser] =
                             RemoveMutationBatch(mutations[currentUser], Head(pipeline).id)]
          /\ UNCHANGED <<currentUser, written, committed>>
      BY <2>1 DEF HandleWriteError, backendVars
    <3>2. PW!Settle("error")
      BY <2>1, <3>1, LeavesSettles
    <3> QED  BY <1>2, <3>2
  <2>2. CASE RestartAfterError
    BY <1>1, <2>2 DEF RestartAfterError, clientVars, backendVars
  <2> QED  BY <1>6, <2>1, <2>2 DEF OnWriteStreamClose
<1>7. ASSUME NEW u \in Users, HandleCredentialChange(u) PROVE PW!Next
  <2>1. currentUser' = u /\ UNCHANGED <<mutations, written, outcome, committed>>
    BY <1>7 DEF HandleCredentialChange, backendVars
  <2>2. Queues' = Queues /\ Len(written)' = Len(written)
    BY <2>1 DEF Queues, WritesOf
  <2>3. PW!Switch(u)
    BY <2>1, <2>2 DEF PW!Switch, Queues
  <2> QED  BY <2>3 DEF PW!Next
<1>8. ASSUME NEW u \in Users, Relaunch(u) PROVE PW!Next
  <2>1. /\ currentUser' = u /\ UNCHANGED <<mutations, written, committed>>
        /\ outcome' = [w \in DOMAIN outcome |->
                         IF outcome[w] = "waiting" THEN "unknown" ELSE outcome[w]]
    BY <1>8 DEF Relaunch, backendVars
  <2>2. Queues' = Queues /\ Len(written)' = Len(written)
    BY <2>1 DEF Queues, WritesOf
  <2>3. PW!Restart(u)
    BY <2>1, <2>2 DEF PW!Restart, Queues
  <2> QED  BY <2>3 DEF PW!Next
<1>9. CASE \/ ResumeStartWithCredentials \/ BackoffElapsed \/ IdleTimeout \/ TokenFails
           \/ OnWriteStreamHandshakeComplete
           \/ BackendShakesHands \/ BackendRefuses \/ ConnectionLost \/ UNCHANGED vars
  <2>1. UNCHANGED <<currentUser, mutations, written, committed, outcome>>
    BY <1>9 DEF ResumeStartWithCredentials, BackoffElapsed, IdleTimeout, TokenFails, RestartAfterError,
                OnWriteStreamHandshakeComplete, BackendShakesHands, BackendRefuses,
                ConnectionLost, vars, clientVars, backendVars
  <2> QED  BY <1>1, <2>1
<1> QED  BY <1>3, <1>4, <1>5, <1>6, <1>7, <1>8, <1>9 DEF Next, OnStreamFinish, OnOperationFailed

(* Initial states are initial states of PendingWrites.                     *)
LEMMA InitImplements == Init => PW!Init
<1> SUFFICES ASSUME Init PROVE PW!Init
  OBVIOUS
<1>1. /\ currentUser \in Users /\ mutations = [u \in Users |-> <<>>]
      /\ written = <<>> /\ outcome = <<>> /\ committed = {}
  BY DEF Init
<1>2. WritesOf(<<>>) = <<>>
  BY DEF WritesOf
<1>3. [u \in Users |-> WritesOf(mutations[u])] = [u \in Users |-> <<>>]
  BY <1>1, <1>2
<1>4. Len(written) = 0
  BY <1>1
<1> QED  BY <1>1, <1>3, <1>4 DEF PW!Init

(* Pipeline, stream, retries, restarts and changes of user implement the   *)
(* queue of writes that PendingWrites promises: every task of the worker   *)
(* queue and every move of the backend is one of its steps or changes      *)
(* nothing it tells apart.                                                 *)
THEOREM Refinement == Spec => Implements
<1>1. Init => PW!Init
  BY InitImplements
<1>2. IInv /\ [Next]_vars => [PW!Next]_(PW!vars)
  BY StepImplements
<1> QED  BY <1>1, <1>2, Invariance, PTL DEF Spec, Implements, PW!Spec
=============================================================================
