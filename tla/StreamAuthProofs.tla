--------------------------- MODULE StreamAuthProofs ---------------------------
(***************************************************************************)
(* Theorems about StreamAuth, for any users and any number of sign-ins,    *)
(* refreshes, errors and writes.                                           *)
(*                                                                         *)
(* Users travel through the queues: FIRAuth announces them on the main     *)
(* queue, the credentials provider passes them on to the worker queue.  So *)
(* what a queue tells at its end is what its sender knows now (Tells), and *)
(* a message is about the user that the queue has told up to its place     *)
(* (TellsAt).  A token is told apart by the counter, while its request     *)
(* waits, and by the close count, when it comes back.                      *)
(***************************************************************************)
EXTENDS StreamAuth, FiniteSetTheorems, SequenceTheorems, TLAPS

-----------------------------------------------------------------------------
(* Up to place n of queue q, uid is the user told last by an element of    *)
(* this kind, or cur if there is none.                                     *)
TellsAt(q, n, kind, cur, uid) ==
  /\ (\A j \in DOMAIN q : j < n => q[j].kind # kind) => cur = uid
  /\ \A i \in DOMAIN q :
       /\ i < n /\ q[i].kind = kind
       /\ \A j \in DOMAIN q : i < j /\ j < n => q[j].kind # kind
       => q[i].uid = uid

Tells(q, kind, cur, uid) == TellsAt(q, Len(q) + 1, kind, cur, uid)

(* There is none of this kind before place n, or none at all.              *)
NoneBefore(q, n, kind) == \A j \in DOMAIN q : j < n => q[j].kind # kind

None(q, kind) == \A j \in DOMAIN q : q[j].kind # kind

(* A token on its way to the stream whose close count is c.                *)
IsLive(e, c) ==
  \/ e.kind = "token" /\ e.request.close = c
  \/ e.kind = "resume" /\ e.close = c

NoneLive(q, c) == \A i \in DOMAIN q : ~IsLive(q[i], c)

OneLive(q, c) ==
  \E i \in DOMAIN q : IsLive(q[i], c) /\ \A j \in DOMAIN q : j # i => ~IsLive(q[j], c)

-----------------------------------------------------------------------------
(* Queues.                                                                 *)

(* Places of a sequence with one more element.                             *)
LEMMA AppendPlaces ==
  ASSUME NEW S, NEW q \in Seq(S), NEW e \in S
  PROVE  /\ Append(q, e) \in Seq(S) /\ Len(Append(q, e)) = Len(q) + 1 /\ Len(q) \in Nat
         /\ DOMAIN q = 1 .. Len(q) /\ DOMAIN Append(q, e) = 1 .. Len(q) + 1
         /\ Append(q, e)[Len(q) + 1] = e /\ Len(q) + 1 \in DOMAIN Append(q, e)
         /\ \A i \in DOMAIN q : i \in Nat /\ i < Len(q) + 1 /\ i \in DOMAIN Append(q, e) /\ Append(q, e)[i] = q[i]
         /\ \A i \in DOMAIN Append(q, e) : i \in Nat /\ (i \in DOMAIN q \/ i = Len(q) + 1)
<1>1. /\ Append(q, e) \in Seq(S) /\ Len(Append(q, e)) = Len(q) + 1 /\ Len(q) \in Nat
      /\ DOMAIN q = 1 .. Len(q) /\ DOMAIN Append(q, e) = 1 .. Len(q) + 1
      /\ Append(q, e)[Len(q) + 1] = e
      /\ \A i \in 1 .. Len(q) : Append(q, e)[i] = q[i]
  OBVIOUS
<1> QED  BY <1>1

(* Places of a sequence and of its tail.                                   *)
LEMMA TailPlaces ==
  ASSUME NEW S, NEW q \in Seq(S), q # <<>>
  PROVE  /\ Tail(q) \in Seq(S) /\ Head(q) = q[1] /\ 1 \in DOMAIN q /\ Head(q) \in S
         /\ Len(Tail(q)) = Len(q) - 1 /\ Len(q) \in Nat \ {0}
         /\ \A i \in DOMAIN Tail(q) : i \in Nat \ {0} /\ i + 1 \in DOMAIN q /\ Tail(q)[i] = q[i + 1]
         /\ \A i \in DOMAIN q :
              i \in Nat /\ (i = 1 \/ (i > 1 /\ i - 1 \in DOMAIN Tail(q) /\ Tail(q)[i - 1] = q[i]))
<1>1. /\ Tail(q) \in Seq(S) /\ Head(q) = q[1] /\ 1 \in DOMAIN q /\ Head(q) \in S
      /\ Len(Tail(q)) = Len(q) - 1 /\ Len(q) \in Nat \ {0}
      /\ DOMAIN q = 1 .. Len(q) /\ DOMAIN Tail(q) = 1 .. Len(q) - 1
      /\ \A i \in DOMAIN Tail(q) : i \in Nat \ {0} /\ i + 1 \in DOMAIN q /\ Tail(q)[i] = q[i + 1]
  OBVIOUS
<1>2. ASSUME NEW i \in DOMAIN q, i # 1
      PROVE  i > 1 /\ i - 1 \in DOMAIN Tail(q) /\ Tail(q)[i - 1] = q[i]
  <2>1. i > 1 /\ i - 1 \in DOMAIN Tail(q) /\ (i - 1) + 1 = i
    BY <1>1, <1>2
  <2> QED  BY <1>1, <2>1
<1>3. \A i \in DOMAIN q : i \in Nat
  BY <1>1
<1> QED  BY <1>1, <1>2, <1>3

(* What is told at a place does not depend on what comes behind it.        *)
LEMMA TellsAtAppend ==
  ASSUME NEW S, NEW q \in Seq(S), NEW e \in S, NEW kind, NEW cur, NEW uid,
         NEW n \in 1 .. Len(q) + 1
  PROVE  TellsAt(Append(q, e), n, kind, cur, uid) <=> TellsAt(q, n, kind, cur, uid)
<1> DEFINE p == Append(q, e)
<1>1. /\ Len(q) \in Nat
      /\ \A i \in DOMAIN q : i \in DOMAIN p /\ p[i] = q[i]
      /\ \A i \in DOMAIN p : i \in Nat /\ (i \in DOMAIN q \/ i = Len(q) + 1)
  BY AppendPlaces
<1>2. \A i \in DOMAIN p : i < n => i \in DOMAIN q
  BY <1>1
<1> HIDE DEF p
<1>3. \A i \in DOMAIN p : i < n => i \in DOMAIN q /\ p[i] = q[i]
  BY <1>1, <1>2
<1>4. \A i \in DOMAIN q : i \in DOMAIN p /\ p[i] = q[i]
  BY <1>1
<1> QED  BY <1>3, <1>4 DEF TellsAt, p

(* An element of another kind tells nothing new.                           *)
LEMMA TellsOther ==
  ASSUME NEW S, NEW q \in Seq(S), NEW e \in S, NEW kind, NEW cur, NEW uid,
         Tells(q, kind, cur, uid), e.kind # kind
  PROVE  Tells(Append(q, e), kind, cur, uid)
<1> DEFINE p == Append(q, e)
           n == Len(q)
<1>1. /\ n \in Nat /\ Len(p) = n + 1 /\ p[n + 1] = e
      /\ \A i \in DOMAIN q : i \in Nat /\ i < n + 1 /\ i \in DOMAIN p /\ p[i] = q[i]
      /\ \A i \in DOMAIN p : i \in Nat /\ (i \in DOMAIN q \/ i = n + 1)
  BY AppendPlaces
<1>2. TellsAt(q, n + 1, kind, cur, uid)
  BY DEF Tells
<1> HIDE DEF p, n
<1>3. \A i \in DOMAIN q : i < n + 1 /\ i < (n + 1) + 1
  BY <1>1
<1>4. \A i \in DOMAIN p : p[i].kind = kind => i \in DOMAIN q /\ p[i] = q[i]
  BY <1>1
<1>5. TellsAt(p, (n + 1) + 1, kind, cur, uid)
  BY <1>1, <1>2, <1>3, <1>4 DEF TellsAt
<1> QED  BY <1>1, <1>5 DEF Tells, p

(* An element of this kind tells its user.                                 *)
LEMMA TellsNew ==
  ASSUME NEW S, NEW q \in Seq(S), NEW e \in S, NEW kind, NEW cur, e.kind = kind
  PROVE  Tells(Append(q, e), kind, cur, e.uid)
<1> DEFINE p == Append(q, e)
           n == Len(q)
<1>1. /\ n \in Nat /\ Len(p) = n + 1 /\ p[n + 1] = e /\ n + 1 \in DOMAIN p
      /\ \A i \in DOMAIN q : i \in Nat /\ i < n + 1 /\ i \in DOMAIN p /\ p[i] = q[i]
      /\ \A i \in DOMAIN p : i \in Nat /\ (i \in DOMAIN q \/ i = n + 1)
  BY AppendPlaces
<1> HIDE DEF p, n
<1>2. n + 1 < (n + 1) + 1
  BY <1>1
<1>3. \A i \in DOMAIN p : i = n + 1 \/ i < n + 1
  BY <1>1
<1>4. TellsAt(p, (n + 1) + 1, kind, cur, e.uid)
  BY <1>1, <1>2, <1>3 DEF TellsAt
<1> QED  BY <1>1, <1>4 DEF Tells, p

(* When the first element is gone, what it told is known.                  *)
LEMMA TellsAtTail ==
  ASSUME NEW S, NEW q \in Seq(S), q # <<>>, NEW kind, NEW cur, NEW uid, NEW n \in Nat, n > 1,
         TellsAt(q, n, kind, cur, uid)
  PROVE  TellsAt(Tail(q), n - 1, kind, IF Head(q).kind = kind THEN Head(q).uid ELSE cur, uid)
<1> DEFINE p == Tail(q)
           known == IF Head(q).kind = kind THEN Head(q).uid ELSE cur
<1>1. /\ Head(q) = q[1] /\ 1 \in DOMAIN q
      /\ \A i \in DOMAIN p : i \in Nat \ {0} /\ i + 1 \in DOMAIN q /\ p[i] = q[i + 1]
      /\ \A i \in DOMAIN q : i \in Nat /\ (i = 1 \/ (i > 1 /\ i - 1 \in DOMAIN p /\ p[i - 1] = q[i]))
  BY TailPlaces
<1> HIDE DEF p
<1>2. ASSUME \A j \in DOMAIN p : j < n - 1 => p[j].kind # kind
      PROVE  known = uid
  <2>1. ASSUME NEW j \in DOMAIN q, j # 1, j < n PROVE q[j].kind # kind
    <3>1. j - 1 \in DOMAIN p /\ p[j - 1] = q[j] /\ j - 1 < n - 1
      BY <1>1, <2>1
    <3> QED  BY <1>2, <3>1
  <2>2. CASE q[1].kind = kind
    <3>1. \A j \in DOMAIN q : 1 < j /\ j < n => q[j].kind # kind
      BY <1>1, <2>1
    <3> QED  BY <1>1, <2>2, <3>1 DEF TellsAt
  <2>3. CASE q[1].kind # kind
    <3>1. \A j \in DOMAIN q : j < n => q[j].kind # kind
      BY <2>1, <2>3
    <3> QED  BY <1>1, <2>3, <3>1 DEF TellsAt
  <2> QED  BY <2>2, <2>3
<1>3. ASSUME NEW i \in DOMAIN p, i < n - 1, p[i].kind = kind,
             \A j \in DOMAIN p : i < j /\ j < n - 1 => p[j].kind # kind
      PROVE  p[i].uid = uid
  <2>1. i + 1 \in DOMAIN q /\ q[i + 1] = p[i] /\ i + 1 < n
    BY <1>1, <1>3
  <2>2. ASSUME NEW j \in DOMAIN q, i + 1 < j, j < n PROVE q[j].kind # kind
    <3>1. j # 1 /\ j \in Nat /\ i \in Nat \ {0}
      BY <1>1, <2>2
    <3>2. j - 1 \in DOMAIN p /\ p[j - 1] = q[j]
      BY <1>1, <3>1
    <3>3. i < j - 1 /\ j - 1 < n - 1
      BY <2>2, <3>1
    <3> QED  BY <1>3, <3>2, <3>3
  <2> QED  BY <1>3, <2>1, <2>2 DEF TellsAt
<1>4. TellsAt(p, n - 1, kind, known, uid)
  BY <1>2, <1>3 DEF TellsAt
<1> QED  BY <1>4 DEF p

(* The same at the end of the queue.                                       *)
LEMMA TellsTail ==
  ASSUME NEW S, NEW q \in Seq(S), q # <<>>, NEW kind, NEW cur, NEW uid,
         Tells(q, kind, cur, uid)
  PROVE  Tells(Tail(q), kind, IF Head(q).kind = kind THEN Head(q).uid ELSE cur, uid)
<1>1. Len(Tail(q)) = Len(q) - 1 /\ Len(q) \in Nat \ {0}
  BY TailPlaces
<1> DEFINE n == Len(q)
           m == Len(Tail(q))
<1> HIDE DEF n, m
<1>2. n + 1 \in Nat /\ n + 1 > 1 /\ (n + 1) - 1 = m + 1
  BY <1>1 DEF n, m
<1>3. TellsAt(q, n + 1, kind, cur, uid)
  BY DEF Tells, n
<1>4. TellsAt(Tail(q), (n + 1) - 1, kind, IF Head(q).kind = kind THEN Head(q).uid ELSE cur, uid)
  BY <1>2, <1>3, TellsAtTail
<1> QED  BY <1>2, <1>4 DEF Tells, m

(* Tokens on their way, when an element comes to the end of the queue ...  *)
LEMMA LiveAppend ==
  ASSUME NEW S, NEW q \in Seq(S), NEW e \in S, NEW c
  PROVE  /\ ~IsLive(e, c) /\ NoneLive(q, c) => NoneLive(Append(q, e), c)
         /\ ~IsLive(e, c) /\ OneLive(q, c) => OneLive(Append(q, e), c)
         /\ IsLive(e, c) /\ NoneLive(q, c) => OneLive(Append(q, e), c)
<1> DEFINE p == Append(q, e)
           n == Len(q) + 1
<1>1. /\ p[n] = e /\ n \in DOMAIN p
      /\ \A i \in DOMAIN q : i \in DOMAIN p /\ p[i] = q[i] /\ i # n
      /\ \A i \in DOMAIN p : i \in DOMAIN q \/ i = n
  BY AppendPlaces
<1> HIDE DEF p, n
<1> DEFINE L(x) == IsLive(x, c)
<1> HIDE DEF L
<1>2. ~L(e) /\ (\A i \in DOMAIN q : ~L(q[i])) => \A i \in DOMAIN p : ~L(p[i])
  BY <1>1
<1>3. ASSUME ~L(e), NEW i \in DOMAIN q, L(q[i]), \A j \in DOMAIN q : j # i => ~L(q[j])
      PROVE  i \in DOMAIN p /\ L(p[i]) /\ \A j \in DOMAIN p : j # i => ~L(p[j])
  BY <1>1, <1>3
<1>4. L(e) /\ (\A i \in DOMAIN q : ~L(q[i])) =>
        n \in DOMAIN p /\ L(p[n]) /\ \A j \in DOMAIN p : j # n => ~L(p[j])
  BY <1>1
<1> QED  BY <1>2, <1>3, <1>4 DEF NoneLive, OneLive, L, p

(* ... and when the first one leaves.                                      *)
LEMMA LiveTail ==
  ASSUME NEW S, NEW q \in Seq(S), q # <<>>, NEW c
  PROVE  /\ NoneLive(q, c) => ~IsLive(Head(q), c) /\ NoneLive(Tail(q), c)
         /\ OneLive(q, c) /\ IsLive(Head(q), c) => NoneLive(Tail(q), c)
         /\ OneLive(q, c) /\ ~IsLive(Head(q), c) => OneLive(Tail(q), c)
<1> DEFINE p == Tail(q)
<1>1. /\ Head(q) = q[1] /\ 1 \in DOMAIN q
      /\ \A i \in DOMAIN p : i \in Nat \ {0} /\ i + 1 \in DOMAIN q /\ p[i] = q[i + 1]
      /\ \A i \in DOMAIN q : i \in Nat /\ (i = 1 \/ (i > 1 /\ i - 1 \in DOMAIN p /\ p[i - 1] = q[i]))
  BY TailPlaces
<1> HIDE DEF p
<1> DEFINE L(x) == IsLive(x, c)
<1> HIDE DEF L
<1>2. ASSUME \A i \in DOMAIN q : ~L(q[i]) PROVE ~L(q[1]) /\ \A i \in DOMAIN p : ~L(p[i])
  BY <1>1, <1>2
<1>3. ASSUME NEW i \in DOMAIN q, \A j \in DOMAIN q : j # i => ~L(q[j]), L(q[1]), NEW k \in DOMAIN p
      PROVE  ~L(p[k])
  <2>1. i = 1 /\ k + 1 # 1 /\ k + 1 \in DOMAIN q /\ p[k] = q[k + 1]
    BY <1>1, <1>3
  <2> QED  BY <1>3, <2>1
<1>4. ASSUME NEW i \in DOMAIN q, L(q[i]), \A j \in DOMAIN q : j # i => ~L(q[j]), ~L(q[1])
      PROVE  i - 1 \in DOMAIN p /\ L(p[i - 1]) /\ \A j \in DOMAIN p : j # i - 1 => ~L(p[j])
  <2>1. i - 1 \in DOMAIN p /\ p[i - 1] = q[i] /\ i \in Nat
    BY <1>1, <1>4
  <2>2. ASSUME NEW j \in DOMAIN p, j # i - 1 PROVE ~L(p[j])
    <3>1. j + 1 # i /\ j + 1 \in DOMAIN q /\ p[j] = q[j + 1]
      BY <1>1, <2>1, <2>2
    <3> QED  BY <1>4, <3>1
  <2> QED  BY <1>4, <2>1, <2>2
<1> QED  BY <1>1, <1>2, <1>3, <1>4 DEF NoneLive, OneLive, L, p

-----------------------------------------------------------------------------
(***************************************************************************)
(* The main queue: q, with counter n and user u of the provider, close     *)
(* count c of the stream, user a of FIRAuth, and whether the home screen   *)
(* is shown.                                                               *)
(***************************************************************************)

(* A token that will be passed on is for the user that the provider will   *)
(* then have.                                                              *)
Callbacks(q, n, c, u) ==
  \A i \in DOMAIN q : q[i].kind = "token" =>
    /\ q[i].request.counter <= n /\ q[i].request.close <= c
    /\ q[i].request.counter = n /\ q[i].given.ok /\ NoneBefore(q, i, "notify") => q[i].given.uid = u

(* At home, and once the sign-in will be completed, the user is the one    *)
(* signed in, until the forced sign-out.                                   *)
AtHome(q, u, a, h) ==
  /\ h /\ a # Nobody => u = a /\ \A i \in DOMAIN q : q[i].kind = "notify" => q[i].uid = a
  /\ \A i \in DOMAIN q : q[i].kind = "signedIn" =>
       /\ ~h
       /\ \A j \in DOMAIN q : q[j].kind = "signedIn" => j = i
       /\ a # Nobody => /\ TellsAt(q, i, "notify", u, a)
                        /\ \A j \in DOMAIN q : i < j /\ q[j].kind = "notify" => q[j].uid = a

MainInv(q, n, c, u, a, h) ==
  /\ q \in Seq(Message) /\ Tells(q, "notify", u, a)
  /\ Callbacks(q, n, c, u) /\ AtHome(q, u, a, h)

(* What there is in the main queue.                                        *)
LEMMA MessageIs ==
  ASSUME NEW e \in Message
  PROVE  /\ e.kind \in {"notify", "token", "signedIn"}
         /\ e.kind = "token" => e.request \in Request /\ e.given \in Given
         /\ e.kind = "notify" => e.uid \in Anyone
<1>1. CASE e \in [kind: {"notify"}, uid: Anyone]
  BY <1>1
<1>2. CASE e \in [kind: {"token"}, request: Request, given: Given]
  BY <1>2
<1>3. CASE e = SignedInMsg
  BY <1>3 DEF SignedInMsg
<1> QED  BY <1>1, <1>2, <1>3 DEF Message

(* What FIRAuth dispatches.                                                *)
LEMMA NewMessages ==
  /\ \A u \in Anyone : NotifyMsg(u) \in Message
  /\ \A u : NotifyMsg(u).kind = "notify" /\ NotifyMsg(u).uid = u
  /\ \A r \in Request, g \in Given : CallbackMsg(r, g) \in Message
  /\ \A r, g : /\ CallbackMsg(r, g).kind = "token"
               /\ CallbackMsg(r, g).request = r /\ CallbackMsg(r, g).given = g
  /\ SignedInMsg \in Message /\ SignedInMsg.kind = "signedIn"
BY DEF NotifyMsg, CallbackMsg, SignedInMsg, Message

(* What is behind a place that was there before.                           *)
LEMMA CallbacksAppend ==
  ASSUME NEW S, NEW q \in Seq(S), NEW e \in S, NEW n, NEW c, NEW u, Callbacks(q, n, c, u),
         e.kind = "token" =>
           /\ e.request.counter <= n /\ e.request.close <= c
           /\ e.request.counter = n /\ e.given.ok /\ None(q, "notify") => e.given.uid = u
  PROVE  Callbacks(Append(q, e), n, c, u)
<1> DEFINE p == Append(q, e)
           m == Len(q) + 1
<1>1. /\ p[m] = e /\ m \in DOMAIN p
      /\ \A i \in DOMAIN q : i \in DOMAIN p /\ p[i] = q[i] /\ i < m
      /\ \A i \in DOMAIN p : i \in DOMAIN q \/ i = m
  BY AppendPlaces
<1> HIDE DEF p, m
<1>2. NoneBefore(p, m, "notify") => None(q, "notify")
  BY <1>1 DEF NoneBefore, None
<1>3. ASSUME NEW i \in DOMAIN q PROVE NoneBefore(p, i, "notify") => NoneBefore(q, i, "notify")
  BY <1>1 DEF NoneBefore
<1>4. ASSUME NEW i \in DOMAIN p, p[i].kind = "token"
      PROVE  /\ p[i].request.counter <= n /\ p[i].request.close <= c
             /\ p[i].request.counter = n /\ p[i].given.ok /\ NoneBefore(p, i, "notify") => p[i].given.uid = u
  <2>1. CASE i = m
    BY <1>1, <1>2, <1>4, <2>1
  <2>2. CASE i \in DOMAIN q
    BY <1>1, <1>3, <1>4, <2>2 DEF Callbacks
  <2> QED  BY <1>1, <2>1, <2>2
<1> QED  BY <1>4 DEF Callbacks, p

(* A user is announced: the same, or nobody, or one who signs in.          *)
LEMMA MainNotify ==
  ASSUME NEW q, NEW n, NEW c, NEW u, NEW a, NEW h, MainInv(q, n, c, u, a, h),
         NEW b \in Anyone, b = a \/ b = Nobody \/ (~h /\ None(q, "signedIn"))
  PROVE  MainInv(Append(q, NotifyMsg(b)), n, c, u, b, h)
<1> DEFINE e == NotifyMsg(b)
           p == Append(q, e)
           m == Len(q) + 1
<1>1. q \in Seq(Message) /\ Callbacks(q, n, c, u) /\ AtHome(q, u, a, h)
  BY DEF MainInv
<1>2. e \in Message /\ e.kind = "notify" /\ e.uid = b
  BY NewMessages
<1> HIDE DEF e
<1>3. /\ p \in Seq(Message) /\ p[m] = e /\ m \in DOMAIN p /\ Len(q) \in Nat
      /\ \A i \in DOMAIN q : i \in Nat /\ i \in DOMAIN p /\ p[i] = q[i] /\ i < m
      /\ \A i \in DOMAIN p : i \in DOMAIN q \/ i = m
  BY <1>1, <1>2, AppendPlaces
<1>4. Tells(p, "notify", u, b)
  BY <1>1, <1>2, TellsNew
<1>5. Callbacks(p, n, c, u)
  BY <1>1, <1>2, CallbacksAppend
<1>6. \A i \in DOMAIN q : TellsAt(q, i, "notify", u, a) => TellsAt(p, i, "notify", u, a)
  <2> SUFFICES ASSUME NEW i \in DOMAIN q, TellsAt(q, i, "notify", u, a)
               PROVE  TellsAt(p, i, "notify", u, a)
    OBVIOUS
  <2>1. i \in 1 .. Len(q) + 1
    BY <1>1, <1>2, AppendPlaces
  <2> QED  BY <1>1, <1>2, <2>1, TellsAtAppend
<1> HIDE DEF p, m
<1>7. AtHome(p, u, b, h)
  <2>1. CASE b = a
    BY <1>1, <1>2, <1>3, <1>6, <2>1 DEF AtHome
  <2>2. CASE b = Nobody
    BY <1>1, <1>2, <1>3, <2>2 DEF AtHome
  <2>3. CASE ~h /\ None(q, "signedIn")
    BY <1>2, <1>3, <2>3 DEF AtHome, None
  <2> QED  BY <2>1, <2>2, <2>3
<1> QED  BY <1>3, <1>4, <1>5, <1>7 DEF MainInv, p, e

(* The completion of a sign-in is queued behind its announcement.          *)
LEMMA MainSignedIn ==
  ASSUME NEW q, NEW n, NEW c, NEW u, NEW a, MainInv(q, n, c, u, a, FALSE), None(q, "signedIn")
  PROVE  MainInv(Append(q, SignedInMsg), n, c, u, a, FALSE)
<1> DEFINE e == SignedInMsg
           p == Append(q, e)
           m == Len(q) + 1
<1>1. q \in Seq(Message) /\ Callbacks(q, n, c, u) /\ Tells(q, "notify", u, a)
  BY DEF MainInv
<1>2. e \in Message /\ e.kind = "signedIn"
  BY NewMessages
<1> HIDE DEF e
<1>3. /\ p \in Seq(Message) /\ p[m] = e /\ m \in DOMAIN p /\ m \in 1 .. Len(q) + 1
      /\ \A i \in DOMAIN q : i \in DOMAIN p /\ p[i] = q[i] /\ i < m
      /\ \A i \in DOMAIN p : i \in Nat /\ (i \in DOMAIN q \/ i = m)
  BY <1>1, <1>2, AppendPlaces
<1>4. Tells(p, "notify", u, a)
  BY <1>1, <1>2, TellsOther
<1>5. Callbacks(p, n, c, u)
  BY <1>1, <1>2, CallbacksAppend
<1>6. TellsAt(p, m, "notify", u, a)
  BY <1>1, <1>2, <1>3, TellsAtAppend DEF Tells
<1>7. \A j \in DOMAIN p : ~(m < j)
  <2>1. m \in Nat
    BY <1>3
  <2> HIDE DEF m, p
  <2> QED  BY <1>3, <2>1
<1> HIDE DEF p, m
<1>8. AtHome(p, u, a, FALSE)
  <2>1. \A i \in DOMAIN p : p[i].kind = "signedIn" => i = m
    BY <1>3 DEF None
  <2> QED  BY <1>6, <1>7, <2>1 DEF AtHome
<1> QED  BY <1>3, <1>4, <1>5, <1>8 DEF MainInv, p, e

(* A request calls back.                                                   *)
LEMMA MainToken ==
  ASSUME NEW q, NEW n, NEW c, NEW u, NEW a, NEW h, MainInv(q, n, c, u, a, h),
         NEW r \in Request, NEW g \in Given, r.counter <= n, r.close <= c,
         r.counter = n /\ g.ok /\ None(q, "notify") => g.uid = u
  PROVE  MainInv(Append(q, CallbackMsg(r, g)), n, c, u, a, h)
<1> DEFINE e == CallbackMsg(r, g)
           p == Append(q, e)
           m == Len(q) + 1
<1>1. q \in Seq(Message) /\ Callbacks(q, n, c, u) /\ Tells(q, "notify", u, a) /\ AtHome(q, u, a, h)
  BY DEF MainInv
<1>2. e \in Message /\ e.kind = "token" /\ e.request = r /\ e.given = g
  BY NewMessages
<1> HIDE DEF e
<1>3. /\ p \in Seq(Message) /\ p[m] = e
      /\ \A i \in DOMAIN q : i \in DOMAIN p /\ p[i] = q[i]
      /\ \A i \in DOMAIN p : i \in DOMAIN q \/ i = m
  BY <1>1, <1>2, AppendPlaces
<1>4. Tells(p, "notify", u, a)
  BY <1>1, <1>2, TellsOther
<1>5. Callbacks(p, n, c, u)
  BY <1>1, <1>2, CallbacksAppend
<1>6. \A i \in DOMAIN q : TellsAt(q, i, "notify", u, a) => TellsAt(p, i, "notify", u, a)
  <2> SUFFICES ASSUME NEW i \in DOMAIN q, TellsAt(q, i, "notify", u, a)
               PROVE  TellsAt(p, i, "notify", u, a)
    OBVIOUS
  <2>1. i \in 1 .. Len(q) + 1
    BY <1>1, <1>2, AppendPlaces
  <2> QED  BY <1>1, <1>2, <2>1, TellsAtAppend
<1>7. \A i \in DOMAIN p : p[i].kind # "token" => i \in DOMAIN q /\ p[i] = q[i]
  BY <1>2, <1>3
<1> HIDE DEF p
<1>8. AtHome(p, u, a, h)
  BY <1>1, <1>6, <1>7 DEF AtHome
<1> QED  BY <1>3, <1>4, <1>5, <1>8 DEF MainInv, p, e

(* The first message leaves the queue.                                     *)
LEMMA MainTail ==
  ASSUME NEW q, q # <<>>, NEW n \in Nat, NEW c, NEW u, NEW a, NEW h, MainInv(q, n, c, u, a, h)
  PROVE  /\ Head(q).kind = "notify" => MainInv(Tail(q), n + 1, c, Head(q).uid, a, h)
         /\ Head(q).kind = "token" => MainInv(Tail(q), n, c, u, a, h)
         /\ Head(q).kind = "signedIn" => MainInv(Tail(q), n, c, u, a, TRUE)
<1> DEFINE p == Tail(q)
           v == IF Head(q).kind = "notify" THEN Head(q).uid ELSE u
           k == IF Head(q).kind = "notify" THEN n + 1 ELSE n
           g == IF Head(q).kind = "signedIn" THEN TRUE ELSE h
<1>1. q \in Seq(Message) /\ Callbacks(q, n, c, u) /\ Tells(q, "notify", u, a) /\ AtHome(q, u, a, h)
  BY DEF MainInv
<1>2. /\ p \in Seq(Message) /\ Head(q) = q[1] /\ 1 \in DOMAIN q
      /\ \A i \in DOMAIN p : i \in Nat \ {0} /\ i + 1 \in DOMAIN q /\ p[i] = q[i + 1]
      /\ \A i \in DOMAIN q : i \in Nat /\ (i = 1 \/ (i > 1 /\ i - 1 \in DOMAIN p /\ p[i - 1] = q[i]))
  BY <1>1, TailPlaces
<1>3. Tells(p, "notify", v, a)
  BY <1>1, TellsTail
<1>4. \A i \in DOMAIN p : p[i].kind = "token" => p[i].request.counter \in Nat
  <2>1. \A i \in DOMAIN p : p[i] \in Message
    BY <1>2, ElementOfSeq
  <2> QED  BY <2>1, MessageIs DEF Request
<1> HIDE DEF p
<1>5. Callbacks(p, k, c, v)
  <2> SUFFICES ASSUME NEW i \in DOMAIN p, p[i].kind = "token"
               PROVE  /\ p[i].request.counter <= k /\ p[i].request.close <= c
                      /\ p[i].request.counter = k /\ p[i].given.ok /\ NoneBefore(p, i, "notify")
                         => p[i].given.uid = v
    BY DEF Callbacks
  <2>1. /\ p[i].request.counter <= n /\ p[i].request.close <= c
        /\ p[i].request.counter = n /\ p[i].given.ok /\ NoneBefore(q, i + 1, "notify") => p[i].given.uid = u
    <3>1. i + 1 \in DOMAIN q /\ p[i] = q[i + 1]
      BY <1>2
    <3> QED  BY <1>1, <3>1 DEF Callbacks
  <2>2. p[i].request.counter \in Nat
    BY <1>4
  <2>3. CASE Head(q).kind = "notify"
    BY <2>1, <2>2, <2>3
  <2>4. CASE Head(q).kind # "notify"
    <3>1. ASSUME NoneBefore(p, i, "notify") PROVE NoneBefore(q, i + 1, "notify")
      <4> SUFFICES ASSUME NEW j \in DOMAIN q, j < i + 1 PROVE q[j].kind # "notify"
        BY DEF NoneBefore
      <4>1. CASE j = 1
        BY <1>2, <2>4, <4>1
      <4>2. CASE j # 1
        <5>1. j - 1 \in DOMAIN p /\ p[j - 1] = q[j] /\ j \in Nat /\ i \in Nat
          BY <1>2, <4>2
        <5>2. j - 1 < i
          BY <5>1
        <5> QED  BY <3>1, <5>1, <5>2 DEF NoneBefore
      <4> QED  BY <4>1, <4>2
    <3> QED  BY <2>1, <2>4, <3>1
  <2> QED  BY <2>3, <2>4
<1>6. AtHome(p, v, a, g)
  <2>1. ASSUME g, a # Nobody
        PROVE  v = a /\ \A i \in DOMAIN p : p[i].kind = "notify" => p[i].uid = a
    <3>1. CASE h
      BY <1>1, <1>2, <2>1, <3>1 DEF AtHome
    <3>2. CASE Head(q).kind = "signedIn"
      <4>1. TellsAt(q, 1, "notify", u, a) /\ \A j \in DOMAIN q : 1 < j /\ q[j].kind = "notify" => q[j].uid = a
        BY <1>1, <1>2, <2>1, <3>2 DEF AtHome
      <4>2. \A j \in DOMAIN q : ~(j < 1)
        BY <1>2
      <4>3. u = a
        BY <4>1, <4>2 DEF TellsAt
      <4>4. \A i \in DOMAIN p : i + 1 \in DOMAIN q /\ p[i] = q[i + 1] /\ 1 < i + 1
        BY <1>2
      <4> QED  BY <3>2, <4>1, <4>3, <4>4
    <3> QED  BY <2>1, <3>1, <3>2
  <2>2. ASSUME NEW i \in DOMAIN p, p[i].kind = "signedIn"
        PROVE  /\ ~g
               /\ \A j \in DOMAIN p : p[j].kind = "signedIn" => j = i
               /\ a # Nobody => /\ TellsAt(p, i, "notify", v, a)
                                /\ \A j \in DOMAIN p : i < j /\ p[j].kind = "notify" => p[j].uid = a
    <3>1. i + 1 \in DOMAIN q /\ q[i + 1] = p[i] /\ i \in Nat \ {0} /\ i + 1 # 1 /\ i + 1 > 1 /\ (i + 1) - 1 = i
      BY <1>2
    <3>2. /\ ~h /\ \A j \in DOMAIN q : q[j].kind = "signedIn" => j = i + 1
          /\ a # Nobody => /\ TellsAt(q, i + 1, "notify", u, a)
                           /\ \A j \in DOMAIN q : i + 1 < j /\ q[j].kind = "notify" => q[j].uid = a
      BY <1>1, <2>2, <3>1 DEF AtHome
    <3>3. ~g
      BY <1>2, <3>1, <3>2
    <3>4. ASSUME NEW j \in DOMAIN p, p[j].kind = "signedIn" PROVE j = i
      <4>1. j + 1 \in DOMAIN q /\ q[j + 1].kind = "signedIn" /\ j \in Nat
        BY <1>2, <3>4
      <4>2. j + 1 = i + 1
        BY <3>2, <4>1
      <4> QED  BY <3>1, <4>1, <4>2
    <3>5. a # Nobody => TellsAt(p, i, "notify", v, a)
      <4> SUFFICES ASSUME a # Nobody PROVE TellsAt(p, i, "notify", v, a)
        OBVIOUS
      <4>1. TellsAt(q, i + 1, "notify", u, a) /\ i + 1 \in Nat
        BY <3>1, <3>2
      <4>2. TellsAt(p, (i + 1) - 1, "notify", v, a)
        BY <1>1, <3>1, <4>1, TellsAtTail DEF p
      <4> QED  BY <3>1, <4>2
    <3>6. ASSUME a # Nobody, NEW j \in DOMAIN p, i < j, p[j].kind = "notify" PROVE p[j].uid = a
      <4>1. j + 1 \in DOMAIN q /\ q[j + 1] = p[j] /\ j \in Nat
        BY <1>2
      <4>2. i + 1 < j + 1
        BY <3>1, <3>6, <4>1
      <4> QED  BY <3>2, <3>6, <4>1, <4>2
    <3> QED  BY <3>3, <3>4, <3>5, <3>6
  <2> QED  BY <2>1, <2>2 DEF AtHome
<1>7. MainInv(p, k, c, v, a, g)
  BY <1>2, <1>3, <1>5, <1>6 DEF MainInv
<1> QED  BY <1>7 DEF p

(* The stream is closed, or the home screen is left.                       *)
LEMMA MainKeeps ==
  ASSUME NEW q, NEW n, NEW c \in Nat, NEW u, NEW a, NEW h, MainInv(q, n, c, u, a, h)
  PROVE  MainInv(q, n, c + 1, u, a, h) /\ MainInv(q, n, c, u, a, FALSE)
<1>1. q \in Seq(Message) /\ Callbacks(q, n, c, u) /\ Tells(q, "notify", u, a) /\ AtHome(q, u, a, h)
  BY DEF MainInv
<1>2. \A i \in DOMAIN q : q[i].kind = "token" => q[i].request.close \in Nat
  BY <1>1, ElementOfSeq, MessageIs DEF Request
<1>3. \A x \in Nat : x <= c => x <= c + 1
  OBVIOUS
<1>4. Callbacks(q, n, c + 1, u)
  BY <1>1, <1>2, <1>3 DEF Callbacks
<1>5. AtHome(q, u, a, FALSE)
  BY <1>1 DEF AtHome
<1> QED  BY <1>1, <1>4, <1>5 DEF MainInv

-----------------------------------------------------------------------------
(***************************************************************************)
(* The worker queue: q, with close count c of the stream, user cur of      *)
(* SyncEngine and user u of the provider.                                  *)
(***************************************************************************)

(* A token that the stream will take is for its user, by its right name.   *)
Resumes(q, c, cur) ==
  \A i \in DOMAIN q : q[i].kind = "resume" =>
    /\ q[i].close <= c
    /\ q[i].token.ok => q[i].token.user = q[i].token.uid
    /\ q[i].close = c /\ q[i].token.ok /\ NoneBefore(q, i, "credential") => q[i].token.uid = cur

(* A write comes when the user is the owner of its path.                   *)
Writes(q, cur) ==
  \A i \in DOMAIN q : q[i].kind = "write" => TellsAt(q, i, "credential", cur, q[i].path)

WorkInv(q, c, cur, u) ==
  /\ q \in Seq(Task) /\ Tells(q, "credential", cur, u)
  /\ Resumes(q, c, cur) /\ Writes(q, cur)

(* What there is in the worker queue.                                      *)
LEMMA TaskIs ==
  ASSUME NEW e \in Task
  PROVE  /\ e.kind \in {"credential", "resume", "write"}
         /\ e.kind = "credential" => e.uid \in Anyone
         /\ e.kind = "resume" => e.close \in Nat /\ e.token \in Token
         /\ e.kind = "write" => e.path \in Users
<1>1. CASE e \in [kind: {"credential"}, uid: Anyone]
  BY <1>1
<1>2. CASE e \in [kind: {"resume"}, close: Nat, token: Token]
  BY <1>2
<1>3. CASE e \in [kind: {"write"}, path: Users]
  BY <1>3
<1> QED  BY <1>1, <1>2, <1>3 DEF Task

(* What the credentials provider and the app enqueue.                      *)
LEMMA NewTasks ==
  /\ \A u \in Anyone : CredentialTask(u) \in Task
  /\ \A u : CredentialTask(u).kind = "credential" /\ CredentialTask(u).uid = u
  /\ \A c \in Nat, t \in Token : ResumeTask(c, t) \in Task
  /\ \A c, t : ResumeTask(c, t).kind = "resume" /\ ResumeTask(c, t).close = c /\ ResumeTask(c, t).token = t
  /\ \A u \in Users : WriteTask(u) \in Task
  /\ \A u : WriteTask(u).kind = "write" /\ WriteTask(u).path = u
BY DEF CredentialTask, ResumeTask, WriteTask, Task

(* A task comes: a credential change, a token for the provider's user, or  *)
(* a write of the provider's user.                                         *)
LEMMA WorkAppend ==
  ASSUME NEW q, NEW c, NEW cur, NEW u, WorkInv(q, c, cur, u), NEW e \in Task, NEW v,
         IF e.kind = "credential" THEN v = e.uid ELSE v = u,
         e.kind = "resume" => e.close <= c /\ (e.token.ok => e.token.user = e.token.uid /\ e.token.uid = u),
         e.kind = "write" => e.path = u
  PROVE  WorkInv(Append(q, e), c, cur, v)
<1> DEFINE p == Append(q, e)
           m == Len(q) + 1
<1>1. q \in Seq(Task) /\ Tells(q, "credential", cur, u) /\ Resumes(q, c, cur) /\ Writes(q, cur)
  BY DEF WorkInv
<1>2. /\ p \in Seq(Task) /\ p[m] = e /\ m \in DOMAIN p /\ m \in 1 .. Len(q) + 1
      /\ \A i \in DOMAIN q : i \in DOMAIN p /\ p[i] = q[i] /\ i < m /\ i \in 1 .. Len(q) + 1
      /\ \A i \in DOMAIN p : i \in DOMAIN q \/ i = m
  BY <1>1, AppendPlaces
<1>3. Tells(p, "credential", cur, v)
  <2>1. CASE e.kind = "credential"
    BY <1>1, <2>1, TellsNew
  <2>2. CASE e.kind # "credential"
    BY <1>1, <2>2, TellsOther
  <2> QED  BY <2>1, <2>2
<1>4. \A uid : /\ TellsAt(p, m, "credential", cur, uid) <=> Tells(q, "credential", cur, uid)
               /\ \A i \in DOMAIN q : TellsAt(p, i, "credential", cur, uid) <=> TellsAt(q, i, "credential", cur, uid)
  BY <1>1, <1>2, TellsAtAppend DEF Tells
<1> HIDE DEF p, m
<1>5. Writes(p, cur)
  <2> SUFFICES ASSUME NEW i \in DOMAIN p, p[i].kind = "write"
               PROVE  TellsAt(p, i, "credential", cur, p[i].path)
    BY DEF Writes
  <2>1. CASE i \in DOMAIN q
    BY <1>1, <1>2, <1>4, <2>1 DEF Writes
  <2>2. CASE i = m
    BY <1>1, <1>2, <1>4, <2>2
  <2> QED  BY <1>2, <2>1, <2>2
<1>6. Resumes(p, c, cur)
  <2> SUFFICES ASSUME NEW i \in DOMAIN p, p[i].kind = "resume"
               PROVE  /\ p[i].close <= c
                      /\ p[i].token.ok => p[i].token.user = p[i].token.uid
                      /\ p[i].close = c /\ p[i].token.ok /\ NoneBefore(p, i, "credential") => p[i].token.uid = cur
    BY DEF Resumes
  <2>1. CASE i \in DOMAIN q
    <3>1. NoneBefore(p, i, "credential") => NoneBefore(q, i, "credential")
      BY <1>2 DEF NoneBefore
    <3> QED  BY <1>1, <1>2, <2>1, <3>1 DEF Resumes
  <2>2. CASE i = m
    <3>1. NoneBefore(p, i, "credential") => cur = u
      <4>1. NoneBefore(p, i, "credential") => None(q, "credential")
        BY <1>2, <2>2 DEF NoneBefore, None
      <4> QED  BY <1>1, <4>1 DEF None, Tells, TellsAt
    <3> QED  BY <1>2, <2>2, <3>1
  <2> QED  BY <1>2, <2>1, <2>2
<1> QED  BY <1>2, <1>3, <1>5, <1>6 DEF WorkInv, p

(* The first task leaves the queue.                                        *)
LEMMA WorkTail ==
  ASSUME NEW q, q # <<>>, NEW c, NEW cur, NEW u, WorkInv(q, c, cur, u)
  PROVE  /\ Head(q).kind = "credential" /\ NoneLive(q, c) => WorkInv(Tail(q), c, Head(q).uid, u)
         /\ Head(q).kind # "credential" => WorkInv(Tail(q), c, cur, u)
         /\ Head(q).kind = "write" => Head(q).path = cur
         /\ Head(q).kind = "resume" /\ Head(q).close = c /\ Head(q).token.ok =>
              Head(q).token.uid = cur /\ Head(q).token.user = cur
<1> DEFINE p == Tail(q)
           v == IF Head(q).kind = "credential" THEN Head(q).uid ELSE cur
<1>1. q \in Seq(Task) /\ Tells(q, "credential", cur, u) /\ Resumes(q, c, cur) /\ Writes(q, cur)
  BY DEF WorkInv
<1>2. /\ p \in Seq(Task) /\ Head(q) = q[1] /\ 1 \in DOMAIN q
      /\ \A i \in DOMAIN p : i \in Nat \ {0} /\ i + 1 \in DOMAIN q /\ p[i] = q[i + 1]
      /\ \A i \in DOMAIN q : i \in Nat /\ (i = 1 \/ (i > 1 /\ i - 1 \in DOMAIN p /\ p[i - 1] = q[i]))
  BY <1>1, TailPlaces
<1>3. Tells(p, "credential", v, u)
  BY <1>1, TellsTail
<1>4. NoneBefore(q, 1, "credential")
  BY <1>2 DEF NoneBefore
<1>5. Head(q).kind = "write" => Head(q).path = cur
  <2>1. TellsAt(q, 1, "credential", cur, Head(q).path) => cur = Head(q).path
    BY <1>4 DEF TellsAt, NoneBefore
  <2> QED  BY <1>1, <1>2, <2>1 DEF Writes
<1>6. Head(q).kind = "resume" /\ Head(q).close = c /\ Head(q).token.ok =>
        Head(q).token.uid = cur /\ Head(q).token.user = cur
  BY <1>1, <1>2, <1>4 DEF Resumes
<1>7. Writes(p, v)
  <2> SUFFICES ASSUME NEW i \in DOMAIN p, p[i].kind = "write"
               PROVE  TellsAt(p, i, "credential", v, p[i].path)
    BY DEF Writes
  <2>1. i + 1 \in DOMAIN q /\ p[i] = q[i + 1] /\ i + 1 \in Nat /\ i + 1 > 1 /\ (i + 1) - 1 = i
    BY <1>2
  <2>2. TellsAt(q, i + 1, "credential", cur, p[i].path)
    BY <1>1, <2>1 DEF Writes
  <2>3. TellsAt(p, (i + 1) - 1, "credential", v, p[i].path)
    BY <1>1, <2>1, <2>2, TellsAtTail
  <2> QED  BY <2>1, <2>3
<1> HIDE DEF p
<1>8. ASSUME Head(q).kind = "credential" => NoneLive(q, c)
      PROVE  Resumes(p, c, v)
  <2> SUFFICES ASSUME NEW i \in DOMAIN p, p[i].kind = "resume"
               PROVE  /\ p[i].close <= c
                      /\ p[i].token.ok => p[i].token.user = p[i].token.uid
                      /\ p[i].close = c /\ p[i].token.ok /\ NoneBefore(p, i, "credential") => p[i].token.uid = v
    BY DEF Resumes
  <2>1. i + 1 \in DOMAIN q /\ p[i] = q[i + 1] /\ i \in Nat
    BY <1>2
  <2>2. /\ p[i].close <= c
        /\ p[i].token.ok => p[i].token.user = p[i].token.uid
        /\ p[i].close = c /\ p[i].token.ok /\ NoneBefore(q, i + 1, "credential") => p[i].token.uid = cur
    BY <1>1, <2>1 DEF Resumes
  <2>3. CASE Head(q).kind = "credential"
    <3>1. p[i].close # c
      BY <1>8, <2>1, <2>3 DEF NoneLive, IsLive
    <3> QED  BY <2>2, <3>1
  <2>4. CASE Head(q).kind # "credential"
    <3>1. ASSUME NoneBefore(p, i, "credential") PROVE NoneBefore(q, i + 1, "credential")
      <4> SUFFICES ASSUME NEW j \in DOMAIN q, j < i + 1 PROVE q[j].kind # "credential"
        BY DEF NoneBefore
      <4>1. CASE j = 1
        BY <1>2, <2>4, <4>1
      <4>2. CASE j # 1
        <5>1. j - 1 \in DOMAIN p /\ p[j - 1] = q[j] /\ j \in Nat
          BY <1>2, <4>2
        <5>2. j - 1 < i
          BY <2>1, <5>1
        <5> QED  BY <3>1, <5>1, <5>2 DEF NoneBefore
      <4> QED  BY <4>1, <4>2
    <3> QED  BY <2>2, <2>4, <3>1
  <2> QED  BY <2>3, <2>4
<1>9. (Head(q).kind = "credential" => NoneLive(q, c)) => WorkInv(p, c, v, u)
  BY <1>2, <1>3, <1>7, <1>8 DEF WorkInv, p
<1> QED  BY <1>5, <1>6, <1>9 DEF p

(* The stream is closed: what is under way comes too late.                 *)
LEMMA WorkKeeps ==
  ASSUME NEW q, NEW c \in Nat, NEW cur, NEW u, WorkInv(q, c, cur, u)
  PROVE  WorkInv(q, c + 1, cur, u) /\ NoneLive(q, c + 1)
<1>1. q \in Seq(Task) /\ Tells(q, "credential", cur, u) /\ Resumes(q, c, cur) /\ Writes(q, cur)
  BY DEF WorkInv
<1>2. ASSUME NEW i \in DOMAIN q
      PROVE  q[i].kind # "token" /\ (q[i].kind = "resume" => q[i].close \in Nat /\ q[i].close <= c)
  BY <1>1, ElementOfSeq, TaskIs DEF Resumes
<1>3. \A x \in Nat : x <= c => x <= c + 1 /\ x # c + 1
  OBVIOUS
<1>4. Resumes(q, c + 1, cur)
  BY <1>1, <1>2, <1>3 DEF Resumes
<1>5. NoneLive(q, c + 1)
  BY <1>2, <1>3 DEF NoneLive, IsLive
<1> QED  BY <1>1, <1>4, <1>5 DEF WorkInv

-----------------------------------------------------------------------------
(***************************************************************************)
(* Requests, and the invariant.                                            *)
(***************************************************************************)

(* A request that runs under the present counter, with nobody announced,   *)
(* fetches for the user FIRAuth has.                                       *)
ReqInv(R, q, n, c, a) ==
  \A r \in R :
    /\ r.counter <= n /\ r.close <= c
    /\ r.counter = n /\ r.from # NotRun /\ None(q, "notify") => r.from.uid = a

NoReq(R, c) == \A r \in R : r.close # c

OneReq(R, c) == \E r \in R : r.close = c /\ \A x \in R : x.close = c => x = r

(* One request that the stream would take is under way, in one place, if   *)
(* it is starting, else none.                                              *)
UnderWay(R, m, w, c, starting) ==
  IF starting
  THEN \/ OneReq(R, c) /\ NoneLive(m, c) /\ NoneLive(w, c)
       \/ NoReq(R, c) /\ OneLive(m, c) /\ NoneLive(w, c)
       \/ NoReq(R, c) /\ NoneLive(m, c) /\ OneLive(w, c)
  ELSE NoReq(R, c) /\ NoneLive(m, c) /\ NoneLive(w, c)

IInv ==
  /\ TypeOK
  /\ MainInv(mainQueue, provider.counter, stream.closeCount, provider.user, auth.uid, home)
  /\ WorkInv(workerQueue, stream.closeCount, currentUser, provider.user)
  /\ ReqInv(requests, mainQueue, provider.counter, stream.closeCount, auth.uid)
  /\ UnderWay(requests, mainQueue, workerQueue, stream.closeCount, stream.state = "Starting")
  /\ StreamUsesItsUser /\ FiledUnderOwner

(* What FIRAuth's side of the invariant says.                              *)
AuthInv(R, q, w, n, c, u, a, h, starting) ==
  /\ R \subseteq Request /\ MainInv(q, n, c, u, a, h) /\ ReqInv(R, q, n, c, a)
  /\ UnderWay(R, q, w, c, starting)

(* A request calls back: it goes on in the main queue.                     *)
LEMMA Calls ==
  ASSUME NEW R, NEW q, NEW w, NEW n, NEW c, NEW u, NEW a, NEW h, NEW s,
         AuthInv(R, q, w, n, c, u, a, h, s), NEW r \in R, NEW g \in Given,
         r.counter = n /\ g.ok /\ None(q, "notify") => g.uid = u
  PROVE  AuthInv(R \ {r}, Append(q, CallbackMsg(r, g)), w, n, c, u, a, h, s)
<1> DEFINE e == CallbackMsg(r, g)
           p == Append(q, e)
<1>1. /\ R \subseteq Request /\ MainInv(q, n, c, u, a, h) /\ ReqInv(R, q, n, c, a)
      /\ UnderWay(R, q, w, c, s) /\ q \in Seq(Message)
  BY DEF AuthInv, MainInv
<1>2. r \in Request /\ r.counter <= n /\ r.close <= c
  BY <1>1 DEF ReqInv
<1>3. MainInv(p, n, c, u, a, h)
  BY <1>1, <1>2, MainToken
<1>4. e \in Message /\ e.kind = "token" /\ e.request = r
  BY <1>2, NewMessages
<1>5. IsLive(e, c) <=> r.close = c
  BY <1>4 DEF IsLive
<1> HIDE DEF e
<1>6. \A i \in DOMAIN q : i \in DOMAIN p /\ p[i] = q[i]
  BY <1>1, <1>4, AppendPlaces
<1>7. ReqInv(R \ {r}, p, n, c, a)
  BY <1>1, <1>6 DEF ReqInv, None
<1>8. /\ ~IsLive(e, c) /\ NoneLive(q, c) => NoneLive(p, c)
      /\ ~IsLive(e, c) /\ OneLive(q, c) => OneLive(p, c)
      /\ IsLive(e, c) /\ NoneLive(q, c) => OneLive(p, c)
  BY <1>1, <1>4, LiveAppend
<1>9. /\ NoReq(R, c) => NoReq(R \ {r}, c) /\ r.close # c
      /\ OneReq(R, c) /\ r.close = c => NoReq(R \ {r}, c)
      /\ OneReq(R, c) /\ r.close # c => OneReq(R \ {r}, c)
  BY DEF NoReq, OneReq
<1> HIDE DEF p
<1>10. UnderWay(R \ {r}, p, w, c, s)
  BY <1>1, <1>5, <1>8, <1>9 DEF UnderWay
<1> QED  BY <1>1, <1>3, <1>7, <1>10 DEF AuthInv, p, e

(* A user is announced.                                                    *)
LEMMA Announces ==
  ASSUME NEW R, NEW q, NEW w, NEW n, NEW c, NEW u, NEW a, NEW h, NEW s,
         AuthInv(R, q, w, n, c, u, a, h, s),
         NEW b \in Anyone, b = a \/ b = Nobody \/ (~h /\ None(q, "signedIn"))
  PROVE  AuthInv(R, Append(q, NotifyMsg(b)), w, n, c, u, b, h, s)
<1> DEFINE e == NotifyMsg(b)
           p == Append(q, e)
<1>1. /\ R \subseteq Request /\ MainInv(q, n, c, u, a, h) /\ ReqInv(R, q, n, c, a)
      /\ UnderWay(R, q, w, c, s) /\ q \in Seq(Message)
  BY DEF AuthInv, MainInv
<1>2. MainInv(p, n, c, u, b, h)
  BY <1>1, MainNotify
<1>3. e \in Message /\ e.kind = "notify" /\ ~IsLive(e, c)
  BY NewMessages DEF IsLive
<1> HIDE DEF e
<1>4. ~None(p, "notify")
  BY <1>1, <1>3, AppendPlaces DEF None
<1>5. ReqInv(R, p, n, c, b)
  BY <1>1, <1>4 DEF ReqInv
<1>6. (NoneLive(q, c) => NoneLive(p, c)) /\ (OneLive(q, c) => OneLive(p, c))
  BY <1>1, <1>3, LiveAppend
<1> HIDE DEF p
<1>7. UnderWay(R, p, w, c, s)
  BY <1>1, <1>6 DEF UnderWay
<1> QED  BY <1>1, <1>2, <1>5, <1>7 DEF AuthInv, p, e

(* The completion of a sign-in is queued.                                  *)
LEMMA Completes ==
  ASSUME NEW R, NEW q, NEW w, NEW n, NEW c, NEW u, NEW a, NEW s,
         AuthInv(R, q, w, n, c, u, a, FALSE, s), None(q, "signedIn")
  PROVE  AuthInv(R, Append(q, SignedInMsg), w, n, c, u, a, FALSE, s)
<1> DEFINE p == Append(q, SignedInMsg)
<1>1. /\ R \subseteq Request /\ MainInv(q, n, c, u, a, FALSE) /\ ReqInv(R, q, n, c, a)
      /\ UnderWay(R, q, w, c, s) /\ q \in Seq(Message)
  BY DEF AuthInv, MainInv
<1>2. MainInv(p, n, c, u, a, FALSE)
  BY <1>1, MainSignedIn
<1>3. SignedInMsg \in Message /\ ~IsLive(SignedInMsg, c)
  BY NewMessages DEF IsLive
<1>4. \A i \in DOMAIN q : i \in DOMAIN p /\ p[i] = q[i]
  BY <1>1, <1>3, AppendPlaces
<1>5. ReqInv(R, p, n, c, a)
  BY <1>1, <1>4 DEF ReqInv, None
<1>6. (NoneLive(q, c) => NoneLive(p, c)) /\ (OneLive(q, c) => OneLive(p, c))
  BY <1>1, <1>3, LiveAppend
<1> HIDE DEF p
<1>7. UnderWay(R, p, w, c, s)
  BY <1>1, <1>6 DEF UnderWay
<1> QED  BY <1>1, <1>2, <1>5, <1>7 DEF AuthInv, p

(* A request starts to fetch for the user FIRAuth has.                     *)
LEMMA Fetches ==
  ASSUME NEW R, NEW q, NEW w, NEW n, NEW c, NEW u, NEW a, NEW h, NEW s,
         AuthInv(R, q, w, n, c, u, a, h, s), NEW r \in R, NEW t \in Request,
         t.counter = r.counter, t.close = r.close, t.from.uid = a
  PROVE  AuthInv((R \ {r}) \cup {t}, q, w, n, c, u, a, h, s)
<1>1. /\ R \subseteq Request /\ MainInv(q, n, c, u, a, h) /\ ReqInv(R, q, n, c, a)
      /\ UnderWay(R, q, w, c, s)
  BY DEF AuthInv
<1>2. ReqInv((R \ {r}) \cup {t}, q, n, c, a)
  BY <1>1 DEF ReqInv
<1>3. /\ NoReq(R, c) => NoReq((R \ {r}) \cup {t}, c)
      /\ OneReq(R, c) => OneReq((R \ {r}) \cup {t}, c)
  BY DEF NoReq, OneReq
<1>4. UnderWay((R \ {r}) \cup {t}, q, w, c, s)
  BY <1>1, <1>3 DEF UnderWay
<1> QED  BY <1>1, <1>2, <1>4 DEF AuthInv

(* Steps of FIRAuth and of the app.                                        *)
LEMMA AuthSide ==
  ASSUME IInv, UNCHANGED <<provider, workerQueue, workerVars>>,
         auth' \in [uid: Anyone, signIn: 0 .. MaxChanges], home' \in BOOLEAN,
         changes' \in 0 .. MaxChanges, writes' \in 0 .. MaxWrites,
         AuthInv(requests', mainQueue', workerQueue, provider.counter, stream.closeCount,
                 provider.user, auth'.uid, home', stream.state = "Starting")
  PROVE  IInv'
<1>1. mainQueue' \in Seq(Message)
  BY DEF AuthInv, MainInv
<1>2. TypeOK'
  BY <1>1 DEF IInv, TypeOK, workerVars, AuthInv
<1>3. StreamUsesItsUser' /\ FiledUnderOwner'
  BY DEF IInv, StreamUsesItsUser, FiledUnderOwner, workerVars
<1> QED  BY <1>2, <1>3 DEF IInv, AuthInv, workerVars

(* What FIRAuth's steps start from.                                        *)
LEMMA AuthNow ==
  ASSUME IInv
  PROVE  /\ AuthInv(requests, mainQueue, workerQueue, provider.counter, stream.closeCount,
                    provider.user, auth.uid, home, stream.state = "Starting")
         /\ mainQueue \in Seq(Message) /\ auth \in [uid: Anyone, signIn: 0 .. MaxChanges]
         /\ auth.uid \in Anyone /\ Nobody \in Anyone /\ home \in BOOLEAN
         /\ changes \in 0 .. MaxChanges /\ writes \in 0 .. MaxWrites /\ MaxChanges \in Nat
BY AuthAssumption DEF IInv, AuthInv, TypeOK, Anyone

(* One element is put at the end.                                          *)
LEMMA AppendIs ==
  ASSUME NEW S, NEW q \in Seq(S), NEW e \in S
  PROVE  q \o <<e>> = Append(q, e) /\ q \o <<>> = q
OBVIOUS

(* A sign-in: the announcement, then the completion.                       *)
LEMMA SignInKeeps ==
  ASSUME IInv, NEW u \in Users, SignIn(u)
  PROVE  IInv'
<1> DEFINE A(q, a) == AuthInv(requests, q, workerQueue, provider.counter, stream.closeCount,
                              provider.user, a, FALSE, stream.state = "Starting")
<1>1. /\ A(mainQueue, auth.uid) /\ mainQueue \in Seq(Message)
      /\ changes \in 0 .. MaxChanges /\ writes \in 0 .. MaxWrites /\ MaxChanges \in Nat
  BY AuthNow DEF SignIn
<1>2. u \in Anyone /\ NotifyMsg(u) \in Message /\ NotifyMsg(u).kind = "notify" /\ SignedInMsg \in Message
  BY NewMessages DEF Anyone
<1>3. None(mainQueue, "signedIn")
  <2>1. \A e \in Message : e.kind = "signedIn" => e = SignedInMsg
    BY DEF Message
  <2>2. \A i \in DOMAIN mainQueue : mainQueue[i] # SignedInMsg
    BY DEF SignIn, ToSet
  <2> QED  BY <1>1, <2>1, <2>2, ElementOfSeq DEF None
<1> DEFINE p == Append(mainQueue, NotifyMsg(u))
<1>4. A(p, u)
  BY <1>1, <1>2, <1>3, Announces
<1>5. p \in Seq(Message) /\ None(p, "signedIn")
  <2>1. /\ p \in Seq(Message) /\ p[Len(mainQueue) + 1] = NotifyMsg(u)
        /\ \A i \in DOMAIN mainQueue : p[i] = mainQueue[i]
        /\ \A i \in DOMAIN p : i \in DOMAIN mainQueue \/ i = Len(mainQueue) + 1
    BY <1>1, <1>2, AppendPlaces
  <2> HIDE DEF p
  <2> QED  BY <1>2, <1>3, <2>1 DEF None
<1>6. A(Append(p, SignedInMsg), u)
  BY <1>4, <1>5, Completes
<1>7. mainQueue' = Append(p, SignedInMsg)
  <2>1. mainQueue' = mainQueue \o <<NotifyMsg(u)>> \o <<SignedInMsg>>
    BY DEF SignIn, UpdateCurrentUser
  <2> QED  BY <1>1, <1>2, <1>5, <2>1, AppendIs
<1>8. /\ auth' = [uid |-> u, signIn |-> changes'] /\ changes < MaxChanges /\ changes' = changes + 1
      /\ home' = home /\ home = FALSE /\ requests' = requests /\ writes' = writes
      /\ UNCHANGED <<provider, workerQueue, workerVars>>
  BY AuthNow DEF SignIn, UpdateCurrentUser
<1>9. changes' \in 0 .. MaxChanges
  BY <1>1, <1>8
<1>10. auth' \in [uid: Anyone, signIn: 0 .. MaxChanges] /\ auth'.uid = u
  BY <1>2, <1>8, <1>9
<1> HIDE DEF p
<1> QED  BY <1>1, <1>6, <1>7, <1>8, <1>9, <1>10, AuthSide

(* What a request and the provider know.                                   *)
LEMMA RequestIs ==
  ASSUME IInv, NEW r \in requests
  PROVE  /\ r \in Request /\ r.counter <= provider.counter
         /\ r.counter = provider.counter /\ r.from # NotRun /\ None(mainQueue, "notify") =>
              r.from.uid = auth.uid
         /\ None(mainQueue, "notify") => provider.user = auth.uid
<1>1. /\ requests \subseteq Request
      /\ ReqInv(requests, mainQueue, provider.counter, stream.closeCount, auth.uid)
      /\ Tells(mainQueue, "notify", provider.user, auth.uid)
  BY DEF IInv, TypeOK, MainInv
<1> QED  BY <1>1 DEF ReqInv, Tells, TellsAt, None

(* The block of getTokenForcingRefresh.                                    *)
LEMMA RunKeeps ==
  ASSUME IInv, NEW r \in requests, RunRequest(r)
  PROVE  IInv'
<1> DEFINE A(R, q) == AuthInv(R, q, workerQueue, provider.counter, stream.closeCount,
                              provider.user, auth.uid, home, stream.state = "Starting")
<1>1. /\ A(requests, mainQueue) /\ auth \in [uid: Anyone, signIn: 0 .. MaxChanges]
      /\ home \in BOOLEAN /\ changes \in 0 .. MaxChanges /\ writes \in 0 .. MaxWrites
      /\ auth.uid \in Anyone
  BY AuthNow
<1>2. UNCHANGED <<auth, home, changes, writes>> /\ UNCHANGED <<provider, workerQueue, workerVars>>
  BY DEF RunRequest
<1>3. A(requests', mainQueue')
  <2>1. CASE auth.uid = Nobody
    <3>1. TokenOf(Nobody) \in Given /\ TokenOf(Nobody).uid = auth.uid
      BY <1>1, <2>1 DEF TokenOf, Given
    <3>2. /\ requests' = requests \ {r}
          /\ mainQueue' = Append(mainQueue, CallbackMsg(r, TokenOf(Nobody)))
      BY <2>1 DEF RunRequest
    <3> QED  BY <1>1, <3>1, <3>2, RequestIs, Calls
  <2>2. CASE auth.uid # Nobody
    <3> DEFINE t == [r EXCEPT !.from = auth]
    <3>1. r \in Request
      BY RequestIs
    <3>2. t \in Request /\ t.counter = r.counter /\ t.close = r.close /\ t.from.uid = auth.uid
      BY <1>1, <3>1 DEF Request
    <3>3. requests' = (requests \ {r}) \cup {t} /\ mainQueue' = mainQueue
      BY <2>2 DEF RunRequest
    <3> HIDE DEF t
    <3> QED  BY <1>1, <3>2, <3>3, Fetches
  <2> QED  BY <2>1, <2>2
<1> QED  BY <1>1, <1>2, <1>3, AuthSide

(* What fetches give.                                                      *)
LEMMA GivenIs ==
  /\ Failed \in Given /\ ~Failed.ok
  /\ \A u \in Anyone : TokenOf(u) \in Given /\ TokenOf(u).uid = u
BY AuthAssumption DEF Failed, TokenOf, Given, Anyone

(* A request calls back now.                                               *)
LEMMA CallsBack ==
  ASSUME IInv, NEW r \in requests, NEW g \in Given,
         r.counter = provider.counter /\ g.ok /\ None(mainQueue, "notify") => g.uid = provider.user
  PROVE  AuthInv(requests \ {r}, Append(mainQueue, CallbackMsg(r, g)), workerQueue,
                 provider.counter, stream.closeCount, provider.user, auth.uid, home,
                 stream.state = "Starting")
BY AuthNow, Calls

(* The token that is still valid.                                          *)
LEMMA CachedKeeps ==
  ASSUME IInv, NEW r \in requests, FetchCached(r)
  PROVE  IInv'
<1> DEFINE g == TokenOf(r.from.uid)
<1>1. /\ AuthInv(requests, mainQueue, workerQueue, provider.counter, stream.closeCount,
                 provider.user, auth.uid, home, stream.state = "Starting")
      /\ mainQueue \in Seq(Message) /\ auth \in [uid: Anyone, signIn: 0 .. MaxChanges]
      /\ home \in BOOLEAN /\ changes \in 0 .. MaxChanges /\ writes \in 0 .. MaxWrites
  BY AuthNow
<1>2. r \in Request /\ r.from.uid \in Anyone
  BY RequestIs DEF Request
<1>3. g \in Given /\ g.uid = r.from.uid
  BY <1>2, GivenIs
<1> HIDE DEF g
<1>4. r.from # NotRun /\ requests' = requests \ {r} /\ mainQueue' = mainQueue \o <<>> \o <<CallbackMsg(r, g)>>
      /\ UNCHANGED <<auth, home, changes, writes>> /\ UNCHANGED <<provider, workerQueue, workerVars>>
  BY DEF FetchCached, Finish, g
<1>5. mainQueue' = Append(mainQueue, CallbackMsg(r, g))
  BY <1>1, <1>2, <1>3, <1>4, NewMessages, AppendIs
<1>6. r.counter = provider.counter /\ g.ok /\ None(mainQueue, "notify") => g.uid = provider.user
  BY <1>3, <1>4, RequestIs
<1>7. AuthInv(requests', mainQueue', workerQueue, provider.counter, stream.closeCount,
              provider.user, auth.uid, home, stream.state = "Starting")
  <2>1. AuthInv(requests \ {r}, Append(mainQueue, CallbackMsg(r, g)), workerQueue,
                provider.counter, stream.closeCount, provider.user, auth.uid, home,
                stream.state = "Starting")
    BY <1>3, <1>6, CallsBack
  <2> QED  BY <1>4, <1>5, <2>1
<1> QED  BY <1>1, <1>4, <1>7, AuthSide

(* The fetch that fails.                                                   *)
LEMMA FailsKeeps ==
  ASSUME IInv, NEW r \in requests, FetchFails(r)
  PROVE  IInv'
<1>1. /\ AuthInv(requests, mainQueue, workerQueue, provider.counter, stream.closeCount,
                 provider.user, auth.uid, home, stream.state = "Starting")
      /\ mainQueue \in Seq(Message) /\ auth \in [uid: Anyone, signIn: 0 .. MaxChanges]
      /\ home \in BOOLEAN /\ changes \in 0 .. MaxChanges /\ writes \in 0 .. MaxWrites /\ MaxChanges \in Nat
  BY AuthNow
<1>2. r \in Request /\ Failed \in Given /\ ~Failed.ok
  BY RequestIs, GivenIs
<1>3. /\ requests' = requests \ {r} /\ mainQueue' = mainQueue \o <<>> \o <<CallbackMsg(r, Failed)>>
      /\ changes < MaxChanges /\ changes' = changes + 1
      /\ UNCHANGED <<auth, home, writes>> /\ UNCHANGED <<provider, workerQueue, workerVars>>
  BY DEF FetchFails, Finish
<1>4. mainQueue' = Append(mainQueue, CallbackMsg(r, Failed))
  BY <1>1, <1>2, <1>3, NewMessages, AppendIs
<1>5. changes' \in 0 .. MaxChanges
  BY <1>1, <1>3
<1>6. AuthInv(requests \ {r}, Append(mainQueue, CallbackMsg(r, Failed)), workerQueue,
              provider.counter, stream.closeCount, provider.user, auth.uid, home,
              stream.state = "Starting")
  BY <1>2, CallsBack
<1>7. AuthInv(requests', mainQueue', workerQueue, provider.counter, stream.closeCount,
              provider.user, auth'.uid, home', stream.state = "Starting")
  BY <1>3, <1>4, <1>6
<1> QED  BY <1>1, <1>3, <1>5, <1>7, AuthSide

(* A user is announced, then the request calls back.                       *)
LEMMA AnnouncesAndCalls ==
  ASSUME IInv, NEW r \in requests, NEW b \in Anyone, b = auth.uid \/ b = Nobody, NEW g \in Given
  PROVE  /\ AuthInv(requests \ {r}, mainQueue \o <<NotifyMsg(b)>> \o <<CallbackMsg(r, g)>>,
                    workerQueue, provider.counter, stream.closeCount,
                    provider.user, b, home, stream.state = "Starting")
<1> DEFINE p == Append(mainQueue, NotifyMsg(b))
<1>1. /\ AuthInv(requests, mainQueue, workerQueue, provider.counter, stream.closeCount,
                 provider.user, auth.uid, home, stream.state = "Starting")
      /\ mainQueue \in Seq(Message)
  BY AuthNow
<1>2. r \in Request /\ CallbackMsg(r, g) \in Message /\ NotifyMsg(b) \in Message /\ NotifyMsg(b).kind = "notify"
  BY RequestIs, NewMessages
<1>3. AuthInv(requests, p, workerQueue, provider.counter, stream.closeCount,
              provider.user, b, home, stream.state = "Starting")
  BY <1>1, Announces
<1>4. p \in Seq(Message) /\ ~None(p, "notify")
  BY <1>1, <1>2, AppendPlaces DEF None
<1>5. mainQueue \o <<NotifyMsg(b)>> \o <<CallbackMsg(r, g)>> = Append(p, CallbackMsg(r, g))
  BY <1>1, <1>2, <1>4, AppendIs
<1> HIDE DEF p
<1>6. AuthInv(requests \ {r}, Append(p, CallbackMsg(r, g)), workerQueue, provider.counter,
              stream.closeCount, provider.user, b, home, stream.state = "Starting")
  BY <1>3, <1>4, Calls
<1> QED  BY <1>5, <1>6

(* The new token, announced if the user is still the same object.          *)
LEMMA RefreshedKeeps ==
  ASSUME IInv, NEW r \in requests, FetchRefreshed(r)
  PROVE  IInv'
<1> DEFINE g == TokenOf(r.from.uid)
<1>1. /\ AuthInv(requests, mainQueue, workerQueue, provider.counter, stream.closeCount,
                 provider.user, auth.uid, home, stream.state = "Starting")
      /\ mainQueue \in Seq(Message) /\ auth \in [uid: Anyone, signIn: 0 .. MaxChanges]
      /\ home \in BOOLEAN /\ changes \in 0 .. MaxChanges /\ writes \in 0 .. MaxWrites /\ MaxChanges \in Nat
      /\ auth.uid \in Anyone
  BY AuthNow
<1>2. r \in Request /\ r.from.uid \in Anyone
  BY RequestIs DEF Request
<1>3. g \in Given /\ g.uid = r.from.uid
  BY <1>2, GivenIs
<1> HIDE DEF g
<1>4. /\ r.from # NotRun /\ requests' = requests \ {r}
      /\ mainQueue' = mainQueue \o (IF r.from = auth THEN <<NotifyMsg(auth.uid)>> ELSE <<>>) \o <<CallbackMsg(r, g)>>
      /\ UNCHANGED <<auth, home, writes>> /\ UNCHANGED <<provider, workerQueue, workerVars>>
  BY DEF FetchRefreshed, Finish, g
<1>5. changes' \in 0 .. MaxChanges
  BY <1>1 DEF FetchRefreshed
<1>6. AuthInv(requests', mainQueue', workerQueue, provider.counter, stream.closeCount,
              provider.user, auth.uid, home, stream.state = "Starting")
  <2>1. CASE r.from = auth
    BY <1>1, <1>3, <1>4, <2>1, AnnouncesAndCalls
  <2>2. CASE r.from # auth
    <3>1. mainQueue' = Append(mainQueue, CallbackMsg(r, g))
      BY <1>1, <1>2, <1>3, <1>4, <2>2, NewMessages, AppendIs
    <3>2. r.counter = provider.counter /\ g.ok /\ None(mainQueue, "notify") => g.uid = provider.user
      BY <1>3, <1>4, RequestIs
    <3>3. AuthInv(requests \ {r}, Append(mainQueue, CallbackMsg(r, g)), workerQueue,
                  provider.counter, stream.closeCount, provider.user, auth.uid, home,
                  stream.state = "Starting")
      BY <1>3, <3>2, CallsBack
    <3> QED  BY <1>4, <3>1, <3>3
  <2> QED  BY <2>1, <2>2
<1> QED  BY <1>1, <1>4, <1>5, <1>6, AuthSide

(* The token that is refused: the user is signed out by force.             *)
LEMMA InvalidKeeps ==
  ASSUME IInv, NEW r \in requests, FetchInvalid(r)
  PROVE  IInv'
<1>1. /\ AuthInv(requests, mainQueue, workerQueue, provider.counter, stream.closeCount,
                 provider.user, auth.uid, home, stream.state = "Starting")
      /\ mainQueue \in Seq(Message) /\ auth \in [uid: Anyone, signIn: 0 .. MaxChanges]
      /\ home \in BOOLEAN /\ changes \in 0 .. MaxChanges /\ writes \in 0 .. MaxWrites /\ MaxChanges \in Nat
      /\ Nobody \in Anyone
  BY AuthNow
<1>2. r \in Request /\ Failed \in Given /\ ~Failed.ok
  BY RequestIs, GivenIs
<1>3. /\ changes < MaxChanges /\ changes' = changes + 1 /\ requests' = requests \ {r}
      /\ UNCHANGED <<home, writes>> /\ UNCHANGED <<provider, workerQueue, workerVars>>
  BY DEF FetchInvalid, Finish
<1>4. changes' \in 0 .. MaxChanges
  BY <1>1, <1>3
<1>5. CASE auth.uid = r.from.uid
  <2>1. /\ auth' = [uid |-> Nobody, signIn |-> auth.signIn]
        /\ mainQueue' = mainQueue \o <<NotifyMsg(Nobody)>> \o <<CallbackMsg(r, Failed)>>
    BY <1>5 DEF FetchInvalid, Finish
  <2>2. auth' \in [uid: Anyone, signIn: 0 .. MaxChanges] /\ auth'.uid = Nobody
    BY <1>1, <2>1
  <2>3. AuthInv(requests', mainQueue', workerQueue, provider.counter, stream.closeCount,
                provider.user, Nobody, home, stream.state = "Starting")
    BY <1>1, <1>2, <1>3, <2>1, AnnouncesAndCalls
  <2> QED  BY <1>1, <1>3, <1>4, <2>2, <2>3, AuthSide
<1>6. CASE auth.uid # r.from.uid
  <2>1. auth' = auth /\ mainQueue' = mainQueue \o <<>> \o <<CallbackMsg(r, Failed)>>
    BY <1>6 DEF FetchInvalid, Finish
  <2>2. mainQueue' = Append(mainQueue, CallbackMsg(r, Failed))
    BY <1>1, <1>2, <2>1, NewMessages, AppendIs
  <2>3. AuthInv(requests \ {r}, Append(mainQueue, CallbackMsg(r, Failed)), workerQueue,
                provider.counter, stream.closeCount, provider.user, auth.uid, home,
                stream.state = "Starting")
    BY <1>2, CallsBack
  <2>4. AuthInv(requests', mainQueue', workerQueue, provider.counter, stream.closeCount,
                provider.user, auth'.uid, home', stream.state = "Starting")
    BY <1>3, <2>1, <2>2, <2>3
  <2> QED  BY <1>1, <1>3, <1>4, <2>1, <2>4, AuthSide
<1> QED  BY <1>5, <1>6
(* The login screen takes the place of the home screen.                    *)
LEMMA Leaves ==
  ASSUME NEW R, NEW q, NEW w, NEW n, NEW c \in Nat, NEW u, NEW a, NEW h, NEW s,
         AuthInv(R, q, w, n, c, u, a, h, s)
  PROVE  AuthInv(R, q, w, n, c, u, a, FALSE, s)
BY MainKeeps DEF AuthInv

(* AuthManager.signOut.                                                    *)
LEMMA SignOutKeeps ==
  ASSUME IInv, SignOut
  PROVE  IInv'
<1> DEFINE A(q, a, h) == AuthInv(requests, q, workerQueue, provider.counter, stream.closeCount,
                                 provider.user, a, h, stream.state = "Starting")
<1>1. /\ A(mainQueue, auth.uid, home) /\ mainQueue \in Seq(Message)
      /\ auth \in [uid: Anyone, signIn: 0 .. MaxChanges] /\ Nobody \in Anyone
      /\ changes \in 0 .. MaxChanges /\ writes \in 0 .. MaxWrites
  BY AuthNow
<1>2. stream.closeCount \in Nat
  BY DEF IInv, TypeOK
<1>3. /\ home' = FALSE /\ UNCHANGED <<requests, changes, writes>>
      /\ UNCHANGED <<provider, workerQueue, workerVars>>
  BY DEF SignOut
<1>4. auth' \in [uid: Anyone, signIn: 0 .. MaxChanges] /\ A(mainQueue', auth'.uid, FALSE)
  <2>1. CASE auth.uid = Nobody
    <3>1. auth' = auth /\ mainQueue' = mainQueue
      BY <2>1 DEF SignOut
    <3> QED  BY <1>1, <1>2, <3>1, Leaves
  <2>2. CASE auth.uid # Nobody
    <3>1. auth' = [uid |-> Nobody, signIn |-> auth.signIn] /\ mainQueue' = mainQueue \o <<NotifyMsg(Nobody)>> \o <<>>
      BY <2>2 DEF SignOut, UpdateCurrentUser
    <3>2. auth' \in [uid: Anyone, signIn: 0 .. MaxChanges] /\ auth'.uid = Nobody
      BY <1>1, <3>1
    <3>3. NotifyMsg(Nobody) \in Message /\ Append(mainQueue, NotifyMsg(Nobody)) \in Seq(Message)
      BY <1>1, NewMessages, AppendPlaces
    <3>4. mainQueue' = Append(mainQueue, NotifyMsg(Nobody))
      BY <1>1, <3>1, <3>3, AppendIs
    <3>5. A(Append(mainQueue, NotifyMsg(Nobody)), Nobody, home)
      BY <1>1, Announces
    <3>6. A(Append(mainQueue, NotifyMsg(Nobody)), Nobody, FALSE)
      BY <1>2, <3>5, Leaves
    <3> QED  BY <3>2, <3>4, <3>6
  <2> QED  BY <2>1, <2>2
<1> QED  BY <1>1, <1>3, <1>4, AuthSide

-----------------------------------------------------------------------------
(***************************************************************************)
(* Steps of the main queue.                                                *)
(***************************************************************************)

(* An announcement or a completion leaves the main queue.                  *)
LEMMA MainGoes ==
  ASSUME NEW R, NEW q, q # <<>>, NEW w, NEW n \in Nat, NEW c, NEW u, NEW a, NEW h, NEW s,
         AuthInv(R, q, w, n, c, u, a, h, s)
  PROVE  /\ Head(q).kind = "notify" => AuthInv(R, Tail(q), w, n + 1, c, Head(q).uid, a, h, s)
         /\ Head(q).kind = "signedIn" => AuthInv(R, Tail(q), w, n, c, u, a, TRUE, s)
<1> DEFINE p == Tail(q)
<1>1. /\ R \subseteq Request /\ MainInv(q, n, c, u, a, h) /\ ReqInv(R, q, n, c, a)
      /\ UnderWay(R, q, w, c, s) /\ q \in Seq(Message)
  BY DEF AuthInv, MainInv
<1>2. /\ Head(q).kind = "notify" => MainInv(p, n + 1, c, Head(q).uid, a, h)
      /\ Head(q).kind = "signedIn" => MainInv(p, n, c, u, a, TRUE)
  BY <1>1, MainTail
<1>3. /\ Head(q) = q[1]
      /\ \A i \in DOMAIN q : i \in Nat /\ (i = 1 \/ (i > 1 /\ i - 1 \in DOMAIN p /\ p[i - 1] = q[i]))
  BY <1>1, TailPlaces
<1>4. /\ NoneLive(q, c) => NoneLive(p, c)
      /\ OneLive(q, c) /\ ~IsLive(Head(q), c) => OneLive(p, c)
  BY <1>1, LiveTail
<1> HIDE DEF p
<1>5. Head(q).kind # "notify" /\ None(p, "notify") => None(q, "notify")
  BY <1>3 DEF None
<1>6. CASE Head(q).kind = "notify"
  <2>1. UnderWay(R, p, w, c, s)
    BY <1>1, <1>4, <1>6 DEF UnderWay, IsLive
  <2>2. ReqInv(R, p, n + 1, c, a)
    <3>1. \A r \in R : r.counter \in Nat /\ r.counter <= n /\ r.close <= c
      BY <1>1 DEF ReqInv, Request
    <3>2. \A x \in Nat : x <= n => x <= n + 1 /\ x # n + 1
      OBVIOUS
    <3> QED  BY <3>1, <3>2 DEF ReqInv
  <2> QED  BY <1>1, <1>2, <1>6, <2>1, <2>2 DEF AuthInv, p
<1>7. CASE Head(q).kind = "signedIn"
  <2>1. UnderWay(R, p, w, c, s)
    BY <1>1, <1>4, <1>7 DEF UnderWay, IsLive
  <2>2. ReqInv(R, p, n, c, a)
    BY <1>1, <1>5, <1>7 DEF ReqInv
  <2> QED  BY <1>1, <1>2, <1>7, <2>1, <2>2 DEF AuthInv, p
<1> QED  BY <1>6, <1>7

(* What the token is that leaves the main queue.                           *)
LEMMA TokenIs ==
  ASSUME NEW R, NEW q, q # <<>>, NEW w \in Seq(Task), NEW n \in Nat, NEW c, NEW u, NEW a, NEW h, NEW s,
         AuthInv(R, q, w, n, c, u, a, h, s), Head(q).kind = "token"
  PROVE  /\ Head(q).request.close <= c /\ Head(q).request \in Request /\ Head(q).given \in Given
         /\ Head(q).request.counter = n /\ Head(q).given.ok => Head(q).given.uid = u
<1> DEFINE r == Head(q).request
           g == Head(q).given
<1>1. q \in Seq(Message) /\ Callbacks(q, n, c, u)
  BY DEF AuthInv, MainInv
<1>2. Head(q) = q[1] /\ 1 \in DOMAIN q /\ Head(q) \in Message
  BY <1>1, TailPlaces
<1>3. NoneBefore(q, 1, "notify")
  <2>1. \A i \in DOMAIN q : ~(i < 1)
    BY <1>1
  <2> QED  BY <2>1 DEF NoneBefore
<1>4. r \in Request /\ g \in Given
  BY <1>2, MessageIs
<1>5. r.close <= c
  BY <1>1, <1>2 DEF Callbacks
<1>6. r.counter = n /\ g.ok => g.uid = u
  BY <1>1, <1>2, <1>3 DEF Callbacks
<1> QED  BY <1>4, <1>5, <1>6

(* A token leaves the main queue: it is passed on to the worker queue, or  *)
(* asked for again.                                                        *)
LEMMA TokenGoes ==
  ASSUME NEW R, NEW q, q # <<>>, NEW w \in Seq(Task), NEW n \in Nat, NEW c, NEW u, NEW a, NEW h, NEW s,
         AuthInv(R, q, w, n, c, u, a, h, s), Head(q).kind = "token"
  PROVE  /\ \A t \in Request : t.counter = n /\ t.close = Head(q).request.close /\ t.from = NotRun =>
              AuthInv(R \cup {t}, Tail(q), w, n, c, u, a, h, s)
         /\ \A e \in Task : e.kind = "resume" /\ e.close = Head(q).request.close =>
              AuthInv(R, Tail(q), Append(w, e), n, c, u, a, h, s)
<1> DEFINE p == Tail(q)
           r == Head(q).request
<1>1. /\ R \subseteq Request /\ MainInv(q, n, c, u, a, h) /\ ReqInv(R, q, n, c, a)
      /\ UnderWay(R, q, w, c, s) /\ q \in Seq(Message)
  BY DEF AuthInv, MainInv
<1>2. MainInv(p, n, c, u, a, h)
  BY <1>1, MainTail
<1>3. /\ Head(q) = q[1]
      /\ \A i \in DOMAIN q : i \in Nat /\ (i = 1 \/ (i > 1 /\ i - 1 \in DOMAIN p /\ p[i - 1] = q[i]))
  BY <1>1, TailPlaces
<1>5. r.close <= c /\ r \in Request
  BY TokenIs
<1>6. /\ NoneLive(q, c) => ~IsLive(Head(q), c) /\ NoneLive(p, c)
      /\ OneLive(q, c) /\ IsLive(Head(q), c) => NoneLive(p, c)
      /\ OneLive(q, c) /\ ~IsLive(Head(q), c) => OneLive(p, c)
  BY <1>1, LiveTail
<1>7. IsLive(Head(q), c) <=> r.close = c
  BY DEF IsLive
<1> HIDE DEF p, r
<1>8. ReqInv(R, p, n, c, a)
  <2>1. None(p, "notify") => None(q, "notify")
    BY <1>3 DEF None
  <2> QED  BY <1>1, <2>1 DEF ReqInv
<1>9. ASSUME NEW t \in Request, t.counter = n, t.close = r.close, t.from = NotRun
      PROVE  AuthInv(R \cup {t}, p, w, n, c, u, a, h, s)
  <2>1. ReqInv(R \cup {t}, p, n, c, a)
    BY <1>5, <1>8, <1>9 DEF ReqInv
  <2>2. /\ NoReq(R, c) /\ r.close # c => NoReq(R \cup {t}, c)
        /\ OneReq(R, c) /\ r.close # c => OneReq(R \cup {t}, c)
        /\ NoReq(R, c) /\ r.close = c => OneReq(R \cup {t}, c)
    BY <1>9 DEF NoReq, OneReq
  <2>3. UnderWay(R \cup {t}, p, w, c, s)
    BY <1>1, <1>6, <1>7, <2>2 DEF UnderWay
  <2> QED  BY <1>1, <1>2, <2>1, <2>3 DEF AuthInv
<1>10. ASSUME NEW e \in Task, e.kind = "resume", e.close = r.close
       PROVE  AuthInv(R, p, Append(w, e), n, c, u, a, h, s)
  <2>1. IsLive(e, c) <=> r.close = c
    BY <1>10 DEF IsLive
  <2>2. /\ ~IsLive(e, c) /\ NoneLive(w, c) => NoneLive(Append(w, e), c)
        /\ ~IsLive(e, c) /\ OneLive(w, c) => OneLive(Append(w, e), c)
        /\ IsLive(e, c) /\ NoneLive(w, c) => OneLive(Append(w, e), c)
    BY LiveAppend
  <2>3. UnderWay(R, p, Append(w, e), c, s)
    BY <1>1, <1>6, <1>7, <2>1, <2>2 DEF UnderWay
  <2> QED  BY <1>1, <1>2, <1>8, <2>3 DEF AuthInv
<1> QED  BY <1>9, <1>10 DEF p, r

(* The token is asked for again under the new counter.                     *)
LEMMA AsksAgain ==
  ASSUME NEW R, NEW q, q # <<>>, NEW w \in Seq(Task), NEW n \in Nat, NEW c, NEW u, NEW a, NEW h, NEW s,
         AuthInv(R, q, w, n, c, u, a, h, s), Head(q).kind = "token",
         NEW t \in Request, t.counter = n, t.close = Head(q).request.close, t.from = NotRun
  PROVE  AuthInv(R \cup {t}, Tail(q), w, n, c, u, a, h, s)
BY TokenGoes

(* The token goes to the worker queue.                                     *)
LEMMA PassesOn ==
  ASSUME NEW R, NEW q, q # <<>>, NEW w \in Seq(Task), NEW n \in Nat, NEW c, NEW u, NEW a, NEW h, NEW s,
         AuthInv(R, q, w, n, c, u, a, h, s), Head(q).kind = "token",
         NEW e \in Task, e.kind = "resume", e.close = Head(q).request.close
  PROVE  AuthInv(R, Tail(q), Append(w, e), n, c, u, a, h, s)
BY TokenGoes

(* A task that is no token comes to the worker queue.                      *)
LEMMA WorkComes ==
  ASSUME NEW R, NEW q, NEW w \in Seq(Task), NEW n, NEW c, NEW u, NEW a, NEW h, NEW s,
         AuthInv(R, q, w, n, c, u, a, h, s), NEW e \in Task, e.kind \in {"credential", "write"}
  PROVE  AuthInv(R, q, Append(w, e), n, c, u, a, h, s)
<1>1. ~IsLive(e, c)
  BY DEF IsLive
<1>2. /\ NoneLive(w, c) => NoneLive(Append(w, e), c)
      /\ OneLive(w, c) => OneLive(Append(w, e), c)
  BY <1>1, LiveAppend
<1>3. UnderWay(R, q, Append(w, e), c, s)
  BY <1>2 DEF AuthInv, UnderWay
<1> QED  BY <1>3 DEF AuthInv

(* Steps of the main queue pass on to the worker queue, and leave the      *)
(* stream alone.                                                           *)
LEMMA MainSide ==
  ASSUME IInv, UNCHANGED <<auth, changes, workerVars>>,
         home' \in BOOLEAN, writes' \in 0 .. MaxWrites,
         provider' \in [user: Anyone, counter: Nat, forceRefresh: BOOLEAN],
         AuthInv(requests', mainQueue', workerQueue', provider'.counter, stream.closeCount,
                 provider'.user, auth.uid, home', stream.state = "Starting"),
         WorkInv(workerQueue', stream.closeCount, currentUser, provider'.user)
  PROVE  IInv'
<1>1. mainQueue' \in Seq(Message) /\ requests' \subseteq Request /\ workerQueue' \in Seq(Task)
  BY DEF AuthInv, MainInv, WorkInv
<1>2. TypeOK'
  BY <1>1 DEF IInv, TypeOK, workerVars
<1>3. StreamUsesItsUser' /\ FiledUnderOwner'
  BY DEF IInv, StreamUsesItsUser, FiledUnderOwner, workerVars
<1> QED  BY <1>2, <1>3 DEF IInv, AuthInv, workerVars

(* What these steps start from.                                            *)
LEMMA MainNow ==
  ASSUME IInv
  PROVE  /\ AuthInv(requests, mainQueue, workerQueue, provider.counter, stream.closeCount,
                    provider.user, auth.uid, home, stream.state = "Starting")
         /\ WorkInv(workerQueue, stream.closeCount, currentUser, provider.user)
         /\ provider \in [user: Anyone, counter: Nat, forceRefresh: BOOLEAN]
         /\ workerQueue \in Seq(Task) /\ mainQueue \in Seq(Message)
         /\ stream.closeCount \in Nat /\ home \in BOOLEAN /\ writes \in 0 .. MaxWrites
BY DEF IInv, AuthInv, TypeOK

(* The home screen is shown.                                               *)
LEMMA SignedInKeeps ==
  ASSUME IInv, SignedIn
  PROVE  IInv'
<1>1. /\ AuthInv(requests, mainQueue, workerQueue, provider.counter, stream.closeCount,
                 provider.user, auth.uid, home, stream.state = "Starting")
      /\ WorkInv(workerQueue, stream.closeCount, currentUser, provider.user)
      /\ provider \in [user: Anyone, counter: Nat, forceRefresh: BOOLEAN]
      /\ writes \in 0 .. MaxWrites
  BY MainNow
<1>2. /\ mainQueue # <<>> /\ Head(mainQueue).kind = "signedIn" /\ mainQueue' = Tail(mainQueue)
      /\ home' = TRUE
      /\ UNCHANGED <<requests, provider, workerQueue, writes>> /\ UNCHANGED <<auth, changes, workerVars>>
  BY DEF SignedIn
<1>3. provider.counter \in Nat
  BY <1>1
<1>4. AuthInv(requests, Tail(mainQueue), workerQueue, provider.counter, stream.closeCount,
              provider.user, auth.uid, TRUE, stream.state = "Starting")
  BY <1>1, <1>2, <1>3, MainGoes
<1> QED  BY <1>1, <1>2, <1>4, MainSide

(* A new user, or a new token of the same user.                            *)
LEMMA NotifiedKeeps ==
  ASSUME IInv, Notified
  PROVE  IInv'
<1> DEFINE v == Head(mainQueue).uid
           e == CredentialTask(v)
<1>1. /\ AuthInv(requests, mainQueue, workerQueue, provider.counter, stream.closeCount,
                 provider.user, auth.uid, home, stream.state = "Starting")
      /\ WorkInv(workerQueue, stream.closeCount, currentUser, provider.user)
      /\ provider \in [user: Anyone, counter: Nat, forceRefresh: BOOLEAN]
      /\ workerQueue \in Seq(Task) /\ mainQueue \in Seq(Message)
      /\ home \in BOOLEAN /\ writes \in 0 .. MaxWrites
  BY MainNow
<1>2. /\ mainQueue # <<>> /\ Head(mainQueue).kind = "notify" /\ mainQueue' = Tail(mainQueue)
      /\ provider' = [provider EXCEPT !.user = v, !.counter = @ + 1]
      /\ workerQueue' = Append(workerQueue, e)
      /\ UNCHANGED <<requests, home, writes>> /\ UNCHANGED <<auth, changes, workerVars>>
  BY DEF Notified
<1>3. Head(mainQueue) \in Message
  BY <1>1, <1>2, TailPlaces
<1>4. v \in Anyone /\ provider.counter \in Nat
  BY <1>1, <1>2, <1>3, MessageIs
<1>5. e \in Task /\ e.kind = "credential" /\ e.uid = v
  BY <1>4, NewTasks
<1>6. AuthInv(requests, Tail(mainQueue), workerQueue, provider.counter + 1, stream.closeCount,
              v, auth.uid, home, stream.state = "Starting")
  BY <1>1, <1>2, <1>4, MainGoes
<1> HIDE DEF v, e
<1>7. AuthInv(requests, Tail(mainQueue), Append(workerQueue, e), provider.counter + 1,
              stream.closeCount, v, auth.uid, home, stream.state = "Starting")
  BY <1>1, <1>5, <1>6, WorkComes
<1>8. WorkInv(Append(workerQueue, e), stream.closeCount, currentUser, v)
  BY <1>1, <1>5, WorkAppend
<1>9. /\ provider' \in [user: Anyone, counter: Nat, forceRefresh: BOOLEAN]
      /\ provider'.counter = provider.counter + 1 /\ provider'.user = v
  <2>1. provider \in [user: Anyone, counter: Nat, forceRefresh: BOOLEAN]
    BY <1>1
  <2>2. provider' = [provider EXCEPT !.user = v, !.counter = provider.counter + 1]
    BY <1>2
  <2>3. provider.counter + 1 \in Nat
    BY <1>4
  <2> QED  BY <1>4, <2>1, <2>2, <2>3
<1> QED  BY <1>1, <1>2, <1>7, <1>8, <1>9, MainSide

(* A token comes: it is passed on, or it is asked for again.               *)
LEMMA TokenCallbackKeeps ==
  ASSUME IInv, TokenCallback
  PROVE  IInv'
<1> DEFINE r == Head(mainQueue).request
           g == Head(mainQueue).given
<1>1. /\ AuthInv(requests, mainQueue, workerQueue, provider.counter, stream.closeCount,
                 provider.user, auth.uid, home, stream.state = "Starting")
      /\ WorkInv(workerQueue, stream.closeCount, currentUser, provider.user)
      /\ provider \in [user: Anyone, counter: Nat, forceRefresh: BOOLEAN]
      /\ workerQueue \in Seq(Task) /\ home \in BOOLEAN /\ writes \in 0 .. MaxWrites
  BY MainNow
<1>2. provider.counter \in Nat
  BY <1>1
<1>3. /\ mainQueue # <<>> /\ Head(mainQueue).kind = "token" /\ mainQueue' = Tail(mainQueue)
      /\ UNCHANGED <<home, writes>> /\ UNCHANGED <<auth, changes, workerVars>>
  BY DEF TokenCallback
<1>4. /\ r.close <= stream.closeCount /\ r \in Request /\ g \in Given
      /\ r.counter = provider.counter /\ g.ok => g.uid = provider.user
  BY <1>1, <1>2, <1>3, TokenIs
<1>5. CASE r.counter # provider.counter
  <2> DEFINE t == GetToken(r.close)
  <2>1. /\ requests' = requests \cup {t} /\ provider' = [provider EXCEPT !.forceRefresh = FALSE]
        /\ workerQueue' = workerQueue
    BY <1>5 DEF TokenCallback
  <2>2. t \in Request /\ t.counter = provider.counter /\ t.close = r.close /\ t.from = NotRun
    <3>1. r.close \in Nat
      BY <1>4 DEF Request
    <3>2. NotRun \in [uid: Anyone, signIn: Int]
      BY DEF NotRun, Anyone
    <3> QED  BY <1>1, <3>1, <3>2 DEF GetToken, Request
  <2> HIDE DEF t
  <2>3. AuthInv(requests \cup {t}, Tail(mainQueue), workerQueue, provider.counter, stream.closeCount,
                provider.user, auth.uid, home, stream.state = "Starting")
    BY <1>1, <1>2, <1>3, <2>2, AsksAgain
  <2>4. /\ provider' \in [user: Anyone, counter: Nat, forceRefresh: BOOLEAN]
        /\ provider'.counter = provider.counter /\ provider'.user = provider.user
    BY <1>1, <2>1
  <2> QED  BY <1>1, <1>3, <2>1, <2>3, <2>4, MainSide
<1>6. CASE r.counter = provider.counter
  <2> DEFINE token == [ok |-> g.ok, uid |-> g.uid,
                       user |-> IF g.uid = Nobody THEN Nobody ELSE provider.user]
             e == ResumeTask(r.close, token)
  <2>1. workerQueue' = Append(workerQueue, e) /\ UNCHANGED <<requests, provider>>
    BY <1>6 DEF TokenCallback
  <2>2. token \in Token /\ (token.ok => token.user = token.uid /\ token.uid = provider.user)
    <3>1. g \in [ok: BOOLEAN, uid: Anyone] /\ (g.ok => g.uid = provider.user)
      BY <1>4, <1>6 DEF Given
    <3>2. Nobody \in Anyone /\ provider.user \in Anyone
      BY <1>1 DEF Anyone
    <3> HIDE DEF g
    <3> QED  BY <3>1, <3>2 DEF Token
  <2> HIDE DEF token
  <2>3. r.close \in Nat
    BY <1>4 DEF Request
  <2>4. e \in Task /\ e.kind = "resume" /\ e.close = r.close /\ e.token = token
    BY <2>2, <2>3, NewTasks
  <2> HIDE DEF e
  <2>5. AuthInv(requests, Tail(mainQueue), Append(workerQueue, e), provider.counter, stream.closeCount,
                provider.user, auth.uid, home, stream.state = "Starting")
    BY <1>1, <1>2, <1>3, <2>4, PassesOn
  <2> HIDE DEF r, g
  <2>6. WorkInv(Append(workerQueue, e), stream.closeCount, currentUser, provider.user)
    BY <1>1, <1>4, <2>2, <2>4, WorkAppend
  <2> QED  BY <1>1, <1>3, <2>1, <2>5, <2>6, MainSide
<1> QED  BY <1>5, <1>6

(* At home the provider has heard of the user whom the app asks for.       *)
LEMMA WriteKeeps ==
  ASSUME IInv, Write
  PROVE  IInv'
<1> DEFINE e == WriteTask(auth.uid)
<1>1. /\ AuthInv(requests, mainQueue, workerQueue, provider.counter, stream.closeCount,
                 provider.user, auth.uid, home, stream.state = "Starting")
      /\ WorkInv(workerQueue, stream.closeCount, currentUser, provider.user)
      /\ provider \in [user: Anyone, counter: Nat, forceRefresh: BOOLEAN]
      /\ workerQueue \in Seq(Task) /\ home \in BOOLEAN /\ writes \in 0 .. MaxWrites
  BY MainNow
<1>2. /\ home /\ auth.uid # Nobody /\ writes < MaxWrites /\ writes' = writes + 1
      /\ workerQueue' = Append(workerQueue, e)
      /\ UNCHANGED <<requests, home, mainQueue, provider>> /\ UNCHANGED <<auth, changes, workerVars>>
  BY DEF Write
<1>3. auth.uid \in Users
  BY <1>2, AuthNow DEF Anyone
<1>4. provider.user = auth.uid
  BY <1>1, <1>2 DEF AuthInv, MainInv, AtHome
<1>5. e \in Task /\ e.kind = "write" /\ e.path = provider.user
  BY <1>3, <1>4, NewTasks
<1> HIDE DEF e
<1>6. AuthInv(requests, mainQueue, Append(workerQueue, e), provider.counter, stream.closeCount,
              provider.user, auth.uid, home, stream.state = "Starting")
  BY <1>1, <1>5, WorkComes
<1>7. WorkInv(Append(workerQueue, e), stream.closeCount, currentUser, provider.user)
  BY <1>1, <1>5, WorkAppend
<1>8. writes' \in 0 .. MaxWrites
  BY <1>1, <1>2, AuthAssumption
<1> QED  BY <1>1, <1>2, <1>6, <1>7, <1>8, MainSide

-----------------------------------------------------------------------------
(***************************************************************************)
(* Steps of the worker queue and of the stream.                            *)
(***************************************************************************)

(* The stream is closed: nothing under way is for it.                      *)
LEMMA Closes ==
  ASSUME NEW R, NEW q, NEW w, NEW n, NEW c \in Nat, NEW u, NEW a, NEW h, NEW s, NEW cur,
         AuthInv(R, q, w, n, c, u, a, h, s), WorkInv(w, c, cur, u)
  PROVE  AuthInv(R, q, w, n, c + 1, u, a, h, FALSE) /\ WorkInv(w, c + 1, cur, u)
<1>1. /\ R \subseteq Request /\ MainInv(q, n, c, u, a, h) /\ ReqInv(R, q, n, c, a)
      /\ q \in Seq(Message) /\ Callbacks(q, n, c, u)
  BY DEF AuthInv, MainInv
<1>2. MainInv(q, n, c + 1, u, a, h)
  BY <1>1, MainKeeps
<1>3. WorkInv(w, c + 1, cur, u) /\ NoneLive(w, c + 1)
  BY WorkKeeps
<1>4. \A x \in Nat : x <= c => x <= c + 1 /\ x # c + 1
  OBVIOUS
<1>5. \A r \in R : r.close \in Nat /\ r.close <= c
  BY <1>1 DEF ReqInv, Request
<1>6. ReqInv(R, q, n, c + 1, a) /\ NoReq(R, c + 1)
  BY <1>1, <1>4, <1>5 DEF ReqInv, NoReq
<1>7. NoneLive(q, c + 1)
  <2> SUFFICES ASSUME NEW i \in DOMAIN q PROVE ~IsLive(q[i], c + 1)
    BY DEF NoneLive
  <2>1. q[i] \in Message
    BY <1>1, ElementOfSeq
  <2>2. q[i].kind # "resume" /\ (q[i].kind = "token" => q[i].request.close \in Nat)
    BY <2>1, MessageIs DEF Request
  <2>3. q[i].kind = "token" => q[i].request.close <= c
    BY <1>1 DEF Callbacks
  <2> QED  BY <1>4, <2>2, <2>3 DEF IsLive
<1>8. UnderWay(R, q, w, c + 1, FALSE)
  BY <1>3, <1>6, <1>7 DEF UnderWay
<1> QED  BY <1>1, <1>2, <1>3, <1>6, <1>8 DEF AuthInv

(* A request is made for the stream, which had none.                       *)
LEMMA Asks ==
  ASSUME NEW R, NEW q, NEW w, NEW n \in Nat, NEW c \in Nat, NEW u, NEW a, NEW h,
         AuthInv(R, q, w, n, c, u, a, h, FALSE),
         NEW t \in Request, t.counter = n, t.close = c, t.from = NotRun
  PROVE  AuthInv(R \cup {t}, q, w, n, c, u, a, h, TRUE)
<1>1. /\ R \subseteq Request /\ MainInv(q, n, c, u, a, h) /\ ReqInv(R, q, n, c, a)
      /\ NoReq(R, c) /\ NoneLive(q, c) /\ NoneLive(w, c)
  BY DEF AuthInv, UnderWay
<1>2. n <= n /\ c <= c
  OBVIOUS
<1>3. ReqInv(R \cup {t}, q, n, c, a)
  BY <1>1, <1>2 DEF ReqInv
<1>4. OneReq(R \cup {t}, c)
  BY <1>1 DEF NoReq, OneReq
<1>5. UnderWay(R \cup {t}, q, w, c, TRUE)
  BY <1>1, <1>4 DEF UnderWay
<1> QED  BY <1>1, <1>3, <1>5 DEF AuthInv

(* A task leaves the worker queue; the token of a starting stream leaves   *)
(* it without one.                                                         *)
LEMMA WorkGoes ==
  ASSUME NEW R, NEW q, NEW w \in Seq(Task), w # <<>>, NEW n, NEW c, NEW u, NEW a, NEW h, NEW s,
         AuthInv(R, q, w, n, c, u, a, h, s)
  PROVE  /\ ~IsLive(Head(w), c) => AuthInv(R, q, Tail(w), n, c, u, a, h, s)
         /\ IsLive(Head(w), c) => s /\ AuthInv(R, q, Tail(w), n, c, u, a, h, FALSE)
<1>1. /\ NoneLive(w, c) => ~IsLive(Head(w), c) /\ NoneLive(Tail(w), c)
      /\ OneLive(w, c) /\ IsLive(Head(w), c) => NoneLive(Tail(w), c)
      /\ OneLive(w, c) /\ ~IsLive(Head(w), c) => OneLive(Tail(w), c)
  BY LiveTail
<1>2. UnderWay(R, q, w, c, s)
  BY DEF AuthInv
<1>3. ASSUME ~IsLive(Head(w), c) PROVE UnderWay(R, q, Tail(w), c, s)
  BY <1>1, <1>2, <1>3 DEF UnderWay
<1>4. ASSUME IsLive(Head(w), c) PROVE s /\ UnderWay(R, q, Tail(w), c, FALSE)
  BY <1>1, <1>2, <1>4 DEF UnderWay
<1> QED  BY <1>3, <1>4 DEF AuthInv

StreamType == [state: {"Initial", "Starting", "Open", "Error", "Backoff"},
               closeCount: Nat, token: Token]

(* Steps of Firestore leave FIRAuth and the app alone.                     *)
LEMMA WorkerSide ==
  ASSUME IInv, UNCHANGED <<auth, home, mainQueue, writes>>, changes' \in 0 .. MaxChanges,
         provider' \in [user: Anyone, counter: Nat, forceRefresh: BOOLEAN],
         provider'.counter = provider.counter, provider'.user = provider.user,
         stream' \in StreamType, currentUser' \in Anyone, pending' \in [Anyone -> SUBSET Users],
         AuthInv(requests', mainQueue, workerQueue', provider.counter, stream'.closeCount,
                 provider.user, auth.uid, home, stream'.state = "Starting"),
         WorkInv(workerQueue', stream'.closeCount, currentUser', provider.user),
         StreamUsesItsUser', FiledUnderOwner'
  PROVE  IInv'
<1>1. requests' \subseteq Request /\ workerQueue' \in Seq(Task)
  BY DEF AuthInv, WorkInv
<1>2. TypeOK'
  BY <1>1 DEF IInv, TypeOK, StreamType
<1> QED  BY <1>2 DEF IInv, AuthInv

(* What these steps start from.                                            *)
LEMMA WorkerNow ==
  ASSUME IInv
  PROVE  /\ AuthInv(requests, mainQueue, workerQueue, provider.counter, stream.closeCount,
                    provider.user, auth.uid, home, stream.state = "Starting")
         /\ WorkInv(workerQueue, stream.closeCount, currentUser, provider.user)
         /\ provider \in [user: Anyone, counter: Nat, forceRefresh: BOOLEAN]
         /\ provider.counter \in Nat /\ stream.closeCount \in Nat
         /\ stream \in StreamType /\ currentUser \in Anyone /\ pending \in [Anyone -> SUBSET Users]
         /\ workerQueue \in Seq(Task) /\ changes \in 0 .. MaxChanges /\ MaxChanges \in Nat
         /\ StreamUsesItsUser /\ FiledUnderOwner
BY AuthAssumption DEF IInv, AuthInv, TypeOK, StreamType

(* forceRefresh is nothing that the invariant speaks of.                   *)
LEMMA ForceIs ==
  ASSUME IInv, NEW b \in BOOLEAN, provider' = [provider EXCEPT !.forceRefresh = b]
  PROVE  /\ provider' \in [user: Anyone, counter: Nat, forceRefresh: BOOLEAN]
         /\ provider'.counter = provider.counter /\ provider'.user = provider.user
BY DEF IInv, TypeOK

(* Stream::Start.                                                          *)
LEMMA Starts ==
  ASSUME IInv, NEW w, NEW s \in StreamType, Start(s),
         AuthInv(requests, mainQueue, w, provider.counter, s.closeCount,
                 provider.user, auth.uid, home, FALSE)
  PROVE  /\ stream' \in StreamType /\ stream'.closeCount = s.closeCount /\ stream'.state = "Starting"
         /\ AuthInv(requests', mainQueue, w, provider.counter, stream'.closeCount,
                    provider.user, auth.uid, home, stream'.state = "Starting")
<1>1. stream' = [s EXCEPT !.state = "Starting"] /\ requests' = requests \cup {GetToken(s.closeCount)}
  BY DEF Start
<1>2. stream' \in StreamType /\ stream'.closeCount = s.closeCount /\ stream'.state = "Starting"
  BY <1>1 DEF StreamType
<1> DEFINE t == GetToken(s.closeCount)
<1>3. s.closeCount \in Nat /\ provider.counter \in Nat
  BY WorkerNow DEF StreamType
<1>4. t \in Request /\ t.counter = provider.counter /\ t.close = s.closeCount /\ t.from = NotRun
  <2>1. NotRun \in [uid: Anyone, signIn: Int]
    BY DEF NotRun, Anyone
  <2>2. provider.forceRefresh \in BOOLEAN
    BY WorkerNow
  <2> QED  BY <1>3, <2>1, <2>2 DEF GetToken, Request
<1> HIDE DEF t
<1>5. AuthInv(requests \cup {t}, mainQueue, w, provider.counter, s.closeCount,
              provider.user, auth.uid, home, TRUE)
  BY <1>3, <1>4, Asks
<1> QED  BY <1>1, <1>2, <1>5 DEF t

(* Stream::Close.                                                          *)
LEMMA ClosedIs ==
  ASSUME IInv, NEW state \in {"Initial", "Error", "Backoff"}
  PROVE  /\ ClosedStream(state) \in StreamType /\ ClosedStream(state).state = state
         /\ ClosedStream(state).closeCount = stream.closeCount + 1
<1>1. NoToken \in Token
  BY DEF NoToken, Token, Anyone
<1> QED  BY <1>1, WorkerNow DEF ClosedStream, StreamType

(* An open stream is closed, with the state its caller chooses.            *)
LEMMA ClosesNow ==
  ASSUME IInv, NEW state \in {"Initial", "Error", "Backoff"}, stream' = ClosedStream(state)
  PROVE  /\ stream' \in StreamType /\ stream'.state = state
         /\ AuthInv(requests, mainQueue, workerQueue, provider.counter, stream'.closeCount,
                    provider.user, auth.uid, home, stream'.state = "Starting")
         /\ WorkInv(workerQueue, stream'.closeCount, currentUser, provider.user)
<1>1. /\ stream' \in StreamType /\ stream'.state = state
      /\ stream'.closeCount = stream.closeCount + 1
  BY ClosedIs
<1>2. /\ AuthInv(requests, mainQueue, workerQueue, provider.counter, stream.closeCount + 1,
                 provider.user, auth.uid, home, FALSE)
      /\ WorkInv(workerQueue, stream.closeCount + 1, currentUser, provider.user)
  BY WorkerNow, Closes
<1>3. (stream'.state = "Starting") = FALSE
  BY <1>1
<1> QED  BY <1>1, <1>2, <1>3

(* The idle timer closes the stream.                                       *)
LEMMA IdleTimeoutKeeps ==
  ASSUME IInv, IdleTimeout
  PROVE  IInv'
<1>1. /\ stream' = ClosedStream("Initial") /\ UNCHANGED <<auth, home, mainQueue, writes>>
      /\ UNCHANGED <<requests, currentUser, pending, provider, workerQueue, changes>>
  BY DEF IdleTimeout
<1>2. /\ stream' \in StreamType /\ stream'.state = "Initial"
      /\ AuthInv(requests, mainQueue, workerQueue, provider.counter, stream'.closeCount,
                 provider.user, auth.uid, home, stream'.state = "Starting")
      /\ WorkInv(workerQueue, stream'.closeCount, currentUser, provider.user)
  BY <1>1, ClosesNow
<1>3. StreamUsesItsUser' /\ FiledUnderOwner'
  BY <1>1, <1>2, WorkerNow DEF StreamUsesItsUser, FiledUnderOwner
<1> QED  BY <1>1, <1>2, <1>3, WorkerNow, WorkerSide

(* Where an error leaves the stream.                                       *)
LEMMA ErrorStateIs ==
  ErrorState \in {"Initial", "Error", "Backoff"} /\ ErrorState \in {"Error", "Backoff"}
BY DEF ErrorState

(* An open stream ends with an error.                                      *)
LEMMA StreamErrorKeeps ==
  ASSUME IInv, NEW unauthenticated \in BOOLEAN, StreamError(unauthenticated)
  PROVE  IInv'
<1>1. /\ stream' = ClosedStream(ErrorState) /\ UNCHANGED <<auth, home, mainQueue, writes>>
      /\ UNCHANGED <<requests, currentUser, pending, workerQueue>>
      /\ changes < MaxChanges /\ changes' = changes + 1
      /\ provider' = IF unauthenticated THEN [provider EXCEPT !.forceRefresh = TRUE] ELSE provider
  BY DEF StreamError
<1>2. /\ stream' \in StreamType /\ stream'.state = ErrorState
      /\ AuthInv(requests, mainQueue, workerQueue, provider.counter, stream'.closeCount,
                 provider.user, auth.uid, home, stream'.state = "Starting")
      /\ WorkInv(workerQueue, stream'.closeCount, currentUser, provider.user)
  BY <1>1, ClosesNow, ErrorStateIs
<1>3. StreamUsesItsUser' /\ FiledUnderOwner'
  BY <1>1, <1>2, ErrorStateIs, WorkerNow DEF StreamUsesItsUser, FiledUnderOwner
<1>4. changes' \in 0 .. MaxChanges
  BY <1>1, WorkerNow
<1>5. /\ provider' \in [user: Anyone, counter: Nat, forceRefresh: BOOLEAN]
      /\ provider'.counter = provider.counter /\ provider'.user = provider.user
  BY <1>1, WorkerNow, ForceIs
<1> QED  BY <1>1, <1>2, <1>3, <1>4, <1>5, WorkerNow, WorkerSide

(* After the delay the stream is started again.                            *)
LEMMA BackoffElapsedKeeps ==
  ASSUME IInv, BackoffElapsed
  PROVE  IInv'
<1>1. /\ stream.state = "Backoff" /\ Start(stream) /\ UNCHANGED <<auth, home, mainQueue, writes>>
      /\ UNCHANGED <<currentUser, pending, workerQueue, changes>>
      /\ provider' = [provider EXCEPT !.forceRefresh = FALSE]
  BY DEF BackoffElapsed
<1>2. (stream.state = "Starting") = FALSE
  BY <1>1
<1>3. AuthInv(requests, mainQueue, workerQueue, provider.counter, stream.closeCount,
              provider.user, auth.uid, home, FALSE)
  BY <1>2, WorkerNow
<1>4. /\ stream' \in StreamType /\ stream'.closeCount = stream.closeCount /\ stream'.state = "Starting"
      /\ AuthInv(requests', mainQueue, workerQueue, provider.counter, stream'.closeCount,
                 provider.user, auth.uid, home, stream'.state = "Starting")
  BY <1>1, <1>3, WorkerNow, Starts
<1>5. StreamUsesItsUser' /\ FiledUnderOwner'
  BY <1>1, <1>4, WorkerNow DEF StreamUsesItsUser, FiledUnderOwner
<1>6. /\ provider' \in [user: Anyone, counter: Nat, forceRefresh: BOOLEAN]
      /\ provider'.counter = provider.counter /\ provider'.user = provider.user
  BY <1>1, ForceIs
<1> QED  BY <1>1, <1>4, <1>5, <1>6, WorkerNow, WorkerSide

(* A write is carried out.                                                 *)
LEMMA WriteAcknowledgedKeeps ==
  ASSUME IInv, WriteAcknowledged
  PROVE  IInv'
<1>1. /\ UNCHANGED <<auth, home, mainQueue, writes>>
      /\ UNCHANGED <<requests, currentUser, stream, provider, workerQueue, changes>>
  BY DEF WriteAcknowledged
<1>2. PICK path \in pending[currentUser] : pending' = [pending EXCEPT ![currentUser] = @ \ {path}]
  BY DEF WriteAcknowledged
<1>3. pending' \in [Anyone -> SUBSET Users] /\ \A u \in Anyone : pending'[u] \subseteq pending[u]
  BY <1>2, WorkerNow
<1>4. StreamUsesItsUser' /\ FiledUnderOwner'
  BY <1>1, <1>3, WorkerNow DEF StreamUsesItsUser, FiledUnderOwner
<1> QED  BY <1>1, <1>3, <1>4, WorkerNow, WorkerSide

(* A change of user: the stream is closed, and asks for a token of its own *)
(* if the new user has writes.                                             *)
LEMMA HandleCredentialChangeKeeps ==
  ASSUME IInv, HandleCredentialChange
  PROVE  IInv'
<1> DEFINE w == Tail(workerQueue)
           v == Head(workerQueue).uid
           stopped == IF IsStarted THEN ClosedStream("Initial") ELSE [stream EXCEPT !.state = "Initial"]
<1>1. /\ workerQueue # <<>> /\ Head(workerQueue).kind = "credential"
      /\ workerQueue' = w /\ currentUser' = v
      /\ UNCHANGED <<auth, home, mainQueue, writes>> /\ UNCHANGED <<pending, changes>>
  BY DEF HandleCredentialChange
<1>2. \/ stream' = stopped /\ UNCHANGED <<requests, provider>>
      \/ Start(stopped) /\ provider' = [provider EXCEPT !.forceRefresh = FALSE]
  BY DEF HandleCredentialChange
<1>3. v \in Anyone
  BY <1>1, WorkerNow, TailPlaces, TaskIs
<1>4. /\ stopped \in StreamType /\ stopped.state = "Initial"
      /\ AuthInv(requests, mainQueue, workerQueue, provider.counter, stopped.closeCount,
                 provider.user, auth.uid, home, FALSE)
      /\ WorkInv(workerQueue, stopped.closeCount, currentUser, provider.user)
  <2>1. CASE IsStarted
    <3>1. /\ stopped \in StreamType /\ stopped.state = "Initial"
          /\ stopped.closeCount = stream.closeCount + 1
      BY <2>1, ClosedIs
    <3>2. /\ AuthInv(requests, mainQueue, workerQueue, provider.counter, stream.closeCount + 1,
                     provider.user, auth.uid, home, FALSE)
          /\ WorkInv(workerQueue, stream.closeCount + 1, currentUser, provider.user)
      BY WorkerNow, Closes
    <3> HIDE DEF stopped
    <3> QED  BY <3>1, <3>2
  <2>2. CASE ~IsStarted
    <3>1. (stream.state = "Starting") = FALSE
      BY <2>2 DEF IsStarted
    <3>2. /\ stopped \in StreamType /\ stopped.state = "Initial"
          /\ stopped.closeCount = stream.closeCount
      BY <2>2, WorkerNow DEF StreamType
    <3> HIDE DEF stopped
    <3> QED  BY <3>1, <3>2, WorkerNow
  <2> QED  BY <2>1, <2>2
<1> HIDE DEF stopped
<1>5. ~IsLive(Head(workerQueue), stopped.closeCount)
  BY <1>1 DEF IsLive
<1>6. AuthInv(requests, mainQueue, w, provider.counter, stopped.closeCount,
              provider.user, auth.uid, home, FALSE)
  BY <1>1, <1>4, <1>5, WorkerNow, WorkGoes
<1>7. NoneLive(workerQueue, stopped.closeCount)
  BY <1>4 DEF AuthInv, UnderWay
<1>8. WorkInv(w, stopped.closeCount, v, provider.user)
  BY <1>1, <1>4, <1>7, WorkTail
<1> HIDE DEF w, v
<1>9. CASE stream' = stopped /\ UNCHANGED <<requests, provider>>
  <2>1. (stream'.state = "Starting") = FALSE /\ stream'.state # "Open"
    BY <1>4, <1>9
  <2>2. AuthInv(requests', mainQueue, workerQueue', provider.counter, stream'.closeCount,
                provider.user, auth.uid, home, stream'.state = "Starting")
    BY <1>1, <1>6, <1>9, <2>1
  <2>3. StreamUsesItsUser' /\ FiledUnderOwner'
    BY <1>1, <2>1, WorkerNow DEF StreamUsesItsUser, FiledUnderOwner
  <2> QED  BY <1>1, <1>3, <1>4, <1>8, <1>9, <2>2, <2>3, WorkerNow, WorkerSide
<1>10. CASE Start(stopped) /\ provider' = [provider EXCEPT !.forceRefresh = FALSE]
  <2>1. /\ stream' \in StreamType /\ stream'.closeCount = stopped.closeCount /\ stream'.state = "Starting"
        /\ AuthInv(requests', mainQueue, w, provider.counter, stream'.closeCount,
                   provider.user, auth.uid, home, stream'.state = "Starting")
    BY <1>4, <1>6, <1>10, Starts
  <2>2. StreamUsesItsUser' /\ FiledUnderOwner'
    BY <1>1, <2>1, WorkerNow DEF StreamUsesItsUser, FiledUnderOwner
  <2>3. /\ provider' \in [user: Anyone, counter: Nat, forceRefresh: BOOLEAN]
        /\ provider'.counter = provider.counter /\ provider'.user = provider.user
    BY <1>10, ForceIs
  <2> QED  BY <1>1, <1>3, <1>8, <2>1, <2>2, <2>3, WorkerNow, WorkerSide
<1> QED  BY <1>2, <1>9, <1>10

(* A write comes while its owner is the user: it is filed under its owner. *)
LEMMA WriteMutationsKeeps ==
  ASSUME IInv, WriteMutations
  PROVE  IInv'
<1> DEFINE w == Tail(workerQueue)
           path == Head(workerQueue).path
<1>1. /\ workerQueue # <<>> /\ Head(workerQueue).kind = "write" /\ workerQueue' = w
      /\ pending' = [pending EXCEPT ![currentUser] = @ \cup {path}]
      /\ UNCHANGED <<auth, home, mainQueue, writes>> /\ UNCHANGED <<currentUser, changes>>
  BY DEF WriteMutations
<1>2. \/ /\ stream.state = "Initial" /\ Start(stream)
         /\ provider' = [provider EXCEPT !.forceRefresh = FALSE]
      \/ /\ stream.state = "Error" /\ stream' = [stream EXCEPT !.state = "Backoff"]
         /\ UNCHANGED <<requests, provider>>
      \/ UNCHANGED <<requests, stream, provider>>
  BY DEF WriteMutations
<1>3. path \in Users
  BY <1>1, WorkerNow, TailPlaces, TaskIs
<1>4. path = currentUser /\ WorkInv(w, stream.closeCount, currentUser, provider.user)
  BY <1>1, WorkerNow, WorkTail
<1>5. ~IsLive(Head(workerQueue), stream.closeCount)
  BY <1>1 DEF IsLive
<1>6. AuthInv(requests, mainQueue, w, provider.counter, stream.closeCount,
              provider.user, auth.uid, home, stream.state = "Starting")
  BY <1>1, <1>5, WorkerNow, WorkGoes
<1> HIDE DEF w, path
<1>7. pending' \in [Anyone -> SUBSET Users]
  BY <1>1, <1>3, WorkerNow
<1>8. FiledUnderOwner'
  <2> SUFFICES ASSUME NEW u \in Anyone PROVE pending'[u] \subseteq {u}
    BY DEF FiledUnderOwner
  <2>1. pending[u] \subseteq {u}
    BY WorkerNow DEF FiledUnderOwner
  <2>2. pending'[u] \subseteq pending[u] \cup (IF u = currentUser THEN {path} ELSE {})
    BY <1>1, WorkerNow
  <2> QED  BY <1>4, <2>1, <2>2
<1>9. CASE /\ stream.state = "Initial" /\ Start(stream)
           /\ provider' = [provider EXCEPT !.forceRefresh = FALSE]
  <2>1. (stream.state = "Starting") = FALSE
    BY <1>9
  <2>2. /\ stream' \in StreamType /\ stream'.closeCount = stream.closeCount /\ stream'.state = "Starting"
        /\ AuthInv(requests', mainQueue, w, provider.counter, stream'.closeCount,
                   provider.user, auth.uid, home, stream'.state = "Starting")
    BY <1>6, <1>9, <2>1, WorkerNow, Starts
  <2>3. StreamUsesItsUser'
    BY <2>2 DEF StreamUsesItsUser
  <2>4. /\ provider' \in [user: Anyone, counter: Nat, forceRefresh: BOOLEAN]
        /\ provider'.counter = provider.counter /\ provider'.user = provider.user
    BY <1>9, ForceIs
  <2> QED  BY <1>1, <1>4, <1>7, <1>8, <2>2, <2>3, <2>4, WorkerNow, WorkerSide
<1>10. CASE /\ stream.state = "Error" /\ stream' = [stream EXCEPT !.state = "Backoff"]
            /\ UNCHANGED <<requests, provider>>
  <2>1. stream' \in StreamType /\ stream'.closeCount = stream.closeCount /\ stream'.state = "Backoff"
    BY <1>10, WorkerNow DEF StreamType
  <2>2. (stream'.state = "Starting") = (stream.state = "Starting")
    BY <1>10, <2>1
  <2>3. AuthInv(requests', mainQueue, workerQueue', provider.counter, stream'.closeCount,
                provider.user, auth.uid, home, stream'.state = "Starting")
    BY <1>1, <1>6, <1>10, <2>1, <2>2
  <2>4. StreamUsesItsUser'
    BY <2>1 DEF StreamUsesItsUser
  <2> QED  BY <1>1, <1>4, <1>7, <1>8, <1>10, <2>1, <2>3, <2>4, WorkerNow, WorkerSide
<1>11. CASE UNCHANGED <<requests, stream, provider>>
  <2>1. StreamUsesItsUser'
    BY <1>1, <1>11, WorkerNow DEF StreamUsesItsUser
  <2> QED  BY <1>1, <1>4, <1>6, <1>7, <1>8, <1>11, <2>1, WorkerNow, WorkerSide
<1> QED  BY <1>2, <1>9, <1>10, <1>11

(* The token comes: too late, or with an error, or for the user whose      *)
(* queue the stream will send.                                             *)
LEMMA ResumeKeeps ==
  ASSUME IInv, ResumeStartWithCredentials
  PROVE  IInv'
<1> DEFINE w == Tail(workerQueue)
           token == Head(workerQueue).token
           close == Head(workerQueue).close
<1>1. /\ workerQueue # <<>> /\ Head(workerQueue).kind = "resume" /\ workerQueue' = w
      /\ UNCHANGED <<auth, home, mainQueue, writes>>
      /\ UNCHANGED <<requests, currentUser, pending, provider, changes>>
  BY DEF ResumeStartWithCredentials
<1>2. \/ close # stream.closeCount /\ stream' = stream
      \/ close = stream.closeCount /\ ~token.ok /\ stream' = ClosedStream(ErrorState)
      \/ close = stream.closeCount /\ token.ok /\ stream' = [stream EXCEPT !.state = "Open", !.token = token]
  BY DEF ResumeStartWithCredentials
<1>3. token \in Token
  BY <1>1, WorkerNow, TailPlaces, TaskIs
<1>4. /\ WorkInv(w, stream.closeCount, currentUser, provider.user)
      /\ close = stream.closeCount /\ token.ok => token.uid = currentUser /\ token.user = currentUser
  BY <1>1, WorkerNow, WorkTail
<1>5. IsLive(Head(workerQueue), stream.closeCount) <=> close = stream.closeCount
  BY <1>1 DEF IsLive
<1>6. /\ close # stream.closeCount =>
           AuthInv(requests, mainQueue, w, provider.counter, stream.closeCount,
                   provider.user, auth.uid, home, stream.state = "Starting")
      /\ close = stream.closeCount =>
           AuthInv(requests, mainQueue, w, provider.counter, stream.closeCount,
                   provider.user, auth.uid, home, FALSE)
  BY <1>1, <1>5, WorkerNow, WorkGoes
<1> HIDE DEF w, token, close
<1>7. FiledUnderOwner'
  BY <1>1, WorkerNow DEF FiledUnderOwner
<1>8. CASE close # stream.closeCount /\ stream' = stream
  <2>1. StreamUsesItsUser'
    BY <1>1, <1>8, WorkerNow DEF StreamUsesItsUser
  <2> QED  BY <1>1, <1>4, <1>6, <1>7, <1>8, <2>1, WorkerNow, WorkerSide
<1>9. CASE close = stream.closeCount /\ ~token.ok /\ stream' = ClosedStream(ErrorState)
  <2>1. /\ stream' \in StreamType /\ stream'.state = ErrorState
        /\ stream'.closeCount = stream.closeCount + 1
    BY <1>9, ClosedIs, ErrorStateIs
  <2>2. /\ AuthInv(requests, mainQueue, w, provider.counter, stream.closeCount + 1,
                   provider.user, auth.uid, home, FALSE)
        /\ WorkInv(w, stream.closeCount + 1, currentUser, provider.user)
    BY <1>4, <1>6, <1>9, WorkerNow, Closes
  <2>3. (stream'.state = "Starting") = FALSE /\ stream'.state # "Open"
    BY <2>1, ErrorStateIs
  <2>4. AuthInv(requests', mainQueue, workerQueue', provider.counter, stream'.closeCount,
                provider.user, auth.uid, home, stream'.state = "Starting")
    BY <1>1, <2>1, <2>2, <2>3
  <2>5. StreamUsesItsUser'
    BY <2>3 DEF StreamUsesItsUser
  <2> QED  BY <1>1, <1>7, <2>1, <2>2, <2>4, <2>5, WorkerNow, WorkerSide
<1>10. CASE /\ close = stream.closeCount /\ token.ok
            /\ stream' = [stream EXCEPT !.state = "Open", !.token = token]
  <2>1. /\ stream' \in StreamType /\ stream'.state = "Open" /\ stream'.token = token
        /\ stream'.closeCount = stream.closeCount
    BY <1>3, <1>10, WorkerNow DEF StreamType
  <2>2. (stream'.state = "Starting") = FALSE
    BY <2>1
  <2>3. AuthInv(requests', mainQueue, workerQueue', provider.counter, stream'.closeCount,
                provider.user, auth.uid, home, stream'.state = "Starting")
    BY <1>1, <1>6, <1>10, <2>1, <2>2
  <2>4. StreamUsesItsUser'
    <3>1. token = [ok |-> TRUE, uid |-> currentUser, user |-> currentUser]
      BY <1>3, <1>4, <1>10 DEF Token
    <3> QED  BY <1>1, <2>1, <3>1 DEF StreamUsesItsUser
  <2> QED  BY <1>1, <1>4, <1>7, <2>1, <2>3, <2>4, WorkerNow, WorkerSide
<1> QED  BY <1>2, <1>8, <1>9, <1>10

-----------------------------------------------------------------------------
(***************************************************************************)
(* The theorems.                                                           *)
(***************************************************************************)

(* The app starts with empty queues.                                       *)
LEMMA InitHolds == Init => IInv
<1> SUFFICES ASSUME Init PROVE IInv
  OBVIOUS
<1>1. TypeOK
  <2>1. /\ auth \in [uid: Anyone, signIn: {0}] /\ Nobody \in Anyone /\ MaxChanges \in Nat /\ MaxWrites \in Nat
    BY AuthAssumption DEF Init, Anyone
  <2>2. /\ requests = {} /\ mainQueue = <<>> /\ workerQueue = <<>>
        /\ provider = [user |-> auth.uid, counter |-> 0, forceRefresh |-> FALSE]
        /\ currentUser = auth.uid
        /\ stream = [state |-> "Initial", closeCount |-> 0, token |-> NoToken]
        /\ pending = [u \in Anyone |-> {}]
        /\ home = (auth.uid # Nobody) /\ changes = 0 /\ writes = 0
    BY DEF Init
  <2>3. NoToken \in Token
    BY <2>1 DEF NoToken, Token
  <2>4. /\ auth \in [uid: Anyone, signIn: 0 .. MaxChanges] /\ auth.uid \in Anyone
        /\ changes \in 0 .. MaxChanges /\ writes \in 0 .. MaxWrites
    BY <2>1, <2>2
  <2>5. stream \in [state: {"Initial", "Starting", "Open", "Error", "Backoff"},
                    closeCount: Nat, token: Token]
    BY <2>2, <2>3
  <2>6. provider \in [user: Anyone, counter: Nat, forceRefresh: BOOLEAN]
    BY <2>2, <2>4
  <2>7. mainQueue \in Seq(Message) /\ workerQueue \in Seq(Task)
    BY <2>2
  <2>8. home \in BOOLEAN /\ pending \in [Anyone -> SUBSET Users]
    BY <2>2
  <2> QED  BY <2>2, <2>4, <2>5, <2>6, <2>7, <2>8 DEF TypeOK
<1>2. /\ mainQueue = <<>> /\ workerQueue = <<>> /\ requests = {} /\ provider.user = auth.uid
      /\ currentUser = auth.uid /\ stream.state = "Initial" /\ pending = [u \in Anyone |-> {}]
      /\ home = (auth.uid # Nobody)
  BY DEF Init
<1>3. DOMAIN mainQueue = {} /\ DOMAIN workerQueue = {}
  BY <1>2
<1>4. Tells(mainQueue, "notify", provider.user, auth.uid) /\ Tells(workerQueue, "credential", currentUser, provider.user)
  BY <1>2, <1>3 DEF Tells, TellsAt
<1>5. MainInv(mainQueue, provider.counter, stream.closeCount, provider.user, auth.uid, home)
  BY <1>1, <1>2, <1>3, <1>4 DEF MainInv, Callbacks, AtHome, TypeOK
<1>6. WorkInv(workerQueue, stream.closeCount, currentUser, provider.user)
  BY <1>1, <1>3, <1>4 DEF WorkInv, Resumes, Writes, TypeOK
<1>7. ReqInv(requests, mainQueue, provider.counter, stream.closeCount, auth.uid)
  BY <1>2 DEF ReqInv
<1>8. UnderWay(requests, mainQueue, workerQueue, stream.closeCount, stream.state = "Starting")
  BY <1>2, <1>3 DEF UnderWay, NoReq, NoneLive
<1>9. StreamUsesItsUser /\ FiledUnderOwner
  BY <1>2 DEF StreamUsesItsUser, FiledUnderOwner
<1> QED  BY <1>1, <1>5, <1>6, <1>7, <1>8, <1>9 DEF IInv

(* Every step keeps the invariant.                                         *)
LEMMA NextKeeps ==
  ASSUME IInv, [Next]_vars
  PROVE  IInv'
<1>1. ASSUME NEW u \in Users, SignIn(u) PROVE IInv'
  BY <1>1, SignInKeeps
<1>2. ASSUME NEW r \in requests, RunRequest(r) PROVE IInv'
  BY <1>2, RunKeeps
<1>3. ASSUME NEW r \in requests, FetchCached(r) PROVE IInv'
  BY <1>3, CachedKeeps
<1>4. ASSUME NEW r \in requests, FetchRefreshed(r) PROVE IInv'
  BY <1>4, RefreshedKeeps
<1>5. ASSUME NEW r \in requests, FetchFails(r) PROVE IInv'
  BY <1>5, FailsKeeps
<1>6. ASSUME NEW r \in requests, FetchInvalid(r) PROVE IInv'
  BY <1>6, InvalidKeeps
<1>7. CASE Notified
  BY <1>7, NotifiedKeeps
<1>8. CASE TokenCallback
  BY <1>8, TokenCallbackKeeps
<1>9. CASE SignedIn
  BY <1>9, SignedInKeeps
<1>10. CASE SignOut
  BY <1>10, SignOutKeeps
<1>11. CASE Write
  BY <1>11, WriteKeeps
<1>12. CASE HandleCredentialChange
  BY <1>12, HandleCredentialChangeKeeps
<1>13. CASE WriteMutations
  BY <1>13, WriteMutationsKeeps
<1>14. CASE ResumeStartWithCredentials
  BY <1>14, ResumeKeeps
<1>15. CASE BackoffElapsed
  BY <1>15, BackoffElapsedKeeps
<1>16. CASE WriteAcknowledged
  BY <1>16, WriteAcknowledgedKeeps
<1>17. CASE IdleTimeout
  BY <1>17, IdleTimeoutKeeps
<1>18. CASE StreamError(TRUE) \/ StreamError(FALSE)
  BY <1>18, StreamErrorKeeps
<1>19. CASE UNCHANGED vars
  BY <1>19 DEF vars, workerVars, IInv, TypeOK, StreamUsesItsUser, FiledUnderOwner
<1> QED
  BY <1>1, <1>2, <1>3, <1>4, <1>5, <1>6, <1>7, <1>8, <1>9, <1>10, <1>11, <1>12, <1>13,
     <1>14, <1>15, <1>16, <1>17, <1>18, <1>19 DEF Next

(* The inductive invariant: what each queue says fits what its sender      *)
(* knows at its end, and what its receiver knows at its head.              *)
THEOREM Invariance == Spec => []IInv
BY InitHolds, NextKeeps, PTL DEF Spec

(* Whoever signs in or out while a token is fetched, a stream opens only   *)
(* with a token of the user whose mutation queue it sends: the counter of  *)
(* FirebaseCredentialsProvider and the close count of Stream see to it.    *)
THEOREM StreamUsesItsUserAlways == Spec => []StreamUsesItsUser
<1>1. IInv => StreamUsesItsUser
  BY DEF IInv
<1> QED  BY <1>1, Invariance, PTL

(* The app asks FIRAuth for the uid and SyncEngine files the write under   *)
(* currentUser, two queues later: it is the same user.                     *)
THEOREM FiledUnderOwnerAlways == Spec => []FiledUnderOwner
<1>1. IInv => FiledUnderOwner
  BY DEF IInv
<1> QED  BY <1>1, Invariance, PTL

(* The requests of Live, counted in their places.                          *)
LEMMA LiveIsOne ==
  ASSUME IInv
  PROVE  OneLiveRequest
<1> DEFINE c == stream.closeCount
           A == {r \in requests : r.close = c}
           B == {m \in ToSet(mainQueue) : m.kind = "token" /\ m.request.close = c}
           C == {t \in ToSet(workerQueue) : t.kind = "resume" /\ t.close = c}
<1>1. /\ mainQueue \in Seq(Message) /\ workerQueue \in Seq(Task)
      /\ UnderWay(requests, mainQueue, workerQueue, c, stream.state = "Starting")
  BY DEF IInv, TypeOK
<1>2. ToSet(mainQueue) = {mainQueue[i] : i \in DOMAIN mainQueue}
      /\ ToSet(workerQueue) = {workerQueue[i] : i \in DOMAIN workerQueue}
  BY DEF ToSet
<1>3. \A i \in DOMAIN mainQueue :
        IsLive(mainQueue[i], c) <=> mainQueue[i].kind = "token" /\ mainQueue[i].request.close = c
  <2> SUFFICES ASSUME NEW i \in DOMAIN mainQueue PROVE mainQueue[i].kind # "resume"
    BY DEF IsLive
  <2> QED  BY <1>1, ElementOfSeq, MessageIs
<1>4. \A i \in DOMAIN workerQueue :
        IsLive(workerQueue[i], c) <=> workerQueue[i].kind = "resume" /\ workerQueue[i].close = c
  <2> SUFFICES ASSUME NEW i \in DOMAIN workerQueue PROVE workerQueue[i].kind # "token"
    BY DEF IsLive
  <2> QED  BY <1>1, ElementOfSeq, TaskIs
<1>5. Live = A \cup B \cup C
  BY DEF Live
<1> HIDE DEF c
<1>6. NoReq(requests, c) => A = {}
  BY DEF NoReq
<1>7. OneReq(requests, c) => \E x : A = {x}
  BY DEF OneReq
<1>8. NoneLive(mainQueue, c) => B = {}
  BY <1>2, <1>3 DEF NoneLive
<1>9. OneLive(mainQueue, c) => \E x : B = {x}
  <2> SUFFICES ASSUME NEW i \in DOMAIN mainQueue, IsLive(mainQueue[i], c),
                      \A j \in DOMAIN mainQueue : j # i => ~IsLive(mainQueue[j], c)
               PROVE  \E x : B = {x}
    BY DEF OneLive
  <2>1. B = {mainQueue[i]}
    BY <1>2, <1>3
  <2> QED  BY <2>1
<1>10. NoneLive(workerQueue, c) => C = {}
  BY <1>2, <1>4 DEF NoneLive
<1>11. OneLive(workerQueue, c) => \E x : C = {x}
  <2> SUFFICES ASSUME NEW i \in DOMAIN workerQueue, IsLive(workerQueue[i], c),
                      \A j \in DOMAIN workerQueue : j # i => ~IsLive(workerQueue[j], c)
               PROVE  \E x : C = {x}
    BY DEF OneLive
  <2>1. C = {workerQueue[i]}
    BY <1>2, <1>4
  <2> QED  BY <2>1
<1> HIDE DEF A, B, C
<1>12. CASE stream.state = "Starting"
  <2>1. \E x : Live = {x}
    BY <1>1, <1>5, <1>6, <1>7, <1>8, <1>9, <1>10, <1>11, <1>12 DEF UnderWay
  <2>2. Cardinality(Live) = 1
    BY <2>1, FS_Singleton
  <2> QED  BY <1>12, <2>2 DEF OneLiveRequest
<1>13. CASE stream.state # "Starting"
  <2>1. Live = {}
    BY <1>1, <1>5, <1>6, <1>8, <1>10, <1>13 DEF UnderWay
  <2>2. Cardinality(Live) = 0
    BY <2>1, FS_EmptySet
  <2> QED  BY <1>13, <2>2 DEF OneLiveRequest
<1> QED  BY <1>12, <1>13

(* A starting stream waits for exactly one request, wherever that is on    *)
(* its way through the three queues, and another takes none: the comment   *)
(* of ResumeStartWithCredentials that the state should still be Starting.  *)
THEOREM ConsistentAlways == Spec => []Consistent
<1>1. IInv => Consistent
  BY LiveIsOne DEF IInv, Consistent
<1> QED  BY <1>1, Invariance, PTL
=============================================================================
