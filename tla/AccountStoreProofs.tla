--------------------------- MODULE AccountStoreProofs ---------------------------
(***************************************************************************)
(* Machine-checked proofs about AccountStore, for every set of users and   *)
(* accounts, every bound and every combination of failures.                *)
(*                                                                         *)
(* TypeOK and ScreenCurrent are inductive together.  That no account is    *)
(* listed twice, and that a list answers for its own user, is not: both    *)
(* depend on what the Firestore worker and the main queue still hold.      *)
(* IInv therefore says of every document, pending write and queued answer  *)
(* that it is about accounts linked by its own user, each at most once.    *)
(***************************************************************************)
EXTENDS AccountStore, FiniteSetTheorems, SequenceTheorems, TLAPS

NoRepeat(s) == \A i, j \in DOMAIN s : s[i] = s[j] => i = j

(* The accounts of user u that have been linked so far.                    *)
Linked(u) == {a \in used : Owner[a] = u}

TidyOp ==
  {o \in Op : /\ o.op = "set" => o.id \in Linked(o.user)
              /\ o.op = "delete" => o.id \in used}

Answer == [kind: {"get"}, user: Users, list: Seq(Accounts)]

TidyEvent ==
  [kind: {"auth", "signedIn", "reload"}]
  \cup {e \in Answer : e.list \in Seq(Linked(e.user)) /\ NoRepeat(e.list)}

Flags ==
  /\ isFirstLoadMade \in BOOLEAN
  /\ home \in BOOLEAN
  /\ emptyMessage \in BOOLEAN
  /\ refreshing \in BOOLEAN
  /\ crashed \in BOOLEAN

Session ==
  /\ currentUser \in Users \cup {NoUser}
  /\ heard \in Users \cup {NoUser, Unheard}
  /\ shown \in Seq(Accounts)
  /\ alert \in Alert \cup {NoAlert}
  /\ gets \in [Users -> Nat]

Tidy ==
  /\ used \in SUBSET Accounts
  /\ accounts \in Seq(used)
  /\ NoRepeat(accounts)
  /\ docs \in [Users -> SUBSET Accounts]
  /\ \A u \in Users : docs[u] \subseteq Linked(u)
  /\ work \in Seq(TidyOp)
  /\ mainQueue \in Seq(TidyEvent)

IInv == Flags /\ Session /\ Tidy /\ ScreenCurrent

-----------------------------------------------------------------------------
(* Facts about the operators.                                              *)

(* Asking Firestore for something adds at most one tidy operation.         *)
LEMMA AskTidy ==
  ASSUME NEW op, Session, work \in Seq(TidyOp),
         currentUser # NoUser => op \in TidyOp, Ask(op)
  PROVE  work' \in Seq(TidyOp)
  BY DEF Ask, Session

(* Whoever sets the list tells the controller that shows it.               *)
LEMMA SetAccountsNotifies ==
  ASSUME NEW list, NEW q \in Seq(TidyEvent), SetAccounts(list, q)
  PROVE  /\ accounts' = list
         /\ mainQueue' \in Seq(TidyEvent)
         /\ home => Queued("reload")'
<1>1. ReloadEvent \in TidyEvent /\ ReloadEvent.kind = "reload"
  BY DEF ReloadEvent, TidyEvent
<1>2. /\ Append(q, ReloadEvent) \in Seq(TidyEvent)
      /\ Len(q) + 1 \in DOMAIN Append(q, ReloadEvent)
      /\ Append(q, ReloadEvent)[Len(q) + 1] = ReloadEvent
  BY <1>1
<1>3. accounts' = list /\ mainQueue' = IF home THEN Append(q, ReloadEvent) ELSE q
  BY DEF SetAccounts
<1>4. ASSUME home PROVE Queued("reload")'
  BY <1>1, <1>2, <1>3, <1>4 DEF Queued
<1> QED  BY <1>2, <1>3, <1>4

(* A listing names every readable document once.                           *)
LEMMA ListingTidy ==
  ASSUME NEW S \in SUBSET Accounts, NEW s \in Listings(S)
  PROVE  s \in Seq(S) /\ NoRepeat(s)
<1> DEFINE good == S \ Malformed
<1>1. IsFiniteSet(good) /\ Cardinality(good) \in Nat
  BY StoreAssumption, FS_Subset, FS_CardinalityType
<1>2. /\ s \in [1 .. Cardinality(good) -> good]
      /\ \A i, j \in DOMAIN s : i < j => s[i] < s[j]
  BY DEF Listings
<1>3. s \in Seq(S)
  <2> DEFINE n == Cardinality(good)
  <2>1. n \in Nat /\ s \in [1 .. n -> S]
    BY <1>1, <1>2
  <2> HIDE DEF n
  <2> QED  BY <2>1, SeqDef
<1>4. DOMAIN s = 1 .. Cardinality(good) /\ \A i \in DOMAIN s : s[i] \in Nat
  BY <1>2, StoreAssumption
<1>5. NoRepeat(s)
  <2> DEFINE n == Cardinality(good)
  <2>0. n \in Nat /\ DOMAIN s = 1 .. n
    BY <1>1, <1>4
  <2> HIDE DEF n, good
  <2> SUFFICES ASSUME NEW i \in DOMAIN s, NEW j \in DOMAIN s, s[i] = s[j]
               PROVE  i = j
    BY DEF NoRepeat
  <2>1. i \in Nat /\ j \in Nat /\ s[i] \in Nat /\ s[j] \in Nat
    BY <2>0, <1>4
  <2>2. ~(i < j) /\ ~(j < i)
    BY <1>2, <2>1
  <2> QED  BY <2>1, <2>2
<1> QED  BY <1>3, <1>5

(* Appending an account that is not in a list repeats nothing.             *)
LEMMA AppendNoRepeat ==
  ASSUME NEW S, NEW s \in Seq(S), NoRepeat(s), NEW a, a \notin S
  PROVE  NoRepeat(Append(s, a))
  BY DEF NoRepeat

(* Removing row k: the rows above it stay, those below move up.            *)
LEMMA RemoveRow ==
  ASSUME NEW S, NEW s \in Seq(S), NEW k \in DOMAIN s
  PROVE  /\ RemoveAt(s, k) \in Seq(S)
         /\ DOMAIN RemoveAt(s, k) = 1 .. Len(s) - 1
         /\ \A i \in 1 .. Len(s) - 1 :
              RemoveAt(s, k)[i] = IF i < k THEN s[i] ELSE s[i + 1]
<1> DEFINE l == SubSeq(s, 1, k - 1)
           r == SubSeq(s, k + 1, Len(s))
<1>1. k \in 1 .. Len(s) /\ Len(s) \in Nat /\ \A i \in 1 .. Len(s) : s[i] \in S
  OBVIOUS
<1>2. l \in Seq(S) /\ Len(l) = k - 1 /\ \A i \in 1 .. k - 1 : l[i] = s[i]
  BY <1>1, SubSeqProperties
<1>3. r \in Seq(S) /\ Len(r) = Len(s) - k /\ \A i \in 1 .. Len(s) - k : r[i] = s[k + i]
  BY <1>1, SubSeqProperties
<1> HIDE DEF l, r
<1>4. l \o r \in Seq(S) /\ Len(l \o r) = Len(s) - 1
  BY <1>1, <1>2, <1>3, ConcatProperties
<1>5. DOMAIN (l \o r) = 1 .. Len(s) - 1
  BY <1>4, LenProperties
<1>6. \A i \in 1 .. Len(s) - 1 : (l \o r)[i] = IF i < k THEN s[i] ELSE s[i + 1]
  <2> SUFFICES ASSUME NEW i \in 1 .. Len(s) - 1
               PROVE  (l \o r)[i] = IF i < k THEN s[i] ELSE s[i + 1]
    OBVIOUS
  <2>1. (l \o r)[i] = IF i <= Len(l) THEN l[i] ELSE r[i - Len(l)]
    <3>1. i \in 1 .. Len(l) + Len(r)
      BY <1>1, <1>2, <1>3
    <3>2. \A n \in 1 .. Len(l) + Len(r) :
            (l \o r)[n] = IF n <= Len(l) THEN l[n] ELSE r[n - Len(l)]
      BY <1>2, <1>3, ConcatProperties, Zenon
    <3> QED  BY <3>1, <3>2
  <2>2. CASE i < k
    BY <1>1, <1>2, <2>1, <2>2
  <2>3. CASE ~(i < k)
    <3>1. i - (k - 1) \in 1 .. Len(s) - k /\ k + (i - (k - 1)) = i + 1
      BY <1>1, <2>3
    <3>2. (l \o r)[i] = r[i - (k - 1)]
      BY <1>1, <1>2, <2>1, <2>3
    <3> QED  BY <1>3, <2>3, <3>1, <3>2
  <2> QED  BY <2>2, <2>3
<1> QED  BY <1>4, <1>5, <1>6 DEF RemoveAt, l, r

(* Whatever is listed after a removal was listed before it; and if nothing *)
(* was listed twice, exactly the removed account is gone.                  *)
LEMMA RemoveRows ==
  ASSUME NEW S, NEW s \in Seq(S), NEW k \in DOMAIN s
  PROVE  /\ \A n \in DOMAIN RemoveAt(s, k) :
              \E m \in DOMAIN s : m # k /\ RemoveAt(s, k)[n] = s[m]
         /\ \A m \in DOMAIN s : m # k =>
              \E n \in DOMAIN RemoveAt(s, k) : RemoveAt(s, k)[n] = s[m]
<1> DEFINE t == RemoveAt(s, k)
<1>1. /\ DOMAIN t = 1 .. Len(s) - 1 /\ Len(s) \in Nat /\ k \in 1 .. Len(s)
      /\ \A i \in 1 .. Len(s) - 1 : t[i] = IF i < k THEN s[i] ELSE s[i + 1]
  BY RemoveRow
<1> HIDE DEF t
<1>2. ASSUME NEW n \in DOMAIN t PROVE \E m \in DOMAIN s : m # k /\ t[n] = s[m]
  <2>1. CASE n < k
    BY <1>1, <2>1
  <2>2. CASE ~(n < k)
    <3>1. n + 1 \in DOMAIN s /\ n + 1 # k /\ t[n] = s[n + 1]
      BY <1>1, <2>2
    <3> QED  BY <3>1
  <2> QED  BY <2>1, <2>2
<1>3. ASSUME NEW m \in DOMAIN s, m # k PROVE \E n \in DOMAIN t : t[n] = s[m]
  <2>1. CASE m < k
    <3>1. m \in DOMAIN t /\ t[m] = s[m]
      BY <1>1, <2>1
    <3> QED  BY <3>1
  <2>2. CASE ~(m < k)
    <3>1. m - 1 \in DOMAIN t /\ m - 1 \in 1 .. Len(s) - 1 /\ ~(m - 1 < k) /\ (m - 1) + 1 = m
      BY <1>1, <1>3, <2>2
    <3>2. t[m - 1] = s[m]
      BY <1>1, <3>1
    <3> QED  BY <3>1, <3>2
  <2> QED  BY <2>1, <2>2
<1> QED  BY <1>2, <1>3 DEF t

(* Removing one row repeats nothing.                                       *)
LEMMA RemoveNoRepeat ==
  ASSUME NEW S, NEW s \in Seq(S), NoRepeat(s), NEW k \in DOMAIN s
  PROVE  RemoveAt(s, k) \in Seq(S) /\ NoRepeat(RemoveAt(s, k))
<1> DEFINE t == RemoveAt(s, k)
           Up(n) == IF n < k THEN n ELSE n + 1
<1>1. /\ t \in Seq(S) /\ DOMAIN t = 1 .. Len(s) - 1
      /\ Len(s) \in Nat /\ k \in 1 .. Len(s)
      /\ \A i \in 1 .. Len(s) - 1 : t[i] = s[Up(i)]
  BY RemoveRow
<1> HIDE DEF t
<1>2. ASSUME NEW i \in DOMAIN t, NEW j \in DOMAIN t, t[i] = t[j]
      PROVE  i = j
  <2>1. i \in 1 .. Len(s) - 1 /\ j \in 1 .. Len(s) - 1 /\ DOMAIN s = 1 .. Len(s)
    BY <1>1
  <2>2. Up(i) \in DOMAIN s /\ Up(j) \in DOMAIN s
    BY <1>1, <2>1
  <2>3. s[Up(i)] = s[Up(j)]
    BY <1>1, <1>2, <2>1
  <2>4. Up(i) = Up(j)
    BY <2>2, <2>3 DEF NoRepeat
  <2> QED  BY <2>1, <2>4
<1> QED  BY <1>1, <1>2 DEF NoRepeat, t

-----------------------------------------------------------------------------
(* What may be left alone.                                                 *)

(* Tidiness depends on the ids given out, and on nothing else.             *)
LEMMA TidySame ==
  ASSUME used' = used
  PROVE  TidyOp' = TidyOp /\ TidyEvent' = TidyEvent /\ \A u : Linked(u)' = Linked(u)
  BY DEF TidyOp, TidyEvent, Linked

LEMMA LaunchTidy ==
  ASSUME NEW user
  PROVE  /\ LaunchQueue(user) \in Seq(TidyEvent)
         /\ user # NoUser => \E i \in DOMAIN LaunchQueue(user) : LaunchQueue(user)[i].kind = "reload"
<1>1. AuthEvent \in TidyEvent /\ ReloadEvent \in TidyEvent /\ ReloadEvent.kind = "reload"
  BY DEF AuthEvent, ReloadEvent, TidyEvent
<1>2. /\ <<AuthEvent>> \in Seq(TidyEvent)
      /\ <<AuthEvent, ReloadEvent>> \in Seq(TidyEvent)
  BY <1>1
<1>3. ASSUME user # NoUser
      PROVE \E i \in DOMAIN LaunchQueue(user) : LaunchQueue(user)[i].kind = "reload"
  <2>1. LaunchQueue(user) = <<AuthEvent, ReloadEvent>>
    BY <1>3 DEF LaunchQueue
  <2>2. 2 \in DOMAIN <<AuthEvent, ReloadEvent>> /\ <<AuthEvent, ReloadEvent>>[2] = ReloadEvent
    OBVIOUS
  <2> QED  BY <1>1, <2>1, <2>2
<1> QED  BY <1>2, <1>3 DEF LaunchQueue

(* A reload that is queued stays queued when an event is added, and when   *)
(* an event of another kind is taken.                                      *)
LEMMA QueuedAppend ==
  ASSUME mainQueue \in Seq(TidyEvent), NEW e \in TidyEvent, mainQueue' = Append(mainQueue, e)
  PROVE  /\ mainQueue' \in Seq(TidyEvent)
         /\ Queued("reload") => Queued("reload")'
<1>1. /\ mainQueue' \in Seq(TidyEvent)
      /\ \A i \in DOMAIN mainQueue : i \in DOMAIN mainQueue' /\ mainQueue'[i] = mainQueue[i]
  OBVIOUS
<1> QED  BY <1>1 DEF Queued

LEMMA QueuedTail ==
  ASSUME mainQueue \in Seq(TidyEvent), mainQueue # <<>>, mainQueue' = Tail(mainQueue)
  PROVE  /\ mainQueue' \in Seq(TidyEvent)
         /\ Head(mainQueue).kind # "reload" /\ Queued("reload") => Queued("reload")'
<1>1. mainQueue' \in Seq(TidyEvent) /\ Len(mainQueue') = Len(mainQueue) - 1
      /\ Len(mainQueue) \in Nat
  BY HeadTailProperties
<1>2. \A i \in 1 .. Len(mainQueue) - 1 : mainQueue'[i] = mainQueue[i + 1]
  BY <1>1, HeadTailProperties
<1>3. ASSUME Head(mainQueue).kind # "reload", NEW i \in DOMAIN mainQueue,
             mainQueue[i].kind = "reload"
      PROVE  Queued("reload")'
  <2>1. i # 1 /\ i \in 1 .. Len(mainQueue)
    BY <1>3
  <2>2. i - 1 \in DOMAIN mainQueue' /\ i - 1 \in 1 .. Len(mainQueue) - 1 /\ (i - 1) + 1 = i
    BY <1>1, <2>1
  <2>3. mainQueue'[i - 1] = mainQueue[i]
    BY <1>2, <2>2
  <2> QED  BY <1>3, <2>2, <2>3 DEF Queued
<1> QED  BY <1>1, <1>3 DEF Queued

(* A step that touches neither list nor screen keeps them in accord if it  *)
(* drops no reload.                                                        *)
LEMMA ScreenKept ==
  ASSUME ScreenCurrent, UNCHANGED <<accounts, isFirstLoadMade, home, shown, emptyMessage>>,
         Queued("reload") => Queued("reload")'
  PROVE  ScreenCurrent'
  BY DEF ScreenCurrent

(* A step that sets the list of a controller that stays is in accord.      *)
LEMMA ScreenNotified ==
  ASSUME home' = home, home => Queued("reload")'
  PROVE  ScreenCurrent'
  BY DEF ScreenCurrent

-----------------------------------------------------------------------------
LEMMA InitIInv ==
  ASSUME Init
  PROVE  IInv
<1>1. Flags
  BY Zenon DEF Init, Flags
<1>2. Session
  BY DEF Init, Session
<1>3. \A u \in Users : docs[u] = Linked(u)
  BY DEF Init, Linked
<1>4. used \in SUBSET Accounts /\ docs \in [Users -> SUBSET Accounts]
  BY DEF Init
<1>5. accounts \in Seq(used) /\ NoRepeat(accounts) /\ work \in Seq(TidyOp)
  BY DEF Init, NoRepeat
<1>6. mainQueue \in Seq(TidyEvent)
  BY LaunchTidy DEF Init
<1>7. ScreenCurrent
  BY LaunchTidy DEF Init, ScreenCurrent, Queued
<1> QED  BY <1>1, <1>2, <1>3, <1>4, <1>5, <1>6, <1>7 DEF IInv, Tidy

LEMMA RelaunchIInv ==
  ASSUME IInv, Relaunch
  PROVE  IInv'
<1>1. Flags'
  BY Zenon DEF Relaunch, Flags
<1>2. Session'
  BY DEF IInv, Relaunch, Session
<1>3. /\ used' = used /\ docs' = docs /\ mainQueue' = LaunchQueue(currentUser)
      /\ accounts' = <<>> /\ work' = <<>> /\ currentUser' = currentUser
      /\ home' = (currentUser # NoUser)
  BY DEF Relaunch
<1>4. mainQueue' \in Seq(TidyEvent)' /\ \A u : Linked(u)' = Linked(u)
  BY <1>3, LaunchTidy, TidySame
<1>5. <<>> \in Seq(used) /\ <<>> \in Seq(TidyOp') /\ NoRepeat(<<>>)
  BY DEF NoRepeat
<1>6. Tidy'
  BY <1>3, <1>4, <1>5 DEF IInv, Tidy
<1>7. ScreenCurrent'
  BY <1>3, LaunchTidy DEF ScreenCurrent, Queued
<1> QED  BY <1>1, <1>2, <1>6, <1>7 DEF IInv

-----------------------------------------------------------------------------
(* Steps that leave list, documents and ids alone.                         *)
LEMMA TidyFrame ==
  ASSUME Tidy, UNCHANGED <<used, accounts, docs>>,
         work' \in Seq(TidyOp), mainQueue' \in Seq(TidyEvent)
  PROVE  Tidy'
<1>1. TidyOp' = TidyOp /\ TidyEvent' = TidyEvent /\ \A u : Linked(u)' = Linked(u)
  BY TidySame
<1> QED  BY <1>1 DEF Tidy, NoRepeat

LEMMA PlainEvents ==
  /\ AuthEvent \in TidyEvent
  /\ SignedInEvent \in TidyEvent
  /\ ReloadEvent \in TidyEvent
  /\ AuthEvent.kind = "auth" /\ SignedInEvent.kind = "signedIn" /\ ReloadEvent.kind = "reload"
  BY DEF AuthEvent, SignedInEvent, ReloadEvent, TidyEvent

LEMMA SignInIInv ==
  ASSUME IInv, NEW u \in Users, SignIn(u)
  PROVE  IInv'
<1>1. /\ currentUser' = u
      /\ mainQueue' = mainQueue \o <<AuthEvent, SignedInEvent>>
      /\ UNCHANGED <<heard, dbVars, storeVars, screenVars, used, crashed>>
  BY DEF SignIn
<1>2. Flags'
  BY <1>1 DEF IInv, Flags, dbVars, screenVars
<1>3. Session'
  BY <1>1 DEF IInv, Session, storeVars, screenVars
<1>4. mainQueue \in Seq(TidyEvent) /\ work \in Seq(TidyOp)
  BY DEF IInv, Tidy
<1>5. /\ mainQueue' \in Seq(TidyEvent)
      /\ \A i \in DOMAIN mainQueue : i \in DOMAIN mainQueue' /\ mainQueue'[i] = mainQueue[i]
  BY <1>1, <1>4, PlainEvents
<1>6. Tidy'
  BY <1>1, <1>4, <1>5, TidyFrame DEF IInv, dbVars, storeVars
<1>7. Queued("reload") => Queued("reload")'
  BY <1>5 DEF Queued
<1>8. ScreenCurrent'
  BY <1>1, <1>7, ScreenKept DEF IInv, dbVars, screenVars
<1> QED  BY <1>2, <1>3, <1>6, <1>8 DEF IInv

LEMMA SignedInIInv ==
  ASSUME IInv, SignedIn
  PROVE  IInv'
<1>1. /\ mainQueue # <<>> /\ mainQueue' = Append(Tail(mainQueue), ReloadEvent)
      /\ shown' = accounts /\ alert' = NoAlert
      /\ UNCHANGED <<authVars, dbVars, storeVars, used, crashed>>
  BY DEF SignedIn
<1>2. Flags'
  BY Zenon DEF IInv, Flags, SignedIn, dbVars
<1>3. accounts \in Seq(used) /\ used \subseteq Accounts
      /\ mainQueue \in Seq(TidyEvent) /\ work \in Seq(TidyOp)
  BY DEF IInv, Tidy
<1>4. accounts \in Seq(Accounts)
  BY <1>3, SeqMonotonic
<1>5. Session'
  BY <1>1, <1>4 DEF IInv, Session, authVars, storeVars
<1>6. Tail(mainQueue) \in Seq(TidyEvent)
  BY <1>1, <1>3, HeadTailProperties
<1>7. /\ mainQueue' \in Seq(TidyEvent)
      /\ Len(mainQueue') \in DOMAIN mainQueue'
      /\ mainQueue'[Len(mainQueue')] = ReloadEvent
  BY <1>1, <1>6, PlainEvents
<1>8. Tidy'
  BY <1>1, <1>3, <1>7, TidyFrame DEF IInv, dbVars, storeVars
<1>9. ScreenCurrent'
  BY <1>7, PlainEvents DEF ScreenCurrent, Queued
<1> QED  BY <1>2, <1>5, <1>8, <1>9 DEF IInv

LEMMA SignOutIInv ==
  ASSUME IInv, SignOut
  PROVE  IInv'
<1>1. /\ currentUser' = NoUser /\ home' = FALSE /\ shown' = <<>>
      /\ mainQueue' = IF currentUser = NoUser THEN mainQueue ELSE Append(mainQueue, AuthEvent)
      /\ UNCHANGED <<heard, dbVars, storeVars, alert, used, crashed>>
  BY DEF SignOut
<1>2. Flags'
  BY Zenon DEF IInv, Flags, SignOut, dbVars
<1>3. Session'
  BY <1>1 DEF IInv, Session, storeVars
<1>4. mainQueue' \in Seq(TidyEvent) /\ work \in Seq(TidyOp)
  BY <1>1, PlainEvents DEF IInv, Tidy
<1>5. Tidy'
  BY <1>1, <1>4, TidyFrame DEF IInv, dbVars, storeVars
<1>6. ScreenCurrent'
  BY <1>1 DEF ScreenCurrent
<1> QED  BY <1>2, <1>3, <1>5, <1>6 DEF IInv

LEMMA ForcedSignOutIInv ==
  ASSUME IInv, ForcedSignOut
  PROVE  IInv'
<1>1. /\ currentUser' = NoUser /\ mainQueue' = Append(mainQueue, AuthEvent)
      /\ UNCHANGED <<heard, dbVars, storeVars, screenVars, used, crashed>>
  BY DEF ForcedSignOut
<1>2. Flags'
  BY <1>1 DEF IInv, Flags, dbVars, screenVars
<1>3. Session'
  BY <1>1 DEF IInv, Session, storeVars, screenVars
<1>4. mainQueue \in Seq(TidyEvent) /\ work \in Seq(TidyOp)
  BY DEF IInv, Tidy
<1>5. mainQueue' \in Seq(TidyEvent) /\ (Queued("reload") => Queued("reload")')
  BY <1>1, <1>4, PlainEvents, QueuedAppend
<1>6. Tidy'
  BY <1>1, <1>4, <1>5, TidyFrame DEF IInv, dbVars, storeVars
<1>7. ScreenCurrent'
  BY <1>1, <1>5, ScreenKept DEF IInv, dbVars, screenVars
<1> QED  BY <1>2, <1>3, <1>6, <1>7 DEF IInv

LEMMA AuthStateChangedIInv ==
  ASSUME IInv, AuthStateChanged
  PROVE  IInv'
<1>1. /\ mainQueue # <<>> /\ heard' = currentUser
      /\ SetAccounts(<<>>, Tail(mainQueue)) /\ GetSavedAccounts
      /\ UNCHANGED <<currentUser, docs, gets, screenVars, used, crashed>>
  BY DEF AuthStateChanged
<1>2. Flags'
  BY Zenon DEF IInv, Flags, AuthStateChanged, screenVars
<1>3. Session'
  BY <1>1 DEF IInv, Session, screenVars
<1>4. Tail(mainQueue) \in Seq(TidyEvent)
  BY <1>1, HeadTailProperties DEF IInv, Tidy
<1>5. /\ accounts' = <<>> /\ mainQueue' \in Seq(TidyEvent)
      /\ home => Queued("reload")'
  BY <1>1, <1>4, SetAccountsNotifies
<1>6. work' \in Seq(TidyOp)
  <2>1. currentUser # NoUser => [op |-> "get", user |-> currentUser] \in TidyOp
    BY DEF IInv, Session, TidyOp, Op
  <2> QED  BY <1>1, <2>1, AskTidy DEF IInv, Tidy, GetSavedAccounts
<1>7. TidyOp' = TidyOp /\ TidyEvent' = TidyEvent /\ \A u : Linked(u)' = Linked(u)
  BY <1>1, TidySame
<1>8. <<>> \in Seq(used) /\ NoRepeat(<<>>)
  BY DEF NoRepeat
<1>9. Tidy'
  BY <1>1, <1>5, <1>6, <1>7, <1>8 DEF IInv, Tidy
<1>10. ScreenCurrent'
  BY <1>1, <1>5, ScreenNotified DEF screenVars
<1> QED  BY <1>2, <1>3, <1>9, <1>10 DEF IInv

LEMMA AuthStateSameIInv ==
  ASSUME IInv, AuthStateSame
  PROVE  IInv'
<1>1. /\ mainQueue # <<>> /\ Head(mainQueue) = AuthEvent /\ mainQueue' = Tail(mainQueue)
      /\ UNCHANGED <<authVars, dbVars, storeVars, screenVars, used, crashed>>
  BY DEF AuthStateSame
<1>2. Flags'
  BY <1>1 DEF IInv, Flags, dbVars, screenVars
<1>3. Session'
  BY <1>1 DEF IInv, Session, authVars, storeVars, screenVars
<1>4. mainQueue \in Seq(TidyEvent) /\ work \in Seq(TidyOp)
  BY DEF IInv, Tidy
<1>5. mainQueue' \in Seq(TidyEvent) /\ (Queued("reload") => Queued("reload")')
  BY <1>1, <1>4, PlainEvents, QueuedTail
<1>6. Tidy'
  BY <1>1, <1>4, <1>5, TidyFrame DEF IInv, dbVars, storeVars
<1>7. ScreenCurrent'
  BY <1>1, <1>5, ScreenKept DEF IInv, dbVars, screenVars
<1> QED  BY <1>2, <1>3, <1>6, <1>7 DEF IInv

-----------------------------------------------------------------------------
(* Steps of the store.                                                     *)
LEMMA TakeOpIInv ==
  ASSUME IInv, TakeOp
  PROVE  IInv'
<1> DEFINE o == Head(work)
<1>1. /\ work # <<>> /\ work' = Tail(work)
      /\ docs' = CASE o.op = "set"    -> [docs EXCEPT ![o.user] = @ \cup {o.id}]
                   [] o.op = "delete" -> [docs EXCEPT ![o.user] = @ \ {o.id}]
                   [] OTHER           -> docs
      /\ gets' = IF o.op = "get" THEN [gets EXCEPT ![o.user] = @ + 1] ELSE gets
      /\ UNCHANGED <<authVars, dbVars, mainQueue, screenVars, used, crashed>>
  BY DEF TakeOp
<1>2. Flags'
  BY <1>1 DEF IInv, Flags, dbVars, screenVars
<1>3. o \in TidyOp /\ work' \in Seq(TidyOp)
  BY <1>1, HeadTailProperties DEF IInv, Tidy
<1>4. /\ o \in Op /\ o.user \in Users
      /\ o.op \in {"set", "delete"} => o.id \in Accounts
      /\ o.op = "set" => o.id \in Linked(o.user)
  BY <1>3 DEF TidyOp, Op
<1> HIDE DEF o
<1>5. Session'
  BY <1>1, <1>4 DEF IInv, Session, authVars, screenVars
<1>6. docs' \in [Users -> SUBSET Accounts]
  BY <1>1, <1>4 DEF IInv, Tidy
<1>7. \A u \in Users : docs'[u] \subseteq Linked(u)
  BY <1>1, <1>4 DEF IInv, Tidy
<1>8. TidyOp' = TidyOp /\ TidyEvent' = TidyEvent /\ \A u : Linked(u)' = Linked(u)
  BY <1>1, TidySame
<1>9. accounts' = accounts /\ used' = used /\ mainQueue' = mainQueue
  BY <1>1 DEF dbVars
<1>10. Tidy'
  BY <1>3, <1>6, <1>7, <1>8, <1>9 DEF IInv, Tidy, NoRepeat
<1>11. ScreenCurrent'
  BY <1>1, ScreenKept DEF IInv, Queued, dbVars, screenVars
<1> QED  BY <1>2, <1>5, <1>10, <1>11 DEF IInv

LEMMA AnswerGetIInv ==
  ASSUME IInv, NEW u \in Users, AnswerGet(u)
  PROVE  IInv'
<1>1. /\ gets[u] > 0 /\ gets' = [gets EXCEPT ![u] = @ - 1]
      /\ UNCHANGED <<authVars, dbVars, docs, work, screenVars, used, crashed>>
  BY DEF AnswerGet
<1>2. PICK s \in Listings(docs[u]) :
        mainQueue' = Append(mainQueue, [kind |-> "get", user |-> u, list |-> s])
  BY DEF AnswerGet
<1>3. Flags'
  BY <1>1 DEF IInv, Flags, dbVars, screenVars
<1>4. Session'
  BY <1>1 DEF IInv, Session, authVars, screenVars
<1>5. docs[u] \in SUBSET Accounts /\ docs[u] \subseteq Linked(u)
      /\ mainQueue \in Seq(TidyEvent) /\ work \in Seq(TidyOp)
  BY DEF IInv, Tidy
<1>6. s \in Seq(docs[u]) /\ NoRepeat(s)
  BY <1>5, ListingTidy
<1>7. s \in Seq(Accounts) /\ s \in Seq(Linked(u))
  BY <1>5, <1>6, SeqMonotonic
<1>8. [kind |-> "get", user |-> u, list |-> s] \in TidyEvent
  BY <1>6, <1>7 DEF TidyEvent, Answer
<1>9. mainQueue' \in Seq(TidyEvent) /\ (Queued("reload") => Queued("reload")')
  BY <1>2, <1>5, <1>8, QueuedAppend
<1>10. Tidy'
  BY <1>1, <1>5, <1>9, TidyFrame DEF IInv, dbVars
<1>11. ScreenCurrent'
  BY <1>1, <1>9, ScreenKept DEF IInv, dbVars, screenVars
<1> QED  BY <1>3, <1>4, <1>10, <1>11 DEF IInv

LEMMA FailGetIInv ==
  ASSUME IInv, NEW u \in Users, FailGet(u)
  PROVE  IInv'
<1>1. /\ gets[u] > 0 /\ gets' = [gets EXCEPT ![u] = @ - 1]
      /\ UNCHANGED <<authVars, dbVars, docs, work, mainQueue, screenVars, used, crashed>>
  BY DEF FailGet
<1>2. Flags'
  BY <1>1 DEF IInv, Flags, dbVars, screenVars
<1>3. Session'
  BY <1>1 DEF IInv, Session, authVars, screenVars
<1>4. work' \in Seq(TidyOp) /\ mainQueue' \in Seq(TidyEvent)
  BY <1>1 DEF IInv, Tidy
<1>5. Tidy'
  BY <1>1, <1>4, TidyFrame DEF IInv, dbVars
<1>6. ScreenCurrent'
  BY <1>1, ScreenKept DEF IInv, Queued, dbVars, screenVars
<1> QED  BY <1>2, <1>3, <1>5, <1>6 DEF IInv

(* An answer at the head of the queue lists accounts of its user, once.    *)
LEMMA HeadAnswer ==
  ASSUME Tidy, mainQueue # <<>>, Head(mainQueue).kind = "get"
  PROVE  /\ Head(mainQueue).user \in Users
         /\ Head(mainQueue).list \in Seq(Linked(Head(mainQueue).user))
         /\ NoRepeat(Head(mainQueue).list)
<1>1. Head(mainQueue) \in TidyEvent
  BY HeadTailProperties DEF Tidy
<1> QED  BY <1>1 DEF TidyEvent, Answer

LEMMA GetCallbackIInv ==
  ASSUME IInv, GetCallback
  PROVE  IInv'
<1> DEFINE e == Head(mainQueue)
<1>1. /\ mainQueue # <<>> /\ e.kind = "get"
      /\ SetAccounts(e.list, Tail(mainQueue))
      /\ UNCHANGED <<authVars, storeVars, screenVars, used, crashed>>
  BY DEF GetCallback
<1>2. Flags'
  BY Zenon DEF IInv, Flags, GetCallback, screenVars
<1>3. Session'
  BY <1>1 DEF IInv, Session, authVars, storeVars, screenVars
<1>4. Tail(mainQueue) \in Seq(TidyEvent)
  BY <1>1, HeadTailProperties DEF IInv, Tidy
<1>5. e.list \in Seq(Linked(e.user)) /\ NoRepeat(e.list)
  BY <1>1, HeadAnswer DEF IInv
<1>6. e.list \in Seq(used)
  <2>1. Linked(e.user) \subseteq used
    BY DEF Linked
  <2> HIDE DEF e
  <2> QED  BY <1>5, <2>1, SeqMonotonic
<1>7. /\ accounts' = e.list /\ mainQueue' \in Seq(TidyEvent)
      /\ home => Queued("reload")'
  BY <1>1, <1>4, SetAccountsNotifies
<1>8. TidyOp' = TidyOp /\ TidyEvent' = TidyEvent /\ \A u : Linked(u)' = Linked(u)
  BY <1>1, TidySame
<1>9. NoRepeat(accounts)'
  BY <1>5, <1>7 DEF NoRepeat
<1>10. Tidy'
  <2> HIDE DEF e
  <2> QED  BY <1>1, <1>6, <1>7, <1>8, <1>9 DEF IInv, Tidy, storeVars
<1>11. ScreenCurrent'
  BY <1>1, <1>7, ScreenNotified DEF screenVars
<1> QED  BY <1>2, <1>3, <1>10, <1>11 DEF IInv

-----------------------------------------------------------------------------
(* Steps of the list's screen.                                             *)
LEMMA RefreshIInv ==
  ASSUME IInv, Refresh
  PROVE  IInv'
<1>1. /\ GetSavedAccounts
      /\ UNCHANGED <<authVars, dbVars, docs, gets, mainQueue, home, shown, emptyMessage,
                     alert, used, crashed>>
  BY DEF Refresh
<1>2. Flags'
  BY Zenon DEF IInv, Flags, Refresh, dbVars
<1>3. Session'
  BY <1>1 DEF IInv, Session, authVars
<1>4. work' \in Seq(TidyOp)
  <2>1. currentUser # NoUser => [op |-> "get", user |-> currentUser] \in TidyOp
    BY DEF IInv, Session, TidyOp, Op
  <2> QED  BY <1>1, <2>1, AskTidy DEF IInv, Tidy, GetSavedAccounts
<1>5. mainQueue' \in Seq(TidyEvent)
  BY <1>1 DEF IInv, Tidy
<1>6. Tidy'
  BY <1>1, <1>4, <1>5, TidyFrame DEF IInv, dbVars
<1>7. ScreenCurrent'
  BY <1>1, ScreenKept DEF IInv, Queued, dbVars
<1> QED  BY <1>2, <1>3, <1>6, <1>7 DEF IInv

LEMMA SaveAccountIInv ==
  ASSUME IInv, NEW a \in Accounts, SaveAccount(a)
  PROVE  IInv'
<1>1. /\ a \notin used /\ Owner[a] = currentUser /\ used' = used \cup {a}
      /\ SetAccounts(Append(accounts, a), mainQueue) /\ SetData(a)
      /\ UNCHANGED <<authVars, isFirstLoadMade, docs, gets, screenVars, crashed>>
  BY DEF SaveAccount
<1>2. Flags'
  BY <1>1 DEF IInv, Flags, screenVars
<1>3. Session'
  BY <1>1 DEF IInv, Session, authVars, screenVars
<1>4. /\ accounts \in Seq(used) /\ NoRepeat(accounts) /\ mainQueue \in Seq(TidyEvent)
      /\ work \in Seq(TidyOp) /\ used \subseteq Accounts
  BY DEF IInv, Tidy
<1>5. /\ accounts' = Append(accounts, a) /\ mainQueue' \in Seq(TidyEvent)
      /\ home => Queued("reload")'
  BY <1>1, <1>4, SetAccountsNotifies
<1>6. \A u : Linked(u) \subseteq Linked(u)'
  BY <1>1 DEF Linked
<1>7. TidyOp \subseteq TidyOp'
  BY <1>1, <1>6 DEF TidyOp
<1>8. TidyEvent \subseteq TidyEvent'
  <2> SUFFICES ASSUME NEW e \in Answer, e.list \in Seq(Linked(e.user)), NoRepeat(e.list)
               PROVE  e.list \in Seq(Linked(e.user)')
    BY DEF TidyEvent
  <2> QED  BY <1>6, SeqMonotonic
<1>9. mainQueue' \in Seq(TidyEvent')
  BY <1>5, <1>8, SeqMonotonic
<1>10. work' \in Seq(TidyOp')
  <2>1. work' = IF currentUser = NoUser THEN work
                ELSE Append(work, [op |-> "set", user |-> currentUser, id |-> a])
    BY <1>1 DEF SetData, Ask
  <2>2. currentUser # NoUser =>
          [op |-> "set", user |-> currentUser, id |-> a] \in TidyOp'
    BY <1>1 DEF IInv, Session, TidyOp, Op, Linked
  <2>3. work \in Seq(TidyOp')
    BY <1>4, <1>7, SeqMonotonic
  <2> QED  BY <2>1, <2>2, <2>3
<1>11. accounts' \in Seq(used')
  <2>1. accounts \in Seq(used') /\ a \in used'
    BY <1>1, <1>4, SeqMonotonic
  <2> QED  BY <1>5, <2>1
<1>12. NoRepeat(accounts)'
  <2>1. NoRepeat(Append(accounts, a))
    BY <1>1, <1>4, AppendNoRepeat
  <2> QED  BY <1>5, <2>1 DEF NoRepeat
<1>13. Tidy'
  BY <1>1, <1>4, <1>6, <1>9, <1>10, <1>11, <1>12 DEF IInv, Tidy
<1>14. ScreenCurrent'
  BY <1>1, <1>5, ScreenNotified DEF screenVars
<1> QED  BY <1>2, <1>3, <1>13, <1>14 DEF IInv

LEMMA AlertIInv ==
  ASSUME IInv, alert' \in Alert \cup {NoAlert},
         UNCHANGED <<authVars, dbVars, storeVars, mainQueue, home, shown, emptyMessage,
                     refreshing, used>>,
         crashed' \in BOOLEAN
  PROVE  IInv'
<1>1. Flags'
  BY DEF IInv, Flags, dbVars
<1>2. Session'
  BY DEF IInv, Session, authVars, storeVars
<1>3. Tidy'
  BY TidyFrame DEF IInv, Tidy, dbVars, storeVars
<1>4. ScreenCurrent'
  BY ScreenKept DEF IInv, Queued, dbVars
<1> QED  BY <1>1, <1>2, <1>3, <1>4 DEF IInv

LEMMA AskDeleteIInv ==
  ASSUME IInv, NEW i \in DOMAIN shown, AskDelete(i)
  PROVE  IInv'
<1>1. shown \in Seq(Accounts) /\ crashed \in BOOLEAN
  BY DEF IInv, Session, Flags
<1>2. [row |-> i, target |-> shown[i]] \in Alert
  BY <1>1 DEF Alert
<1> QED  BY <1>1, <1>2, AlertIInv DEF AskDelete

LEMMA DeleteAccountIInv ==
  ASSUME IInv, DeleteAccount
  PROVE  IInv'
<1> DEFINE k == alert.row
<1>1. /\ k \in DOMAIN accounts /\ alert' = NoAlert
      /\ SetAccounts(RemoveAt(accounts, k), mainQueue) /\ DeleteDocument(accounts[k])
      /\ UNCHANGED <<authVars, isFirstLoadMade, docs, gets, home, shown, emptyMessage,
                     refreshing, used, crashed>>
  BY DEF DeleteAccount
<1>2. Flags'
  BY <1>1 DEF IInv, Flags
<1>3. Session'
  BY <1>1 DEF IInv, Session, authVars
<1>4. /\ accounts \in Seq(used) /\ NoRepeat(accounts) /\ mainQueue \in Seq(TidyEvent)
      /\ used \subseteq Accounts
  BY DEF IInv, Tidy
<1>5. RemoveAt(accounts, k) \in Seq(used) /\ NoRepeat(RemoveAt(accounts, k))
  <2> HIDE DEF k
  <2> QED  BY <1>1, <1>4, RemoveNoRepeat
<1>6. /\ accounts' = RemoveAt(accounts, k) /\ mainQueue' \in Seq(TidyEvent)
      /\ home => Queued("reload")'
  BY <1>1, <1>4, SetAccountsNotifies
<1>7. work' \in Seq(TidyOp)
  <2>1. accounts[k] \in Accounts /\ accounts[k] \in used
    BY <1>1, <1>4
  <2>2. currentUser # NoUser =>
          [op |-> "delete", user |-> currentUser, id |-> accounts[k]] \in TidyOp
    BY <2>1 DEF IInv, Session, TidyOp, Op
  <2> QED  BY <1>1, <2>2, AskTidy DEF IInv, Tidy, DeleteDocument
<1>8. TidyOp' = TidyOp /\ TidyEvent' = TidyEvent /\ \A u : Linked(u)' = Linked(u)
  BY <1>1, TidySame
<1>9. NoRepeat(accounts)'
  BY <1>5, <1>6 DEF NoRepeat
<1>10. Tidy'
  <2> HIDE DEF k
  <2> QED  BY <1>1, <1>5, <1>6, <1>7, <1>8, <1>9 DEF IInv, Tidy
<1>11. ScreenCurrent'
  BY <1>1, <1>6, ScreenNotified
<1> QED  BY <1>2, <1>3, <1>10, <1>11 DEF IInv

LEMMA ReloadIInv ==
  ASSUME IInv, Reload
  PROVE  IInv'
<1>1. /\ mainQueue # <<>> /\ mainQueue' = Tail(mainQueue)
      /\ emptyMessage' = (accounts = <<>> /\ isFirstLoadMade) /\ shown' = accounts
      /\ UNCHANGED <<authVars, dbVars, storeVars, home, alert, used, crashed>>
  BY DEF Reload
<1>2. Flags'
  BY Zenon DEF IInv, Flags, Reload, dbVars
<1>3. accounts \in Seq(used) /\ used \subseteq Accounts
      /\ mainQueue \in Seq(TidyEvent) /\ work \in Seq(TidyOp)
  BY DEF IInv, Tidy
<1>4. accounts \in Seq(Accounts)
  BY <1>3, SeqMonotonic
<1>5. Session'
  BY <1>1, <1>4 DEF IInv, Session, authVars, storeVars
<1>6. mainQueue' \in Seq(TidyEvent)
  BY <1>1, <1>3, QueuedTail
<1>7. Tidy'
  BY <1>1, <1>3, <1>6, TidyFrame DEF IInv, dbVars, storeVars
<1>8. ScreenCurrent'
  BY <1>1 DEF ScreenCurrent, dbVars
<1> QED  BY <1>2, <1>5, <1>7, <1>8 DEF IInv

LEMMA ReloadNobodyIInv ==
  ASSUME IInv, ReloadNobody
  PROVE  IInv'
<1>1. /\ mainQueue # <<>> /\ mainQueue' = Tail(mainQueue) /\ ~home
      /\ UNCHANGED <<authVars, dbVars, storeVars, screenVars, used, crashed>>
  BY DEF ReloadNobody
<1>2. Flags'
  BY <1>1 DEF IInv, Flags, dbVars, screenVars
<1>3. Session'
  BY <1>1 DEF IInv, Session, authVars, storeVars, screenVars
<1>4. mainQueue' \in Seq(TidyEvent) /\ work \in Seq(TidyOp)
  BY <1>1, QueuedTail DEF IInv, Tidy
<1>5. Tidy'
  BY <1>1, <1>4, TidyFrame DEF IInv, dbVars, storeVars
<1>6. ScreenCurrent'
  BY <1>1 DEF ScreenCurrent, screenVars
<1> QED  BY <1>2, <1>3, <1>5, <1>6 DEF IInv

-----------------------------------------------------------------------------
LEMMA NextIInv ==
  IInv /\ [Next]_vars => IInv'
<1> SUFFICES ASSUME IInv, [Next]_vars PROVE IInv'
  OBVIOUS
<1>0. crashed \in BOOLEAN /\ alert \in Alert \cup {NoAlert}
  BY DEF IInv, Flags, Session
<1>1. CASE CancelDelete
  BY <1>0, <1>1, AlertIInv DEF CancelDelete
<1>2. CASE DeleteTraps
  <2>1. /\ alert' = alert /\ crashed' \in BOOLEAN
        /\ UNCHANGED <<authVars, dbVars, storeVars, mainQueue, home, shown, emptyMessage,
                       refreshing, used>>
    BY <1>2, Zenon DEF DeleteTraps, screenVars
  <2> QED  BY <1>0, <2>1, AlertIInv
<1>3. CASE UNCHANGED vars
  BY <1>0, <1>3, AlertIInv DEF vars, screenVars
<1> QED
  BY <1>1, <1>2, <1>3, RelaunchIInv, SignInIInv, SignedInIInv, SignOutIInv,
     ForcedSignOutIInv, AuthStateChangedIInv, AuthStateSameIInv, TakeOpIInv,
     AnswerGetIInv, FailGetIInv, GetCallbackIInv, RefreshIInv, SaveAccountIInv,
     AskDeleteIInv, DeleteAccountIInv, ReloadIInv, ReloadNobodyIInv
  DEF Next

(* The inductive invariant holds in every reachable state.                 *)
THEOREM Invariance ==
  Spec => []IInv
<1>1. Init => IInv
  BY InitIInv
<1> QED  BY <1>1, NextIInv, PTL DEF Spec

(* Type correctness.                                                       *)
THEOREM TypeCorrect ==
  Spec => []TypeOK
<1>1. ASSUME IInv PROVE TypeOK
  <2>1. accounts \in Seq(Accounts)
    BY <1>1, SeqMonotonic DEF IInv, Tidy
  <2>2. TidyOp \subseteq Op /\ TidyEvent \subseteq Event
    BY DEF TidyOp, TidyEvent, Event, Answer
  <2>3. work \in Seq(Op) /\ mainQueue \in Seq(Event)
    BY <1>1, <2>2, SeqMonotonic DEF IInv, Tidy
  <2> QED  BY <1>1, <2>1, <2>3 DEF IInv, Flags, Session, Tidy, TypeOK
<1> QED  BY <1>1, Invariance, PTL

(* Once the queued reloads have run, table and empty-list message show the *)
(* list DBManager holds.                                                   *)
THEOREM ScreenIsCurrent ==
  Spec => []ScreenCurrent
<1>1. IInv => ScreenCurrent
  BY DEF IInv
<1> QED  BY <1>1, Invariance, PTL

(* No interleaving of scans, reads, deletions, restarts and changes of     *)
(* user lists an account twice.                                            *)
THEOREM ListedOnce ==
  Spec => []NoDuplicates
<1>1. IInv => NoDuplicates
  BY DEF IInv, Tidy, NoRepeat, NoDuplicates
<1> QED  BY <1>1, Invariance, PTL

-----------------------------------------------------------------------------
(* The steps that change the list.                                         *)
LEMMA ListSteps ==
  ASSUME [Next]_vars
  PROVE  \/ accounts' = accounts /\ isFirstLoadMade' = isFirstLoadMade
         \/ accounts' = <<>> /\ ~isFirstLoadMade'
         \/ GetCallback
         \/ \E a \in Accounts : SaveAccount(a)
         \/ DeleteAccount
  BY DEF Next, vars, dbVars, Relaunch, SignIn, SignedIn, SignOut, ForcedSignOut,
         AuthStateChanged, AuthStateSame, TakeOp, AnswerGet, FailGet, Refresh, AskDelete,
         CancelDelete, DeleteTraps, Reload, ReloadNobody, SetAccounts

LEMMA AppendListed ==
  ASSUME NEW S, NEW s \in Seq(S), NEW a, NEW T, T = Append(s, a)
  PROVE  {T[i] : i \in DOMAIN T} = {s[i] : i \in DOMAIN s} \cup {a}
  OBVIOUS

LEMMA ForeignNext ==
  ASSUME IInv, [Next]_vars, ~Foreign, Foreign', currentUser' = currentUser
  PROVE  GetCallback /\ Head(mainQueue).user # currentUser
<1>1. /\ currentUser # NoUser
      /\ \A i \in DOMAIN accounts : Owner[accounts[i]] \in {currentUser, NoUser}
  BY DEF Foreign, Listed
<1>2. PICK n \in DOMAIN accounts' : Owner[accounts'[n]] \notin {currentUser, NoUser}
  BY DEF Foreign, Listed
<1>3. accounts' # accounts /\ accounts' # <<>>
  BY <1>1, <1>2
<1>4. accounts \in Seq(used)
  BY DEF IInv, Tidy
<1>5. ASSUME NEW a \in Accounts, SaveAccount(a) PROVE FALSE
  <2>1. accounts' = Append(accounts, a) /\ Owner[a] = currentUser
    BY <1>5 DEF SaveAccount, SetAccounts
  <2> QED  BY <1>1, <1>2, <1>4, <2>1
<1>6. ASSUME DeleteAccount PROVE FALSE
  <2>1. accounts' = RemoveAt(accounts, alert.row) /\ alert.row \in DOMAIN accounts
    BY <1>6 DEF DeleteAccount, SetAccounts
  <2>2. \E m \in DOMAIN accounts : accounts'[n] = accounts[m]
    BY <1>2, <1>4, <2>1, RemoveRows
  <2> QED  BY <1>1, <1>2, <2>2
<1>7. ASSUME GetCallback PROVE Head(mainQueue).user # currentUser
  <2>1. /\ mainQueue # <<>> /\ Head(mainQueue).kind = "get"
        /\ accounts' = Head(mainQueue).list
    BY <1>7 DEF GetCallback, SetAccounts
  <2>2. accounts' \in Seq(Linked(Head(mainQueue).user))
    BY <2>1, HeadAnswer DEF IInv
  <2>3. accounts'[n] \in Linked(Head(mainQueue).user)
    BY <1>2, <2>2
  <2> QED  BY <1>2, <2>3 DEF Linked
<1> QED  BY <1>3, <1>5, <1>6, <1>7, ListSteps

(* Another user's account gets on a signed-in user's list by the late      *)
(* answer to a read for that other user, and in no other way.              *)
THEOREM ForeignListing ==
  Spec => ForeignOnlyByLateAnswer
<1>1. IInv /\ [Next]_vars =>
        [~Foreign /\ Foreign' =>
           \/ currentUser' # currentUser
           \/ GetCallback /\ Head(mainQueue).user # currentUser]_vars
  BY ForeignNext
<1> QED  BY <1>1, Invariance, PTL DEF Spec, ForeignOnlyByLateAnswer

-----------------------------------------------------------------------------
(* Agreement of list and store.  What the worker has still to do counts as *)
(* done (Intended); that this does not depend on when it is done needs the *)
(* order of the pending writes: no id is set after it was deleted, since   *)
(* ids are fresh.                                                          *)
SetsFirst ==
  \A i, j \in DOMAIN work :
    i < j /\ work[i].op = "delete" /\ work[j].op = "set" => work[i].id # work[j].id

(* The steps that change what the worker has to do.                        *)
LEMMA WorkSteps ==
  ASSUME [Next]_vars
  PROVE  \/ UNCHANGED <<work, docs>>
         \/ work' = <<>> /\ Relaunch
         \/ TakeOp
         \/ GetSavedAccounts /\ docs' = docs
         \/ \E a \in Accounts : SaveAccount(a)
         \/ DeleteAccount
  BY DEF Next, vars, storeVars, Relaunch, SignIn, SignedIn, SignOut, ForcedSignOut,
         AuthStateChanged, AuthStateSame, AnswerGet, FailGet, GetCallback, Refresh,
         AskDelete, CancelDelete, DeleteTraps, Reload, ReloadNobody

LEMMA SetsFirstNext ==
  ASSUME IInv, SetsFirst, [Next]_vars
  PROVE  SetsFirst'
<1>1. work \in Seq(TidyOp)
  BY DEF IInv, Tidy
<1>2. ASSUME NEW o \in Op, work' = Append(work, o),
             o.op = "set" => \A i \in DOMAIN work : work[i].op = "delete" => work[i].id # o.id
      PROVE  SetsFirst'
  <2>1. DOMAIN work' = 1 .. Len(work) + 1 /\ Len(work) \in Nat
        /\ DOMAIN work = 1 .. Len(work)
    BY <1>1, <1>2
  <2>2. \A i \in DOMAIN work' : work'[i] = IF i = Len(work) + 1 THEN o ELSE work[i]
    BY <1>1, <1>2
  <2> SUFFICES ASSUME NEW i \in DOMAIN work', NEW j \in DOMAIN work',
                      i < j, work'[i].op = "delete", work'[j].op = "set"
               PROVE  work'[i].id # work'[j].id
    BY DEF SetsFirst
  <2>3. i \in DOMAIN work /\ work'[i] = work[i]
    BY <2>1, <2>2
  <2>4. CASE j = Len(work) + 1
    BY <1>2, <2>2, <2>3, <2>4
  <2>5. CASE j # Len(work) + 1
    <3>1. j \in DOMAIN work /\ work'[j] = work[j]
      BY <2>1, <2>2, <2>5
    <3> QED  BY <2>3, <3>1 DEF SetsFirst
  <2> QED  BY <2>4, <2>5
<1>3. CASE work' = work
  BY <1>3 DEF SetsFirst
<1>4. CASE work' = <<>>
  BY <1>4 DEF SetsFirst
<1>5. CASE TakeOp
  <2>1. work # <<>> /\ work' = Tail(work)
    BY <1>5 DEF TakeOp
  <2>2. /\ DOMAIN work' = 1 .. Len(work) - 1 /\ Len(work) \in Nat
        /\ DOMAIN work = 1 .. Len(work)
        /\ \A i \in 1 .. Len(work) - 1 : work'[i] = work[i + 1]
    BY <1>1, <2>1
  <2> SUFFICES ASSUME NEW i \in DOMAIN work', NEW j \in DOMAIN work',
                      i < j, work'[i].op = "delete", work'[j].op = "set"
               PROVE  work'[i].id # work'[j].id
    BY DEF SetsFirst
  <2>3. i + 1 \in DOMAIN work /\ j + 1 \in DOMAIN work /\ i + 1 < j + 1
        /\ work'[i] = work[i + 1] /\ work'[j] = work[j + 1]
    BY <2>2
  <2> QED  BY <2>3 DEF SetsFirst
<1>6. CASE GetSavedAccounts
  <2>1. CASE currentUser = NoUser
    BY <1>3, <1>6, <2>1 DEF GetSavedAccounts, Ask
  <2>2. CASE currentUser # NoUser
    <3>1. [op |-> "get", user |-> currentUser] \in Op
      BY <2>2 DEF IInv, Session, Op
    <3> QED  BY <1>2, <1>6, <2>2, <3>1 DEF GetSavedAccounts, Ask
  <2> QED  BY <2>1, <2>2
<1>7. ASSUME NEW a \in Accounts, SaveAccount(a) PROVE SetsFirst'
  <2> DEFINE o == [op |-> "set", user |-> currentUser, id |-> a]
  <2>1. a \notin used /\ work' = IF currentUser = NoUser THEN work ELSE Append(work, o)
    BY <1>7 DEF SaveAccount, SetData, Ask
  <2>2. \A i \in DOMAIN work : work[i].op = "delete" => work[i].id # a
    BY <1>1, <2>1 DEF TidyOp
  <2>3. currentUser # NoUser => o \in Op
    BY DEF IInv, Session, Op
  <2> QED  BY <1>2, <1>3, <2>1, <2>2, <2>3
<1>8. CASE DeleteAccount
  <2> DEFINE o == [op |-> "delete", user |-> currentUser, id |-> accounts[alert.row]]
  <2>1. /\ alert.row \in DOMAIN accounts
        /\ work' = IF currentUser = NoUser THEN work ELSE Append(work, o)
    BY <1>8 DEF DeleteAccount, DeleteDocument, Ask
  <2>2. accounts \in Seq(used) /\ used \subseteq Accounts
    BY DEF IInv, Tidy
  <2>3. currentUser # NoUser => o \in Op
    BY <2>1, <2>2 DEF IInv, Session, Op
  <2> QED  BY <1>2, <1>3, <2>1, <2>3
<1> QED  BY <1>3, <1>4, <1>5, <1>6, <1>7, <1>8, WorkSteps

(* Has(w, o): o is among the operations w.                                 *)
Has(w, o) == \E i \in DOMAIN w : w[i] = o

LEMMA HasTail ==
  ASSUME NEW S, NEW w \in Seq(S), w # <<>>, NEW o
  PROVE  Has(w, o) <=> Head(w) = o \/ Has(Tail(w), o)
<1>1. /\ DOMAIN Tail(w) = 1 .. Len(w) - 1 /\ Len(w) \in Nat /\ DOMAIN w = 1 .. Len(w)
      /\ \A i \in 1 .. Len(w) - 1 : Tail(w)[i] = w[i + 1]
      /\ Head(w) = w[1] /\ 1 \in DOMAIN w
  OBVIOUS
<1>2. ASSUME Has(w, o), Head(w) # o PROVE Has(Tail(w), o)
  <2>1. PICK i \in DOMAIN w : w[i] = o
    BY <1>2 DEF Has
  <2>2. i - 1 \in 1 .. Len(w) - 1 /\ (i - 1) + 1 = i
    BY <1>1, <1>2, <2>1
  <2> QED  BY <1>1, <2>1, <2>2 DEF Has
<1>3. ASSUME Has(Tail(w), o) PROVE Has(w, o)
  <2>1. PICK i \in DOMAIN Tail(w) : Tail(w)[i] = o
    BY <1>3 DEF Has
  <2>2. i + 1 \in DOMAIN w /\ w[i + 1] = o
    BY <1>1, <2>1
  <2> QED  BY <2>2 DEF Has
<1>4. ASSUME Head(w) = o PROVE Has(w, o)
  BY <1>1, <1>4 DEF Has
<1> QED  BY <1>2, <1>3, <1>4

LEMMA HasAppend ==
  ASSUME NEW S, NEW w \in Seq(S), NEW p, NEW o
  PROVE  Has(Append(w, p), o) <=> p = o \/ Has(w, o)
<1>1. /\ DOMAIN Append(w, p) = 1 .. Len(w) + 1 /\ Len(w) \in Nat /\ DOMAIN w = 1 .. Len(w)
      /\ \A i \in 1 .. Len(w) : Append(w, p)[i] = w[i]
      /\ Append(w, p)[Len(w) + 1] = p
  OBVIOUS
<1>2. ASSUME Has(Append(w, p), o), p # o PROVE Has(w, o)
  <2>1. PICK i \in DOMAIN Append(w, p) : Append(w, p)[i] = o
    BY <1>2 DEF Has
  <2> QED  BY <1>1, <1>2, <2>1 DEF Has
<1>3. ASSUME Has(w, o) PROVE Has(Append(w, p), o)
  BY <1>1, <1>3 DEF Has
<1>4. ASSUME p = o PROVE Has(Append(w, p), o)
  BY <1>1, <1>4 DEF Has
<1> QED  BY <1>2, <1>3, <1>4

SetOf(u, a)    == [op |-> "set", user |-> u, id |-> a]
DeleteOf(u, a) == [op |-> "delete", user |-> u, id |-> a]

(* Membership in Intended, in terms of the operations pending.             *)
LEMMA IntendedMember ==
  ASSUME NEW u \in Users, NEW a \in Accounts
  PROVE  a \in Intended(u) <=> /\ a \in docs[u] \/ Has(work, SetOf(u, a))
                               /\ ~Has(work, DeleteOf(u, a))
  BY DEF Intended, Has, SetOf, DeleteOf

LEMMA IntendedSubset ==
  ASSUME Tidy, NEW u \in Users
  PROVE  Intended(u) \subseteq Accounts
  BY DEF Tidy, Intended

(* Taking an operation leaves the intended documents as they are.          *)
LEMMA IntendedTakeOp ==
  ASSUME IInv, SetsFirst, TakeOp, NEW u \in Users
  PROVE  Intended(u)' = Intended(u)
<1> DEFINE o == Head(work)
<1>1. /\ work # <<>> /\ work' = Tail(work)
      /\ docs' = CASE o.op = "set"    -> [docs EXCEPT ![o.user] = @ \cup {o.id}]
                   [] o.op = "delete" -> [docs EXCEPT ![o.user] = @ \ {o.id}]
                   [] OTHER           -> docs
  BY DEF TakeOp
<1>2. work \in Seq(TidyOp) /\ docs \in [Users -> SUBSET Accounts] /\ Tidy /\ Tidy'
  BY TakeOpIInv DEF IInv, Tidy
<1>3. o \in TidyOp
  BY <1>1, <1>2, HeadTailProperties
<1>4. o \in Op /\ o.user \in Users
  BY <1>3 DEF TidyOp, Op
<1>5. ASSUME NEW a \in Accounts PROVE a \in Intended(u)' <=> a \in Intended(u)
  <2>1. /\ Has(work, SetOf(u, a)) <=> o = SetOf(u, a) \/ Has(work', SetOf(u, a))
        /\ Has(work, DeleteOf(u, a)) <=> o = DeleteOf(u, a) \/ Has(work', DeleteOf(u, a))
    BY <1>1, <1>2, HasTail
  <2>2. a \in Intended(u)' <=> /\ a \in docs'[u] \/ Has(work', SetOf(u, a))
                               /\ ~Has(work', DeleteOf(u, a))
    BY <1>5 DEF Intended, Has, SetOf, DeleteOf
  <2>3. CASE o = SetOf(u, a)
    <3>1. o.op = "set" /\ o.user = u /\ o.id = a /\ o # DeleteOf(u, a)
      BY <2>3 DEF SetOf, DeleteOf
    <3>2. a \in docs'[u]
      BY <1>1, <1>2, <3>1
    <3> QED  BY <1>5, <2>1, <2>2, <2>3, <3>1, <3>2, IntendedMember
  <2>4. CASE o = DeleteOf(u, a)
    <3>1. o.op = "delete" /\ o.user = u /\ o.id = a /\ o # SetOf(u, a)
      BY <2>4 DEF SetOf, DeleteOf
    <3>2. a \notin docs'[u]
      BY <1>1, <1>2, <3>1
    <3>3. ~Has(work', SetOf(u, a))
      <4> SUFFICES ASSUME NEW j \in DOMAIN work', work'[j] = SetOf(u, a) PROVE FALSE
        BY DEF Has
      <4>1. /\ 1 \in DOMAIN work /\ j + 1 \in DOMAIN work /\ 1 < j + 1
            /\ work[1] = o /\ work[j + 1] = work'[j]
        BY <1>1, <1>2
      <4>2. work[j + 1].op = "set" /\ work[j + 1].id = a
        BY <4>1 DEF SetOf
      <4> QED  BY <3>1, <4>1, <4>2 DEF SetsFirst
    <3> QED  BY <1>5, <2>1, <2>2, <2>4, <3>2, <3>3, IntendedMember
  <2>5. CASE o # SetOf(u, a) /\ o # DeleteOf(u, a)
    <3>1. o.op \in {"set", "delete"} => ~(o.user = u /\ o.id = a)
      BY <1>4, <2>5 DEF SetOf, DeleteOf, Op
    <3>2. a \in docs'[u] <=> a \in docs[u]
      <4> HIDE DEF o
      <4>1. CASE o.op = "set"
        BY <1>1, <1>2, <1>4, <3>1, <4>1
      <4>2. CASE o.op = "delete"
        BY <1>1, <1>2, <1>4, <3>1, <4>2
      <4>3. CASE o.op # "set" /\ o.op # "delete"
        BY <1>1, <4>3
      <4> QED  BY <4>1, <4>2, <4>3
    <3> QED  BY <1>5, <2>1, <2>2, <2>5, <3>2, IntendedMember
  <2> QED  BY <2>3, <2>4, <2>5
<1>6. Intended(u) \subseteq Accounts
  BY <1>2, IntendedSubset
<1>7. Intended(u)' \subseteq Accounts
  BY <1>2 DEF Tidy, Intended
<1> QED  BY <1>5, <1>6, <1>7

(* Asking for something more changes the intended documents by just that.  *)
LEMMA IntendedAppend ==
  ASSUME IInv, NEW u \in Users, NEW o, work' = Append(work, o), docs' = docs,
         NEW a \in Accounts
  PROVE  a \in Intended(u)' <=>
           /\ a \in docs[u] \/ Has(work, SetOf(u, a)) \/ o = SetOf(u, a)
           /\ ~Has(work, DeleteOf(u, a)) /\ o # DeleteOf(u, a)
<1>1. work \in Seq(TidyOp)
  BY DEF IInv, Tidy
<1>2. a \in Intended(u)' <=> /\ a \in docs[u] \/ Has(work', SetOf(u, a))
                             /\ ~Has(work', DeleteOf(u, a))
  BY DEF Intended, Has, SetOf, DeleteOf
<1> QED  BY <1>1, <1>2, HasAppend

LEMMA AgreementNext ==
  ASSUME IInv, SetsFirst, [Next]_vars, Agree, ~Agree', currentUser' = currentUser,
         ~(accounts' = <<>> /\ ~isFirstLoadMade')
  PROVE  /\ GetCallback
         /\ \/ Head(mainQueue).user # currentUser
            \/ ToSet(Head(mainQueue).list) # Intended(currentUser) \ Malformed
<1> DEFINE cu == currentUser
<1>1. cu \in Users /\ cu # NoUser /\ isFirstLoadMade
  BY DEF Agree, IInv, Session
<1>2. Listed = Intended(cu) \ Malformed
  BY DEF Agree
<1>3. Tidy /\ Tidy' /\ accounts \in Seq(used) /\ used \subseteq Accounts
  BY NextIInv DEF IInv, Tidy
<1>4. Intended(cu) \subseteq Accounts /\ Intended(cu)' \subseteq Accounts
  BY <1>1, <1>3 DEF Tidy, Intended
<1>5. ASSUME Listed' = Listed, isFirstLoadMade', Intended(cu)' = Intended(cu) PROVE FALSE
  BY <1>1, <1>2, <1>5 DEF Agree
<1>6. ASSUME GetCallback, ToSet(Head(mainQueue).list) = Intended(cu) \ Malformed PROVE FALSE
  <2>1. /\ isFirstLoadMade' = TRUE /\ accounts' = Head(mainQueue).list
        /\ work' = work /\ docs' = docs
    BY <1>6 DEF GetCallback, SetAccounts, storeVars
  <2>2. Listed' = ToSet(Head(mainQueue).list)
    BY <2>1 DEF Listed, ToSet
  <2>3. Intended(cu)' = Intended(cu)
    BY <2>1 DEF Intended
  <2> QED  BY <1>2, <1>5, <1>6, <2>1, <2>2, <2>3
<1>7. ASSUME NEW a \in Accounts, SaveAccount(a) PROVE FALSE
  <2>1. /\ a \notin used /\ a \notin Malformed /\ Owner[a] = cu
        /\ accounts' = Append(accounts, a) /\ isFirstLoadMade' = isFirstLoadMade
        /\ docs' = docs /\ work' = Append(work, SetOf(cu, a))
    BY <1>1, <1>7 DEF SaveAccount, SetAccounts, SetData, Ask, SetOf
  <2>2. Listed' = Listed \cup {a}
    BY <1>3, <2>1, AppendListed DEF Listed
  <2>3. ~Has(work, DeleteOf(cu, a))
    BY <1>3, <2>1 DEF Tidy, TidyOp, Has, DeleteOf
  <2>4. Intended(cu)' = Intended(cu) \cup {a}
    <3> SUFFICES ASSUME NEW b \in Accounts
                 PROVE  b \in Intended(cu)' <=> b \in Intended(cu) \/ b = a
      BY <1>4
    <3>1. b \in Intended(cu)' <=>
            /\ b \in docs[cu] \/ Has(work, SetOf(cu, b)) \/ SetOf(cu, a) = SetOf(cu, b)
            /\ ~Has(work, DeleteOf(cu, b)) /\ SetOf(cu, a) # DeleteOf(cu, b)
      BY <1>1, <2>1, IntendedAppend
    <3>2. (SetOf(cu, a) = SetOf(cu, b) <=> a = b) /\ SetOf(cu, a) # DeleteOf(cu, b)
      BY DEF SetOf, DeleteOf
    <3> QED  BY <1>1, <2>3, <3>1, <3>2, IntendedMember
  <2>5. Listed' = Intended(cu)' \ Malformed
    BY <1>2, <2>1, <2>2, <2>4
  <2> QED  BY <1>1, <2>1, <2>5 DEF Agree
<1>8. ASSUME DeleteAccount PROVE FALSE
  <2> DEFINE k == alert.row
             b == accounts[k]
  <2>1. /\ k \in DOMAIN accounts
        /\ accounts' = RemoveAt(accounts, k) /\ isFirstLoadMade' = isFirstLoadMade
        /\ docs' = docs /\ work' = Append(work, DeleteOf(cu, b))
    BY <1>1, <1>8 DEF DeleteAccount, SetAccounts, DeleteDocument, Ask, DeleteOf
  <2>2. b \in Accounts
    BY <1>3, <2>1
  <2>3. Listed' = Listed \ {b}
    <3>1. \A m \in DOMAIN accounts : accounts[m] = b => m = k
      BY <1>3, <2>1 DEF Tidy, NoRepeat
    <3>2. /\ \A n \in DOMAIN accounts' : \E m \in DOMAIN accounts : m # k /\ accounts'[n] = accounts[m]
          /\ \A m \in DOMAIN accounts : m # k => \E n \in DOMAIN accounts' : accounts'[n] = accounts[m]
      <4> HIDE DEF k, b
      <4> QED  BY <1>3, <2>1, RemoveRows
    <3> HIDE DEF k, b
    <3>3. ASSUME NEW x \in Listed' PROVE x \in Listed \ {b}
      <4>1. PICK n \in DOMAIN accounts' : x = accounts'[n]
        BY DEF Listed
      <4> QED  BY <3>1, <3>2, <4>1 DEF Listed
    <3>4. ASSUME NEW x \in Listed, x # b PROVE x \in Listed'
      <4>1. PICK m \in DOMAIN accounts : x = accounts[m]
        BY DEF Listed
      <4>2. m # k
        BY <3>4, <4>1 DEF b
      <4> QED  BY <3>2, <4>1, <4>2 DEF Listed
    <3> QED  BY <3>3, <3>4
  <2>4. Intended(cu)' = Intended(cu) \ {b}
    <3> HIDE DEF k, b
    <3> SUFFICES ASSUME NEW a \in Accounts
                 PROVE  a \in Intended(cu)' <=> a \in Intended(cu) /\ a # b
      BY <1>4
    <3>1. a \in Intended(cu)' <=>
            /\ a \in docs[cu] \/ Has(work, SetOf(cu, a)) \/ DeleteOf(cu, b) = SetOf(cu, a)
            /\ ~Has(work, DeleteOf(cu, a)) /\ DeleteOf(cu, b) # DeleteOf(cu, a)
      BY <1>1, <2>1, IntendedAppend
    <3>2. (DeleteOf(cu, b) = DeleteOf(cu, a) <=> a = b) /\ DeleteOf(cu, b) # SetOf(cu, a)
      BY DEF SetOf, DeleteOf
    <3> QED  BY <1>1, <3>1, <3>2, IntendedMember
  <2>5. Listed' = Intended(cu)' \ Malformed
    BY <1>2, <2>3, <2>4
  <2> QED  BY <1>1, <2>1, <2>5 DEF Agree
<1>9. ASSUME accounts' = accounts, isFirstLoadMade' = isFirstLoadMade PROVE FALSE
  <2>1. Listed' = Listed /\ isFirstLoadMade'
    BY <1>1, <1>9 DEF Listed
  <2>2. CASE UNCHANGED <<work, docs>>
    BY <1>5, <2>1, <2>2 DEF Intended
  <2>3. CASE Relaunch
    BY <2>1, <2>3 DEF Relaunch
  <2>4. CASE TakeOp
    BY <1>1, <1>5, <2>1, <2>4, IntendedTakeOp
  <2>5. CASE GetSavedAccounts /\ docs' = docs
    <3> DEFINE o == [op |-> "get", user |-> cu]
    <3>1. work' = Append(work, o)
      BY <1>1, <2>5 DEF GetSavedAccounts, Ask
    <3>2. ASSUME NEW a \in Accounts PROVE a \in Intended(cu)' <=> a \in Intended(cu)
      <4>1. o # SetOf(cu, a) /\ o # DeleteOf(cu, a)
        BY DEF SetOf, DeleteOf
      <4> HIDE DEF o
      <4> QED  BY <1>1, <2>5, <3>1, <4>1, IntendedAppend, IntendedMember
    <3> QED  BY <1>4, <1>5, <2>1, <3>2
  <2> QED  BY <1>7, <1>8, <2>2, <2>3, <2>4, <2>5, WorkSteps
<1> QED  BY <1>6, <1>7, <1>8, <1>9, ListSteps

(* Saving and deleting never set list and store apart: only a change of    *)
(* user, a cleared list, or an answer that is another user's or older than *)
(* a save or delete does.                                                  *)
THEOREM Agreement ==
  Spec => AgreementKept
<1>1. Init => SetsFirst
  BY DEF Init, SetsFirst
<1>2. IInv /\ SetsFirst /\ [Next]_vars => SetsFirst'
  BY SetsFirstNext
<1>3. IInv /\ SetsFirst /\ [Next]_vars =>
        [Agree /\ ~Agree' =>
           \/ currentUser' # currentUser
           \/ accounts' = <<>> /\ ~isFirstLoadMade'
           \/ /\ GetCallback
              /\ \/ Head(mainQueue).user # currentUser
                 \/ ToSet(Head(mainQueue).list) # Intended(currentUser) \ Malformed]_vars
  BY AgreementNext
<1> QED  BY <1>1, <1>2, <1>3, Invariance, PTL DEF Spec, AgreementKept

-----------------------------------------------------------------------------
(* Reads under way, and what outlives a change of user.                    *)

LEMMA TailItems ==
  ASSUME NEW S, NEW w \in Seq(S), w # <<>>, NEW i \in DOMAIN Tail(w)
  PROVE  \E j \in DOMAIN w : Tail(w)[i] = w[j]
<1>1. i + 1 \in DOMAIN w /\ Tail(w)[i] = w[i + 1]
  OBVIOUS
<1> QED  BY <1>1

LEMMA AppendItems ==
  ASSUME NEW S, NEW w \in Seq(S), NEW p, NEW i \in DOMAIN Append(w, p)
  PROVE  Append(w, p)[i] = p \/ \E j \in DOMAIN w : Append(w, p)[i] = w[j]
  OBVIOUS

(* An event that is no answer adds none.                                   *)
LEMMA NoNewAnswer ==
  ASSUME NEW q \in Seq(TidyEvent), NEW e \in {AuthEvent, SignedInEvent, ReloadEvent},
         NEW i \in DOMAIN Append(q, e), Append(q, e)[i].kind = "get"
  PROVE  \E j \in DOMAIN q : Append(q, e)[i] = q[j]
<1>1. e.kind # "get"
  BY PlainEvents
<1> QED  BY <1>1, AppendItems

(* Only the answer to a read puts a callback on the main queue.            *)
LEMMA AnswerSteps ==
  ASSUME IInv, [Next]_vars, NEW i \in DOMAIN mainQueue', mainQueue'[i].kind = "get"
  PROVE  \/ \E j \in DOMAIN mainQueue : mainQueue'[i] = mainQueue[j]
         \/ \E u \in Users : AnswerGet(u) /\ mainQueue'[i].user = u
<1>1. mainQueue \in Seq(TidyEvent)
  BY DEF IInv, Tidy
<1>2. mainQueue # <<>> => Tail(mainQueue) \in Seq(TidyEvent)
  BY <1>1, HeadTailProperties
<1>3. CASE \/ mainQueue' = mainQueue
           \/ mainQueue # <<>> /\ mainQueue' = Tail(mainQueue)
  BY <1>1, <1>3, TailItems
<1>4. ASSUME NEW e \in {AuthEvent, SignedInEvent, ReloadEvent},
             \/ mainQueue' = Append(mainQueue, e)
             \/ mainQueue # <<>> /\ mainQueue' = Append(Tail(mainQueue), e)
      PROVE  \E j \in DOMAIN mainQueue : mainQueue'[i] = mainQueue[j]
  <2>1. CASE mainQueue' = Append(mainQueue, e)
    BY <1>1, <2>1, NoNewAnswer
  <2>2. CASE mainQueue # <<>> /\ mainQueue' = Append(Tail(mainQueue), e)
    <3>1. PICK j \in DOMAIN Tail(mainQueue) : mainQueue'[i] = Tail(mainQueue)[j]
      BY <1>2, <2>2, NoNewAnswer
    <3> QED  BY <1>1, <2>2, <3>1, TailItems
  <2> QED  BY <1>4, <2>1, <2>2
<1>5. ASSUME NEW u \in Users, AnswerGet(u)
      PROVE  \/ \E j \in DOMAIN mainQueue : mainQueue'[i] = mainQueue[j]
             \/ mainQueue'[i].user = u
  <2>1. PICK s : mainQueue' = Append(mainQueue, [kind |-> "get", user |-> u, list |-> s])
    BY <1>5 DEF AnswerGet
  <2> QED  BY <1>1, <2>1, AppendItems
<1>6. ASSUME NEW u \in Users, SignIn(u)
      PROVE  \E j \in DOMAIN mainQueue : mainQueue'[i] = mainQueue[j]
  <2>1. mainQueue' = mainQueue \o <<AuthEvent, SignedInEvent>>
    BY <1>6 DEF SignIn
  <2>2. i \in DOMAIN mainQueue \/ mainQueue'[i] \in {AuthEvent, SignedInEvent}
    BY <1>1, <2>1
  <2>3. i \in DOMAIN mainQueue
    BY <2>2, PlainEvents
  <2> QED  BY <1>1, <2>1, <2>3
<1>7. ASSUME Relaunch PROVE FALSE
  <2>1. mainQueue' = <<AuthEvent>> \/ mainQueue' = <<AuthEvent, ReloadEvent>>
    BY <1>7 DEF Relaunch, LaunchQueue
  <2>2. mainQueue'[i] \in {AuthEvent, ReloadEvent}
    BY <2>1
  <2> QED  BY <2>2, PlainEvents
<1>8. \/ mainQueue' = mainQueue
      \/ mainQueue # <<>> /\ mainQueue' = Tail(mainQueue)
      \/ \E e \in {AuthEvent, SignedInEvent, ReloadEvent} :
           \/ mainQueue' = Append(mainQueue, e)
           \/ mainQueue # <<>> /\ mainQueue' = Append(Tail(mainQueue), e)
      \/ \E u \in Users : AnswerGet(u) \/ SignIn(u)
      \/ Relaunch
  BY DEF Next, vars, storeVars, SignedIn, SignOut, ForcedSignOut, AuthStateChanged,
         AuthStateSame, TakeOp, FailGet, GetCallback, Refresh, SaveAccount, AskDelete,
         CancelDelete, DeleteAccount, DeleteTraps, Reload, ReloadNobody, SetAccounts
<1> QED  BY <1>3, <1>4, <1>5, <1>6, <1>7, <1>8

(* A read that the worker is asked for is the signed-in user's.            *)
LEMMA ReadSteps ==
  ASSUME IInv, [Next]_vars, NEW i \in DOMAIN work', work'[i].op = "get"
  PROVE  \/ \E j \in DOMAIN work : work'[i] = work[j]
         \/ work'[i].user = currentUser
<1>1. work \in Seq(TidyOp)
  BY DEF IInv, Tidy
<1>2. ASSUME NEW o, o.op = "get" => o.user = currentUser,
             work' = work \/ work' = Append(work, o)
      PROVE  \/ \E j \in DOMAIN work : work'[i] = work[j]
             \/ work'[i].user = currentUser
  BY <1>1, <1>2, AppendItems
<1>3. CASE TakeOp
  <2>1. work # <<>> /\ work' = Tail(work)
    BY <1>3 DEF TakeOp
  <2> QED  BY <1>1, <2>1, TailItems
<1>4. CASE GetSavedAccounts
  <2>1. \E o : (o.op = "get" => o.user = currentUser) /\ (work' = work \/ work' = Append(work, o))
    BY <1>4 DEF GetSavedAccounts, Ask
  <2> QED  BY <1>2, <2>1
<1>5. CASE (\E a \in Accounts : SaveAccount(a)) \/ DeleteAccount
  <2>1. ASSUME NEW a \in Accounts, SaveAccount(a)
        PROVE  \E o : o.op # "get" /\ (work' = work \/ work' = Append(work, o))
    <3> DEFINE o == [op |-> "set", user |-> currentUser, id |-> a]
    <3>1. o.op # "get" /\ (work' = work \/ work' = Append(work, o))
      BY <2>1 DEF SaveAccount, SetData, Ask
    <3> QED  BY <3>1
  <2>2. ASSUME DeleteAccount
        PROVE  \E o : o.op # "get" /\ (work' = work \/ work' = Append(work, o))
    <3> DEFINE o == [op |-> "delete", user |-> currentUser, id |-> accounts[alert.row]]
    <3>1. o.op # "get" /\ (work' = work \/ work' = Append(work, o))
      BY <2>2 DEF DeleteAccount, DeleteDocument, Ask
    <3> QED  BY <3>1
  <2> QED  BY <1>2, <1>5, <2>1, <2>2
<1>6. CASE work' = work
  BY <1>6
<1>7. CASE work' = <<>>
  BY <1>7
<1> QED  BY <1>3, <1>4, <1>5, <1>6, <1>7, WorkSteps

(* A read that waits for its answer was waiting or has been taken.         *)
LEMMA GetSteps ==
  ASSUME IInv, [Next]_vars, NEW v \in Users, gets'[v] > 0
  PROVE  \/ gets[v] > 0
         \/ TakeOp /\ Head(work).op = "get" /\ Head(work).user = v
<1>1. gets \in [Users -> Nat]
  BY DEF IInv, Session
<1>2. CASE gets' = gets
  BY <1>2
<1>3. CASE Relaunch
  BY <1>3 DEF Relaunch
<1>4. ASSUME NEW u \in Users, AnswerGet(u) \/ FailGet(u) PROVE gets[v] > 0
  BY <1>1, <1>4 DEF AnswerGet, FailGet
<1>5. CASE TakeOp
  <2>1. gets' = IF Head(work).op = "get"
                THEN [gets EXCEPT ![Head(work).user] = @ + 1] ELSE gets
    BY <1>5 DEF TakeOp
  <2> QED  BY <1>1, <1>5, <2>1
<1>6. \/ gets' = gets
      \/ Relaunch
      \/ \E u \in Users : AnswerGet(u) \/ FailGet(u)
      \/ TakeOp
  BY DEF Next, vars, storeVars, SignIn, SignedIn, SignOut, ForcedSignOut,
         AuthStateChanged, AuthStateSame, GetCallback, Refresh, SaveAccount, AskDelete,
         CancelDelete, DeleteAccount, DeleteTraps, Reload, ReloadNobody
<1> QED  BY <1>2, <1>3, <1>4, <1>5, <1>6

(* Who starts to read is signed in.                                        *)
LEMMA ReadersNext ==
  ASSUME IInv, [Next]_vars
  PROVE  Readers' \subseteq Readers \cup {currentUser}
<1> SUFFICES ASSUME NEW v \in Readers' PROVE v \in Readers \cup {currentUser}
  OBVIOUS
<1>0. v \in Users
  BY DEF Readers
<1>1. ASSUME gets'[v] > 0 PROVE v \in Readers
  <2>1. CASE gets[v] > 0
    BY <1>0, <2>1 DEF Readers
  <2>2. CASE TakeOp /\ Head(work).op = "get" /\ Head(work).user = v
    <3>1. work \in Seq(TidyOp) /\ work # <<>>
      BY <2>2 DEF TakeOp, IInv, Tidy
    <3>2. 1 \in DOMAIN work /\ work[1] = Head(work)
      BY <3>1
    <3> QED  BY <1>0, <2>2, <3>2 DEF Readers
  <2> QED  BY <1>0, <1>1, <2>1, <2>2, GetSteps
<1>2. ASSUME NEW i \in DOMAIN work', work'[i].op = "get", work'[i].user = v
      PROVE  v \in Readers \cup {currentUser}
  <2>1. CASE \E j \in DOMAIN work : work'[i] = work[j]
    BY <1>0, <1>2, <2>1 DEF Readers
  <2> QED  BY <1>2, <2>1, ReadSteps
<1>3. ASSUME NEW i \in DOMAIN mainQueue', mainQueue'[i].kind = "get", mainQueue'[i].user = v
      PROVE  v \in Readers
  <2>1. CASE \E j \in DOMAIN mainQueue : mainQueue'[i] = mainQueue[j]
    BY <1>0, <1>3, <2>1 DEF Readers
  <2>2. CASE AnswerGet(v)
    BY <1>0, <2>2 DEF AnswerGet, Readers
  <2> QED  BY <1>3, <2>1, <2>2, AnswerSteps
<1> QED  BY <1>1, <1>2, <1>3 DEF Readers

(* The steps after which the auth listener was last called for another     *)
(* user, or not at all.                                                    *)
LEMMA HeardSteps ==
  ASSUME [Next]_vars
  PROVE  heard' = heard \/ heard' = Unheard \/ accounts' = <<>>
  BY DEF Next, vars, authVars, Relaunch, SignIn, SignedIn, SignOut, ForcedSignOut,
         AuthStateChanged, AuthStateSame, TakeOp, AnswerGet, FailGet, GetCallback, Refresh,
         SaveAccount, AskDelete, CancelDelete, DeleteAccount, DeleteTraps, Reload,
         ReloadNobody, SetAccounts

LEMMA OwnListNext ==
  ASSUME IInv, [Next]_vars, NEW u \in Users, currentUser = u, currentUser' = u, OwnList(u)
  PROVE  OwnList(u)'
<1>1. Readers' \subseteq {u}
  BY ReadersNext DEF OwnList
<1>2. ASSUME heard' = u, Foreign' PROVE FALSE
  <2>1. accounts' # <<>>
    BY <1>2 DEF Foreign, Listed
  <2>2. heard = u
    BY <1>2, <2>1, HeardSteps, StoreAssumption
  <2>3. ~Foreign
    BY <2>2 DEF OwnList
  <2>4. GetCallback /\ Head(mainQueue).user # u
    BY <1>2, <2>3, ForeignNext
  <2>5. mainQueue # <<>> /\ Head(mainQueue).kind = "get"
    BY <2>4 DEF GetCallback
  <2>6. Head(mainQueue).user \in Users
    BY <2>5, HeadAnswer DEF IInv
  <2>7. 1 \in DOMAIN mainQueue /\ mainQueue[1] = Head(mainQueue)
    BY <2>5 DEF IInv, Tidy
  <2>8. Head(mainQueue).user \in Readers
    BY <2>5, <2>6, <2>7 DEF Readers
  <2> QED  BY <2>4, <2>8 DEF OwnList
<1> QED  BY <1>1, <1>2 DEF OwnList

(* What a change of user leaves under way can show the accounts of the     *)
(* previous user to the next, and ForeignListing says how; but it does not *)
(* renew itself.  Every handler reads the uid when it runs, so that once   *)
(* the reads of other users have ended, a signed-in user's list, cleared   *)
(* by the listener's call, stays free of other users' accounts through     *)
(* any further reads, saves, deletions and restarts.                       *)
THEOREM OwnListKept ==
  Spec => OwnListStays
<1>1. IInv /\ [Next]_vars =>
        [\A u \in Users :
           currentUser = u /\ currentUser' = u /\ OwnList(u) => OwnList(u)']_vars
  BY OwnListNext
<1> QED  BY <1>1, Invariance, PTL DEF Spec, OwnListStays
=============================================================================
