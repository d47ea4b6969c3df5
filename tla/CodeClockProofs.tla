---------------------------- MODULE CodeClockProofs ----------------------------
(***************************************************************************)
(* Machine-checked proofs about CodeClock, for every lateness of the run   *)
(* loop, every lag between clock readings below a window, every shift of   *)
(* the repeated hour and every horizon.                                    *)
(*                                                                         *)
(* None of the safety properties is inductive: each speaks of now and the  *)
(* code, and what ties the two together is the moment r at which the clock *)
(* was last read for the countdown.  Driven names r: seconds was computed  *)
(* from it, the timer is due within a second of it, and it is not beyond   *)
(* the expiry by more than a handler's lag.                                *)
(***************************************************************************)
EXTENDS CodeClock, FiniteSetTheorems, TLAPS

(* The start of the countdown in Unix time, the repeated hour undone.      *)
Start == currentCode.timeInterval + FoldShift

Driven(due, r) ==
  /\ r <= now
  /\ TicksPerCode * currentCode.code <= r
  /\ r < due
  /\ due <= r + TicksPerSecond
  /\ due <= TicksPerSecond * Start + TicksPerCode + 1 + MaxLag
  /\ seconds = Remaining(currentCode.timeInterval, r)

(* What a published code looks like.                                       *)
Published ==
  /\ Start = 30 * currentCode.code \/ Start = 30 * currentCode.code + 30
  /\ \E tm \in Timer, r \in Nat : timers = {tm} /\ Driven(tm.due, r)

IInv ==
  /\ TypeOK
  /\ life = "unborn" => currentCode = NoCode
  /\ currentCode = NoCode => timers = {}
  /\ Coded => Published

-----------------------------------------------------------------------------
(* The countdown of a code begun at t2 starts at a multiple of 30 s; t2    *)
(* lies in the window that begins there, or in the second before it.       *)
LEMMA NearestPoint ==
  ASSUME NEW t \in Nat
  PROVE  LET S == NearestPointDivisibleBy30(t) + FoldShift IN
         /\ S \in Nat
         /\ S % 30 = 0
         /\ TicksPerSecond * S <= t + TicksPerSecond
         /\ t < TicksPerSecond * S + TicksPerCode
  BY TimingAssumption DEF NearestPointDivisibleBy30, Sec, TicksPerSecond, TicksPerCode

(* The counter's window contains the moment it was read at.                *)
LEMMA Counter ==
  ASSUME NEW t \in Nat
  PROVE  /\ TotpCounter(t) \in Nat
         /\ TicksPerCode * TotpCounter(t) <= t
         /\ t < TicksPerCode * (TotpCounter(t) + 1)
  BY DEF TotpCounter, Sec, TicksPerSecond, TicksPerCode

(* The countdown is an integer; while it is positive, less than 30 s have  *)
(* passed since its start.                                                 *)
LEMMA RemainingFacts ==
  ASSUME NEW from \in Int, NEW t \in Nat
  PROVE  /\ Remaining(from, t) \in Int
         /\ Remaining(from, t) > 0 => t < TicksPerSecond * from + TicksPerCode
  BY DEF Remaining, SecondsBetween, TicksPerSecond, TicksPerCode

(* A rescheduled timer is due within the second after its firing.          *)
LEMMA RescheduleFacts ==
  ASSUME NEW tm \in Timer, NEW t \in Nat, t >= tm.due
  PROVE  /\ Reschedule(tm, t) \in Timer
         /\ t < Reschedule(tm, t).due
         /\ Reschedule(tm, t).due <= t + TicksPerSecond
  <1>1. tm.due + TicksPerSecond * ((t - tm.due) \div TicksPerSecond + 1) \in Nat
    BY DEF Timer, TicksPerSecond
  <1>2. /\ t < tm.due + TicksPerSecond * ((t - tm.due) \div TicksPerSecond + 1)
        /\ tm.due + TicksPerSecond * ((t - tm.due) \div TicksPerSecond + 1)
             <= t + TicksPerSecond
    BY DEF Timer, TicksPerSecond
  <1>3. Reschedule(tm, t) =
          [tm EXCEPT !.due = tm.due + TicksPerSecond * ((t - tm.due) \div TicksPerSecond + 1)]
    BY DEF Reschedule
  <1> QED  BY <1>1, <1>2, <1>3 DEF Timer

-----------------------------------------------------------------------------
(* generateNewCode publishes a code that is driven by its one timer,       *)
(* provided that the caller has invalidated the old one.                   *)
LEMMA GenerateNewCodePublishes ==
  ASSUME now \in Nat, GenerateNewCode(now, {})
  PROVE  /\ now' \in Nat
         /\ currentCode' \in Code
         /\ seconds' \in Int
         /\ timers' \in SUBSET Timer
         /\ Published'
<1>1. PICK t2 \in now .. now + MaxLag : \E t3 \in t2 .. t2 + MaxLag :
        /\ currentCode' = [code |-> TotpCounter(now),
                           timeInterval |-> NearestPointDivisibleBy30(t2)]
        /\ seconds' = Remaining(NearestPointDivisibleBy30(t2), t3)
        /\ SetupTimer(t3, {})
        /\ now' = t3
  BY Zenon DEF GenerateNewCode
<1>2. PICK t3 \in t2 .. t2 + MaxLag :
        /\ currentCode' = [code |-> TotpCounter(now),
                           timeInterval |-> NearestPointDivisibleBy30(t2)]
        /\ seconds' = Remaining(NearestPointDivisibleBy30(t2), t3)
        /\ SetupTimer(t3, {})
        /\ now' = t3
  BY <1>1
<1> DEFINE from == NearestPointDivisibleBy30(t2)
           c    == TotpCounter(now)
           tm   == [id |-> 0, due |-> t3 + TicksPerSecond]
<1>3. now \in Nat /\ t2 \in Nat /\ t3 \in Nat /\ now <= t2 /\ t2 <= t3
      /\ t2 <= now + MaxLag /\ t3 <= t2 + MaxLag /\ MaxLag \in Nat /\ MaxLag <= 58
  BY TimingAssumption
<1>4. from \in Int /\ FoldShift \in Nat
  BY <1>3, TimingAssumption
  DEF NearestPointDivisibleBy30, Sec, TicksPerSecond
<1>5. c \in Nat /\ TicksPerCode * c <= now /\ now < TicksPerCode * (c + 1)
  BY Counter
<1>6. /\ from + FoldShift \in Nat
      /\ (from + FoldShift) % 30 = 0
      /\ TicksPerSecond * (from + FoldShift) <= t2 + TicksPerSecond
      /\ t2 < TicksPerSecond * (from + FoldShift) + TicksPerCode
  BY <1>3, NearestPoint
<1>7. from + FoldShift = 30 * c \/ from + FoldShift = 30 * c + 30
  <2> HIDE DEF from, c
  <2> QED  BY <1>3, <1>4, <1>5, <1>6 DEF TicksPerSecond, TicksPerCode
<1>8. timers' = {tm} /\ tm \in Timer
  BY <1>2, <1>3, FS_EmptySet DEF SetupTimer, TicksPerSecond, Timer
<1>9. Remaining(from, t3) \in Int
  BY <1>3, <1>4, RemainingFacts
<1>10. /\ now' = t3
       /\ currentCode' \in Code
       /\ currentCode'.code = c
       /\ currentCode'.timeInterval = from
       /\ seconds' = Remaining(from, t3)
  BY <1>2, <1>4, <1>5 DEF Code
<1>11. Driven(tm.due, t3)'
  <2>1. tm.due = t3 + TicksPerSecond
    OBVIOUS
  <2> HIDE DEF from, c, tm
  <2> QED  BY <1>3, <1>4, <1>5, <1>6, <1>10, <2>1
           DEF Driven, Start, TicksPerSecond, TicksPerCode
<1>12. Published'
  <2>1. Start' = 30 * currentCode'.code \/ Start' = 30 * currentCode'.code + 30
    BY <1>7, <1>10 DEF Start
  <2> HIDE DEF from, c, tm
  <2> QED  BY <1>3, <1>8, <1>11, <2>1 DEF Published
<1> QED  BY <1>3, <1>8, <1>9, <1>10, <1>12

-----------------------------------------------------------------------------
LEMMA InitIInv ==
  Init => IInv
  BY TimingAssumption, NoCodeAssumption DEF Init, IInv, TypeOK, Coded

(* A firing that only counts down keeps the timer and moves r to now.      *)
LEMMA CountdownKeepsPublished ==
  ASSUME IInv, NEW tm \in timers, FireCountdown(tm)
  PROVE  IInv'
<1>1. /\ now \in Nat /\ now' = now
      /\ currentCode' = currentCode /\ life' = life /\ active' = active
      /\ life = "live"
      /\ tm.due <= now
      /\ Remaining(currentCode.timeInterval, now) > 0
      /\ seconds' = Remaining(currentCode.timeInterval, now)
      /\ timers' = (timers \ {tm}) \cup {Reschedule(tm, now)}
  BY DEF FireCountdown, Fires, IInv, TypeOK
<1>2. currentCode \in Code /\ Coded
  BY <1>1 DEF IInv, TypeOK, Coded
<1>3. currentCode.timeInterval \in Int /\ currentCode.code \in Nat
  BY <1>2 DEF Code
<1>4. tm \in Timer /\ tm.due \in Nat
  BY DEF IInv, TypeOK, Timer
<1>5. PICK r \in Nat : timers = {tm} /\ Driven(tm.due, r)
  BY <1>2 DEF IInv, Published
<1>6. PICK new \in Timer : /\ new = Reschedule(tm, now)
                           /\ now < new.due
                           /\ new.due <= now + TicksPerSecond
  BY <1>1, <1>4, RescheduleFacts
<1>7. timers' = {new}
  BY <1>1, <1>5, <1>6
<1>8. seconds' \in Int /\ now < TicksPerSecond * currentCode.timeInterval + TicksPerCode
  BY <1>1, <1>3, RemainingFacts
<1>9. Driven(new.due, now)'
  <2>1. new.due \in Nat
    BY <1>6 DEF Timer
  <2> QED  BY <1>1, <1>3, <1>5, <1>6, <1>8, <2>1, TimingAssumption
           DEF Driven, Start, TicksPerSecond, TicksPerCode
<1>10. Published'
  <2>1. Start' = 30 * currentCode'.code \/ Start' = 30 * currentCode'.code + 30
    BY <1>1, <1>2 DEF IInv, Published, Start
  <2> QED  BY <1>1, <1>6, <1>7, <1>9, <2>1 DEF Published
<1> QED  BY <1>1, <1>2, <1>6, <1>7, <1>8, <1>10, NoCodeAssumption
         DEF IInv, TypeOK, Coded

(* The passing of time leaves everything but r <= now alone.               *)
LEMMA LaterKeepsIInv ==
  ASSUME IInv, now' \in Nat, now <= now',
         UNCHANGED <<life, currentCode, seconds, timers>>, active' \in BOOLEAN
  PROVE  IInv'
<1>1. TypeOK'
  BY DEF IInv, TypeOK
<1>2. ASSUME Coded' PROVE Published'
  <2>1. Published
    BY <1>2 DEF IInv, Coded
  <2>2. PICK tm \in Timer, r \in Nat : timers = {tm} /\ Driven(tm.due, r)
    BY <2>1 DEF Published
  <2>3. Driven(tm.due, r)'
    BY <2>2 DEF Driven, Start, IInv, TypeOK
  <2> QED  BY <2>1, <2>2, <2>3 DEF Published, Start
<1> QED  BY <1>1, <1>2 DEF IInv

LEMMA NextIInv ==
  IInv /\ [Next]_vars => IInv'
<1> SUFFICES ASSUME IInv, [Next]_vars PROVE IInv'
  OBVIOUS
<1>0. now \in Nat /\ active \in BOOLEAN
  BY DEF IInv, TypeOK
<1>1. CASE Create
  <2>1. life' = "live" /\ active' = active /\ GenerateNewCode(now, {})
    BY <1>1 DEF Create, IInv
  <2>2. /\ now' \in Nat /\ currentCode' \in Code /\ seconds' \in Int
        /\ timers' \in SUBSET Timer /\ Published'
    BY <1>0, <2>1, GenerateNewCodePublishes
  <2> QED  BY <1>0, <2>1, <2>2, NoCodeAssumption DEF IInv, TypeOK
<1>2. CASE CreateUndecodable
  BY <1>2 DEF CreateUndecodable, IInv, TypeOK, Coded
<1>3. CASE Release
  BY <1>3 DEF Release, IInv, TypeOK, Coded
<1>4. ASSUME NEW tm \in timers, FireOrphan(tm) PROVE IInv'
  <2>1. Reschedule(tm, now) \in Timer
    BY <1>0, <1>4, RescheduleFacts DEF FireOrphan, Fires, IInv, TypeOK
  <2>2. currentCode # NoCode
    BY DEF IInv
  <2> QED  BY <1>4, <2>1, <2>2 DEF FireOrphan, IInv, TypeOK, Coded
<1>5. ASSUME NEW tm \in timers, FireCountdown(tm) PROVE IInv'
  BY <1>5, CountdownKeepsPublished
<1>6. ASSUME NEW tm \in timers, FireExpiry(tm) PROVE IInv'
  <2>1. Coded
    BY <1>6 DEF FireExpiry, IInv, Coded
  <2>2. timers \ {tm} = {}
    BY <2>1 DEF IInv, Published
  <2>3. life = "live" /\ life' = life /\ active' = active /\ GenerateNewCode(now, {})
    BY <1>6, <2>2 DEF FireExpiry
  <2>4. /\ now' \in Nat /\ currentCode' \in Code /\ seconds' \in Int
        /\ timers' \in SUBSET Timer /\ Published'
    BY <1>0, <2>3, GenerateNewCodePublishes
  <2> QED  BY <1>0, <2>3, <2>4, NoCodeAssumption DEF IInv, TypeOK
<1>7. CASE Suspend
  <2>1. active' \in BOOLEAN /\ UNCHANGED <<now, life, currentCode, seconds, timers>>
    BY <1>7, Zenon DEF Suspend
  <2>2. now' \in Nat /\ now <= now'
    BY <1>0, <2>1
  <2> QED  BY <2>1, <2>2, LaterKeepsIInv
<1>8. CASE Resume
  BY <1>0, <1>8, LaterKeepsIInv DEF Resume
<1>9. CASE Tick
  BY <1>0, <1>9, LaterKeepsIInv DEF Tick
<1>10. CASE UNCHANGED vars
  BY <1>0, <1>10, LaterKeepsIInv DEF vars
<1> QED  BY <1>1, <1>2, <1>3, <1>4, <1>5, <1>6, <1>7, <1>8, <1>9, <1>10 DEF Next

-----------------------------------------------------------------------------
(* The arithmetic of a settled screen: now is at most MaxLate after the    *)
(* timer's due time, which Driven ties to the code.                        *)
LEMMA IInvBounds ==
  ASSUME IInv, Settled
  PROVE  /\ StaleByOneWindow
         /\ AlignedIsFresh
         /\ CountdownHonest
<1>1. Coded /\ now \in Nat /\ currentCode \in Code /\ seconds \in Int
  BY DEF Settled, Coded, IInv, TypeOK
<1>2. currentCode.timeInterval \in Int /\ currentCode.code \in Nat
  BY <1>1 DEF Code
<1>3. PICK tm \in Timer, r \in Nat : timers = {tm} /\ Driven(tm.due, r)
  BY <1>1 DEF IInv, Published
<1>4. tm.due \in Nat /\ now <= tm.due + MaxLate /\ Driven(tm.due, r)
  BY <1>3 DEF Settled, Timer
<1>5. /\ r <= now /\ tm.due <= r + 2
      /\ 60 * currentCode.code <= r
      /\ tm.due <= 2 * (currentCode.timeInterval + FoldShift) + 61 + MaxLag
      /\ seconds = Remaining(currentCode.timeInterval, r)
  BY <1>1, <1>2, <1>4, TimingAssumption DEF Driven, Start, TicksPerSecond, TicksPerCode
<1>6. \/ currentCode.timeInterval + FoldShift = 30 * currentCode.code
      \/ currentCode.timeInterval + FoldShift = 30 * currentCode.code + 30
  BY <1>1 DEF IInv, Published, Start
<1>7. /\ StaleByOneWindow
      /\ AlignedIsFresh
  BY <1>1, <1>2, <1>4, <1>5, <1>6, TimingAssumption
  DEF StaleByOneWindow, AlignedIsFresh, Aligned, Slack, TicksPerSecond, TicksPerCode
<1>8. ASSUME Aligned PROVE CountdownHonest
  <2>1. r >= 2 * currentCode.timeInterval
    BY <1>2, <1>5, <1>8, TimingAssumption DEF Aligned
  <2>2. \/ 2 * seconds = 60 + 2 * currentCode.timeInterval - r
        \/ 2 * seconds = 60 + 2 * currentCode.timeInterval - r + 1
    BY <1>1, <1>2, <1>5, <2>1 DEF Remaining, SecondsBetween, TicksPerSecond
  <2> QED  BY <1>1, <1>2, <1>4, <1>5, <1>8, <2>2, TimingAssumption
           DEF CountdownHonest, Aligned, TicksPerSecond, TicksPerCode
<1>9. CountdownHonest
  BY <1>8 DEF CountdownHonest
<1> QED  BY <1>7, <1>9

(* The inductive invariant holds in every reachable state.                 *)
THEOREM Invariance ==
  Spec => []IInv
  BY InitIInv, NextIInv, PTL DEF Spec

(* Type correctness.                                                       *)
THEOREM TypeCorrect ==
  Spec => []TypeOK
<1>1. IInv => TypeOK
  BY DEF IInv
<1> QED  BY <1>1, Invariance, PTL

(* A live view model with a code always has exactly one valid timer,       *)
(* through every invalidate() and setupTimer() of the timer block.         *)
THEOREM SingleTimer ==
  Spec => []OneTimer
<1>1. IInv => OneTimer
  BY DEF IInv, OneTimer, Published
<1> QED  BY <1>1, Invariance, PTL

(* A code on an up-to-date screen is never more than one window old, for   *)
(* every lateness, lag and shift: the `second < 29` of                     *)
(* nearestPointDivisibleBy30 can cost one window and no more.              *)
THEOREM BoundedStaleness ==
  Spec => []StaleByOneWindow
<1>1. IInv => StaleByOneWindow
  BY IInvBounds DEF StaleByOneWindow
<1> QED  BY <1>1, Invariance, PTL

(* A code whose countdown started with its own window is replaced as soon  *)
(* as the window is over.                                                  *)
THEOREM AlignedFreshness ==
  Spec => []AlignedIsFresh
<1>1. IInv => AlignedIsFresh
  BY IInvBounds DEF AlignedIsFresh
<1> QED  BY <1>1, Invariance, PTL

(* The countdown shown beside such a code is the time it has really left,  *)
(* up to one timer period and the run loop's lateness.                     *)
THEOREM HonestCountdown ==
  Spec => []CountdownHonest
<1>1. IInv => CountdownHonest
  BY IInvBounds DEF CountdownHonest
<1> QED  BY <1>1, Invariance, PTL
=============================================================================
