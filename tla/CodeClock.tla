------------------------------- MODULE CodeClock -------------------------------
(***************************************************************************)
(* One AccountCellViewModel: the TOTP code it publishes, the countdown it  *)
(* publishes beside the code, and the run-loop timer that keeps both up to *)
(* date (AccountCellViewModel.swift, Functions.swift generateCode,         *)
(* Extensions.swift nearestPointDivisibleBy30, SwiftOTP's TOTP.generate).  *)
(*                                                                         *)
(* Time is counted in ticks of half a second.  Half a second is enough to  *)
(* tell "exactly on a second" from "inside a second", which is all that    *)
(* Calendar's truncation to whole seconds can see.  Tick 0 is a whole      *)
(* minute of Unix time; every time zone is off by whole minutes, so the    *)
(* second of the minute is the same for everybody.                         *)
(*                                                                         *)
(* Everything runs on the main thread, so a handler is one action; but the *)
(* clock goes on while a handler runs, and generateNewCode reads it three  *)
(* times.  An action therefore takes the readings as t1 <= t2 <= t3.       *)
(***************************************************************************)
EXTENDS Integers, FiniteSets

CONSTANTS
  MaxLate,    \* ticks by which the busy main run loop may fire a timer late
  MaxLag,     \* ticks that may pass between two clock readings of a handler
  FoldShift,  \* seconds that Calendar.date(bySettingHour:...) lands too
              \* early: 0, except in the hour that is repeated when daylight
              \* saving ends, where the first of the two matches is returned
  Horizon,    \* bound: the last tick
  NoCode      \* currentCode.value = nil

ASSUME TimingAssumption ==
  /\ MaxLate \in Nat
  /\ MaxLag \in 0 .. 58    \* less than a code's window, to the second
  /\ FoldShift \in Nat
  /\ Horizon \in Nat

VARIABLES
  now,          \* the wall clock, Date()
  active,       \* the app is in the foreground (its run loop runs)
  life,         \* the view model: "unborn", "live" or "gone" (deallocated)
  currentCode,  \* currentCode.value
  seconds,      \* seconds.value
  timers        \* valid timers of this view model in the main run loop

vars == <<now, active, life, currentCode, seconds, timers>>

(***************************************************************************)
(* Clock arithmetic.                                                       *)
(***************************************************************************)
TicksPerSecond == 2
TicksPerCode   == 60      \* a TOTP code is valid for 30 seconds

(* struct Code; code is the counter the string is computed from: two       *)
(* strings of one secret are told apart by nothing else.                   *)
Code  == [code: Nat, timeInterval: Int]

(* A scheduled timer: an identity among the valid ones, when it fires next. *)
Timer == [id: Nat, due: Nat]

ASSUME NoCodeAssumption == NoCode \notin Code

Sec(t) == t \div TicksPerSecond

(* TOTP.generate: the counter is the number of whole 30 s since 1970.      *)
TotpCounter(t) == Sec(t) \div 30

(* Variants of definitions below with one plausible slip each; the mutants *)
(* of PROJECT.json put them in the place of the definition.                *)
SlipNearestPoint(t) == Sec(t) - (Sec(t) % 30) + 60 - FoldShift

(* Date.nearestPointDivisibleBy30, in seconds.                             *)
NearestPointDivisibleBy30(t) ==
  LET second == Sec(t) % 60
      minute == Sec(t) - second
  IN  (IF second < 29 THEN minute ELSE minute + 30) - FoldShift

(* Calendar.dateComponents([.second], from: from, to: t): whole seconds,   *)
(* truncated towards zero.                                                 *)
SecondsBetween(from, t) ==
  IF t >= TicksPerSecond * from
    THEN (t - TicksPerSecond * from) \div TicksPerSecond
    ELSE -((TicksPerSecond * from - t) \div TicksPerSecond)

Remaining(from, t) == 30 - SecondsBetween(from, t)

(* A repeating timer that fires at t is due next at the first point of its *)
(* one-second grid after t: firings that were missed are not made up for.  *)
Reschedule(tm, t) ==
  [tm EXCEPT !.due = @ + TicksPerSecond * ((t - @) \div TicksPerSecond + 1)]

-----------------------------------------------------------------------------
(***************************************************************************)
(* Actions.                                                                *)
(***************************************************************************)
Init ==
  /\ now = 0
  /\ active = TRUE
  /\ life = "unborn"
  /\ currentCode = NoCode
  /\ seconds = 0
  /\ timers = {}

SlipSetupTimer(t, others) ==
  timers' = others

(* setupTimer() at t, beside the timers that are still valid.              *)
SetupTimer(t, others) ==
  timers' = others \cup {[id |-> Cardinality(others), due |-> t + TicksPerSecond]}

(* generateNewCode() for a secret that decodes, begun at t1: generateCode  *)
(* reads the clock at t1 for the code and at t2 for timeInterval, then     *)
(* generateNewCode reads it at t3 for the countdown.                       *)
GenerateNewCode(t1, others) ==
  \E t2 \in t1 .. t1 + MaxLag : \E t3 \in t2 .. t2 + MaxLag :
    LET start == NearestPointDivisibleBy30(t2) IN
    /\ currentCode' = [code |-> TotpCounter(t1), timeInterval |-> start]
    /\ seconds' = Remaining(start, t3)
    /\ SetupTimer(t3, others)
    /\ now' = t3

(* init(model:) with a secret that base32 decodes.                         *)
Create ==
  /\ active
  /\ life = "unborn"
  /\ life' = "live"
  /\ GenerateNewCode(now, timers)
  /\ UNCHANGED active

(* init(model:) with a secret that does not decode: generateCode returns   *)
(* nil, so there is neither a code nor a timer.                            *)
CreateUndecodable ==
  /\ active
  /\ life = "unborn"
  /\ life' = "live"
  /\ UNCHANGED <<now, active, currentCode, seconds, timers>>

(* DBManager.accounts drops the view model.  Nothing invalidates its       *)
(* timer: the class has no deinit.                                         *)
Release ==
  /\ active
  /\ life = "live"
  /\ life' = "gone"
  /\ UNCHANGED <<now, active, currentCode, seconds, timers>>

(* The main run loop may fire tm.                                          *)
Fires(tm) ==
  /\ active
  /\ tm \in timers
  /\ now >= tm.due

(* The timer block after the view model is gone: `guard let strongSelf`    *)
(* returns and leaves the timer scheduled.                                 *)
FireOrphan(tm) ==
  /\ Fires(tm)
  /\ life = "gone"
  /\ timers' = (timers \ {tm}) \cup {Reschedule(tm, now)}
  /\ UNCHANGED <<now, active, life, currentCode, seconds>>

SlipFireCountdown(tm) ==
  /\ Fires(tm)
  /\ life = "live"
  /\ Remaining(currentCode.timeInterval, now) > 0
  /\ timers' = (timers \ {tm}) \cup {Reschedule(tm, now)}
  /\ UNCHANGED <<now, active, life, currentCode, seconds>>

(* The timer block while the code is still counted down.                   *)
FireCountdown(tm) ==
  /\ Fires(tm)
  /\ life = "live"
  /\ Remaining(currentCode.timeInterval, now) > 0
  /\ seconds' = Remaining(currentCode.timeInterval, now)
  /\ timers' = (timers \ {tm}) \cup {Reschedule(tm, now)}
  /\ UNCHANGED <<now, active, life, currentCode>>

(* The timer block when the countdown has run out: timer.invalidate(),     *)
(* then generateNewCode().  The block's own reading and the first one of   *)
(* generateNewCode are one: what has run out at the one has at the other.  *)
FireExpiry(tm) ==
  /\ Fires(tm)
  /\ life = "live"
  /\ Remaining(currentCode.timeInterval, now) <= 0
  /\ GenerateNewCode(now, timers \ {tm})
  /\ UNCHANGED <<active, life>>

(* The system suspends and resumes the app; a suspended app fires no timer *)
(* and the scene delegate does nothing on either occasion.                 *)
Suspend ==
  /\ active
  /\ active' = FALSE
  /\ UNCHANGED <<now, life, currentCode, seconds, timers>>

Resume ==
  /\ ~active
  /\ active' = TRUE
  /\ UNCHANGED <<now, life, currentCode, seconds, timers>>

(* Time passes.  While the app is active its run loop fires a timer at     *)
(* most MaxLate ticks late; after a suspension overdue timers come first.  *)
Tick ==
  /\ now < Horizon
  /\ active => \A tm \in timers : now < tm.due + MaxLate
  /\ now' = now + 1
  /\ UNCHANGED <<active, life, currentCode, seconds, timers>>

Fire == \E tm \in timers : FireOrphan(tm) \/ FireCountdown(tm) \/ FireExpiry(tm)

Next ==
  \/ Create
  \/ CreateUndecodable
  \/ Release
  \/ \E tm \in timers : FireOrphan(tm)
  \/ \E tm \in timers : FireCountdown(tm)
  \/ \E tm \in timers : FireExpiry(tm)
  \/ Suspend
  \/ Resume
  \/ Tick

Spec == Init /\ [][Next]_vars

(* Clock and run loop go on; nothing is asked of the user or the system.   *)
FairSpec == Spec /\ WF_vars(Tick) /\ WF_vars(Fire)

-----------------------------------------------------------------------------
(***************************************************************************)
(* Properties.                                                             *)
(***************************************************************************)

(* Every variable has its type.                                            *)
TypeOK ==
  /\ now \in Nat
  /\ active \in BOOLEAN
  /\ life \in {"unborn", "live", "gone"}
  /\ currentCode \in Code \cup {NoCode}
  /\ seconds \in Int
  /\ timers \in SUBSET Timer

Coded == life = "live" /\ currentCode # NoCode

(* The screen is being kept up to date: the app is active and no timer is  *)
(* later than the run loop may be (a resumed app first catches up).        *)
Settled ==
  /\ active
  /\ Coded
  /\ \A tm \in timers : now <= tm.due + MaxLate

(* The countdown was started at the beginning of the code's own window.    *)
Aligned == currentCode.timeInterval + FoldShift = 30 * currentCode.code

(* Ticks between a boundary and the latest moment the timer reacts to it.  *)
Slack == TicksPerSecond + MaxLate + 2 * MaxLag

(* A live view model with a code is driven by exactly one timer, through   *)
(* every invalidate() and setupTimer(): with none the code would freeze,   *)
(* with two the expiry would be handled twice.                             *)
OneTimer ==
  Coded => \E tm \in timers : timers = {tm}

(* Whatever the moment of creation, resumption or clock reading, a code on *)
(* an up-to-date screen is at most one window older than the current one.  *)
StaleByOneWindow ==
  Settled => now < TicksPerCode * (currentCode.code + 2) + Slack

(* When timeInterval is the start of the code's window, the code is        *)
(* replaced as soon as the window is over.                                 *)
AlignedIsFresh ==
  Settled /\ Aligned => now < TicksPerCode * (currentCode.code + 1) + Slack

(* The countdown on an up-to-date screen agrees with the time the code has *)
(* really left: never less, and never more than one timer period above it  *)
(* (in the repeated hour, after adding the shift).                         *)
CountdownHonest ==
  Settled /\ Aligned =>
    LET left  == TicksPerCode * (currentCode.code + 1) - now
        shown == TicksPerSecond * (seconds + FoldShift)
    IN  /\ left <= shown
        /\ shown <= left + TicksPerSecond + 1 + MaxLate

(* The code on an up-to-date screen is the current TOTP code, or the last  *)
(* one for the moment the timer needs to react: what the app is for.       *)
CodeIsCurrent ==
  Settled => now < TicksPerCode * (currentCode.code + 1) + Slack

(* A code whose countdown has run out is replaced, unless the view model   *)
(* or the foreground is lost first or the model's time ends.               *)
ExpiredIsReplaced ==
  (/\ Coded
   /\ now + Slack < Horizon
   /\ now >= TicksPerSecond * currentCode.timeInterval + TicksPerCode)
    ~> \/ ~active
       \/ ~Coded
       \/ now < TicksPerSecond * currentCode.timeInterval + TicksPerCode
=============================================================================
