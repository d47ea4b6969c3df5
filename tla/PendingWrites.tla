----------------------------- MODULE PendingWrites -----------------------------
(***************************************************************************)
(* What Firestore promises for the writes of the app (saveAccount and      *)
(* deleteAccount of DBManager call setData and delete and wait for         *)
(* nothing): each user has a queue of accepted writes that survives the    *)
(* process; the backend commits the writes of the user who is signed in,   *)
(* in the order they were made; a write leaves its queue when it is known  *)
(* to be committed, or refused, and whoever waits for it then hears which. *)
(*                                                                         *)
(* WriteSync shows how the client's pipeline and stream implement this.    *)
(***************************************************************************)
EXTENDS Naturals, Sequences

CONSTANTS Users

VARIABLES
  user,       \* the user whose queue is being sent
  queue,      \* queue[u]: the writes of u that are not settled, oldest first
  submitted,  \* how many writes were made; they are numbered in that order
  committed,  \* the writes the backend has carried out at least once
  outcome     \* outcome[w], while somebody waits for write w and afterwards

vars == <<user, queue, submitted, committed, outcome>>

Outcome == {"waiting", "ok", "error", "unknown"}

Init ==
  /\ user \in Users
  /\ queue = [u \in Users |-> <<>>]
  /\ submitted = 0
  /\ committed = {}
  /\ outcome = <<>>

Submit ==
  /\ submitted' = submitted + 1
  /\ queue' = [queue EXCEPT ![user] = Append(@, submitted')]
  /\ outcome' = Append(outcome, "waiting")
  /\ UNCHANGED <<user, committed>>

(* The backend carries out a write when it has carried out those before it *)
(* in the queue.                                                           *)
Commit(i) ==
  /\ i \in DOMAIN queue[user]
  /\ \A j \in 1 .. (i - 1) : queue[user][j] \in committed
  /\ committed' = committed \cup {queue[user][i]}
  /\ UNCHANGED <<user, queue, submitted, outcome>>

Hear(w, result) ==
  outcome' = IF outcome[w] = "waiting" THEN [outcome EXCEPT ![w] = result] ELSE outcome

(* The oldest write leaves the queue.                                      *)
Settle(result) ==
  /\ queue[user] # <<>>
  /\ result = "ok" => Head(queue[user]) \in committed
  /\ queue' = [queue EXCEPT ![user] = Tail(@)]
  /\ Hear(Head(queue[user]), result)
  /\ UNCHANGED <<user, submitted, committed>>

(* Another user signs in, or nobody.                                       *)
Switch(u) ==
  /\ user' = u
  /\ UNCHANGED <<queue, submitted, committed, outcome>>

(* The process ends and starts again; nobody waits any longer.             *)
Restart(u) ==
  /\ user' = u
  /\ outcome' = [w \in DOMAIN outcome |->
                   IF outcome[w] = "waiting" THEN "unknown" ELSE outcome[w]]
  /\ UNCHANGED <<queue, submitted, committed>>

Next ==
  \/ Submit
  \/ \E i \in DOMAIN queue[user] : Commit(i)
  \/ \E result \in {"ok", "error"} : Settle(result)
  \/ \E u \in Users : Switch(u) \/ Restart(u)

Spec == Init /\ [][Next]_vars
=============================================================================
