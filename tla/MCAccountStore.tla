----------------------------- MODULE MCAccountStore -----------------------------
(* One or two users for AccountStore.                                      *)
EXTENDS AccountStore

CONSTANTS u1, u2

(* Accounts 1, 4, ... are linked by u1, 2, 5, ... by u2 (or by u1 when it  *)
(* is the only user), 3, 6, ... while nobody is signed in.                 *)
MCOwner ==
  [a \in Accounts |->
     CASE a % 3 = 0 -> NoUser
       [] a % 3 = 2 /\ u2 \in Users -> u2
       [] OTHER -> u1]
=============================================================================
