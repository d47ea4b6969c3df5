------------------------------ MODULE MCQueryGet ------------------------------
(* Two gets for the accounts of one user.                                  *)
EXTENDS QueryGet

CONSTANTS g1, g2, q1

MCGets    == {g1, g2}
MCQueries == {q1}
MCQueryOf == (g1 :> q1) @@ (g2 :> q1)
=============================================================================
