----------------------------- MODULE TxChannel -----------------------------
(***************************************************************************)
(* What the hub promises one TxClient about its requests: the completions  *)
(* of accepted requests come back in the order of the requests, each at    *)
(* most once and never for a request that was not made; a completion may   *)
(* be lost on the way.  Requests are numbered in the order of acceptance.  *)
(***************************************************************************)
EXTENDS Naturals, FiniteSets

CONSTANT Depth   \* how many requests the hub can hold

VARIABLES
  outstanding,  \* numbers of the requests not answered yet
  requested,    \* how many requests have been accepted
  answered      \* number of the request answered last

vars == <<outstanding, requested, answered>>

Init == outstanding = {} /\ requested = 0 /\ answered = 0

Request ==
  /\ Cardinality(outstanding) < Depth
  /\ requested' = requested + 1
  /\ outstanding' = outstanding \cup {requested'}
  /\ UNCHANGED answered

(* The oldest request is answered.                                         *)
Answer ==
  \E n \in outstanding :
    /\ \A m \in outstanding : n <= m
    /\ answered' = n
    /\ outstanding' = outstanding \ {n}
    /\ UNCHANGED requested

Lose ==
  \E n \in outstanding :
    /\ outstanding' = outstanding \ {n}
    /\ UNCHANGED <<requested, answered>>

Next == Request \/ Answer \/ Lose

Spec == Init /\ [][Next]_vars
=============================================================================
