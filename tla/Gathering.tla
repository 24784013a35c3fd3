------------------------------- MODULE Gathering -------------------------------
(***************************************************************************)
(* What MSearch promises: it gathers one list from each sub-request, in    *)
(* any order, and answers once, with all of them or with an error.         *)
(***************************************************************************)
CONSTANT Request

VARIABLES
  gathered,  \* the sub-requests whose lists are there
  outcome,   \* none, lists or error
  given      \* the sub-requests whose articles the answer has

vars == <<gathered, outcome, given>>

Init == gathered = {} /\ outcome = "none" /\ given = {}

Gather ==
  /\ outcome = "none"
  /\ \E r \in Request \ gathered : gathered' = gathered \union {r}
  /\ UNCHANGED <<outcome, given>>

GiveLists ==
  /\ outcome = "none" /\ gathered = Request
  /\ outcome' = "lists" /\ given' = Request
  /\ UNCHANGED gathered

GiveError ==
  /\ outcome = "none"
  /\ outcome' = "error"
  /\ UNCHANGED <<gathered, given>>

Next == Gather \/ GiveLists \/ GiveError

Spec == Init /\ [][Next]_vars
=============================================================================
