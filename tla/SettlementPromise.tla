--------------------------- MODULE SettlementPromise ---------------------------
(***************************************************************************)
(* What executeSettlement of an exchange provider promises, and what       *)
(* DepositPipeline takes it for: called for a request, it may pay the      *)
(* client once, when the exchange has the deposit; paying is the last      *)
(* thing it does, so that it returns only if it paid.  It may throw        *)
(* although it paid: the answer was lost.                                  *)
(***************************************************************************)
EXTENDS Naturals

CONSTANTS Requests

VARIABLES
  outcome,   \* of the call for each request
  credited,  \* the exchange has the deposit
  paid       \* withdrawals to the client

Init ==
  /\ outcome  = [r \in Requests |-> "none"]
  /\ credited = [r \in Requests |-> FALSE]
  /\ paid     = [r \in Requests |-> 0]

Credit(r) ==
  /\ credited' = [credited EXCEPT ![r] = TRUE]
  /\ UNCHANGED <<outcome, paid>>

Begin(r) ==
  /\ outcome[r] = "none"
  /\ outcome' = [outcome EXCEPT ![r] = "running"]
  /\ UNCHANGED <<credited, paid>>

Pay(r) ==
  /\ outcome[r] = "running"
  /\ credited[r]
  /\ paid[r] = 0
  /\ paid' = [paid EXCEPT ![r] = 1]
  /\ \E end \in {"returned", "threw"} : outcome' = [outcome EXCEPT ![r] = end]
  /\ UNCHANGED credited

Fail(r) ==
  /\ outcome[r] = "running"
  /\ outcome' = [outcome EXCEPT ![r] = "threw"]
  /\ UNCHANGED <<credited, paid>>

Next == \E r \in Requests : Credit(r) \/ Begin(r) \/ Pay(r) \/ Fail(r)

Spec == Init /\ [][Next]_<<outcome, credited, paid>>
===============================================================================
