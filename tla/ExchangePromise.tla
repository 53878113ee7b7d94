---------------------------- MODULE ExchangePromise ----------------------------
(***************************************************************************)
(* What the service promises about the money of a request, whatever its    *)
(* workers do in between: one deposit is credited, it is sent on to the    *)
(* exchange once and only if it covers the quoted amount, and the client   *)
(* is paid once and only after that.  Each step moves one request.         *)
(***************************************************************************)
EXTENDS Naturals

CONSTANTS Requests, Expected

VARIABLES
  received,  \* amount credited to each request, 0 before its deposit
  sent,      \* sweeps to the exchange
  paid       \* withdrawals to the client

Init ==
  /\ received = [r \in Requests |-> 0]
  /\ sent     = [r \in Requests |-> 0]
  /\ paid     = [r \in Requests |-> 0]

Credit(r) ==
  /\ received[r] = 0
  /\ received'[r] \in Nat \ {0}
  /\ received' = [received EXCEPT ![r] = received'[r]]
  /\ UNCHANGED <<sent, paid>>

SendOn(r) ==
  /\ received[r] >= Expected[r]
  /\ sent[r] = 0
  /\ sent' = [sent EXCEPT ![r] = 1]
  /\ UNCHANGED <<received, paid>>

Pay(r) ==
  /\ sent[r] = 1
  /\ paid[r] = 0
  /\ paid' = [paid EXCEPT ![r] = 1]
  /\ UNCHANGED <<received, sent>>

Next == \E r \in Requests : Credit(r) \/ SendOn(r) \/ Pay(r)

Spec == Init /\ [][Next]_<<received, sent, paid>>
===============================================================================
