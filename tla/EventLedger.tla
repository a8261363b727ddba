---------------------------- MODULE EventLedger ----------------------------
(***************************************************************************)
(* What event ingestion promises its producers, whatever happens in        *)
(* between: the first payload recorded under an event id stays; a payload  *)
(* is acknowledged only when it is the recorded one, and refused as a      *)
(* conflict only when another one is.                                      *)
(***************************************************************************)
CONSTANTS Events, Payloads, NoPayload

VARIABLES
  ledger,   \* [Events]: the payload recorded under the id, or NoPayload
  told      \* [Events \X Payloads]: the answers the producer has received

vars == <<ledger, told>>

Init ==
  /\ ledger = [e \in Events |-> NoPayload]
  /\ told = [k \in Events \X Payloads |-> {}]

Record(e, p) ==
  /\ ledger[e] = NoPayload
  /\ ledger' = [ledger EXCEPT ![e] = p]
  /\ UNCHANGED told

Tell(e, p, code) ==
  /\ told' = [told EXCEPT ![<<e, p>>] = @ \union {code}]
  /\ UNCHANGED ledger

Acknowledge(e, p) == ledger[e] = p /\ \E code \in {200, 202} : Tell(e, p, code)

RefuseConflict(e, p) == ledger[e] \notin {p, NoPayload} /\ Tell(e, p, 409)

\* A malformed event is refused whatever the ledger holds.
Refuse(e, p) == Tell(e, p, 400)

Next == \E e \in Events, p \in Payloads :
  Record(e, p) \/ Acknowledge(e, p) \/ RefuseConflict(e, p) \/ Refuse(e, p)

Spec == Init /\ [][Next]_vars
=============================================================================
