---------------------------- MODULE DlqLifecycle ----------------------------
(***************************************************************************)
(* What the dead-letter queue promises of one row, without workflows,      *)
(* leases or requests: a recorded failure is replayed, possibly more than  *)
(* once, and is resolved only when its submission is published in full;    *)
(* resolved is final; an operator may give up what is not resolved, and a  *)
(* replay under way may still take such a row up again.                    *)
(***************************************************************************)
CONSTANT Rows

VARIABLES
  state,      \* [Rows]: where the row is in its life
  published   \* [Rows]: do check-in, post and event all exist

vars == <<state, published>>

Init ==
  /\ state = [r \in Rows |-> "absent"]
  /\ published \in [Rows -> BOOLEAN]

Move(r, from, to) ==
  /\ state[r] \in from
  /\ state' = [state EXCEPT ![r] = to]
  /\ UNCHANGED published

Record(r) == Move(r, {"absent"}, "pending")

Lease(r) == Move(r, {"pending", "replaying", "abandoned"}, "replaying")

\* A replay needs a lease; it may find the row given up in the meantime.
Publish(r) ==
  /\ state[r] \in {"replaying", "abandoned"}
  /\ published' = [published EXCEPT ![r] = TRUE]
  /\ UNCHANGED state

Resolve(r) ==
  /\ published[r]
  /\ Move(r, {"replaying", "abandoned"}, "resolved")

GiveUp(r) == Move(r, {"pending", "replaying"}, "abandoned")

Next == \E r \in Rows :
  Record(r) \/ Lease(r) \/ Publish(r) \/ Resolve(r) \/ GiveUp(r)

Spec == Init /\ [][Next]_vars
=============================================================================
