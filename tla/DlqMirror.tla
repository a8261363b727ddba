----------------------------- MODULE DlqMirror -----------------------------
(***************************************************************************)
(* What the capture of dead letters promises of failed submissions,        *)
(* without triggers, scans, requests or runs: only a failed execution gets *)
(* a row, and only one, for one of its stages; whoever is told of a        *)
(* failure has the row that the message quotes; a receipt is for somebody  *)
(* who was told; and none of this is ever taken back.                      *)
(***************************************************************************)
CONSTANTS
  Execs,    \* Submit executions
  Stages    \* side effects of an execution

VARIABLES
  failed,   \* executions that have failed
  rows,     \* rows of checkin_dlq: execution and stage
  told,     \* rows whose submitter has received the message
  receipts  \* rows whose dm_notified_at is set

vars == <<failed, rows, told, receipts>>

Init == failed = {} /\ rows = {} /\ told = {} /\ receipts = {}

Fail(e) ==
  /\ failed' = failed \union {e}
  /\ UNCHANGED <<rows, told, receipts>>

Record(e, s) ==
  /\ e \in failed
  /\ \A t \in Stages : <<e, t>> \notin rows
  /\ rows' = rows \union {<<e, s>>}
  /\ UNCHANGED <<failed, told, receipts>>

Tell(k) ==
  /\ k \in rows
  /\ told' = told \union {k}
  /\ UNCHANGED <<failed, rows, receipts>>

Receipt(k) ==
  /\ k \in told
  /\ receipts' = receipts \union {k}
  /\ UNCHANGED <<failed, rows, told>>

Next ==
  \/ \E e \in Execs : Fail(e) \/ \E s \in Stages : Record(e, s)
  \/ \E k \in Execs \X Stages : Tell(k) \/ Receipt(k)

Spec == Init /\ [][Next]_vars
=============================================================================
