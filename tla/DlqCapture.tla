----------------------------- MODULE DlqCapture -----------------------------
(***************************************************************************)
(* The dead-letter capture workflow.  A Submit execution that fails after  *)
(* its last try stays saved in n8n with a failure context for every side   *)
(* effect it reached.  Two triggers start the same chain of nodes: the     *)
(* error trigger, once, for the execution that failed; and a scan, every   *)
(* five minutes, for the failed executions n8n lists.  The chain creates   *)
(* the row of one context, sends the submitter a direct message and writes *)
(* the receipt of the message to the row.                                  *)
(*                                                                         *)
(* Each run keeps its own copy of what it read.  The runs share the table  *)
(* checkin_dlq and the user's inbox and nothing else.                      *)
(***************************************************************************)
EXTENDS Naturals, FiniteSets

CONSTANTS
  Execs,      \* ids of Submit executions; a later one has a larger id
  Doubtful,   \* those whose contexts Build DLQ Record may refuse
  Runs,       \* slots for capture runs alive at the same time
  NoTarget,   \* a run that has not chosen a context
  ListLimit,  \* executions in one listing (100 in the template)
  MaxTries,   \* tries of a node (3 in the template)
  MaxFaults   \* bound: lost requests, answers and runs in a behaviour

ASSUME ExecsAreIds   == Execs \subseteq Nat /\ IsFiniteSet(Execs)
ASSUME DoubtfulFail  == Doubtful \subseteq Execs
ASSUME BoundsNatural == /\ MaxTries \in Nat \ {0}
                        /\ MaxFaults \in Nat
                        /\ ListLimit \in Nat \ {0}

\* The side effects of a submission in the order Submit reaches them, and
\* their places in the alphabetical order of the contexts.
Stages == {"baserow_checkins_write", "mattermost_canonical_post", "event_dispatch"}

ReachedAt(s) ==
  CASE s = "baserow_checkins_write"    -> 1
    [] s = "mattermost_canonical_post" -> 2
    [] s = "event_dispatch"            -> 3

Alphabetical(s) ==
  CASE s = "baserow_checkins_write"    -> 1
    [] s = "event_dispatch"            -> 2
    [] s = "mattermost_canonical_post" -> 3

\* A context, and the row that mirrors it: dlq_id is a digest of both.
Keys == Execs \X Stages

ASSUME NoTargetIsNoKey == NoTarget \notin Keys

VARIABLES
  failed,     \* [Execs]: has the execution failed
  reached,    \* [Execs]: number of side effects it reached
  refused,    \* executions whose contexts Build DLQ Record refuses
  trigger,    \* [Execs]: "none", then "pending" and "fired" error trigger
  row,        \* [Keys]: does the row exist
  notified,   \* [Keys]: is its dm_notified_at set
  dms,        \* [Keys]: messages the user received: 0, 1, or 2 for more
  phase,      \* [Runs]: the node the run is at
  source,     \* [Runs]: the executions the run was started for
  target,     \* [Runs]: the context the run captures
  scanning,   \* [Runs]: was it started by the schedule
  tries,      \* [Runs]: number of this try of the node
  faults      \* requests, answers and runs lost so far

subVars == <<failed, reached, refused, trigger>>
tblVars == <<row, notified>>
runVars == <<phase, source, target, scanning, tries>>
vars    == <<subVars, tblVars, dms, runVars, faults>>

Phases == {"idle", "fetch", "find", "create", "send", "persist"}

TypeOK ==
  /\ failed \in [Execs -> BOOLEAN]
  /\ reached \in [Execs -> 0..3]
  /\ refused \subseteq Doubtful
  /\ trigger \in [Execs -> {"none", "pending", "fired"}]
  /\ row \in [Keys -> BOOLEAN]
  /\ notified \in [Keys -> BOOLEAN]
  /\ dms \in [Keys -> 0..2]
  /\ phase \in [Runs -> Phases]
  /\ source \in [Runs -> SUBSET Execs]
  /\ target \in [Runs -> Keys \union {NoTarget}]
  /\ scanning \in [Runs -> BOOLEAN]
  /\ tries \in [Runs -> 1..MaxTries]
  /\ faults \in 0..MaxFaults

Init ==
  /\ failed = [e \in Execs |-> FALSE]
  /\ reached \in [Execs -> 0..3]
  /\ refused \in SUBSET Doubtful
  /\ trigger = [e \in Execs |-> "none"]
  /\ row = [k \in Keys |-> FALSE]
  /\ notified = [k \in Keys |-> FALSE]
  /\ dms = [k \in Keys |-> 0]
  /\ phase = [w \in Runs |-> "idle"]
  /\ source = [w \in Runs |-> {}]
  /\ target = [w \in Runs |-> NoTarget]
  /\ scanning = [w \in Runs |-> FALSE]
  /\ tries = [w \in Runs |-> 1]
  /\ faults = 0

-----------------------------------------------------------------------------
(* Contexts *)

\* Submit saves a context immediately before each side effect it reaches.
Contexts(S) == {k \in S \X Stages : ReachedAt(k[2]) <= reached[k[1]]}

Before(j, k) ==
  j[1] < k[1] \/ (j[1] = k[1] /\ Alphabetical(j[2]) <= Alphabetical(k[2]))

\* Mutant of FirstContext: the contexts come in no particular order.
SomeContext(S) == Contexts(S)

\* The contexts are sorted by execution and stage, and the builder looks at
\* the first item only.
FirstContext(S) == {k \in Contexts(S) : \A j \in Contexts(S) : Before(k, j)}

Failed == {e \in Execs : failed[e]}

\* Mutant of Listing: one execution short of the limit.
ListingOneShort == {e \in Failed : Cardinality({f \in Failed : f > e}) < ListLimit - 1}

\* One listing: the newest failed executions.
Listing == {e \in Failed : Cardinality({f \in Failed : f > e}) < ListLimit}

-----------------------------------------------------------------------------
(* Moving between nodes *)

Goto(w, p) ==
  /\ phase' = [phase EXCEPT ![w] = p]
  /\ tries' = [tries EXCEPT ![w] = 1]
  /\ UNCHANGED <<source, target, scanning>>

EndRun(w) ==
  /\ phase' = [phase EXCEPT ![w] = "idle"]
  /\ tries' = [tries EXCEPT ![w] = 1]
  /\ source' = [source EXCEPT ![w] = {}]
  /\ target' = [target EXCEPT ![w] = NoTarget]
  /\ scanning' = [scanning EXCEPT ![w] = FALSE]

Start(w, S, scan) ==
  /\ phase[w] = "idle"
  /\ phase' = [phase EXCEPT ![w] = "fetch"]
  /\ source' = [source EXCEPT ![w] = S]
  /\ scanning' = [scanning EXCEPT ![w] = scan]
  /\ UNCHANGED <<target, tries>>

Fault == faults < MaxFaults /\ faults' = faults + 1

\* Mutant of RetryOrEnd: the try after the last one is allowed too.
RetryOnceMore(w) ==
  /\ tries[w] <= MaxTries
  /\ tries' = [tries EXCEPT ![w] = @ + 1]
  /\ UNCHANGED <<phase, source, target, scanning>>

\* The request of w's node fails: it is sent again, until the last try.
RetryOrEnd(w) ==
  \/ /\ tries[w] < MaxTries
     /\ tries' = [tries EXCEPT ![w] = @ + 1]
     /\ UNCHANGED <<phase, source, target, scanning>>
  \/ /\ tries[w] = MaxTries
     /\ EndRun(w)

-----------------------------------------------------------------------------
(* Submit and n8n *)

SubmitFails(e) ==
  /\ ~failed[e]
  /\ failed' = [failed EXCEPT ![e] = TRUE]
  /\ trigger' = [trigger EXCEPT ![e] = "pending"]
  /\ UNCHANGED <<reached, refused, tblVars, dms, runVars, faults>>

\* n8n starts the error workflow of a failed execution, once.
SubmitWorkflowFailed(e, w) ==
  /\ trigger[e] = "pending"
  /\ trigger' = [trigger EXCEPT ![e] = "fired"]
  /\ Start(w, {e}, FALSE)
  /\ UNCHANGED <<failed, reached, refused, tblVars, dms, faults>>

\* ... unless n8n goes down first.
TriggerLost(e) ==
  /\ trigger[e] = "pending"
  /\ Fault
  /\ trigger' = [trigger EXCEPT ![e] = "fired"]
  /\ UNCHANGED <<failed, reached, refused, tblVars, dms, runVars>>

\* Reconcile Every 5 Minutes.  The timeouts of a run add up to less than the
\* five minutes, so the scan before is over.
ReconcileEvery5Minutes(w) ==
  /\ \A v \in Runs : ~scanning[v]
  /\ Start(w, {}, TRUE)
  /\ UNCHANGED <<subVars, tblVars, dms, faults>>

\* n8n stops in the middle of a run; nothing resumes the run.
Crash(w) ==
  /\ phase[w] # "idle"
  /\ Fault
  /\ EndRun(w)
  /\ UNCHANGED <<subVars, tblVars, dms>>

-----------------------------------------------------------------------------
(* The nodes of the workflow *)

\* Fetch Failed Submit Execution or List Failed Submit Executions answers;
\* Extract Failure Context and Build DLQ Record run on the answer.  The builder
\* throws on a field of the wrong type, form or length, which ends the run.
Fetch(w) ==
  /\ phase[w] = "fetch"
  /\ LET execs == IF scanning[w] THEN Listing ELSE source[w] IN
       \/ /\ Contexts(execs) = {}
          /\ EndRun(w)
       \/ /\ \E k \in FirstContext(execs) : k[1] \in refused
          /\ EndRun(w)
       \/ \E k \in FirstContext(execs) :
            /\ k[1] \notin refused
            /\ target' = [target EXCEPT ![w] = k]
            /\ phase' = [phase EXCEPT ![w] = "find"]
            /\ tries' = [tries EXCEPT ![w] = 1]
            /\ UNCHANGED <<source, scanning>>
  /\ UNCHANGED <<subVars, tblVars, dms, faults>>

\* Mutant of GuardDuplicateDM: the receipt is not looked at.
NoGuard(w, wasNotified) == Goto(w, "send")

\* Mutant of GuardDuplicateDM: the receipt is written before the message.
ReceiptFirst(w, wasNotified) ==
  \/ wasNotified /\ EndRun(w)
  \/ ~wasNotified /\ Goto(w, "persist")

\* Guard Duplicate DM on the row the previous node returned.
GuardDuplicateDM(w, wasNotified) ==
  \/ wasNotified /\ EndRun(w)
  \/ ~wasNotified /\ Goto(w, "send")

\* Mutant of Find: the branches of DLQ Row Missing are not told apart.
FindWithoutCreate(w) ==
  /\ phase[w] = "find"
  /\ GuardDuplicateDM(w, notified[target[w]])
  /\ UNCHANGED <<subVars, tblVars, dms, faults>>

\* Mutant of Find: a row that exists needs nothing more.
FindOnlyMissing(w) ==
  /\ phase[w] = "find"
  /\ \/ ~row[target[w]] /\ Goto(w, "create")
     \/ row[target[w]] /\ EndRun(w)
  /\ UNCHANGED <<subVars, tblVars, dms, faults>>

\* Find Existing DLQ Row answers, DLQ Row Missing decides.
Find(w) ==
  /\ phase[w] = "find"
  /\ \/ ~row[target[w]] /\ Goto(w, "create")
     \/ row[target[w]] /\ GuardDuplicateDM(w, notified[target[w]])
  /\ UNCHANGED <<subVars, tblVars, dms, faults>>

\* Create DLQ Row succeeds; dlq_id is unique in the table.
Create(w) ==
  /\ phase[w] = "create"
  /\ ~row[target[w]]
  /\ row' = [row EXCEPT ![target[w]] = TRUE]
  /\ GuardDuplicateDM(w, FALSE)
  /\ UNCHANGED <<subVars, notified, dms, faults>>

\* The row exists by now: every try is refused.
CreateRefused(w) ==
  /\ phase[w] = "create"
  /\ row[target[w]]
  /\ EndRun(w)
  /\ UNCHANGED <<subVars, tblVars, dms, faults>>

More(n) == IF n < 2 THEN n + 1 ELSE n

Deliver(k) == dms' = [dms EXCEPT ![k] = More(@)]

\* Send Verbatim Failure DM.
Send(w) ==
  /\ phase[w] = "send"
  /\ Deliver(target[w])
  /\ Goto(w, "persist")
  /\ UNCHANGED <<subVars, tblVars, faults>>

\* Persist DM Receipt.
Persist(w) ==
  /\ phase[w] = "persist"
  /\ notified' = [notified EXCEPT ![target[w]] = TRUE]
  /\ EndRun(w)
  /\ UNCHANGED <<subVars, row, dms, faults>>

\* A request is lost before or after it took effect, and tried again.
RequestFailed(w) ==
  /\ Fault
  /\ \/ /\ phase[w] \in {"fetch", "find"}
        /\ UNCHANGED <<tblVars, dms>>
     \/ /\ phase[w] = "create"
        /\ row' = [row EXCEPT ![target[w]] = TRUE] \/ UNCHANGED row
        /\ UNCHANGED <<notified, dms>>
     \/ /\ phase[w] = "send"
        /\ Deliver(target[w]) \/ UNCHANGED dms
        /\ UNCHANGED tblVars
     \/ /\ phase[w] = "persist"
        /\ notified' = [notified EXCEPT ![target[w]] = TRUE] \/ UNCHANGED notified
        /\ UNCHANGED <<row, dms>>
  /\ RetryOrEnd(w)
  /\ UNCHANGED subVars

-----------------------------------------------------------------------------
Progress(w) ==
  Fetch(w) \/ Find(w) \/ Create(w) \/ CreateRefused(w) \/ Send(w) \/ Persist(w)

Next ==
  \/ \E e \in Execs : SubmitFails(e) \/ TriggerLost(e)
  \/ \E e \in Execs, w \in Runs : SubmitWorkflowFailed(e, w)
  \/ \E w \in Runs :
       ReconcileEvery5Minutes(w) \/ Progress(w) \/ RequestFailed(w) \/ Crash(w)

Spec == Init /\ [][Next]_vars

\* Started runs go on, pending error triggers fire and the schedule keeps
\* starting scans; faults need not happen.
Fairness ==
  /\ \A w \in Runs : WF_vars(Progress(w))
  /\ \A e \in Execs : SF_vars(\E w \in Runs : SubmitWorkflowFailed(e, w))
  /\ SF_vars(\E w \in Runs : ReconcileEvery5Minutes(w))

FairSpec == Spec /\ Fairness

-----------------------------------------------------------------------------
(* Properties *)

\* "The source execution maps to exactly one DLQ row": the error trigger, the
\* scans and their retries never disagree about the row of an execution.
OneRowPerExecution ==
  \A e \in Execs : \A s, t \in Stages : row[<<e, s>>] /\ row[<<e, t>>] => s = t

Recorded  == {k \in Keys : row[k]}
Told      == {k \in Keys : dms[k] > 0}
Receipted == {k \in Keys : notified[k]}

\* What the capture promises (DlqMirror), read off the table and the inbox.
Mirror == INSTANCE DlqMirror WITH
  failed <- Failed, rows <- Recorded, told <- Told, receipts <- Receipted

\* The workflow, its two triggers and any number of runs, implements that
\* promise: no row without a failure or beside another, no message that quotes a
\* row that is not there, also when it was another run that created it, and no
\* receipt for a message nobody received.
ImplementsMirror == Mirror!Spec

\* Once the receipt is on the row and no run is on its way to send, no later
\* run gets there: the duplicates stop.
Quiet(k) ==
  notified[k] /\ \A w \in Runs : ~(phase[w] = "send" /\ target[w] = k)

ReceiptStopsMessages == [][\A k \in Keys : Quiet(k) => Quiet(k)']_vars

\* "The user receives one DM."
OneMessage == \A k \in Keys : dms[k] <= 1

\* A failed execution that reached a side effect is mirrored, although its own
\* error trigger, requests and runs may be lost, unless its context is refused.
FailureMirrored ==
  \A e \in Execs :
    failed[e] /\ reached[e] > 0 /\ e \notin refused ~> \E s \in Stages : row[<<e, s>>]

\* ... and its submitter hears of it.
SubmitterNotified ==
  \A e \in Execs :
    failed[e] /\ reached[e] > 0 /\ e \notin refused ~> \E s \in Stages : notified[<<e, s>>]
=============================================================================
