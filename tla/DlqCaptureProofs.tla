-------------------------- MODULE DlqCaptureProofs --------------------------
(***************************************************************************)
(* Proofs about DlqCapture for every set of executions and runs, every     *)
(* number of tries and faults.                                             *)
(***************************************************************************)
EXTENDS DlqCapture, TLAPS

\* What a run at each node knows of its context, and what the table tells of
\* its rows.  The safety properties follow from it and it is inductive.
TargetChosen ==
  \A w \in Runs : phase[w] \in {"find", "create", "send", "persist"} =>
    /\ target[w] \in Keys
    /\ target[w] \in FirstContext({target[w][1]})

SenderHasRow ==
  \A w \in Runs : phase[w] \in {"send", "persist"} => row[target[w]]

ReceiptWriterHasSent ==
  \A w \in Runs : phase[w] = "persist" => dms[target[w]] > 0

RowOfFirstContext == \A k \in Keys : row[k] => k \in FirstContext({k[1]})

MessageHasRow == \A k \in Keys : dms[k] > 0 => row[k]

ReceiptHasMessage == \A k \in Keys : notified[k] => dms[k] > 0

IInv ==
  /\ TypeOK
  /\ TargetChosen
  /\ SenderHasRow
  /\ ReceiptWriterHasSent
  /\ RowOfFirstContext
  /\ MessageHasRow
  /\ ReceiptHasMessage

-----------------------------------------------------------------------------
(* The order of the contexts *)

\* The first context of a set of executions is one of its executions' keys.
LEMMA FirstContextIsKey ==
  ASSUME NEW S \in SUBSET Execs, NEW k \in FirstContext(S)
  PROVE  k \in Keys /\ k[1] \in S
BY DEF FirstContext, Contexts, Keys

\* It is also the first context of its own execution alone.
LEMMA FirstOfItsExecution ==
  ASSUME NEW S \in SUBSET Execs, NEW k \in FirstContext(S)
  PROVE  k \in FirstContext({k[1]})
<1>1. k \in Contexts(S) /\ \A j \in Contexts(S) : Before(k, j)
  BY DEF FirstContext
<1>2. k[1] \in S /\ k[2] \in Stages /\ k = <<k[1], k[2]>>
  BY <1>1 DEF Contexts
<1>3. Contexts({k[1]}) \subseteq Contexts(S)
  BY <1>2 DEF Contexts
<1>4. k \in Contexts({k[1]})
  BY <1>1, <1>2 DEF Contexts
<1> QED
  BY <1>1, <1>3, <1>4 DEF FirstContext

\* An execution has at most one first context.
LEMMA FirstContextUnique ==
  ASSUME NEW e \in Execs,
         NEW k \in FirstContext({e}), NEW j \in FirstContext({e})
  PROVE  k = j
<1>1. /\ k \in {e} \X Stages /\ j \in {e} \X Stages
      /\ Before(k, j) /\ Before(j, k)
  BY DEF FirstContext, Contexts
<1>2. ~(e < e)
  BY ExecsAreIds
<1>3. Alphabetical(k[2]) <= Alphabetical(j[2]) /\ Alphabetical(j[2]) <= Alphabetical(k[2])
  BY <1>1, <1>2 DEF Before
<1>4. k[2] \in Stages /\ j[2] \in Stages
  BY <1>1
<1>5. k[2] = j[2]
  BY <1>3, <1>4 DEF Alphabetical, Stages
<1> QED
  BY <1>1, <1>5

-----------------------------------------------------------------------------
(* Moving between nodes keeps the types *)

LEMMA GotoType ==
  ASSUME TypeOK, NEW w \in Runs, NEW p \in Phases, Goto(w, p)
  PROVE  /\ phase' \in [Runs -> Phases] /\ tries' \in [Runs -> 1..MaxTries]
         /\ UNCHANGED <<source, target, scanning>>
BY BoundsNatural DEF TypeOK, Goto

LEMMA EndRunType ==
  ASSUME TypeOK, NEW w \in Runs, EndRun(w)
  PROVE  /\ phase' \in [Runs -> Phases] /\ tries' \in [Runs -> 1..MaxTries]
         /\ source' \in [Runs -> SUBSET Execs]
         /\ target' \in [Runs -> Keys \union {NoTarget}]
         /\ scanning' \in [Runs -> BOOLEAN]
<1>1. phase' \in [Runs -> Phases] /\ tries' \in [Runs -> 1..MaxTries]
  BY BoundsNatural DEF TypeOK, EndRun, Phases
<1>2. /\ source' \in [Runs -> SUBSET Execs]
      /\ target' \in [Runs -> Keys \union {NoTarget}]
      /\ scanning' \in [Runs -> BOOLEAN]
  BY DEF TypeOK, EndRun
<1> QED
  BY <1>1, <1>2

LEMMA RetryOrEndType ==
  ASSUME TypeOK, NEW w \in Runs, RetryOrEnd(w)
  PROVE  /\ phase' \in [Runs -> Phases] /\ tries' \in [Runs -> 1..MaxTries]
         /\ source' \in [Runs -> SUBSET Execs]
         /\ target' \in [Runs -> Keys \union {NoTarget}]
         /\ scanning' \in [Runs -> BOOLEAN]
<1>1. CASE EndRun(w)
  BY <1>1, EndRunType
<1>2. CASE /\ tries[w] < MaxTries
           /\ tries' = [tries EXCEPT ![w] = @ + 1]
           /\ UNCHANGED <<phase, source, target, scanning>>
  <2>1. tries[w] \in 1..MaxTries
    BY DEF TypeOK
  <2>2. tries[w] + 1 \in 1..MaxTries
    BY <1>2, <2>1, BoundsNatural
  <2> QED
    BY <1>2, <2>2 DEF TypeOK
<1> QED
  BY <1>1, <1>2 DEF RetryOrEnd

LEMMA StartType ==
  ASSUME TypeOK, NEW w \in Runs, NEW S \in SUBSET Execs, NEW b \in BOOLEAN,
         Start(w, S, b)
  PROVE  /\ phase' \in [Runs -> Phases] /\ source' \in [Runs -> SUBSET Execs]
         /\ scanning' \in [Runs -> BOOLEAN] /\ UNCHANGED <<target, tries>>
BY DEF TypeOK, Start, Phases

LEMMA FaultType ==
  ASSUME TypeOK, Fault PROVE faults' \in 0..MaxFaults
BY BoundsNatural DEF TypeOK, Fault

LEMMA DeliverType ==
  ASSUME TypeOK, NEW k \in Keys, Deliver(k)
  PROVE  /\ dms' \in [Keys -> 0..2]
         /\ \A j \in Keys : dms[j] > 0 \/ j = k <=> dms'[j] > 0
<1>1. \A n \in 0..2 : More(n) \in 1..2
  BY DEF More
<1>2. dms \in [Keys -> 0..2] /\ dms[k] \in 0..2 /\ dms' = [dms EXCEPT ![k] = More(dms[k])]
  BY DEF TypeOK, Deliver
<1>3. More(dms[k]) \in 1..2
  BY <1>1, <1>2
<1> QED
  BY <1>2, <1>3

\* The executions a run has fetched: those it was started for or a listing.
LEMMA FetchedExecs ==
  ASSUME TypeOK, NEW w \in Runs
  PROVE  (IF scanning[w] THEN Listing ELSE source[w]) \in SUBSET Execs
BY DEF TypeOK, Listing, Failed

-----------------------------------------------------------------------------
(* Every step keeps the invariant *)

LEMMA InitInv == Init => IInv
<1> SUFFICES ASSUME Init PROVE IInv
  OBVIOUS
<1>1. TypeOK
  BY BoundsNatural DEF Init, TypeOK, Phases
<1>2. TargetChosen /\ SenderHasRow /\ ReceiptWriterHasSent
  BY DEF Init, TargetChosen, SenderHasRow, ReceiptWriterHasSent
<1>3. RowOfFirstContext /\ MessageHasRow /\ ReceiptHasMessage
  BY DEF Init, RowOfFirstContext, MessageHasRow, ReceiptHasMessage
<1> QED
  BY <1>1, <1>2, <1>3 DEF IInv

LEMMA SubmitFailsType ==
  ASSUME TypeOK, NEW e \in Execs, SubmitFails(e) PROVE TypeOK'
BY DEF TypeOK, SubmitFails, tblVars, runVars, Phases

LEMMA TriggerType ==
  ASSUME TypeOK, NEW e \in Execs, NEW w \in Runs,
         TriggerLost(e) \/ SubmitWorkflowFailed(e, w)
  PROVE  TypeOK'
<1>1. trigger' \in [Execs -> {"none", "pending", "fired"}]
  BY DEF TypeOK, TriggerLost, SubmitWorkflowFailed
<1>2. CASE TriggerLost(e)
  BY <1>1, <1>2, FaultType DEF TypeOK, TriggerLost, tblVars, runVars
<1>3. CASE SubmitWorkflowFailed(e, w)
  <2>1. Start(w, {e}, FALSE)
    BY <1>3 DEF SubmitWorkflowFailed
  <2>2. /\ phase' \in [Runs -> Phases] /\ source' \in [Runs -> SUBSET Execs]
        /\ scanning' \in [Runs -> BOOLEAN] /\ UNCHANGED <<target, tries>>
    BY <2>1, StartType, {e} \in SUBSET Execs
  <2> QED
    BY <1>1, <1>3, <2>2 DEF TypeOK, SubmitWorkflowFailed, tblVars
<1> QED
  BY <1>2, <1>3

LEMMA ScanType ==
  ASSUME TypeOK, NEW w \in Runs, ReconcileEvery5Minutes(w) PROVE TypeOK'
<1>1. Start(w, {}, TRUE)
  BY DEF ReconcileEvery5Minutes
<1>2. /\ phase' \in [Runs -> Phases] /\ source' \in [Runs -> SUBSET Execs]
      /\ scanning' \in [Runs -> BOOLEAN] /\ UNCHANGED <<target, tries>>
  BY <1>1, StartType
<1> QED
  BY <1>2 DEF TypeOK, ReconcileEvery5Minutes, subVars, tblVars

LEMMA CrashType ==
  ASSUME TypeOK, NEW w \in Runs, Crash(w) PROVE TypeOK'
BY EndRunType, FaultType DEF TypeOK, Crash, subVars, tblVars

LEMMA FetchType ==
  ASSUME TypeOK, NEW w \in Runs, Fetch(w) PROVE TypeOK'
<1> DEFINE execs == IF scanning[w] THEN Listing ELSE source[w]
<1>1. execs \in SUBSET Execs
  BY FetchedExecs
<1>2. CASE EndRun(w)
  BY <1>2, EndRunType DEF TypeOK, Fetch, subVars, tblVars
<1>3. CASE \E k \in FirstContext(execs) :
             /\ target' = [target EXCEPT ![w] = k]
             /\ phase' = [phase EXCEPT ![w] = "find"]
             /\ tries' = [tries EXCEPT ![w] = 1]
             /\ UNCHANGED <<source, scanning>>
  <2>1. PICK k \in FirstContext(execs) :
             /\ target' = [target EXCEPT ![w] = k]
             /\ phase' = [phase EXCEPT ![w] = "find"]
             /\ tries' = [tries EXCEPT ![w] = 1]
             /\ UNCHANGED <<source, scanning>>
    BY <1>3
  <2>2. k \in Keys
    BY <1>1, FirstContextIsKey
  <2>3. target' \in [Runs -> Keys \union {NoTarget}]
    BY <2>1, <2>2 DEF TypeOK
  <2>4. phase' \in [Runs -> Phases] /\ tries' \in [Runs -> 1..MaxTries]
    BY <2>1, BoundsNatural DEF TypeOK, Phases
  <2> QED
    BY <2>1, <2>3, <2>4 DEF TypeOK, Fetch, subVars, tblVars
<1> QED
  BY <1>2, <1>3 DEF Fetch

LEMMA GuardType ==
  ASSUME TypeOK, NEW w \in Runs, NEW b, GuardDuplicateDM(w, b)
  PROVE  /\ phase' \in [Runs -> Phases] /\ tries' \in [Runs -> 1..MaxTries]
         /\ source' \in [Runs -> SUBSET Execs]
         /\ target' \in [Runs -> Keys \union {NoTarget}]
         /\ scanning' \in [Runs -> BOOLEAN]
<1>1. CASE EndRun(w)
  BY <1>1, EndRunType
<1>2. CASE Goto(w, "send")
  BY <1>2, GotoType, "send" \in Phases DEF TypeOK, Phases
<1> QED
  BY <1>1, <1>2 DEF GuardDuplicateDM

LEMMA NodeType ==
  ASSUME TypeOK, TargetChosen, NEW w \in Runs,
         Find(w) \/ Create(w) \/ CreateRefused(w) \/ Send(w) \/ Persist(w)
  PROVE  TypeOK'
<1>1. CASE Find(w)
  <2>1. CASE Goto(w, "create")
    BY <1>1, <2>1, GotoType, "create" \in Phases
       DEF TypeOK, Find, subVars, tblVars, Phases
  <2>2. CASE GuardDuplicateDM(w, notified[target[w]])
    BY <1>1, <2>2, GuardType DEF TypeOK, Find, subVars, tblVars
  <2> QED
    BY <1>1, <2>1, <2>2 DEF Find
<1>2. CASE Create(w)
  <2>1. row' \in [Keys -> BOOLEAN]
    BY <1>2 DEF TypeOK, Create
  <2>2. GuardDuplicateDM(w, FALSE)
    BY <1>2 DEF Create
  <2> QED
    BY <1>2, <2>1, <2>2, GuardType DEF TypeOK, Create, subVars
<1>3. CASE CreateRefused(w)
  BY <1>3, EndRunType DEF TypeOK, CreateRefused, subVars, tblVars
<1>4. CASE Send(w)
  <2>1. target[w] \in Keys /\ Deliver(target[w]) /\ Goto(w, "persist")
    BY <1>4 DEF Send, TargetChosen
  <2>2. dms' \in [Keys -> 0..2]
    BY <2>1, DeliverType
  <2>3. /\ phase' \in [Runs -> Phases] /\ tries' \in [Runs -> 1..MaxTries]
        /\ UNCHANGED <<source, target, scanning>>
    BY <2>1, GotoType, "persist" \in Phases DEF Phases
  <2> QED
    BY <1>4, <2>2, <2>3 DEF TypeOK, Send, subVars, tblVars
<1>5. CASE Persist(w)
  <2>1. notified' \in [Keys -> BOOLEAN]
    BY <1>5 DEF TypeOK, Persist
  <2>2. EndRun(w)
    BY <1>5 DEF Persist
  <2> QED
    BY <1>5, <2>1, <2>2, EndRunType DEF TypeOK, Persist, subVars
<1> QED
  BY <1>1, <1>2, <1>3, <1>4, <1>5

LEMMA RequestFailedType ==
  ASSUME TypeOK, TargetChosen, NEW w \in Runs, RequestFailed(w) PROVE TypeOK'
<1>1. RetryOrEnd(w) /\ Fault /\ UNCHANGED subVars
  BY DEF RequestFailed
<1>2. row' \in [Keys -> BOOLEAN] /\ notified' \in [Keys -> BOOLEAN]
  BY DEF TypeOK, RequestFailed, tblVars
<1>3. dms' \in [Keys -> 0..2]
  <2>1. CASE phase[w] = "send" /\ Deliver(target[w])
    BY <2>1, DeliverType DEF TargetChosen
  <2>2. CASE UNCHANGED dms
    BY <2>2 DEF TypeOK
  <2> QED
    BY <2>1, <2>2 DEF RequestFailed
<1> QED
  BY <1>1, <1>2, <1>3, RetryOrEndType, FaultType DEF TypeOK, subVars

LEMMA TypeStep ==
  ASSUME TypeOK, TargetChosen, [Next]_vars PROVE TypeOK'
<1>1. CASE UNCHANGED vars
  BY <1>1 DEF TypeOK, vars, subVars, tblVars, runVars
<1>2. ASSUME NEW e \in Execs, SubmitFails(e) PROVE TypeOK'
  BY <1>2, SubmitFailsType
<1>3. ASSUME NEW e \in Execs, TriggerLost(e) PROVE TypeOK'
  BY <1>3, FaultType DEF TypeOK, TriggerLost, tblVars, runVars
<1>4. ASSUME NEW e \in Execs, NEW w \in Runs, SubmitWorkflowFailed(e, w)
      PROVE  TypeOK'
  BY <1>4, TriggerType
<1>5. ASSUME NEW w \in Runs, ReconcileEvery5Minutes(w) PROVE TypeOK'
  BY <1>5, ScanType
<1>6. ASSUME NEW w \in Runs, Progress(w) PROVE TypeOK'
  BY <1>6, FetchType, NodeType DEF Progress
<1>7. ASSUME NEW w \in Runs, RequestFailed(w) \/ Crash(w) PROVE TypeOK'
  BY <1>7, RequestFailedType, CrashType
<1> QED
  BY <1>1, <1>2, <1>3, <1>4, <1>5, <1>6, <1>7 DEF Next

-----------------------------------------------------------------------------
(* What one run does leaves what the others know true *)

LEMMA LocalStep ==
  ASSUME IInv, TypeOK', NEW w \in Runs, UNCHANGED reached,
         \A v \in Runs \ {w} : phase'[v] = phase[v] /\ target'[v] = target[v],
         \A k \in Keys : row[k] => row'[k],
         \A k \in Keys : dms[k] > 0 => dms'[k] > 0,
         phase'[w] \in {"find", "create", "send", "persist"} =>
           /\ target'[w] \in Keys
           /\ target'[w] \in FirstContext({target'[w][1]}),
         phase'[w] \in {"send", "persist"} => row'[target'[w]],
         phase'[w] = "persist" => dms'[target'[w]] > 0,
         \A k \in Keys : row'[k] => row[k] \/ k \in FirstContext({k[1]}),
         \A k \in Keys : dms'[k] > 0 => dms[k] > 0 \/ row'[k],
         \A k \in Keys : notified'[k] => notified[k] \/ dms'[k] > 0
  PROVE  IInv'
<1> USE DEF IInv
<1>1. \A k : k \in FirstContext({k[1]}) <=> (k \in FirstContext({k[1]}))'
  BY DEF FirstContext, Contexts
<1>2. TargetChosen'
  <2> SUFFICES ASSUME NEW v \in Runs,
                      phase'[v] \in {"find", "create", "send", "persist"}
               PROVE  target'[v] \in Keys /\ (target[v] \in FirstContext({target[v][1]}))'
    BY DEF TargetChosen
  <2>1. target'[v] \in Keys /\ target'[v] \in FirstContext({target'[v][1]})
    BY DEF TargetChosen
  <2> QED
    BY <2>1 DEF FirstContext, Contexts
<1>3. SenderHasRow' /\ ReceiptWriterHasSent'
  BY DEF SenderHasRow, ReceiptWriterHasSent, TargetChosen
<1>4. RowOfFirstContext'
  BY <1>1 DEF RowOfFirstContext
<1>5. MessageHasRow' /\ ReceiptHasMessage'
  BY DEF MessageHasRow, ReceiptHasMessage
<1> QED
  BY <1>2, <1>3, <1>4, <1>5

\* A run that neither enters a later node nor touches the table.
LEMMA QuietStep ==
  ASSUME IInv, TypeOK', NEW w \in Runs, UNCHANGED <<reached, tblVars, dms>>,
         \A v \in Runs \ {w} : phase'[v] = phase[v] /\ target'[v] = target[v],
         phase'[w] \in {"idle", "fetch"}
  PROVE  IInv'
BY LocalStep DEF tblVars

LEMMA EndRunStep ==
  ASSUME TypeOK, NEW w \in Runs, EndRun(w)
  PROVE  /\ \A v \in Runs \ {w} : phase'[v] = phase[v] /\ target'[v] = target[v]
         /\ phase'[w] = "idle"
BY DEF TypeOK, EndRun

LEMMA GotoStep ==
  ASSUME TypeOK, NEW w \in Runs, NEW p, Goto(w, p)
  PROVE  /\ \A v \in Runs \ {w} : phase'[v] = phase[v]
         /\ target' = target /\ phase'[w] = p
BY DEF TypeOK, Goto

LEMMA StartStep ==
  ASSUME TypeOK, NEW w \in Runs, NEW S, NEW b, Start(w, S, b)
  PROVE  /\ \A v \in Runs \ {w} : phase'[v] = phase[v]
         /\ target' = target /\ phase'[w] = "fetch"
BY DEF TypeOK, Start

LEMMA FetchInv ==
  ASSUME IInv, TypeOK', NEW w \in Runs, Fetch(w) PROVE IInv'
<1> USE DEF IInv
<1> DEFINE execs == IF scanning[w] THEN Listing ELSE source[w]
<1>1. UNCHANGED <<reached, tblVars, dms>>
  BY DEF Fetch, subVars
<1>2. CASE EndRun(w)
  BY <1>1, <1>2, EndRunStep, QuietStep
<1>3. CASE \E k \in FirstContext(execs) :
             /\ target' = [target EXCEPT ![w] = k]
             /\ phase' = [phase EXCEPT ![w] = "find"]
  <2>1. PICK k \in FirstContext(execs) :
             /\ target' = [target EXCEPT ![w] = k]
             /\ phase' = [phase EXCEPT ![w] = "find"]
    BY <1>3
  <2>2. k \in Keys /\ k \in FirstContext({k[1]})
    BY FetchedExecs, FirstContextIsKey, FirstOfItsExecution
  <2>3. phase'[w] = "find" /\ target'[w] = k
    BY <2>1 DEF TypeOK
  <2>4. \A v \in Runs \ {w} : phase'[v] = phase[v] /\ target'[v] = target[v]
    BY <2>1 DEF TypeOK
  <2> QED
    BY <1>1, <2>2, <2>3, <2>4, LocalStep DEF tblVars
<1> QED
  BY <1>2, <1>3 DEF Fetch

\* The guard is asked about a row that exists and leads to its message, or
\* to the end of the run.
LEMMA GuardInv ==
  ASSUME IInv, TypeOK', NEW w \in Runs, NEW b, GuardDuplicateDM(w, b),
         phase[w] \in {"find", "create"}, UNCHANGED <<reached, notified, dms>>,
         row'[target[w]],
         \A k \in Keys : row'[k] <=> row[k] \/ k = target[w]
  PROVE  IInv'
<1> USE DEF IInv
<1>1. target[w] \in Keys /\ target[w] \in FirstContext({target[w][1]})
  BY DEF TargetChosen
<1>2. CASE EndRun(w)
  BY <1>1, <1>2, EndRunStep, LocalStep
<1>3. CASE Goto(w, "send")
  BY <1>1, <1>3, GotoStep, LocalStep
<1> QED
  BY <1>2, <1>3 DEF GuardDuplicateDM

LEMMA NodeInv ==
  ASSUME IInv, TypeOK', NEW w \in Runs,
         Find(w) \/ Create(w) \/ CreateRefused(w) \/ Send(w) \/ Persist(w)
  PROVE  IInv'
<1> USE DEF IInv
<1>1. phase[w] # "idle" /\ UNCHANGED reached
  BY DEF Find, Create, CreateRefused, Send, Persist, subVars
<1>2. target[w] \in Keys /\ target[w] \in FirstContext({target[w][1]})
  BY DEF TargetChosen, Find, Create, CreateRefused, Send, Persist
<1>3. CASE Find(w)
  <2>1. UNCHANGED <<row, notified, dms>>
    BY <1>3 DEF Find, tblVars
  <2>2. CASE Goto(w, "create")
    BY <1>1, <1>2, <2>1, <2>2, GotoStep, LocalStep
  <2>3. CASE row[target[w]] /\ GuardDuplicateDM(w, notified[target[w]])
    BY <1>1, <1>3, <2>1, <2>3, GuardInv DEF Find
  <2> QED
    BY <1>3, <2>2, <2>3 DEF Find
<1>4. CASE Create(w)
  <2>1. row' = [row EXCEPT ![target[w]] = TRUE] /\ UNCHANGED <<notified, dms>>
    BY <1>4 DEF Create
  <2>2. \A k \in Keys : row'[k] <=> row[k] \/ k = target[w]
    BY <2>1 DEF TypeOK
  <2> QED
    BY <1>1, <1>2, <1>4, <2>1, <2>2, GuardInv DEF Create
<1>5. CASE CreateRefused(w)
  BY <1>1, <1>5, EndRunStep, QuietStep DEF CreateRefused
<1>6. CASE Send(w)
  <2>1. Deliver(target[w]) /\ Goto(w, "persist") /\ UNCHANGED <<row, notified>>
    BY <1>6 DEF Send, tblVars
  <2>2. \A k \in Keys : dms[k] > 0 \/ k = target[w] <=> dms'[k] > 0
    BY <1>2, <2>1, DeliverType
  <2>3. row[target[w]]
    BY <1>6 DEF Send, SenderHasRow
  <2> QED
    BY <1>1, <1>2, <2>1, <2>2, <2>3, GotoStep, LocalStep
<1>7. CASE Persist(w)
  <2>1. /\ notified' = [notified EXCEPT ![target[w]] = TRUE]
        /\ EndRun(w) /\ UNCHANGED <<row, dms>>
    BY <1>7 DEF Persist
  <2>2. \A k \in Keys : notified'[k] => notified[k] \/ k = target[w]
    BY <2>1 DEF TypeOK
  <2>3. dms[target[w]] > 0
    BY <1>7 DEF Persist, ReceiptWriterHasSent
  <2> QED
    BY <1>1, <1>2, <2>1, <2>2, <2>3, EndRunStep, LocalStep
<1> QED
  BY <1>3, <1>4, <1>5, <1>6, <1>7

\* A failed request: the run stays where it is or ends.
LEMMA RetryOrEndStep ==
  ASSUME TypeOK, NEW w \in Runs, RetryOrEnd(w)
  PROVE  /\ \A v \in Runs \ {w} : phase'[v] = phase[v] /\ target'[v] = target[v]
         /\ \/ phase'[w] = "idle"
            \/ phase'[w] = phase[w] /\ target'[w] = target[w]
BY EndRunStep DEF RetryOrEnd

LEMMA RequestFailedInv ==
  ASSUME IInv, TypeOK', NEW w \in Runs, RequestFailed(w) PROVE IInv'
<1> USE DEF IInv
<1>1. RetryOrEnd(w) /\ UNCHANGED reached
  BY DEF RequestFailed, subVars
<1>2. phase[w] \in {"find", "create", "send", "persist"} =>
        target[w] \in Keys /\ target[w] \in FirstContext({target[w][1]})
  BY DEF TargetChosen
<1>3. phase[w] \in {"send", "persist"} => row[target[w]]
  BY DEF SenderHasRow
<1>4. phase[w] = "persist" => dms[target[w]] > 0
  BY DEF ReceiptWriterHasSent
<1>5. CASE UNCHANGED <<tblVars, dms>>
  BY <1>1, <1>2, <1>3, <1>4, <1>5, RetryOrEndStep, LocalStep DEF tblVars
<1>6. CASE /\ phase[w] = "create" /\ UNCHANGED <<notified, dms>>
           /\ row' = [row EXCEPT ![target[w]] = TRUE]
  <2>1. \A k \in Keys : row'[k] <=> row[k] \/ k = target[w]
    BY <1>6 DEF TypeOK
  <2> QED
    BY <1>1, <1>2, <1>6, <2>1, RetryOrEndStep, LocalStep
<1>7. CASE /\ phase[w] = "send" /\ UNCHANGED tblVars /\ Deliver(target[w])
  <2>1. \A k \in Keys : dms[k] > 0 \/ k = target[w] <=> dms'[k] > 0
    BY <1>2, <1>7, DeliverType
  <2> QED
    BY <1>1, <1>2, <1>3, <1>7, <2>1, RetryOrEndStep, LocalStep DEF tblVars
<1>8. CASE /\ phase[w] = "persist" /\ UNCHANGED <<row, dms>>
           /\ notified' = [notified EXCEPT ![target[w]] = TRUE]
  <2>1. \A k \in Keys : notified'[k] => notified[k] \/ k = target[w]
    BY <1>8 DEF TypeOK
  <2> QED
    BY <1>1, <1>2, <1>3, <1>4, <1>8, <2>1, RetryOrEndStep, LocalStep
<1> QED
  BY <1>5, <1>6, <1>7, <1>8 DEF RequestFailed, tblVars

LEMMA NextInv == IInv /\ [Next]_vars => IInv'
<1> SUFFICES ASSUME IInv, [Next]_vars PROVE IInv'
  OBVIOUS
<1>0. TypeOK'
  BY TypeStep DEF IInv
<1>1. CASE UNCHANGED vars
  <2>1. UNCHANGED <<reached, row, notified, dms, phase, target>>
    BY <1>1 DEF vars, subVars, tblVars, runVars
  <2> QED
    BY <1>0, <2>1 DEF IInv, TargetChosen, SenderHasRow, ReceiptWriterHasSent,
       RowOfFirstContext, MessageHasRow, ReceiptHasMessage, FirstContext, Contexts
<1>2. ASSUME NEW e \in Execs, SubmitFails(e) \/ TriggerLost(e) PROVE IInv'
  <2>1. UNCHANGED <<reached, row, notified, dms, phase, target>>
    BY <1>2 DEF SubmitFails, TriggerLost, tblVars, runVars
  <2> QED
    BY <1>0, <2>1 DEF IInv, TargetChosen, SenderHasRow, ReceiptWriterHasSent,
       RowOfFirstContext, MessageHasRow, ReceiptHasMessage, FirstContext, Contexts
<1>3. ASSUME NEW e \in Execs, NEW w \in Runs, SubmitWorkflowFailed(e, w)
      PROVE  IInv'
  <2>1. Start(w, {e}, FALSE) /\ UNCHANGED <<reached, tblVars, dms>>
    BY <1>3 DEF SubmitWorkflowFailed
  <2> QED
    BY <1>0, <2>1, StartStep, QuietStep DEF IInv
<1>4. ASSUME NEW w \in Runs, ReconcileEvery5Minutes(w) PROVE IInv'
  <2>1. Start(w, {}, TRUE) /\ UNCHANGED <<reached, tblVars, dms>>
    BY <1>4 DEF ReconcileEvery5Minutes, subVars
  <2> QED
    BY <1>0, <2>1, StartStep, QuietStep DEF IInv
<1>5. ASSUME NEW w \in Runs, Progress(w) PROVE IInv'
  BY <1>0, <1>5, FetchInv, NodeInv DEF Progress
<1>6. ASSUME NEW w \in Runs, RequestFailed(w) PROVE IInv'
  BY <1>0, <1>6, RequestFailedInv
<1>7. ASSUME NEW w \in Runs, Crash(w) PROVE IInv'
  <2>1. EndRun(w) /\ UNCHANGED <<reached, tblVars, dms>>
    BY <1>7 DEF Crash, subVars
  <2> QED
    BY <1>0, <2>1, EndRunStep, QuietStep DEF IInv
<1> QED
  BY <1>1, <1>2, <1>3, <1>4, <1>5, <1>6, <1>7 DEF Next

\* The invariant holds in every reachable state.
THEOREM Inductive == Spec => []IInv
BY InitInv, NextInv, PTL DEF Spec

\* The types of the model hold for every set of executions and runs.
THEOREM TypeCorrect == Spec => []TypeOK
BY Inductive, PTL DEF IInv

\* The error trigger, the scans and their retries agree on one row for each
\* execution: the first of its contexts in the order of
\* extract-failure-context.js, whatever else was in the same listing.
THEOREM RowsAreUnique == Spec => []OneRowPerExecution
<1>1. IInv => OneRowPerExecution
  <2> SUFFICES ASSUME IInv, NEW e \in Execs, NEW s \in Stages, NEW t \in Stages,
                      row[<<e, s>>], row[<<e, t>>]
               PROVE  s = t
    BY DEF OneRowPerExecution
  <2>1. <<e, s>> \in Keys /\ <<e, t>> \in Keys
    BY DEF Keys
  <2>2. <<e, s>> \in FirstContext({e}) /\ <<e, t>> \in FirstContext({e})
    BY <2>1 DEF IInv, RowOfFirstContext
  <2>3. <<e, s>> = <<e, t>>
    BY <2>2, FirstContextUnique
  <2> QED
    BY <2>3
<1> QED
  BY <1>1, Inductive, PTL

-----------------------------------------------------------------------------
(* The messages stop *)

\* A receipt is never taken back.
LEMMA ReceiptStays ==
  ASSUME IInv, [Next]_vars, NEW k \in Keys, notified[k] PROVE notified'[k]
<1>1. CASE UNCHANGED notified
  BY <1>1
<1>2. CASE \E w \in Runs : notified' = [notified EXCEPT ![target[w]] = TRUE]
  BY <1>2 DEF IInv, TypeOK
<1> QED
  BY <1>1, <1>2
     DEF Next, Progress, SubmitFails, TriggerLost, SubmitWorkflowFailed, Crash,
         ReconcileEvery5Minutes, Fetch, Find, Create, CreateRefused, Send, Persist,
         RequestFailed, vars, tblVars

\* A run gets to the message only about a row without a receipt.
LEMMA OnlyUnnotifiedSent ==
  ASSUME IInv, [Next]_vars, NEW w \in Runs, phase'[w] = "send"
  PROVE  \/ phase[w] = "send" /\ target'[w] = target[w]
         \/ target'[w] = target[w] /\ target[w] \in Keys /\ ~notified[target[w]]
<1> USE DEF IInv
<1>1. CASE UNCHANGED <<phase, target>>
  BY <1>1
<1>2. ASSUME NEW v \in Runs, phase'[v] # "send",
             \A u \in Runs \ {v} : phase'[u] = phase[u] /\ target'[u] = target[u]
      PROVE  phase[w] = "send" /\ target'[w] = target[w]
  BY <1>2
<1>3. ASSUME NEW v \in Runs, NEW S, NEW b, Start(v, S, b)
      PROVE  phase[w] = "send" /\ target'[w] = target[w]
  BY <1>2, <1>3, StartStep
<1>4. ASSUME NEW v \in Runs, EndRun(v)
      PROVE  phase[w] = "send" /\ target'[w] = target[w]
  BY <1>2, <1>4, EndRunStep
<1>5. ASSUME NEW v \in Runs, NEW p, p # "send", Goto(v, p)
      PROVE  phase[w] = "send" /\ target'[w] = target[w]
  BY <1>2, <1>5, GotoStep
<1>6. ASSUME NEW v \in Runs, Fetch(v)
      PROVE  phase[w] = "send" /\ target'[w] = target[w]
  <2>1. CASE EndRun(v)
    BY <2>1, <1>4
  <2>2. CASE ~EndRun(v)
    <3>1. PICK k : /\ target' = [target EXCEPT ![v] = k]
                   /\ phase' = [phase EXCEPT ![v] = "find"]
      BY <1>6, <2>2 DEF Fetch
    <3> QED
      BY <1>2, <3>1 DEF TypeOK
  <2> QED
    BY <2>1, <2>2
<1>7. ASSUME NEW v \in Runs, RetryOrEnd(v)
      PROVE  phase[w] = "send" /\ target'[w] = target[w]
  BY <1>7, RetryOrEndStep
<1>8. ASSUME NEW v \in Runs, Goto(v, "send"), target[v] \in Keys, ~notified[target[v]]
      PROVE  \/ phase[w] = "send" /\ target'[w] = target[w]
             \/ target'[w] = target[w] /\ target[w] \in Keys /\ ~notified[target[w]]
  BY <1>8, GotoStep
<1>9. ASSUME NEW v \in Runs, Find(v)
      PROVE  \/ phase[w] = "send" /\ target'[w] = target[w]
             \/ target'[w] = target[w] /\ target[w] \in Keys /\ ~notified[target[w]]
  <2>1. target[v] \in Keys
    BY <1>9 DEF Find, TargetChosen
  <2> QED
    BY <1>4, <1>5, <1>8, <1>9, <2>1 DEF Find, GuardDuplicateDM
<1>10. ASSUME NEW v \in Runs, Create(v)
       PROVE  \/ phase[w] = "send" /\ target'[w] = target[w]
              \/ target'[w] = target[w] /\ target[w] \in Keys /\ ~notified[target[w]]
  <2>1. target[v] \in Keys /\ ~row[target[v]]
    BY <1>10 DEF Create, TargetChosen
  <2>2. ~notified[target[v]]
    BY <2>1 DEF MessageHasRow, ReceiptHasMessage
  <2> QED
    BY <1>8, <1>10, <2>1, <2>2 DEF Create, GuardDuplicateDM
<1> QED
  <2>1. CASE UNCHANGED vars
    BY <1>1, <2>1 DEF vars, runVars
  <2>2. ASSUME NEW e \in Execs, SubmitFails(e) \/ TriggerLost(e)
        PROVE  UNCHANGED <<phase, target>>
    BY <2>2 DEF SubmitFails, TriggerLost, runVars
  <2>3. ASSUME NEW e \in Execs, NEW v \in Runs, SubmitWorkflowFailed(e, v)
        PROVE  phase[w] = "send" /\ target'[w] = target[w]
    BY <1>3, <2>3 DEF SubmitWorkflowFailed
  <2>4. ASSUME NEW v \in Runs, ReconcileEvery5Minutes(v)
        PROVE  phase[w] = "send" /\ target'[w] = target[w]
    BY <1>3, <2>4 DEF ReconcileEvery5Minutes
  <2>5. ASSUME NEW v \in Runs, CreateRefused(v) \/ Persist(v) \/ Crash(v)
        PROVE  phase[w] = "send" /\ target'[w] = target[w]
    BY <1>4, <2>5 DEF CreateRefused, Persist, Crash
  <2>6. ASSUME NEW v \in Runs, Send(v)
        PROVE  phase[w] = "send" /\ target'[w] = target[w]
    BY <1>5, <2>6 DEF Send
  <2>7. ASSUME NEW v \in Runs, RequestFailed(v)
        PROVE  phase[w] = "send" /\ target'[w] = target[w]
    BY <1>7, <2>7 DEF RequestFailed
  <2> QED
    BY <1>1, <1>6, <1>9, <1>10, <2>1, <2>2, <2>3, <2>4, <2>5, <2>6, <2>7
       DEF Next, Progress

\* Once the receipt of a row is written and no run is about to send, none ever
\* is again: duplicates of the failure message are confined to the runs that
\* were past the guard (dlq-dm-guard.js) when the receipt was written.
THEOREM MessagesStop == Spec => ReceiptStopsMessages
<1>1. IInv /\ [Next]_vars => \A k \in Keys : Quiet(k) => Quiet(k)'
  <2> SUFFICES ASSUME IInv, [Next]_vars, NEW k \in Keys, Quiet(k) PROVE Quiet(k)'
    OBVIOUS
  <2>1. notified'[k]
    BY ReceiptStays DEF Quiet
  <2>2. ASSUME NEW w \in Runs, phase'[w] = "send", target'[w] = k PROVE FALSE
    BY <2>2, OnlyUnnotifiedSent DEF Quiet
  <2> QED
    BY <2>1, <2>2 DEF Quiet
<1>2. IInv /\ [Next]_vars => [\A k \in Keys : Quiet(k) => Quiet(k)']_vars
  BY <1>1
<1> QED
  BY <1>2, Inductive, PTL DEF Spec, ReceiptStopsMessages

-----------------------------------------------------------------------------
(* The workflow keeps what DlqMirror promises *)

\* Whatever a run was started for, or has chosen, has failed.
OnlyFailures ==
  /\ \A e \in Execs : trigger[e] # "none" => failed[e]
  /\ \A w \in Runs : \A e \in source[w] : failed[e]
  /\ \A w \in Runs : phase[w] \in {"find", "create", "send", "persist"} => failed[target[w][1]]

LEMMA InitFailures == Init => OnlyFailures
BY DEF Init, OnlyFailures

\* One run moves, about executions that have failed.
LEMMA RunAboutFailures ==
  ASSUME OnlyFailures, NEW w \in Runs, failed' = failed, trigger' = trigger,
         \A v \in Runs \ {w} :
           phase'[v] = phase[v] /\ source'[v] = source[v] /\ target'[v] = target[v],
         \A e \in source'[w] : failed[e],
         phase'[w] \in {"find", "create", "send", "persist"} => failed[target'[w][1]]
  PROVE  OnlyFailures'
BY DEF OnlyFailures

LEMMA EndedRun ==
  ASSUME TypeOK, OnlyFailures, NEW w \in Runs, EndRun(w), failed' = failed, trigger' = trigger
  PROVE  OnlyFailures'
<1>1. /\ \A v \in Runs \ {w} :
           phase'[v] = phase[v] /\ source'[v] = source[v] /\ target'[v] = target[v]
      /\ source'[w] = {} /\ phase'[w] = "idle"
  BY DEF TypeOK, EndRun
<1> QED
  BY <1>1, RunAboutFailures

LEMMA MovedRun ==
  ASSUME TypeOK, OnlyFailures, NEW w \in Runs, NEW p, Goto(w, p),
         phase[w] \in {"find", "create", "send", "persist"}, failed' = failed, trigger' = trigger
  PROVE  OnlyFailures'
<1>1. /\ \A v \in Runs \ {w} : phase'[v] = phase[v]
      /\ source' = source /\ target' = target
  BY DEF TypeOK, Goto
<1> QED
  BY <1>1, RunAboutFailures DEF OnlyFailures

LEMMA FailuresStep ==
  ASSUME IInv, OnlyFailures, [Next]_vars PROVE OnlyFailures'
<1>0. TypeOK
  BY DEF IInv
<1>1. CASE UNCHANGED vars
  BY <1>1 DEF OnlyFailures, vars, subVars, runVars
<1>2. ASSUME NEW e \in Execs, SubmitFails(e)
      PROVE  OnlyFailures'
  <2>1. /\ \A f \in Execs : f # e => failed'[f] = failed[f] /\ trigger'[f] = trigger[f]
        /\ failed'[e] /\ UNCHANGED <<phase, source, target>>
    BY <1>0, <1>2 DEF TypeOK, SubmitFails, runVars
  <2>2. \A f \in Execs : failed[f] => failed'[f]
    BY <2>1
  <2>3. /\ \A w \in Runs : source[w] \subseteq Execs
        /\ \A w \in Runs : phase[w] \in {"find", "create", "send", "persist"} => target[w][1] \in Execs
    BY <1>0 DEF TypeOK, IInv, TargetChosen, Keys
  <2> QED
    BY <2>1, <2>2, <2>3 DEF OnlyFailures
<1>3. ASSUME NEW e \in Execs, TriggerLost(e)
      PROVE  OnlyFailures'
  <2>1. /\ failed' = failed /\ UNCHANGED <<phase, source, target>> /\ trigger[e] = "pending"
        /\ \A f \in Execs : f # e => trigger'[f] = trigger[f]
    BY <1>0, <1>3 DEF TypeOK, TriggerLost, runVars
  <2> QED
    BY <2>1 DEF OnlyFailures
<1>4. ASSUME NEW e \in Execs, NEW w \in Runs, SubmitWorkflowFailed(e, w)
      PROVE  OnlyFailures'
  <2>1. /\ failed' = failed /\ trigger[e] = "pending" /\ target' = target
        /\ \A f \in Execs : f # e => trigger'[f] = trigger[f]
        /\ \A v \in Runs \ {w} : phase'[v] = phase[v] /\ source'[v] = source[v]
        /\ source'[w] = {e} /\ phase'[w] = "fetch"
    BY <1>0, <1>4 DEF TypeOK, SubmitWorkflowFailed, Start
  <2>2. failed[e]
    BY <2>1 DEF OnlyFailures
  <2> QED
    BY <2>1, <2>2 DEF OnlyFailures
<1>5. ASSUME NEW w \in Runs, ReconcileEvery5Minutes(w)
      PROVE  OnlyFailures'
  <2>1. /\ failed' = failed /\ trigger' = trigger /\ target' = target
        /\ \A v \in Runs \ {w} : phase'[v] = phase[v] /\ source'[v] = source[v]
        /\ source'[w] = {} /\ phase'[w] = "fetch"
    BY <1>0, <1>5 DEF TypeOK, ReconcileEvery5Minutes, Start, subVars
  <2> QED
    BY <2>1, RunAboutFailures
<1>6. ASSUME NEW w \in Runs, Fetch(w)
      PROVE  OnlyFailures'
  <2> DEFINE execs == IF scanning[w] THEN Listing ELSE source[w]
  <2>0. failed' = failed /\ trigger' = trigger
    BY <1>6 DEF Fetch, subVars
  <2>1. CASE EndRun(w)
    BY <1>0, <2>0, <2>1, EndedRun
  <2>2. CASE \E k \in FirstContext(execs) :
               /\ target' = [target EXCEPT ![w] = k]
               /\ phase' = [phase EXCEPT ![w] = "find"]
               /\ source' = source
    <3>1. PICK k \in FirstContext(execs) :
               /\ target' = [target EXCEPT ![w] = k]
               /\ phase' = [phase EXCEPT ![w] = "find"]
               /\ source' = source
      BY <2>2
    <3>2. execs \in SUBSET Execs /\ k[1] \in execs
      BY <1>0, <3>1, FetchedExecs, FirstContextIsKey
    <3>3. failed[k[1]]
      BY <3>2 DEF OnlyFailures, Listing, Failed
    <3>4. /\ \A v \in Runs \ {w} : phase'[v] = phase[v] /\ target'[v] = target[v]
          /\ target'[w] = k
      BY <1>0, <3>1 DEF TypeOK
    <3>5. \A e \in source'[w] : failed[e]
      BY <3>1 DEF OnlyFailures
    <3> QED
      BY <2>0, <3>1, <3>3, <3>4, <3>5, RunAboutFailures
  <2> QED
    BY <1>6, <2>1, <2>2 DEF Fetch
<1>7. ASSUME NEW w \in Runs, Find(w) \/ Create(w) \/ CreateRefused(w) \/ Send(w) \/ Persist(w)
      PROVE  OnlyFailures'
  <2>1. /\ failed' = failed /\ trigger' = trigger
        /\ phase[w] \in {"find", "create", "send", "persist"}
    BY <1>7 DEF Find, Create, CreateRefused, Send, Persist, subVars
  <2>2. \/ EndRun(w) \/ Goto(w, "create") \/ Goto(w, "send") \/ Goto(w, "persist")
    BY <1>7 DEF Find, Create, CreateRefused, Send, Persist, GuardDuplicateDM
  <2> QED
    BY <1>0, <2>1, <2>2, EndedRun, MovedRun
<1>8. ASSUME NEW w \in Runs, RequestFailed(w) \/ Crash(w)
      PROVE  OnlyFailures'
  <2>1. failed' = failed /\ trigger' = trigger
    BY <1>8 DEF RequestFailed, Crash, subVars
  <2>2. EndRun(w) \/ UNCHANGED <<phase, source, target>>
    BY <1>8 DEF RequestFailed, Crash, RetryOrEnd
  <2>3. CASE UNCHANGED <<phase, source, target>>
    BY <2>1, <2>3 DEF OnlyFailures
  <2> QED
    BY <1>0, <2>1, <2>2, <2>3, EndedRun
<1> QED
  BY <1>1, <1>2, <1>3, <1>4, <1>5, <1>6, <1>7, <1>8 DEF Next, Progress

\* What a run writes is a row, a message or a receipt of the mirror.
LEMMA RowWritten ==
  ASSUME IInv, OnlyFailures, NEW w \in Runs, phase[w] = "create",
         row' = [row EXCEPT ![target[w]] = TRUE], UNCHANGED <<failed, notified, dms>>
  PROVE  [Mirror!Next]_(Mirror!vars)
<1> DEFINE k == target[w]
<1>0. row \in [Keys -> BOOLEAN]
  BY DEF IInv, TypeOK
<1>1. k \in Keys /\ k \in FirstContext({k[1]}) /\ failed[k[1]]
  BY DEF IInv, TargetChosen, OnlyFailures
<1>2. k[1] \in Execs /\ k[2] \in Stages /\ k = <<k[1], k[2]>>
  BY <1>1 DEF Keys
<1>3. Failed' = Failed /\ Told' = Told /\ Receipted' = Receipted
  BY DEF Failed, Told, Receipted
<1>4. CASE row[k]
  <2>1. row' = row
    BY <1>0, <1>4
  <2> QED
    BY <1>3, <2>1 DEF Mirror!vars, Recorded
<1>5. CASE ~row[k]
  <2>1. Recorded' = Recorded \union {k}
    BY <1>0, <1>1 DEF Recorded
  <2>2. ASSUME NEW t \in Stages, <<k[1], t>> \in Recorded
        PROVE  FALSE
    <3>1. <<k[1], t>> \in FirstContext({k[1]}) /\ row[<<k[1], t>>]
      BY <2>2 DEF Recorded, IInv, RowOfFirstContext
    <3> HIDE DEF k
    <3>2. <<k[1], t>> = k
      BY <1>1, <1>2, <3>1, FirstContextUnique
    <3> QED
      BY <1>5, <3>1, <3>2
  <2>3. k[1] \in Failed
    BY <1>1, <1>2 DEF Failed
  <2> HIDE DEF k
  <2>4. Mirror!Record(k[1], k[2])
    BY <1>2, <1>3, <2>1, <2>2, <2>3 DEF Mirror!Record
  <2> QED
    BY <1>2, <2>4 DEF Mirror!Next
<1> QED
  BY <1>4, <1>5

LEMMA MessageSent ==
  ASSUME IInv, NEW w \in Runs, phase[w] = "send", Deliver(target[w]),
         UNCHANGED <<failed, row, notified>>
  PROVE  [Mirror!Next]_(Mirror!vars)
<1> DEFINE k == target[w]
<1>1. k \in Keys /\ row[k]
  BY DEF IInv, TargetChosen, SenderHasRow
<1>2. \A j \in Keys : dms[j] > 0 \/ j = k <=> dms'[j] > 0
  BY <1>1, DeliverType DEF IInv
<1>3. Failed' = Failed /\ Recorded' = Recorded /\ Receipted' = Receipted
  BY DEF Failed, Recorded, Receipted
<1>4. Told' = Told \union {k} /\ k \in Recorded
  BY <1>1, <1>2 DEF Told, Recorded
<1> HIDE DEF k
<1>5. Mirror!Tell(k)
  BY <1>3, <1>4 DEF Mirror!Tell
<1> QED
  BY <1>1, <1>5 DEF Mirror!Next, Keys

LEMMA ReceiptWritten ==
  ASSUME IInv, NEW w \in Runs, phase[w] = "persist",
         notified' = [notified EXCEPT ![target[w]] = TRUE], UNCHANGED <<failed, row, dms>>
  PROVE  [Mirror!Next]_(Mirror!vars)
<1> DEFINE k == target[w]
<1>0. notified \in [Keys -> BOOLEAN]
  BY DEF IInv, TypeOK
<1>1. k \in Keys /\ dms[k] > 0
  BY DEF IInv, TargetChosen, ReceiptWriterHasSent
<1>2. Failed' = Failed /\ Recorded' = Recorded /\ Told' = Told
  BY DEF Failed, Recorded, Told
<1>3. Receipted' = Receipted \union {k} /\ k \in Told
  BY <1>0, <1>1 DEF Receipted, Told
<1> HIDE DEF k
<1>4. Mirror!Receipt(k)
  BY <1>2, <1>3 DEF Mirror!Receipt
<1> QED
  BY <1>1, <1>4 DEF Mirror!Next, Keys

LEMMA MirrorStep ==
  ASSUME IInv, OnlyFailures, [Next]_vars PROVE [Mirror!Next]_(Mirror!vars)
<1>1. CASE UNCHANGED <<failed, row, notified, dms>>
  BY <1>1 DEF Mirror!vars, Failed, Recorded, Told, Receipted
<1>2. ASSUME NEW e \in Execs, SubmitFails(e)
      PROVE  [Mirror!Next]_(Mirror!vars)
  <2>1. Failed' = Failed \union {e}
    BY <1>2 DEF SubmitFails, Failed, IInv, TypeOK
  <2>2. Recorded' = Recorded /\ Told' = Told /\ Receipted' = Receipted
    BY <1>2 DEF SubmitFails, tblVars, Recorded, Told, Receipted
  <2>3. Mirror!Fail(e)
    BY <2>1, <2>2 DEF Mirror!Fail
  <2> QED
    BY <2>3 DEF Mirror!Next
<1>3. ASSUME NEW w \in Runs, Create(w)
      PROVE  [Mirror!Next]_(Mirror!vars)
  BY <1>3, RowWritten DEF Create, subVars
<1>4. ASSUME NEW w \in Runs, Send(w)
      PROVE  [Mirror!Next]_(Mirror!vars)
  BY <1>4, MessageSent DEF Send, subVars, tblVars
<1>5. ASSUME NEW w \in Runs, Persist(w)
      PROVE  [Mirror!Next]_(Mirror!vars)
  BY <1>5, ReceiptWritten DEF Persist, subVars
<1>6. ASSUME NEW w \in Runs, RequestFailed(w)
      PROVE  [Mirror!Next]_(Mirror!vars)
  <2>1. failed' = failed
    BY <1>6 DEF RequestFailed, subVars
  <2> QED
    BY <1>1, <1>6, <2>1, RowWritten, MessageSent, ReceiptWritten DEF RequestFailed, tblVars
<1>7. CASE \/ UNCHANGED vars
           \/ \E e \in Execs : TriggerLost(e) \/ \E w \in Runs : SubmitWorkflowFailed(e, w)
           \/ \E w \in Runs : \/ ReconcileEvery5Minutes(w) \/ Crash(w)
                              \/ Fetch(w) \/ Find(w) \/ CreateRefused(w)
  <2>1. UNCHANGED <<failed, row, notified, dms>>
    BY <1>7 DEF vars, subVars, tblVars, TriggerLost, SubmitWorkflowFailed,
       ReconcileEvery5Minutes, Crash, Fetch, Find, CreateRefused
  <2> QED
    BY <1>1, <2>1
<1> QED
  BY <1>2, <1>3, <1>4, <1>5, <1>6, <1>7 DEF Next, Progress

\* The capture workflow implements DlqMirror, for any executions, runs, tries
\* and faults: only failures are recorded, each once; who is told has a row; and
\* a receipt is for a message that arrived.
THEOREM Implementation == Spec => ImplementsMirror
<1>1. Init => Mirror!Init
  BY DEF Init, Mirror!Init, Failed, Recorded, Told, Receipted
<1>2. IInv /\ OnlyFailures /\ [Next]_vars => [Mirror!Next]_(Mirror!vars)
  BY MirrorStep
<1>3. Spec => []OnlyFailures
  <2>1. IInv /\ OnlyFailures /\ [Next]_vars => OnlyFailures'
    BY FailuresStep
  <2> QED
    BY <2>1, Inductive, InitFailures, PTL DEF Spec
<1> QED
  BY <1>1, <1>2, <1>3, Inductive, PTL DEF Spec, ImplementsMirror, Mirror!Spec
=============================================================================
