--------------------------- MODULE EventIngestion ---------------------------
(***************************************************************************)
(* The event ingestion workflow.  Producers deliver events at least once:  *)
(* they send an event again until they receive a final answer, and may     *)
(* send it again after that.  Each delivery is a run that looks the id up  *)
(* in ClickHouse, then inserts the event or answers, as the row it saw     *)
(* tells it.  Runs of several deliveries interleave.                       *)
(*                                                                         *)
(* ClickHouse drops an insert whose token (the event id) it has seen in    *)
(* the same monthly partition, and reports success all the same.           *)
(***************************************************************************)
EXTENDS Naturals, Sequences, FiniteSets

CONSTANTS
  Events,     \* event ids
  Payloads,   \* contents, as told apart by payload_hash
  Sent,       \* what producers send: pairs of an event id and a payload
  Invalid,    \* payloads that break the contract
  Month,      \* [Payloads]: the month of occurred_at
  NoPayload,  \* no row under an event id
  Runs,       \* slots for deliveries alive at the same time
  MaxTries,   \* tries of a node (3 in the template)
  MaxFaults   \* bound: lost requests, answers and runs in a behaviour

Keys == Events \X Payloads
Months == {Month[p] : p \in Payloads}
Codes == {200, 202, 400, 401, 409}

ASSUME SentAreKeys      == Sent \subseteq Keys /\ Invalid \subseteq Payloads
ASSUME MonthOfPayloads  == DOMAIN Month = Payloads
ASSUME NoPayloadIsNone  == NoPayload \notin Payloads
ASSUME BoundsNatural    == MaxTries \in Nat \ {0} /\ MaxFaults \in Nat

VARIABLES
  rows,    \* [Events]: payloads stored under the id, by received_at
  tokens,  \* insert_deduplication_tokens seen, each with its partition
  told,    \* [Keys]: the answers the producer has received
  phase,   \* [Runs]: the node the run is at
  key,     \* [Runs]: the event and payload delivered
  code,    \* [Runs]: the answer the run is about to give
  tries,   \* [Runs]: number of this try of the node
  faults   \* requests, answers and runs lost so far

table == <<rows, tokens>>
run   == <<phase, key, code, tries>>
vars  == <<table, told, run, faults>>

NoKey == <<NoPayload, NoPayload>>

TypeOK ==
  /\ rows \in [Events -> Seq(Payloads)]
  /\ tokens \subseteq Events \X Months
  /\ told \in [Keys -> SUBSET (Codes \ {401})]
  /\ phase \in [Runs -> {"idle", "check", "insert", "answer"}]
  /\ key \in [Runs -> Sent \union {NoKey}]
  /\ code \in [Runs -> Codes]
  /\ tries \in [Runs -> 1..MaxTries]
  /\ faults \in 0..MaxFaults

Init ==
  /\ rows = [e \in Events |-> <<>>]
  /\ tokens = {}
  /\ told = [k \in Keys |-> {}]
  /\ phase = [w \in Runs |-> "idle"]
  /\ key = [w \in Runs |-> NoKey]
  /\ code = [w \in Runs |-> 202]
  /\ tries = [w \in Runs |-> 1]
  /\ faults = 0

-----------------------------------------------------------------------------
(* ClickHouse *)

\* SELECT ... FINAL, and the argMax view: the row received last.
Stored(e) == IF rows[e] = <<>> THEN NoPayload ELSE rows[e][Len(rows[e])]

\* Mutant of InsertRow: no insert_deduplication_token is sent.
InsertRowWithoutToken(e, p) ==
  /\ rows' = [rows EXCEPT ![e] = Append(@, p)]
  /\ UNCHANGED tokens

InsertRow(e, p) ==
  \/ <<e, Month[p]>> \in tokens /\ UNCHANGED table
  \/ /\ <<e, Month[p]>> \notin tokens
     /\ rows' = [rows EXCEPT ![e] = Append(@, p)]
     /\ tokens' = tokens \union {<<e, Month[p]>>}

-----------------------------------------------------------------------------
(* Moving between nodes *)

Goto(w, p) ==
  /\ phase' = [phase EXCEPT ![w] = p]
  /\ tries' = [tries EXCEPT ![w] = 1]
  /\ UNCHANGED <<key, code>>

GotoAnswer(w, c) ==
  /\ phase' = [phase EXCEPT ![w] = "answer"]
  /\ code' = [code EXCEPT ![w] = c]
  /\ tries' = [tries EXCEPT ![w] = 1]
  /\ UNCHANGED key

EndRun(w) ==
  /\ phase' = [phase EXCEPT ![w] = "idle"]
  /\ key' = [key EXCEPT ![w] = NoKey]
  /\ code' = [code EXCEPT ![w] = 202]
  /\ tries' = [tries EXCEPT ![w] = 1]

Fault == faults < MaxFaults /\ faults' = faults + 1

\* Mutant of RetryOrEnd: the try after the last one is allowed too.
RetryOnceMore(w) ==
  /\ tries[w] <= MaxTries
  /\ tries' = [tries EXCEPT ![w] = @ + 1]
  /\ UNCHANGED <<phase, key, code>>

\* Mutant of RetryOrEnd: after its last try the node passes its input on.
RetryOrGoOn(w) ==
  \/ /\ tries[w] < MaxTries
     /\ tries' = [tries EXCEPT ![w] = @ + 1]
     /\ UNCHANGED <<phase, key, code>>
  \/ /\ tries[w] = MaxTries
     /\ GotoAnswer(w, 202)

\* The request of w's node failed: it is sent again, until the last try;
\* then the run ends with an error, which is no answer of the contract.
RetryOrEnd(w) ==
  \/ /\ tries[w] < MaxTries
     /\ tries' = [tries EXCEPT ![w] = @ + 1]
     /\ UNCHANGED <<phase, key, code>>
  \/ /\ tries[w] = MaxTries
     /\ EndRun(w)

-----------------------------------------------------------------------------
(* Deliveries *)

\* Receive Check-in Event, Validate and Flatten Event and Route Validation:
\* one synchronous step from the request to the first call.
Receive(w, k) ==
  /\ phase[w] = "idle"
  /\ key' = [key EXCEPT ![w] = k]
  /\ \/ k[2] \notin Invalid /\ phase' = [phase EXCEPT ![w] = "check"] /\ UNCHANGED code
     \/ /\ k[2] \in Invalid
        /\ phase' = [phase EXCEPT ![w] = "answer"]
        /\ code' = [code EXCEPT ![w] = 400]
  /\ UNCHANGED <<table, told, tries, faults>>

\* A request without the producers' credential, whatever it holds.
ReceiveUnauthorized(w) ==
  /\ phase[w] = "idle"
  /\ phase' = [phase EXCEPT ![w] = "answer"]
  /\ code' = [code EXCEPT ![w] = 401]
  /\ UNCHANGED <<table, told, key, tries, faults>>

\* Mutant of Check: the stored row is compared with something else.
CheckAlwaysConflict(w) ==
  /\ phase[w] = "check"
  /\ \/ Stored(key[w][1]) = NoPayload /\ Goto(w, "insert")
     \/ Stored(key[w][1]) # NoPayload /\ GotoAnswer(w, 409)
  /\ UNCHANGED <<table, told, faults>>

\* Mutant of Check: nothing is connected to the duplicate output.
CheckDroppingDuplicates(w) ==
  /\ phase[w] = "check"
  /\ LET p == Stored(key[w][1]) IN
       \/ p = NoPayload /\ Goto(w, "insert")
       \/ p = key[w][2] /\ EndRun(w)
       \/ p \notin {NoPayload, key[w][2]} /\ GotoAnswer(w, 409)
  /\ UNCHANGED <<table, told, faults>>

\* Check Event ID answers; Classify Event ID and Route Disposition.
Check(w) ==
  /\ phase[w] = "check"
  /\ LET p == Stored(key[w][1]) IN
       \/ p = NoPayload /\ Goto(w, "insert")
       \/ p = key[w][2] /\ GotoAnswer(w, 200)
       \/ p \notin {NoPayload, key[w][2]} /\ GotoAnswer(w, 409)
  /\ UNCHANGED <<table, told, faults>>

\* Insert Event succeeds.
Insert(w) ==
  /\ phase[w] = "insert"
  /\ InsertRow(key[w][1], key[w][2])
  /\ GotoAnswer(w, 202)
  /\ UNCHANGED <<told, faults>>

\* A request to ClickHouse is lost before or after it took effect.
RequestFailed(w) ==
  /\ phase[w] \in {"check", "insert"}
  /\ Fault
  /\ \/ UNCHANGED table
     \/ phase[w] = "insert" /\ InsertRow(key[w][1], key[w][2])
  /\ RetryOrEnd(w)
  /\ UNCHANGED told

\* Respond Accepted, Duplicate, Conflict, Unauthorized or Invalid.
Respond(w) ==
  /\ phase[w] = "answer"
  /\ told' = [k \in Keys |-> IF k = key[w] THEN told[k] \union {code[w]} ELSE told[k]]
  /\ EndRun(w)
  /\ UNCHANGED <<table, faults>>

\* The answer, or the run, is lost.
Lost(w) ==
  /\ phase[w] # "idle"
  /\ Fault
  /\ EndRun(w)
  /\ UNCHANGED <<table, told>>

-----------------------------------------------------------------------------
Progress(w) == Check(w) \/ Insert(w) \/ Respond(w)

\* A producer that has no answer sends the event again, in a run of its own.
Resend(k) == told[k] = {} /\ \E w \in Runs : Receive(w, k)

Next ==
  \/ \E w \in Runs :
       Progress(w) \/ RequestFailed(w) \/ Lost(w) \/ ReceiveUnauthorized(w)
  \/ \E w \in Runs, k \in Sent : Receive(w, k)

Spec == Init /\ [][Next]_vars

Fairness ==
  /\ \A w \in Runs : WF_vars(Progress(w))
  /\ \A k \in Sent : SF_vars(Resend(k))

FairSpec == Spec /\ Fairness

-----------------------------------------------------------------------------
(* Properties *)

\* "A producer must never reuse an event_id for different content": the ids
\* for which producers keep to that.
Honest ==
  {e \in Events : \A j, k \in Sent :
     j[1] = e /\ k[1] = e /\ {j[2], k[2]} \intersect Invalid = {} => j = k}

Acknowledged(k) == told[k] \intersect {200, 202} # {}

\* An event the producer is told to stop sending is in the table: a run that
\* failed, or raced another delivery of the event, loses nothing.
AcknowledgedIsStored ==
  \A k \in Sent : k[1] \in Honest /\ Acknowledged(k) =>
    \E i \in DOMAIN rows[k[1]] : rows[k[1]][i] = k[2]

\* The insert is not conditional on the check, which may be out of date: the
\* token alone keeps retries and concurrent deliveries from inflating counts.
StoredOnce == \A e \in Events : Len(rows[e]) <= 1

\* What the reporting view shows of an event id never changes, also when an id
\* is reused, as long as the contents occurred in the same month.
StoredEventKept ==
  [][\A e \in Events : Stored(e) # NoPayload => Stored(e)' = Stored(e)]_vars

\* 409 pages people: it is only given when another payload is stored.
ConflictIsReal ==
  \A k \in Sent : 409 \in told[k] => Stored(k[1]) \notin {NoPayload, k[2]}

\* What ingestion promises its honest producers, on the row of an id received
\* first.
Ledger == INSTANCE EventLedger WITH
  Events <- Honest,
  ledger <- [e \in Honest |-> IF rows[e] = <<>> THEN NoPayload ELSE rows[e][1]],
  told   <- [k \in Honest \X Payloads |-> told[k]]

ImplementsLedger == Ledger!Spec

\* A producer that keeps sending is answered, although requests, answers and
\* runs are lost, and its valid event stored.
EventuallyAnswered == \A k \in Sent : <>(told[k] # {})

\* "Reuse of one event_id for different content is a producer defect that must
\* never be silently accepted": two contents are not both acknowledged.
ConflictNeverAccepted ==
  \A j, k \in Sent : j[1] = k[1] /\ Acknowledged(j) /\ Acknowledged(k) => j = k
=============================================================================
