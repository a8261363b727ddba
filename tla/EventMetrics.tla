---------------------------- MODULE EventMetrics ----------------------------
(***************************************************************************)
(* EventLedger and reconcile_metrics of analytics.py, on a stream of       *)
(* events that may be delivered again, and the view                        *)
(* checkin_submission_metrics_daily on the same events and expectations.   *)
(* An event has an id, a name, a user, a group (pod, day and type), an SLA *)
(* code, a number of blocked tasks, and may hold a forbidden field.  An    *)
(* expectation has an id, a user, a group, a code and an attendance state. *)
(***************************************************************************)
EXTENDS Naturals, Sequences, FiniteSets, FiniteSetsExt

CONSTANTS
  Stream,        \* events that producers may send
  Expected,      \* expectations that may be recorded
  MaxDeliveries, \* bound: deliveries in a behaviour
  MaxUpdates     \* bound: recorded expectations in a behaviour

VARIABLES
  ledger,        \* events accepted, one for each id
  delivered,     \* every event that was delivered, refused ones included
  expectations,  \* the versions of expectations recorded, the latest last
  conflict       \* a delivery was refused because its id was taken

metricsVars == <<ledger, delivered, expectations, conflict>>

MetricsTypeOK ==
  /\ ledger \subseteq Stream
  /\ delivered \in Seq(Stream)
  /\ expectations \in Seq(Expected)
  /\ conflict \in BOOLEAN

MetricsInit ==
  /\ ledger = {}
  /\ delivered = <<>>
  /\ expectations = <<>>
  /\ conflict = FALSE

\* Events are told apart by the digest of everything they hold.
PayloadHash(e) == e

\* EventLedger.accept
Accept(e) ==
  /\ ~e.forbidden
  /\ LET existing == {f \in ledger : f.id = e.id} IN
       \/ existing = {} /\ ledger' = ledger \union {e} /\ UNCHANGED conflict
       \/ /\ existing # {}
          /\ conflict' = (conflict \/ \E f \in existing : PayloadHash(f) # PayloadHash(e))
          /\ UNCHANGED ledger

\* flatten_event refuses an event with a forbidden field.
Refuse(e) == e.forbidden /\ UNCHANGED <<ledger, conflict>>

Deliver(e) ==
  /\ Len(delivered) < MaxDeliveries
  /\ delivered' = Append(delivered, e)
  /\ Accept(e) \/ Refuse(e)
  /\ UNCHANGED expectations

\* An expectation is recorded, for the first time or in place of an earlier one.
Record(x) ==
  /\ Len(expectations) < MaxUpdates
  /\ expectations' = Append(expectations, x)
  /\ UNCHANGED <<ledger, delivered, conflict>>

MetricsNext ==
  \/ \E e \in Stream : Deliver(e)
  \/ \E x \in Expected : Record(x)

MetricsSpec == MetricsInit /\ [][MetricsNext]_metricsVars

-----------------------------------------------------------------------------

\* checkin_expectations_deduplicated: the latest version of every id.
Deduplicated ==
  {expectations[i] : i \in {i \in DOMAIN expectations :
     \A j \in DOMAIN expectations : j > i => expectations[j].id # expectations[i].id}}

Groups(events) ==
  {e.group : e \in events} \union {x.group : x \in {x \in Deduplicated : x.state = "expected"}}

\* The members of a group who are expected.
ExpectedUsers(g) ==
  {x.user : x \in {x \in Deduplicated : x.group = g /\ x.state = "expected"}}

Named(events, g, name) == {e \in events : e.group = g /\ e.name = name}

Blocked(events) == MapThenSumSet(LAMBDA e : e.blocked, events)

\* Mutant of ReconcileMetrics: whoever submits counts, expected or not.
ReconcileAllUsers(events) ==
  [g \in Groups(events) |->
     LET submitted == Named(events, g, "checkin.submitted") IN
     [expected  |-> Cardinality(ExpectedUsers(g)),
      submitted |-> Cardinality({e.user : e \in submitted}),
      opened    |-> Cardinality(Named(events, g, "checkin.opened")),
      rejected  |-> Cardinality(Named(events, g, "checkin.rejected")),
      blocked   |-> Blocked(submitted)]]

\* reconcile_metrics, by group: members who submitted are counted if they are
\* expected, opened and rejected events one by one.  Of latency and proofs,
\* which are computed from the same rows, nothing is kept.
ReconcileMetrics(events) ==
  [g \in Groups(events) |->
     LET submitted == Named(events, g, "checkin.submitted") IN
     [expected  |-> Cardinality(ExpectedUsers(g)),
      submitted |-> Cardinality({e.user : e \in submitted} \intersect ExpectedUsers(g)),
      opened    |-> Cardinality(Named(events, g, "checkin.opened")),
      rejected  |-> Cardinality(Named(events, g, "checkin.rejected")),
      blocked   |-> Blocked(submitted)]]

\* The view joins every expectation with the events of its user, group and
\* code, and has a row for every group with an expectation of any state.
Joined(g) ==
  {pair \in Deduplicated \X ledger :
     LET x == pair[1]
         e == pair[2]
     IN  /\ x.group = g /\ x.state = "expected" /\ e.name = "checkin.submitted"
         /\ e.user = x.user /\ e.group = x.group /\ e.code = x.code}

DailyMetrics ==
  [g \in {x.group : x \in Deduplicated} |->
     [expected  |-> Cardinality(ExpectedUsers(g)),
      submitted |-> Cardinality({pair[2].user : pair \in Joined(g)})]]

-----------------------------------------------------------------------------
(* Properties *)

\* A user's submissions bear a code of an expectation of theirs: the view then
\* finds them.
CodesAgree(g) ==
  \A e \in Named(ledger, g, "checkin.submitted") :
    e.user \in ExpectedUsers(g) =>
      \E x \in Deduplicated : x.user = e.user /\ x.group = g /\ x.state = "expected" /\ x.code = e.code

Sound(e) == ~e.forbidden

\* A report's row of a group: without one, nobody is expected in it.
RowOf(report, g) ==
  IF g \in DOMAIN report THEN report[g] ELSE [expected |-> 0, submitted |-> 0]

\* "Reproduce Grafana reporting metrics", as far as it goes.  Whatever was
\* delivered again, in whatever order with leave that was recorded late: the
\* reference counts from the stream what it counts from the ledger, unless an id
\* came with two contents; it counts nobody who is not expected; and for every
\* group of either, the view has as many expected, never more submitted, and as
\* many of these where codes agree.  The other columns are not compared: the
\* view leaves out, or counts twice, what the reference counts by event.
MetricsReconcile ==
  LET events == {e \in {delivered[i] : i \in DOMAIN delivered} : Sound(e)}
      reference == ReconcileMetrics(ledger)
  IN  /\ ~conflict => ReconcileMetrics(events) = reference
      /\ \A g \in DOMAIN reference \union DOMAIN DailyMetrics :
           LET counted == RowOf(reference, g)
               shown == RowOf(DailyMetrics, g)
           IN  /\ counted.submitted <= counted.expected
               /\ shown.expected = counted.expected
               /\ shown.submitted <= counted.submitted
               /\ CodesAgree(g) => shown.submitted = counted.submitted
=============================================================================
