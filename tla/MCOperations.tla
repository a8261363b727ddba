---------------------------- MODULE MCOperations ----------------------------
(***************************************************************************)
(* The operator tools and the reference implementations, each on its own:  *)
(* subject tells which of them a behaviour is about, the others rest.      *)
(***************************************************************************)
EXTENDS VaultSmoke, RetryLoop, EventMetrics, ArchiveCalendar, Functions

-----------------------------------------------------------------------------
(* Constants *)

Bind(v, p, k) == [env |-> v, path |-> p, key |-> k]

\* The first workload reads a path of its own and one that it shares.
MCReaders == [own |-> {1}, shared |-> {1, 2}]
MCSharedKey == [shared |-> "signing_key"]

Own    == Bind("OWN_TOKEN", "own", "token")
Signed == Bind("SIGNING_KEY", "shared", "signing_key")

Workload(r, p, t, b) == [role |-> r, policy |-> p, task |-> t, bindings |-> b]

Deployed ==
  [tool |-> "vault", environment |-> "staging", auth |-> "jwks",
   workloads |-> <<Workload("r1", "p1", "t1", {Own, Signed}), Workload("r2", "p2", "t2", {Signed})>>]

\* The first workload moves to another task under a new role, the second gets a
\* new policy, and the auth mount other keys.
Renamed ==
  [Deployed EXCEPT !.auth = "jwks2", !.workloads[2].policy = "p2b",
                   !.workloads[1] = Workload("r1b", "p1", "t1b", {Own, Signed})]

\* Two configurations of other tasks that exchange the names of their policies.
Paired(p, q) ==
  [Deployed EXCEPT !.workloads = <<Workload("s1", p, "u1", {Own, Signed}), Workload("s2", q, "u2", {Signed})>>]

Exchange == {Paired("q1", "q2"), Paired("q2", "q1")}

\* Refused: a reader too many, a shared policy, an example.
MCConfigs ==
  {Deployed, Renamed} \union Exchange \union
  {[Deployed EXCEPT !.workloads[2].bindings = {Own, Signed}],
   [Deployed EXCEPT !.workloads[2].policy = "p1"],
   [Deployed EXCEPT !.environment = "example"]}

\* What the theorems about the smoke test and the types ask of them.
ASSUME TestedAsProved == TestsAreComplete
ASSUME DeployedIsPlannable == ({Deployed, Renamed} \union Exchange) \subseteq Plannable

MCFirstAuth == AuthConfig(Deployed, "ca")

Gateway ==
  [tool |-> "gateway", environment |-> "production", https |-> TRUE, sources |-> {"egress"},
   upstream |-> "n8n", open |-> "open", submit |-> "submit", node |-> "n8n:443"]

MCGateways ==
  {Gateway, [Gateway EXCEPT !.upstream = "n8n-v2", !.node = "n8n2:443"],
   [Gateway EXCEPT !.environment = "local", !.https = FALSE, !.open = "submit"],
   [Gateway EXCEPT !.https = FALSE], [Gateway EXCEPT !.sources = {"documentation"}]}

Policy3(a, b, c) == [attempts |-> 3, between |-> <<a, b>>, dlq |-> c]

MCPolicies ==
  {Policy3(a, b, c) : a, b, c \in 1..3}
    \union {[attempts |-> 1, between |-> <<>>, dlq |-> 2], [attempts |-> 3, between |-> <<1>>, dlq |-> 2]}

Event(i, n, u, c, b, f) ==
  [id |-> i, name |-> n, user |-> u, group |-> "eod", code |-> c, blocked |-> b, forbidden |-> f]

MCStream ==
  {Event(1, "checkin.submitted", 1, "a", 1, FALSE), Event(2, "checkin.submitted", 2, "b", 0, FALSE),
   Event(2, "checkin.submitted", 2, "a", 2, FALSE), Event(3, "checkin.rejected", 1, "a", 0, FALSE),
   Event(4, "checkin.opened", 3, "a", 0, FALSE),    Event(5, "checkin.submitted", 3, "a", 0, TRUE)}

Expectation(u, c, s) == [id |-> <<u, c>>, user |-> u, group |-> "eod", code |-> c, state |-> s]

MCExpected ==
  {Expectation(u, "a", s) : u \in 1..2, s \in {"expected", "approved_leave"}}
    \union {Expectation(2, "b", "expected")}

-----------------------------------------------------------------------------
VARIABLE subject

Subjects == {"vault", "exchange", "gateway", "smoke", "rotation", "retry", "metrics", "archive"}

\* Vault with everything of a configuration.
DeployedStore ==
  [r \in Resources |->
     IF \E put \in Range(Plan(Deployed)) : put.at = r
     THEN (CHOOSE put \in Range(Plan(Deployed)) : put.at = r).body ELSE EmptyStore[r]]

\* The parts a behaviour is not about are in one of their initial states.
Init ==
  /\ subject \in Subjects
  /\ SmokeInit /\ DeployersIdle /\ RetryInit /\ MetricsInit /\ ArchiveInit
  /\ store = IF subject = "rotation" THEN DeployedStore ELSE EmptyStore
  /\ subject # "rotation" => \A p \in Paths : secrets[p].version = 1
  /\ subject # "retry" => retry = CHOOSE p \in Policies : RetryPolicy(p)
  /\ subject # "archive" => day = [y |-> FirstYear, m |-> 1, d |-> 1]

DeployOnly(choice) ==
  /\ \E d \in Deployers : Deploy(d)
  /\ \A d \in Deployers : cfg'[d] # Absent => cfg'[d] \in choice
  /\ UNCHANGED <<smokeVars, retryVars, metricsVars, archiveVars>>

Next ==
  /\ UNCHANGED subject
  /\ \/ subject = "vault"    /\ DeployOnly({Deployed, Renamed})
     \/ subject = "exchange" /\ DeployOnly(Exchange) /\ runs' <= 2
     \/ subject = "gateway"  /\ DeployOnly(Gateways)
     \/ /\ subject = "smoke"
        /\ SmokeNext
        /\ runs' <= 2 /\ smoke'.expect = {} /\ UNCHANGED secrets
        /\ \E d \in Deployers : \A e \in Deployers \ {d} : phase'[e] = "idle"
        /\ \A d \in Deployers : cfg'[d] # Absent => cfg'[d] \in {Deployed, Renamed}
        /\ smoke'.cfg \notin Exchange
        /\ UNCHANGED <<retryVars, metricsVars, archiveVars>>
     \/ /\ subject = "rotation"
        /\ SmokeNext
        /\ smoke'.cfg \notin Exchange
        /\ UNCHANGED <<deployVars, retryVars, metricsVars, archiveVars>>
     \/ subject = "retry"   /\ RetryNext /\ UNCHANGED <<vaultVars, metricsVars, archiveVars>>
     \/ subject = "metrics" /\ MetricsNext /\ UNCHANGED <<vaultVars, retryVars, archiveVars>>
     \/ subject = "archive" /\ ArchiveNext /\ UNCHANGED <<vaultVars, retryVars, metricsVars>>

Spec == Init /\ [][Next]_<<subject, vaultVars, retryVars, metricsVars, archiveVars>>

\* The types of every part.
TypesOK ==
  /\ subject \in Subjects
  /\ DeployTypeOK /\ SmokeTypeOK /\ RetryTypeOK /\ MetricsTypeOK /\ ArchiveTypeOK

=============================================================================
