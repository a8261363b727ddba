-------------------------- MODULE DeploymentProofs --------------------------
(***************************************************************************)
(* Proofs about Deployment, for any configurations, operators and runs:    *)
(* types; that what a run saved gives back the store it found; that what a *)
(* stored role gives is what its workload is approved for; that a stored   *)
(* route has its upstream; and that a finished run leaves what it put,     *)
(* but for a route that its own last put replaced.                         *)
(*                                                                         *)
(* Roles and routes rest on the order of the puts: nothing is ever removed *)
(* from the store, so it is enough that a run that is past a policy, or    *)
(* past the upstream, has stored it.                                       *)
(***************************************************************************)
EXTENDS Deployment, SequenceTheorems, TLAPS

\* A run that is under way has its configuration and is at one of its puts.
RunIsAtPut(d) ==
  phase[d] # "idle" =>
    /\ cfg[d] \in Plannable
    /\ phase[d] = "snapshot" => at[d] \in DOMAIN Targets(d)
    /\ phase[d] = "apply" => at[d] \in DOMAIN Plan(cfg[d])
    /\ phase[d] = "auth" => withAuth[d]
    /\ withAuth[d] => cfg[d] \in Configs

RunsAreAtPuts == \A d \in Deployers : RunIsAtPut(d)

TInv == DeployTypeOK /\ RunsAreAtPuts

-----------------------------------------------------------------------------
(* Plans and what they save *)

\* A plan of Vault is a sequence of puts, two for each workload.
LEMMA VaultPlan ==
  ASSUME NEW c \in Plannable, c.tool = "vault"
  PROVE  Plan(c) \in Seq(PlannedPuts) /\ Len(Plan(c)) = 2 * N
<1>1. Plan(c) = DeploymentResources(c)
  BY DEF Plan
<1>2. DOMAIN Plan(c) = 1..2 * N /\ 2 * N \in Nat
  BY <1>1, NIsPositive DEF DeploymentResources
<1>3. \A i \in 1..2 * N : Plan(c)[i] \in PlannedPuts
  BY <1>2 DEF PlannedPuts
<1>4. Plan(c) = [i \in 1..2 * N |-> Plan(c)[i]]
  BY <1>1, <1>2 DEF DeploymentResources
<1>5. Plan(c) \in [1..2 * N -> PlannedPuts]
  BY <1>3, <1>4
<1> QED
  BY <1>2, <1>5

\* A plan of the gateway has three puts.
LEMMA GatewayPlan ==
  ASSUME NEW c \in Plannable, c.tool # "vault"
  PROVE  Plan(c) \in Seq(PlannedPuts) /\ Len(Plan(c)) = 3
<1>1. Plan(c) = BuildBundle(c)
  BY DEF Plan
<1>2. DOMAIN Plan(c) = 1..3 /\ Len(Plan(c)) = 3
  BY <1>1 DEF BuildBundle
<1>3. \A i \in 1..3 : Plan(c)[i] \in PlannedPuts
  BY <1>2 DEF PlannedPuts
<1>4. Plan(c) = <<Plan(c)[1], Plan(c)[2], Plan(c)[3]>>
  BY <1>1 DEF BuildBundle
<1>5. Plan(c)[1] \in PlannedPuts /\ Plan(c)[2] \in PlannedPuts /\ Plan(c)[3] \in PlannedPuts
  BY <1>3
<1>6. <<Plan(c)[1], Plan(c)[2], Plan(c)[3]>> \in Seq(PlannedPuts)
  BY <1>5
<1> QED
  BY <1>2, <1>4, <1>6

LEMMA PlanShape ==
  ASSUME NEW c \in Plannable
  PROVE  /\ Plan(c) \in Seq(PlannedPuts)
         /\ Len(Plan(c)) \in Nat \ {0}
         /\ DOMAIN Plan(c) = 1..Len(Plan(c))
         /\ \A i \in DOMAIN Plan(c) : Plan(c)[i].at \in Resources /\ Plan(c)[i].body \in Bodies
<1>1. Plan(c) \in Seq(PlannedPuts) /\ Len(Plan(c)) \in Nat \ {0}
  <2>1. CASE c.tool = "vault"
    <3>1. Plan(c) \in Seq(PlannedPuts) /\ Len(Plan(c)) = 2 * N
      BY <2>1, VaultPlan
    <3>2. 2 * N \in Nat \ {0}
      BY NIsPositive
    <3> QED
      BY <3>1, <3>2
  <2>2. CASE c.tool # "vault"
    BY <2>2, GatewayPlan
  <2> QED
    BY <2>1, <2>2
<1>2. DOMAIN Plan(c) = 1..Len(Plan(c))
  BY <1>1, LenProperties
<1>3. \A i \in DOMAIN Plan(c) : Plan(c)[i] \in PlannedPuts
  BY DEF PlannedPuts
<1> QED
  BY <1>1, <1>2, <1>3 DEF Resources, Bodies

\* A run saves every resource that it is going to write.
LEMMA TargetsShape ==
  ASSUME NEW d \in Deployers, cfg[d] \in Plannable
  PROVE  /\ Targets(d) \in Seq(Resources)
         /\ Len(Targets(d)) \in Nat \ {0}
         /\ DOMAIN Targets(d) = 1..Len(Targets(d))
         /\ \A i \in DOMAIN Plan(cfg[d]) :
              i \in DOMAIN Targets(d) /\ Targets(d)[i] = Plan(cfg[d])[i].at
         /\ withAuth[d] => \E i \in DOMAIN Targets(d) : Targets(d)[i] = AuthAt
<1> DEFINE P == Plan(cfg[d])
           S == [i \in DOMAIN P |-> P[i].at]
           A == IF withAuth[d] THEN <<AuthAt>> ELSE <<>>
<1>1. /\ DOMAIN P = 1..Len(P) /\ Len(P) \in Nat \ {0}
      /\ \A i \in DOMAIN P : P[i].at \in Resources
  BY PlanShape
<1>2. S \in Seq(Resources) /\ Len(S) = Len(P)
  <2>1. S \in [1..Len(P) -> Resources]
    BY <1>1
  <2> HIDE DEF P
  <2> QED
    BY <1>1, <2>1
<1>3. AuthAt \in Resources
  BY DEF Resources
<1>4. A \in Seq(Resources) /\ Len(A) \in Nat
  BY <1>3
<1>5. withAuth[d] => Len(A) = 1 /\ A[1] = AuthAt
  OBVIOUS
<1>6. Targets(d) = S \o A
  BY DEF Targets
<1> HIDE DEF P, A
<1>7. DOMAIN S = 1..Len(P)
  BY <1>1
<1>8. \A i \in 1..Len(P) : S[i] = P[i].at
  BY <1>7
<1> HIDE DEF S
<1>9. /\ S \o A \in Seq(Resources)
      /\ Len(S \o A) = Len(S) + Len(A)
      /\ \A i \in 1..Len(S) + Len(A) : (S \o A)[i] = IF i <= Len(S) THEN S[i] ELSE A[i - Len(S)]
  BY <1>2, <1>4, ConcatProperties
<1>10. DOMAIN Targets(d) = 1..Len(Targets(d)) /\ Len(Targets(d)) = Len(P) + Len(A)
  BY <1>2, <1>6, <1>9, LenProperties
<1>11. \A i \in DOMAIN P : i \in DOMAIN Targets(d) /\ Targets(d)[i] = P[i].at
  <2> TAKE i \in DOMAIN P
  <2>1. i \in 1..Len(P) /\ i \in 1..Len(S) + Len(A) /\ i <= Len(S)
    BY <1>1, <1>2, <1>4
  <2> QED
    BY <1>2, <1>6, <1>8, <1>9, <1>10, <2>1
<1>12. ASSUME withAuth[d]
       PROVE  \E i \in DOMAIN Targets(d) : Targets(d)[i] = AuthAt
  <2> DEFINE last == Len(P) + 1
  <2>0. Len(A) = 1 /\ A[1] = AuthAt
    BY <1>5, <1>12
  <2>1. last \in 1..Len(S) + Len(A) /\ ~(last <= Len(S)) /\ last - Len(S) = 1
    BY <1>1, <1>2, <2>0
  <2> HIDE DEF last
  <2>2. (S \o A)[last] = A[1]
    BY <1>9, <2>1
  <2>3. last \in DOMAIN Targets(d)
    BY <1>2, <1>10, <2>1
  <2> QED
    BY <1>6, <2>0, <2>2, <2>3
<1> QED
  BY <1>1, <1>4, <1>6, <1>9, <1>10, <1>11, <1>12 DEF P

-----------------------------------------------------------------------------
(* Types *)

\* While nobody deploys, types are those of the store.
LEMMA IdleTypes ==
  ASSUME DeployersIdle, store \in [Resources -> Bodies \union {Absent}]
  PROVE  TInv
<1> USE DEF DeployersIdle
<1>1. backup \in [Deployers -> [Resources -> Bodies \union {Absent, Unsaved}]]
  BY DEF NothingSaved
<1>2. DeployTypeOK
  BY <1>1, RunsNatural DEF DeployTypeOK
<1>3. RunsAreAtPuts
  BY DEF RunsAreAtPuts, RunIsAtPut
<1> QED
  BY <1>2, <1>3 DEF TInv

\* What may be stored as the auth configuration.
LEMMA AuthStored ==
  /\ AuthAt \in Resources
  /\ FirstAuth \in Bodies
  /\ \A c \in Configs : \A ca \in CaFiles : AuthConfig(c, ca) \in Bodies
<1>1. FirstAuth \in AuthBodies
  BY DEF AuthBodies
<1>2. ASSUME NEW c \in Configs, NEW ca \in CaFiles
      PROVE  AuthConfig(c, ca) \in AuthBodies
  <2> DEFINE bodies(e) == {AuthConfig(e, f) : f \in CaFiles}
  <2>1. AuthConfig(c, ca) \in bodies(c)
    OBVIOUS
  <2>2. bodies(c) \in {bodies(e) : e \in Configs}
    OBVIOUS
  <2> QED
    BY <2>1, <2>2 DEF AuthBodies
<1> QED
  BY <1>1, <1>2 DEF Resources, Bodies

LEMMA EmptyStoreTyped == EmptyStore \in [Resources -> Bodies \union {Absent}]
BY AuthStored DEF EmptyStore

LEMMA InitTypes == DeployInit => TInv
BY IdleTypes, EmptyStoreTyped DEF DeployInit

\* A run stays where it is, and so does its plan, in the steps of the others.
LEMMA OthersStay ==
  ASSUME DeployTypeOK, NEW d \in Deployers, NEW e \in Deployers, e # d, Deploy(d)
  PROVE  /\ cfg'[e] = cfg[e] /\ withAuth'[e] = withAuth[e]
         /\ phase'[e] = phase[e] /\ at'[e] = at[e]
<1> USE DEF DeployTypeOK
<1>1. CASE DeployVault(d) \/ DeployGateway(d)
  BY <1>1 DEF DeployVault, DeployGateway, Begin
<1>2. CASE Preflight(d)
  BY <1>2 DEF Preflight, GoTo
<1>3. CASE Snapshot(d)
  BY <1>3 DEF Snapshot, GoTo
<1>4. CASE ApplyAuthConfig(d)
  BY <1>4 DEF ApplyAuthConfig, GoTo
<1>5. CASE Apply(d)
  BY <1>5 DEF Apply, EndRun
<1>6. CASE Unanswered(d) \/ Stop(d)
  BY <1>6 DEF Unanswered, Stop, EndRun
<1> QED
  BY <1>1, <1>2, <1>3, <1>4, <1>5, <1>6 DEF Deploy

\* What a run writes is a body for a resource.
LEMMA WrittenTypes ==
  ASSUME TInv, NEW d \in Deployers
  PROVE  /\ phase[d] = "auth" => AuthAt \in Resources /\ \A ca \in CaFiles : AuthConfig(cfg[d], ca) \in Bodies
         /\ phase[d] = "apply" =>
              Plan(cfg[d])[at[d]].at \in Resources /\ Plan(cfg[d])[at[d]].body \in Bodies
<1>1. RunIsAtPut(d)
  BY DEF TInv, RunsAreAtPuts
<1>2. ASSUME phase[d] = "auth"
      PROVE  AuthAt \in Resources /\ \A ca \in CaFiles : AuthConfig(cfg[d], ca) \in Bodies
  BY <1>1, <1>2, AuthStored DEF RunIsAtPut
<1>3. ASSUME phase[d] = "apply"
      PROVE  Plan(cfg[d])[at[d]].at \in Resources /\ Plan(cfg[d])[at[d]].body \in Bodies
  <2>1. cfg[d] \in Plannable /\ at[d] \in DOMAIN Plan(cfg[d])
    BY <1>1, <1>3 DEF RunIsAtPut
  <2> QED
    BY <2>1, PlanShape
<1> QED
  BY <1>2, <1>3

LEMMA WriteTypes ==
  ASSUME DeployTypeOK, NEW d \in Deployers, NEW r \in Resources, NEW b \in Bodies, Write(d, r, b)
  PROVE  /\ store' \in [Resources -> Bodies \union {Absent}]
         /\ backup' \in [Deployers -> [Resources -> Bodies \union {Absent, Unsaved}]]
         /\ before' \in [Deployers -> [Resources -> Bodies \union {Absent}] \union {NoStore}]
<1> USE DEF DeployTypeOK, Write
<1>1. store' \in [Resources -> Bodies \union {Absent}]
  OBVIOUS
<1>2. NothingSaved \in [Resources -> Bodies \union {Absent, Unsaved}]
  BY DEF NothingSaved
<1>3. backup' \in [Deployers -> [Resources -> Bodies \union {Absent, Unsaved}]]
  BY <1>2
<1>4. before' \in [Deployers -> [Resources -> Bodies \union {Absent}] \union {NoStore}]
  OBVIOUS
<1> QED
  BY <1>1, <1>3, <1>4

LEMMA EndRunTypes ==
  ASSUME DeployTypeOK, NEW d \in Deployers, EndRun(d)
  PROVE  /\ cfg' \in [Deployers -> Plannable \union {Absent}]
         /\ withAuth' \in [Deployers -> BOOLEAN]
         /\ phase' \in [Deployers -> {"idle", "preflight", "snapshot", "auth", "apply"}]
         /\ at' \in [Deployers -> Nat \ {0}]
         /\ runs' \in 0..MaxRuns
<1>1. cfg' \in [Deployers -> Plannable \union {Absent}]
  BY DEF DeployTypeOK, EndRun
<1>2. withAuth' \in [Deployers -> BOOLEAN]
  BY DEF DeployTypeOK, EndRun
<1>3. /\ phase' \in [Deployers -> {"idle", "preflight", "snapshot", "auth", "apply"}]
      /\ at' \in [Deployers -> Nat \ {0}]
      /\ runs' \in 0..MaxRuns
  BY DEF DeployTypeOK, EndRun
<1> QED
  BY <1>1, <1>2, <1>3

LEMMA StepTypes ==
  ASSUME TInv, NEW d \in Deployers, Deploy(d)
  PROVE  DeployTypeOK'
<1>0. DeployTypeOK /\ RunIsAtPut(d)
  BY DEF TInv, RunsAreAtPuts
<1>1. CASE DeployVault(d) \/ DeployGateway(d)
  <2>1. PICK c, include : /\ Begin(d, c, include)
                          /\ c \in Plannable /\ include \in BOOLEAN
    BY <1>1 DEF DeployVault, DeployGateway, Plannable
  <2> QED
    BY <1>0, <2>1, RunsNatural DEF DeployTypeOK, Begin, saved
<1>2. CASE Preflight(d)
  <2>1. NothingSaved \in [Resources -> Bodies \union {Absent, Unsaved}]
    BY DEF NothingSaved
  <2> QED
    BY <1>0, <1>2, <2>1 DEF DeployTypeOK, Preflight, GoTo
<1>3. CASE Snapshot(d)
  <2>1. cfg[d] \in Plannable /\ at[d] \in DOMAIN Targets(d)
    BY <1>0, <1>3 DEF Snapshot, RunIsAtPut
  <2>2. Targets(d)[at[d]] \in Resources
    BY <2>1, TargetsShape, ElementOfSeq
  <2>3. backup' \in [Deployers -> [Resources -> Bodies \union {Absent, Unsaved}]]
    BY <1>0, <1>3, <2>2 DEF DeployTypeOK, Snapshot
  <2>4. cfg' = cfg /\ withAuth' = withAuth /\ runs' = runs
    BY <1>3 DEF Snapshot, GoTo
  <2>5. /\ phase' \in [Deployers -> {"idle", "preflight", "snapshot", "auth", "apply"}]
        /\ at' \in [Deployers -> Nat \ {0}]
    <3>1. CASE at' = [at EXCEPT ![d] = @ + 1] /\ phase' = phase
      <4>1. \A e \in Deployers : at[e] + 1 \in Nat \ {0}
        BY <1>0 DEF DeployTypeOK
      <4> QED
        BY <1>0, <3>1, <4>1 DEF DeployTypeOK
    <3>2. CASE GoTo(d, IF withAuth[d] THEN "auth" ELSE "apply")
      <4>1. (IF withAuth[d] THEN "auth" ELSE "apply") \in {"auth", "apply"}
        OBVIOUS
      <4> QED
        BY <1>0, <3>2, <4>1 DEF DeployTypeOK, GoTo
    <3> QED
      BY <1>3, <3>1, <3>2 DEF Snapshot
  <2> QED
    BY <1>0, <1>3, <2>3, <2>4, <2>5 DEF DeployTypeOK, Snapshot
<1>4. CASE ApplyAuthConfig(d)
  <2>1. PICK ca \in CaFiles : /\ Write(d, AuthAt, AuthConfig(cfg[d], ca))
                             /\ AuthAt \in Resources /\ AuthConfig(cfg[d], ca) \in Bodies
    BY <1>4, WrittenTypes DEF ApplyAuthConfig, WriteAuth
  <2> QED
    BY <1>0, <1>4, <2>1, WriteTypes DEF DeployTypeOK, ApplyAuthConfig, GoTo
<1>5. CASE Apply(d)
  <2> DEFINE put == Plan(cfg[d])[at[d]]
  <2>1. Write(d, put.at, put.body) /\ put.at \in Resources /\ put.body \in Bodies
    BY <1>5, WrittenTypes DEF Apply
  <2>2. /\ store' \in [Resources -> Bodies \union {Absent}]
        /\ backup' \in [Deployers -> [Resources -> Bodies \union {Absent, Unsaved}]]
        /\ before' \in [Deployers -> [Resources -> Bodies \union {Absent}] \union {NoStore}]
    BY <1>0, <2>1, WriteTypes
  <2>3. CASE at' = [at EXCEPT ![d] = @ + 1] /\ UNCHANGED <<cfg, withAuth, phase, runs>>
    <3>1. \A e \in Deployers : at[e] + 1 \in Nat \ {0}
      BY <1>0 DEF DeployTypeOK
    <3>2. at' \in [Deployers -> Nat \ {0}]
      BY <1>0, <2>3, <3>1 DEF DeployTypeOK
    <3> QED
      BY <1>0, <2>2, <2>3, <3>2 DEF DeployTypeOK
  <2>4. CASE EndRun(d)
    BY <1>0, <2>2, <2>4, EndRunTypes DEF DeployTypeOK
  <2> QED
    BY <1>5, <2>3, <2>4 DEF Apply
<1>6. CASE Unanswered(d)
  <2> DEFINE put == Plan(cfg[d])[at[d]]
  <2>1. /\ store' \in [Resources -> Bodies \union {Absent}]
        /\ backup' \in [Deployers -> [Resources -> Bodies \union {Absent, Unsaved}]]
        /\ before' \in [Deployers -> [Resources -> Bodies \union {Absent}] \union {NoStore}]
    <3>1. CASE phase[d] = "auth" /\ WriteAuth(d)
      <4>1. PICK ca \in CaFiles : /\ Write(d, AuthAt, AuthConfig(cfg[d], ca))
                                 /\ AuthAt \in Resources /\ AuthConfig(cfg[d], ca) \in Bodies
        BY <3>1, WrittenTypes DEF WriteAuth
      <4> QED
        BY <1>0, <4>1, WriteTypes
    <3>2. CASE phase[d] = "apply" /\ Write(d, put.at, put.body)
      BY <1>0, <3>2, WrittenTypes, WriteTypes
    <3> QED
      BY <1>6, <3>1, <3>2 DEF Unanswered
  <2> QED
    BY <1>0, <1>6, <2>1, EndRunTypes DEF DeployTypeOK, Unanswered
<1>7. CASE Stop(d)
  BY <1>0, <1>7 DEF DeployTypeOK, Stop, EndRun, saved
<1> QED
  BY <1>1, <1>2, <1>3, <1>4, <1>5, <1>6, <1>7 DEF Deploy

LEMMA StepRuns ==
  ASSUME TInv, NEW d \in Deployers, Deploy(d)
  PROVE  RunIsAtPut(d)'
<1>0. DeployTypeOK /\ RunIsAtPut(d)
  BY DEF TInv, RunsAreAtPuts
<1>1. CASE DeployVault(d) \/ DeployGateway(d)
  <2>1. PICK c, include : /\ Begin(d, c, include) /\ c \in Plannable
                          /\ include => c \in Configs
    BY <1>1 DEF DeployVault, DeployGateway, Plannable
  <2> QED
    BY <1>0, <2>1 DEF DeployTypeOK, Begin, RunIsAtPut
<1>2. CASE Preflight(d)
  <2>1. cfg[d] \in Plannable
    BY <1>0, <1>2 DEF Preflight, RunIsAtPut
  <2>2. 1 \in DOMAIN Targets(d)
    BY <2>1, TargetsShape
  <2>3. Targets(d)' = Targets(d)
    BY <1>2 DEF Preflight, GoTo, Targets
  <2> QED
    BY <1>0, <1>2, <2>2, <2>3 DEF DeployTypeOK, Preflight, GoTo, RunIsAtPut
<1>3. CASE Snapshot(d)
  <2>1. cfg[d] \in Plannable /\ at[d] \in DOMAIN Targets(d) /\ withAuth[d] \in BOOLEAN
    BY <1>0, <1>3 DEF Snapshot, RunIsAtPut, DeployTypeOK
  <2>2. Targets(d)' = Targets(d) /\ Plan(cfg[d])' = Plan(cfg[d])
    BY <1>3 DEF Snapshot, GoTo, Targets
  <2>3. CASE at[d] < Len(Targets(d)) /\ at' = [at EXCEPT ![d] = @ + 1]
               /\ UNCHANGED <<cfg, withAuth, phase, runs>>
    <3>1. at[d] + 1 \in DOMAIN Targets(d)
      BY <1>0, <2>1, <2>3, TargetsShape DEF DeployTypeOK
    <3> QED
      BY <1>0, <1>3, <2>2, <2>3, <3>1 DEF DeployTypeOK, Snapshot, RunIsAtPut
  <2>4. CASE GoTo(d, IF withAuth[d] THEN "auth" ELSE "apply")
    <3>1. 1 \in DOMAIN Plan(cfg[d])
      BY <2>1, PlanShape
    <3> QED
      BY <1>0, <1>3, <2>1, <2>2, <2>4, <3>1 DEF DeployTypeOK, Snapshot, GoTo, RunIsAtPut
  <2> QED
    BY <1>3, <2>3, <2>4 DEF Snapshot
<1>4. CASE ApplyAuthConfig(d)
  <2>1. cfg[d] \in Plannable
    BY <1>0, <1>4 DEF ApplyAuthConfig, RunIsAtPut
  <2>2. 1 \in DOMAIN Plan(cfg[d])
    BY <2>1, PlanShape
  <2> QED
    BY <1>0, <1>4, <2>2 DEF DeployTypeOK, ApplyAuthConfig, GoTo, RunIsAtPut
<1>5. CASE Apply(d)
  <2>1. CASE at[d] < Len(Plan(cfg[d])) /\ at' = [at EXCEPT ![d] = @ + 1]
               /\ UNCHANGED <<cfg, withAuth, phase, runs>>
    <3>1. cfg[d] \in Plannable /\ at[d] \in DOMAIN Plan(cfg[d])
      BY <1>0, <1>5 DEF Apply, RunIsAtPut
    <3>2. at[d] + 1 \in DOMAIN Plan(cfg[d])
      BY <1>0, <2>1, <3>1, PlanShape DEF DeployTypeOK
    <3> QED
      BY <1>0, <1>5, <2>1, <3>2 DEF DeployTypeOK, Apply, RunIsAtPut
  <2>2. CASE EndRun(d)
    BY <1>0, <2>2 DEF DeployTypeOK, EndRun, RunIsAtPut
  <2> QED
    BY <1>5, <2>1, <2>2 DEF Apply
<1>6. CASE Unanswered(d) \/ Stop(d)
  BY <1>0, <1>6 DEF DeployTypeOK, Unanswered, Stop, EndRun, RunIsAtPut
<1> QED
  BY <1>1, <1>2, <1>3, <1>4, <1>5, <1>6 DEF Deploy

LEMMA TypesInductive == TInv /\ [DeployNext]_deployVars => TInv'
<1> SUFFICES ASSUME TInv, [DeployNext]_deployVars PROVE TInv'
  OBVIOUS
<1>1. CASE UNCHANGED deployVars
  BY <1>1 DEF TInv, RunsAreAtPuts, RunIsAtPut, DeployTypeOK, Targets, deployVars, run, saved
<1>2. ASSUME NEW d \in Deployers, Deploy(d)
      PROVE  TInv'
  <2>1. DeployTypeOK'
    BY <1>2, StepTypes
  <2>2. ASSUME NEW e \in Deployers
        PROVE  RunIsAtPut(e)'
    <3>1. CASE e = d
      BY <1>2, <3>1, StepRuns
    <3>2. CASE e # d
      <4>1. /\ cfg'[e] = cfg[e] /\ withAuth'[e] = withAuth[e]
            /\ phase'[e] = phase[e] /\ at'[e] = at[e]
        BY <1>2, <3>2, OthersStay DEF TInv
      <4>2. Targets(e)' = Targets(e)
        BY <4>1 DEF Targets
      <4> QED
        BY <4>1, <4>2 DEF TInv, RunsAreAtPuts, RunIsAtPut
    <3> QED
      BY <3>1, <3>2
  <2> QED
    BY <2>1, <2>2 DEF TInv, RunsAreAtPuts
<1> QED
  BY <1>1, <1>2 DEF DeployNext

\* Every state of the deployments has the types of Deployment, and every run
\* stands at a resource of its plan.
THEOREM DeployTypes == DeploySpec => []TInv
<1> QED
  BY InitTypes, TypesInductive, PTL DEF DeploySpec

\* The types alone, as the runs check them.
THEOREM DeployTypeOKHolds == DeploySpec => []DeployTypeOK
<1>1. TInv => DeployTypeOK
  BY DEF TInv
<1> QED
  BY <1>1, DeployTypes, PTL

-----------------------------------------------------------------------------
(* What a run saved gives back the store it found *)

\* What is in the backup is what was found; what is not is still in the store.
\* A run that saves has not written yet, and one that writes saved everything.
Recoverable(d) ==
  before[d] # NoStore =>
    /\ \A r \in Resources : backup[d][r] = Unsaved => store[r] = before[d][r]
    /\ \A r \in Resources : backup[d][r] # Unsaved => backup[d][r] = before[d][r]
    /\ phase[d] = "snapshot" =>
         /\ store = before[d]
         /\ \A i \in DOMAIN Targets(d) : i < at[d] => backup[d][Targets(d)[i]] # Unsaved
    /\ phase[d] \in {"auth", "apply"} =>
         \A i \in DOMAIN Targets(d) : backup[d][Targets(d)[i]] # Unsaved

AllRecoverable == \A d \in Deployers : Recoverable(d)

\* A run writes what it has saved.
LEMMA WrittenWasSaved ==
  ASSUME TInv, NEW d \in Deployers, Recoverable(d), before[d] # NoStore
  PROVE  /\ phase[d] = "auth" => backup[d][AuthAt] # Unsaved
         /\ phase[d] = "apply" => backup[d][Plan(cfg[d])[at[d]].at] # Unsaved
<1>1. RunIsAtPut(d)
  BY DEF TInv, RunsAreAtPuts
<1>2. ASSUME phase[d] = "auth"
      PROVE  backup[d][AuthAt] # Unsaved
  <2>1. cfg[d] \in Plannable /\ withAuth[d]
    BY <1>1, <1>2 DEF RunIsAtPut
  <2>2. PICK i \in DOMAIN Targets(d) : Targets(d)[i] = AuthAt
    BY <2>1, TargetsShape
  <2> QED
    BY <1>2, <2>2 DEF Recoverable
<1>3. ASSUME phase[d] = "apply"
      PROVE  backup[d][Plan(cfg[d])[at[d]].at] # Unsaved
  <2>1. cfg[d] \in Plannable /\ at[d] \in DOMAIN Plan(cfg[d])
    BY <1>1, <1>3 DEF RunIsAtPut
  <2>2. at[d] \in DOMAIN Targets(d) /\ Targets(d)[at[d]] = Plan(cfg[d])[at[d]].at
    BY <2>1, TargetsShape
  <2> QED
    BY <1>3, <2>2 DEF Recoverable
<1> QED
  BY <1>2, <1>3

\* A write changes only what was saved, and the run does not save any more.
LEMMA WriteRecoverable ==
  ASSUME TInv, NEW d \in Deployers, Recoverable(d), NEW r, NEW b, Write(d, r, b),
         before[d] # NoStore => backup[d][r] # Unsaved,
         phase[d] \in {"auth", "apply"},
         \/ phase'[d] = "idle"
         \/ phase'[d] = "apply" /\ cfg'[d] = cfg[d] /\ withAuth'[d] = withAuth[d]
  PROVE  Recoverable(d)'
<1>1. before'[d] = before[d] /\ backup'[d] = backup[d]
  BY DEF TInv, DeployTypeOK, Write
<1>2. \A s \in Resources : s # r => store'[s] = store[s]
  BY DEF TInv, DeployTypeOK, Write
<1>3. CASE phase'[d] = "idle"
  BY <1>1, <1>2, <1>3 DEF Recoverable
<1>4. CASE phase'[d] = "apply" /\ cfg'[d] = cfg[d] /\ withAuth'[d] = withAuth[d]
  <2>1. Targets(d)' = Targets(d)
    BY <1>4 DEF Targets
  <2> QED
    BY <1>1, <1>2, <1>4, <2>1 DEF Recoverable
<1> QED
  BY <1>3, <1>4

LEMMA StepRecoverable ==
  ASSUME TInv, NEW d \in Deployers, Recoverable(d), Deploy(d)
  PROVE  Recoverable(d)'
<1>0. DeployTypeOK /\ RunIsAtPut(d)
  BY DEF TInv, RunsAreAtPuts
<1>1. CASE DeployVault(d) \/ DeployGateway(d)
  <2>1. PICK c, include : Begin(d, c, include)
    BY <1>1 DEF DeployVault, DeployGateway
  <2> QED
    BY <1>0, <2>1 DEF DeployTypeOK, Begin, saved, Recoverable
<1>2. CASE Preflight(d)
  <2>1. /\ phase'[d] = "snapshot" /\ at'[d] = 1 /\ store' = store
        /\ before'[d] = store /\ backup'[d] = NothingSaved
    BY <1>0, <1>2 DEF DeployTypeOK, Preflight, GoTo
  <2>2. cfg[d] \in Plannable /\ Targets(d)' = Targets(d)
    BY <1>0, <1>2 DEF Preflight, GoTo, Targets, RunIsAtPut
  <2>3. \A i \in DOMAIN Targets(d) : ~(i < 1)
    BY <2>2, TargetsShape
  <2>4. \A r \in Resources : NothingSaved[r] = Unsaved
    BY DEF NothingSaved
  <2> QED
    BY <2>1, <2>2, <2>3, <2>4 DEF Recoverable
<1>3. CASE Snapshot(d)
  <2> SUFFICES ASSUME before'[d] # NoStore PROVE Recoverable(d)'
    BY DEF Recoverable
  <2> DEFINE r == Targets(d)[at[d]]
  <2>1. /\ before'[d] = before[d] /\ store' = store /\ store = before[d] /\ phase[d] = "snapshot"
    BY <1>3 DEF Snapshot, Recoverable
  <2>2. cfg[d] \in Plannable /\ at[d] \in DOMAIN Targets(d)
    BY <1>0, <2>1 DEF RunIsAtPut
  <2>3. r \in Resources
    BY <2>2, TargetsShape, ElementOfSeq
  <2>4. /\ backup'[d][r] = store[r]
        /\ \A s \in Resources : s # r => backup'[d][s] = backup[d][s]
    BY <1>0, <1>3, <2>1, <2>3 DEF DeployTypeOK, Snapshot
  <2>5. store[r] # Unsaved
    BY <1>0, <2>3, MarkersAreNone DEF DeployTypeOK
  <2>6. \A i \in DOMAIN Targets(d) : i <= at[d] => backup'[d][Targets(d)[i]] # Unsaved
    <3>1. \A i \in DOMAIN Targets(d) : Targets(d)[i] \in Resources /\ i \in Nat
      BY <2>2, TargetsShape, ElementOfSeq
    <3>2. \A i \in DOMAIN Targets(d) : i < at[d] => backup[d][Targets(d)[i]] # Unsaved
      BY <2>1 DEF Recoverable
    <3>3. \A i \in DOMAIN Targets(d) : i <= at[d] => i < at[d] \/ i = at[d]
      BY <1>0, <2>2, <3>1 DEF DeployTypeOK
    <3> QED
      BY <2>4, <2>5, <3>1, <3>2, <3>3
  <2>7. Targets(d)' = Targets(d)
    BY <1>3 DEF Snapshot, GoTo, Targets
  <2>8. /\ \A s \in Resources : backup'[d][s] = Unsaved => store'[s] = before'[d][s]
        /\ \A s \in Resources : backup'[d][s] # Unsaved => backup'[d][s] = before'[d][s]
    BY <2>1, <2>3, <2>4, <2>5 DEF Recoverable
  <2>9. CASE at[d] < Len(Targets(d)) /\ at' = [at EXCEPT ![d] = @ + 1]
               /\ UNCHANGED <<cfg, withAuth, phase, runs>>
    <3>1. phase'[d] = "snapshot" /\ at'[d] = at[d] + 1
      BY <1>0, <2>1, <2>9 DEF DeployTypeOK
    <3>2. \A i \in DOMAIN Targets(d) : i < at[d] + 1 => i <= at[d]
      BY <1>0, <2>2, TargetsShape DEF DeployTypeOK
    <3> QED
      BY <2>1, <2>6, <2>7, <2>8, <3>1, <3>2 DEF Recoverable
  <2>10. CASE at[d] = Len(Targets(d)) /\ GoTo(d, IF withAuth[d] THEN "auth" ELSE "apply")
    <3>1. phase'[d] # "snapshot"
      BY <1>0, <2>10 DEF DeployTypeOK, GoTo
    <3>2. \A i \in DOMAIN Targets(d) : i <= at[d]
      BY <2>2, <2>10, TargetsShape
    <3> QED
      BY <2>6, <2>7, <2>8, <3>1, <3>2 DEF Recoverable
  <2> QED
    BY <1>3, <2>9, <2>10 DEF Snapshot
<1>4. CASE ApplyAuthConfig(d)
  <2>1. PICK ca \in CaFiles : Write(d, AuthAt, AuthConfig(cfg[d], ca)) /\ phase[d] = "auth"
    BY <1>4 DEF ApplyAuthConfig, WriteAuth
  <2>2. phase'[d] = "apply" /\ cfg'[d] = cfg[d] /\ withAuth'[d] = withAuth[d]
    BY <1>0, <1>4 DEF DeployTypeOK, ApplyAuthConfig, GoTo
  <2> QED
    BY <2>1, <2>2, WrittenWasSaved, WriteRecoverable
<1>5. CASE Apply(d)
  <2> DEFINE put == Plan(cfg[d])[at[d]]
  <2>1. Write(d, put.at, put.body) /\ phase[d] = "apply"
    BY <1>5 DEF Apply
  <2>2. \/ phase'[d] = "idle"
        \/ phase'[d] = "apply" /\ cfg'[d] = cfg[d] /\ withAuth'[d] = withAuth[d]
    BY <1>0, <1>5 DEF DeployTypeOK, Apply, EndRun
  <2> HIDE DEF put
  <2>3. before[d] # NoStore => backup[d][put.at] # Unsaved
    BY <2>1, WrittenWasSaved DEF put
  <2> QED
    BY <2>1, <2>2, <2>3, WriteRecoverable
<1>6. CASE Unanswered(d)
  <2> DEFINE put == Plan(cfg[d])[at[d]]
  <2>1. phase'[d] = "idle"
    BY <1>0, <1>6 DEF DeployTypeOK, Unanswered, EndRun
  <2>2. CASE phase[d] = "auth" /\ WriteAuth(d)
    <3>1. PICK ca \in CaFiles : Write(d, AuthAt, AuthConfig(cfg[d], ca))
      BY <2>2 DEF WriteAuth
    <3> QED
      BY <2>1, <2>2, <3>1, WrittenWasSaved, WriteRecoverable
  <2>3. CASE phase[d] = "apply" /\ Write(d, put.at, put.body)
    <3>1. before[d] # NoStore => backup[d][put.at] # Unsaved
      BY <2>3, WrittenWasSaved
    <3> HIDE DEF put
    <3> QED
      BY <2>1, <2>3, <3>1, WriteRecoverable
  <2> QED
    BY <1>6, <2>2, <2>3 DEF Unanswered
<1>7. CASE Stop(d)
  BY <1>0, <1>7 DEF DeployTypeOK, Stop, EndRun, saved, Recoverable
<1> QED
  BY <1>1, <1>2, <1>3, <1>4, <1>5, <1>6, <1>7 DEF Deploy

\* The step of another run either writes, and the backup is followed no more,
\* or leaves alone all that the backup is about.
LEMMA OthersRecoverable ==
  ASSUME TInv, NEW d \in Deployers, NEW e \in Deployers, e # d, Recoverable(e), Deploy(d)
  PROVE  Recoverable(e)'
<1>0. DeployTypeOK
  BY DEF TInv
<1>1. /\ cfg'[e] = cfg[e] /\ withAuth'[e] = withAuth[e]
      /\ phase'[e] = phase[e] /\ at'[e] = at[e]
  BY <1>0, OthersStay
<1>2. Targets(e)' = Targets(e)
  BY <1>1 DEF Targets
<1>3. ASSUME NEW r, NEW b, Write(d, r, b)
      PROVE  before'[e] = NoStore
  BY <1>0, <1>3 DEF DeployTypeOK, Write
<1>4. CASE ApplyAuthConfig(d) \/ Apply(d) \/ Unanswered(d)
  <2>1. before'[e] = NoStore
    BY <1>3, <1>4 DEF ApplyAuthConfig, Apply, Unanswered, WriteAuth
  <2> QED
    BY <2>1 DEF Recoverable
<1>5. CASE DeployVault(d) \/ DeployGateway(d) \/ Preflight(d) \/ Snapshot(d) \/ Stop(d)
  <2>1. store' = store /\ before'[e] = before[e]
    BY <1>0, <1>5 DEF DeployTypeOK, DeployVault, DeployGateway, Begin, Preflight, Snapshot, Stop, saved
  <2>2. backup'[e] = backup[e]
    BY <1>0, <1>5 DEF DeployTypeOK, DeployVault, DeployGateway, Begin, Preflight, Snapshot, Stop, saved
  <2> QED
    BY <1>1, <1>2, <2>1, <2>2 DEF Recoverable
<1> QED
  BY <1>4, <1>5 DEF Deploy

LEMMA InitRecoverable == DeployInit => AllRecoverable
<1> SUFFICES ASSUME DeployInit, NEW d \in Deployers PROVE Recoverable(d)
  BY DEF AllRecoverable
<1>1. before[d] = NoStore
  BY DEF DeployInit, DeployersIdle
<1> QED
  BY <1>1 DEF Recoverable

LEMMA RecoverableInductive ==
  TInv /\ AllRecoverable /\ [DeployNext]_deployVars => AllRecoverable'
<1> SUFFICES ASSUME TInv, AllRecoverable, [DeployNext]_deployVars PROVE AllRecoverable'
  OBVIOUS
<1>1. CASE UNCHANGED deployVars
  BY <1>1 DEF AllRecoverable, Recoverable, Targets, deployVars, run, saved
<1>2. ASSUME NEW d \in Deployers, Deploy(d)
      PROVE  AllRecoverable'
  <2>1. ASSUME NEW e \in Deployers
        PROVE  Recoverable(e)'
    <3>1. Recoverable(e)
      BY DEF AllRecoverable
    <3>2. CASE e = d
      BY <1>2, <3>1, <3>2, StepRecoverable
    <3>3. CASE e # d
      BY <1>2, <3>1, <3>3, OthersRecoverable
    <3> QED
      BY <3>2, <3>3
  <2> QED
    BY <2>1 DEF AllRecoverable
<1> QED
  BY <1>1, <1>2 DEF DeployNext

LEMMA BackupGivesStoreBack == TInv /\ AllRecoverable => StoppedIsRecoverable
<1> SUFFICES ASSUME TInv, AllRecoverable, NEW d \in Deployers, before[d] # NoStore
             PROVE  before[d] = [r \in Resources |-> IF backup[d][r] = Unsaved THEN store[r] ELSE backup[d][r]]
  BY DEF StoppedIsRecoverable
<1>1. before[d] \in [Resources -> Bodies \union {Absent}]
  BY DEF TInv, DeployTypeOK
<1>2. \A r \in Resources : before[d][r] = IF backup[d][r] = Unsaved THEN store[r] ELSE backup[d][r]
  BY DEF AllRecoverable, Recoverable
<1> QED
  BY <1>1, <1>2

\* However far a deployment got, and however many are under way, what a run
\* saved gives back the store it found, unless somebody else has written since.
THEOREM StoppedIsRecoverableHolds == DeploySpec => []StoppedIsRecoverable
<1>1. DeploySpec => []AllRecoverable
  BY DeployTypes, InitRecoverable, RecoverableInductive, PTL DEF DeploySpec
<1> QED
  BY <1>1, DeployTypes, BackupGivesStoreBack, PTL

-----------------------------------------------------------------------------
(* Roles and routes *)

VaultConfigs == Plannable \intersect Configs
GatewayConfigs == Plannable \intersect Gateways

\* The paths that a workload is approved for.
Approved(w) == {p \in Paths : w \in ExpectedPathReaders[p]}

\* What a policy of the plans allows is what its workload is approved for.
PoliciesApproved ==
  \A c \in VaultConfigs : \A w \in Workloads : NameKept(c, w) =>
    store[PolicyAt(c.workloads[w].policy)] \in {Absent, [read |-> Approved(w)]}

\* A run that is past the policy of a workload has stored it.
PastPolicies ==
  \A d \in Deployers : phase[d] = "apply" /\ cfg[d] \in Configs =>
    \A w \in Workloads : (2 * w - 1 < at[d]) => store[PolicyAt(cfg[d].workloads[w].policy)] # Absent

\* The policy that a stored role names is stored.
RolesNamePolicies ==
  \A c \in VaultConfigs : \A w \in Workloads :
    store[RoleAt(c.workloads[w].role)] = Role(c, w) => store[PolicyAt(c.workloads[w].policy)] # Absent

\* A run that is past its upstream has stored it.
PastUpstream ==
  \A d \in Deployers : phase[d] = "apply" /\ cfg[d] \in Gateways =>
    (at[d] > 1 => store[UpstreamAt(cfg[d].upstream)] # Absent)

RInv == PoliciesApproved /\ PastPolicies /\ RolesNamePolicies
UInv == PastUpstream /\ RoutesHaveUpstream

-----------------------------------------------------------------------------
(* Resources and plans *)

LEMMA KindsDiffer ==
  /\ \A x, y : PolicyAt(x) # RoleAt(y) /\ PolicyAt(x) # UpstreamAt(y) /\ PolicyAt(x) # RouteAt(y)
  /\ \A x, y : RoleAt(x) # UpstreamAt(y) /\ RoleAt(x) # RouteAt(y) /\ UpstreamAt(x) # RouteAt(y)
  /\ \A x : PolicyAt(x) # AuthAt /\ RoleAt(x) # AuthAt /\ RouteAt(x) # AuthAt
  /\ \A x, y : PolicyAt(x) = PolicyAt(y) => x = y
BY DEF PolicyAt, RoleAt, UpstreamAt, RouteAt, AuthAt

LEMMA PlansByTool ==
  ASSUME NEW c \in Plannable
  PROVE  /\ c \in Configs \/ c \in Gateways
         /\ c \in Configs => ValidateConfig(c) /\ Plan(c) = DeploymentResources(c)
         /\ c \in Gateways => Plan(c) = BuildBundle(c)
         /\ ~(c \in Configs /\ c \in Gateways)
BY ToolsTell DEF Plannable, Plan

\* A validated configuration lets a workload read what it is approved for.
LEMMA ReadsApproved ==
  ASSUME NEW c, ValidateConfig(c), NEW w \in Workloads
  PROVE  PathsOf(c, w) = Approved(w)
<1>1. DOMAIN c.workloads = Workloads /\ PathReaders(c) = ExpectedPathReaders
  BY DEF ValidateConfig
<1>2. Paths = {b.path : b \in Bindings(c)}
  BY <1>1 DEF Paths, PathReaders
<1>3. \A p \in Paths : ExpectedPathReaders[p] = {v \in Workloads : p \in PathsOf(c, v)}
  BY <1>1, <1>2 DEF PathReaders
<1>4. PathsOf(c, w) \subseteq Paths
  BY <1>1, <1>2 DEF PathsOf, Bindings
<1> QED
  BY <1>3, <1>4 DEF Approved

\* The policy of the workload w is the put 2w - 1, its role the put after it.
LEMMA VaultPuts ==
  ASSUME NEW c \in VaultConfigs, NEW w \in Workloads
  PROVE  /\ 2 * w - 1 \in DOMAIN Plan(c) /\ 2 * w \in DOMAIN Plan(c)
         /\ Plan(c)[2 * w - 1].at = PolicyAt(c.workloads[w].policy)
         /\ Plan(c)[2 * w - 1].body = Policy(c, w)
         /\ Plan(c)[2 * w].at = RoleAt(c.workloads[w].role)
         /\ Plan(c)[2 * w].body = Role(c, w)
<1> DEFINE i == 2 * w - 1
           j == 2 * w
<1>1. Plan(c) = DeploymentResources(c)
  BY PlansByTool DEF VaultConfigs
<1>2. DOMAIN Plan(c) = 1..2 * N
  BY <1>1 DEF DeploymentResources
<1>3. w \in Nat /\ 1 <= w /\ w <= N /\ N \in Nat
  BY NIsPositive DEF Workloads
<1>4. i \in 1..2 * N /\ i % 2 = 1 /\ (i + 1) \div 2 = w
  BY <1>3
<1>5. j \in 1..2 * N /\ j % 2 # 1 /\ (j + 1) \div 2 = w
  BY <1>3
<1> HIDE DEF i, j
<1>6. Plan(c)[i] = Put(PolicyAt(c.workloads[w].policy), Policy(c, w))
  BY <1>1, <1>4 DEF DeploymentResources
<1>7. Plan(c)[j] = Put(RoleAt(c.workloads[w].role), Role(c, w))
  BY <1>1, <1>5 DEF DeploymentResources
<1>8. /\ Plan(c)[i].at = PolicyAt(c.workloads[w].policy) /\ Plan(c)[i].body = Policy(c, w)
      /\ Plan(c)[j].at = RoleAt(c.workloads[w].role) /\ Plan(c)[j].body = Role(c, w)
  BY <1>6, <1>7 DEF Put
<1> QED
  BY <1>2, <1>4, <1>5, <1>8 DEF i, j

LEMMA VaultResources ==
  ASSUME NEW c \in VaultConfigs, NEW w \in Workloads
  PROVE  /\ PolicyAt(c.workloads[w].policy) \in Resources /\ RoleAt(c.workloads[w].role) \in Resources
         /\ Role(c, w) # Absent
<1>1. c \in Plannable
  BY DEF VaultConfigs
<1>2. \A i \in DOMAIN Plan(c) : Plan(c)[i].at \in Resources /\ Plan(c)[i].body \in Bodies
  BY <1>1, PlanShape
<1>3. \A i \in DOMAIN Plan(c) : Plan(c)[i].body # Absent
  BY <1>2, MarkersAreNone
<1>4. 2 * w - 1 \in DOMAIN Plan(c) /\ 2 * w \in DOMAIN Plan(c)
  BY VaultPuts
<1>5. Plan(c)[2 * w - 1].at \in Resources /\ Plan(c)[2 * w].at \in Resources /\ Plan(c)[2 * w].body # Absent
  BY <1>2, <1>3, <1>4
<1> QED
  BY <1>5, VaultPuts

LEMMA GatewayPuts ==
  ASSUME NEW g \in GatewayConfigs
  PROVE  /\ DOMAIN Plan(g) = 1..3
         /\ Plan(g)[1].at = UpstreamAt(g.upstream)
         /\ Plan(g)[2].at = RouteAt(g.open) /\ Plan(g)[2].body = Route(g, "open")
         /\ Plan(g)[3].at = RouteAt(g.submit) /\ Plan(g)[3].body = Route(g, "submit")
<1>1. Plan(g) = BuildBundle(g)
  BY PlansByTool DEF GatewayConfigs
<1>2. DOMAIN Plan(g) = 1..3
  BY <1>1 DEF BuildBundle
<1>3. /\ Plan(g)[1] = BundlePut(UpstreamAt(g.upstream), [node |-> g.node])
      /\ Plan(g)[2] = BundlePut(RouteAt(g.open), Route(g, "open"))
      /\ Plan(g)[3] = BundlePut(RouteAt(g.submit), Route(g, "submit"))
  BY <1>1 DEF BuildBundle
<1> QED
  BY <1>2, <1>3 DEF BundlePut

LEMMA GatewayResources ==
  ASSUME NEW g \in GatewayConfigs
  PROVE  /\ UpstreamAt(g.upstream) \in Resources
         /\ RouteAt(g.open) \in Resources /\ RouteAt(g.submit) \in Resources
         /\ Route(g, "open") # Absent /\ Route(g, "submit") # Absent
<1>1. g \in Plannable
  BY DEF GatewayConfigs
<1>2. \A i \in 1..3 : Plan(g)[i].at \in Resources /\ Plan(g)[i].body \in Bodies
  BY <1>1, GatewayPuts, PlanShape
<1>3. \A i \in 1..3 : Plan(g)[i].body # Absent
  BY <1>2, MarkersAreNone
<1> QED
  BY <1>2, <1>3, GatewayPuts

\* The puts of a plan, by kind.
IsPolicyPut(c, i, w) ==
  /\ c \in VaultConfigs /\ w \in Workloads /\ i = 2 * w - 1
  /\ Plan(c)[i].at = PolicyAt(c.workloads[w].policy) /\ Plan(c)[i].body = Policy(c, w)

IsRolePut(c, i, w) ==
  /\ c \in VaultConfigs /\ w \in Workloads /\ i = 2 * w
  /\ Plan(c)[i].at = RoleAt(c.workloads[w].role) /\ Plan(c)[i].body = Role(c, w)

IsUpstreamPut(g, i) ==
  g \in GatewayConfigs /\ i = 1 /\ Plan(g)[i].at = UpstreamAt(g.upstream)

IsRoutePut(g, i, id, t) ==
  /\ g \in GatewayConfigs /\ i > 1
  /\ Plan(g)[i].at = RouteAt(id) /\ Plan(g)[i].body = Route(g, t)

LEMMA PutKinds ==
  ASSUME NEW c \in Plannable, NEW i \in DOMAIN Plan(c)
  PROVE  \/ \E w : IsPolicyPut(c, i, w) \/ IsRolePut(c, i, w)
         \/ IsUpstreamPut(c, i)
         \/ \E id, t : IsRoutePut(c, i, id, t)
<1>1. CASE c \in Configs
  <2>1. c \in VaultConfigs
    BY <1>1 DEF VaultConfigs
  <2>2. i \in 1..2 * N
    BY <1>1, PlansByTool DEF DeploymentResources
  <2> DEFINE w == (i + 1) \div 2
  <2>3. w \in 1..N /\ (i = 2 * w - 1 \/ i = 2 * w)
    BY <2>2, NIsPositive
  <2> HIDE DEF w
  <2>4. w \in Workloads
    BY <2>3 DEF Workloads
  <2>5. CASE i = 2 * w - 1
    BY <2>1, <2>4, <2>5, VaultPuts DEF IsPolicyPut
  <2>6. CASE i = 2 * w
    BY <2>1, <2>4, <2>6, VaultPuts DEF IsRolePut
  <2> QED
    BY <2>3, <2>5, <2>6
<1>2. CASE c \in Gateways
  <2>1. c \in GatewayConfigs
    BY <1>2 DEF GatewayConfigs
  <2>2. i = 1 \/ i = 2 \/ i = 3
    BY <2>1, GatewayPuts
  <2>3. CASE i = 1
    BY <2>1, <2>3, GatewayPuts DEF IsUpstreamPut
  <2>4. CASE i = 2
    <3>1. IsRoutePut(c, i, c.open, "open")
      BY <2>1, <2>4, GatewayPuts DEF IsRoutePut
    <3> QED
      BY <3>1
  <2>5. CASE i = 3
    <3>1. IsRoutePut(c, i, c.submit, "submit")
      BY <2>1, <2>5, GatewayPuts DEF IsRoutePut
    <3> QED
      BY <3>1
  <2> QED
    BY <2>2, <2>3, <2>4, <2>5
<1> QED
  BY <1>1, <1>2, PlansByTool

-----------------------------------------------------------------------------
(* What a step writes *)

\* A step stores nothing, the auth configuration, or the put the run is at.
LEMMA Written ==
  ASSUME NEW d \in Deployers, Deploy(d)
  PROVE  \/ store' = store
         \/ phase[d] = "auth" /\ \E ca \in CaFiles : store' = [store EXCEPT ![AuthAt] = AuthConfig(cfg[d], ca)]
         \/ /\ phase[d] = "apply"
            /\ store' = [store EXCEPT ![Plan(cfg[d])[at[d]].at] = Plan(cfg[d])[at[d]].body]
<1>1. CASE DeployVault(d) \/ DeployGateway(d) \/ Preflight(d) \/ Snapshot(d) \/ Stop(d)
  BY <1>1 DEF DeployVault, DeployGateway, Begin, Preflight, Snapshot, Stop
<1>2. CASE ApplyAuthConfig(d) \/ Apply(d) \/ Unanswered(d)
  BY <1>2 DEF ApplyAuthConfig, Apply, Unanswered, Write, WriteAuth
<1> QED
  BY <1>1, <1>2 DEF Deploy

LEMMA NothingRemoved ==
  ASSUME TInv, NEW d \in Deployers, Deploy(d), NEW r \in Resources, store[r] # Absent
  PROVE  store'[r] # Absent
<1>1. store \in [Resources -> Bodies \union {Absent}]
  BY DEF TInv, DeployTypeOK
<1>2. \A b \in Bodies : b # Absent
  BY MarkersAreNone
<1>3. CASE store' = store
  BY <1>3
<1>4. CASE phase[d] = "auth" /\ \E ca \in CaFiles : store' = [store EXCEPT ![AuthAt] = AuthConfig(cfg[d], ca)]
  BY <1>1, <1>2, <1>4, WrittenTypes
<1>5. CASE /\ phase[d] = "apply"
           /\ store' = [store EXCEPT ![Plan(cfg[d])[at[d]].at] = Plan(cfg[d])[at[d]].body]
  BY <1>1, <1>2, <1>5, WrittenTypes
<1> QED
  BY <1>3, <1>4, <1>5, Written

\* A run that applies has just begun to, or has stored the put before.
LEMMA Applying ==
  ASSUME TInv, NEW d \in Deployers, Deploy(d), phase'[d] = "apply"
  PROVE  /\ cfg'[d] = cfg[d]
         /\ \/ at'[d] = 1
            \/ /\ phase[d] = "apply" /\ at'[d] = at[d] + 1
               /\ Plan(cfg[d])[at[d]].at \in Resources
               /\ store'[Plan(cfg[d])[at[d]].at] = Plan(cfg[d])[at[d]].body
               /\ Plan(cfg[d])[at[d]].body # Absent
<1>0. DeployTypeOK
  BY DEF TInv
<1>1. CASE DeployVault(d) \/ DeployGateway(d)
  BY <1>0, <1>1 DEF DeployVault, DeployGateway, Begin, DeployTypeOK
<1>2. CASE Preflight(d)
  BY <1>0, <1>2 DEF Preflight, GoTo, DeployTypeOK
<1>3. CASE Snapshot(d)
  BY <1>0, <1>3 DEF Snapshot, GoTo, DeployTypeOK
<1>4. CASE ApplyAuthConfig(d)
  BY <1>0, <1>4 DEF ApplyAuthConfig, GoTo, DeployTypeOK
<1>5. CASE Apply(d)
  <2> DEFINE put == Plan(cfg[d])[at[d]]
  <2>1. phase[d] = "apply" /\ store' = [store EXCEPT ![put.at] = put.body]
    BY <1>5 DEF Apply, Write
  <2>2. ~EndRun(d)
    BY <1>0 DEF EndRun, DeployTypeOK
  <2>3. at' = [at EXCEPT ![d] = @ + 1] /\ cfg' = cfg
    BY <1>5, <2>2 DEF Apply
  <2>4. put.at \in Resources /\ put.body \in Bodies
    BY <2>1, WrittenTypes
  <2> QED
    BY <1>0, <2>1, <2>3, <2>4, MarkersAreNone DEF DeployTypeOK
<1>6. CASE Unanswered(d) \/ Stop(d)
  BY <1>0, <1>6 DEF Unanswered, Stop, EndRun, DeployTypeOK
<1> QED
  BY <1>1, <1>2, <1>3, <1>4, <1>5, <1>6 DEF Deploy

-----------------------------------------------------------------------------
(* Roles *)

LEMMA StepPolicies ==
  ASSUME TInv, PoliciesApproved, NEW d \in Deployers, Deploy(d)
  PROVE  PoliciesApproved'
<1> SUFFICES ASSUME NEW c \in VaultConfigs, NEW w \in Workloads, NameKept(c, w)
             PROVE  store'[PolicyAt(c.workloads[w].policy)] \in {Absent, [read |-> Approved(w)]}
  BY DEF PoliciesApproved
<1> DEFINE r == PolicyAt(c.workloads[w].policy)
<1>0. RunIsAtPut(d) /\ store \in [Resources -> Bodies \union {Absent}]
  BY DEF TInv, RunsAreAtPuts, DeployTypeOK
<1>1. store[r] \in {Absent, [read |-> Approved(w)]} /\ r \in Resources
  BY VaultResources DEF PoliciesApproved
<1>2. CASE store' = store
  BY <1>1, <1>2
<1>3. CASE phase[d] = "auth" /\ \E ca \in CaFiles : store' = [store EXCEPT ![AuthAt] = AuthConfig(cfg[d], ca)]
  BY <1>0, <1>1, <1>3, KindsDiffer
<1>4. CASE /\ phase[d] = "apply"
           /\ store' = [store EXCEPT ![Plan(cfg[d])[at[d]].at] = Plan(cfg[d])[at[d]].body]
  <2>1. cfg[d] \in Plannable /\ at[d] \in DOMAIN Plan(cfg[d])
    BY <1>0, <1>4 DEF RunIsAtPut
  <2>2. ASSUME Plan(cfg[d])[at[d]].at = r
        PROVE  Plan(cfg[d])[at[d]].body = [read |-> Approved(w)]
    <3>1. PICK v : IsPolicyPut(cfg[d], at[d], v)
      BY <2>1, <2>2, PutKinds, KindsDiffer DEF IsRolePut, IsUpstreamPut, IsRoutePut
    <3>2. cfg[d].workloads[v].policy = c.workloads[w].policy
      BY <2>2, <3>1, KindsDiffer DEF IsPolicyPut
    <3>3. v = w
      BY <3>1, <3>2 DEF NameKept, VaultConfigs, IsPolicyPut
    <3>4. ValidateConfig(cfg[d])
      BY <3>1, PlansByTool DEF VaultConfigs, IsPolicyPut
    <3> QED
      BY <3>1, <3>3, <3>4, ReadsApproved DEF Policy, IsPolicyPut
  <2> QED
    BY <1>0, <1>1, <1>4, <2>2
<1> QED
  BY <1>2, <1>3, <1>4, Written

LEMMA StepPastPolicies ==
  ASSUME TInv, PastPolicies, NEW d \in Deployers, Deploy(d)
  PROVE  PastPolicies'
<1> SUFFICES ASSUME NEW e \in Deployers, phase'[e] = "apply", cfg'[e] \in Configs,
                    NEW w \in Workloads, 2 * w - 1 < at'[e]
             PROVE  store'[PolicyAt(cfg'[e].workloads[w].policy)] # Absent
  BY DEF PastPolicies
<1> DEFINE r == PolicyAt(cfg[e].workloads[w].policy)
<1>0. DeployTypeOK /\ RunIsAtPut(e)
  BY DEF TInv, RunsAreAtPuts
<1>1. CASE e # d
  <2>1. cfg'[e] = cfg[e] /\ phase'[e] = phase[e] /\ at'[e] = at[e]
    BY <1>0, <1>1, OthersStay
  <2>2. cfg[e] \in VaultConfigs
    BY <1>0, <2>1 DEF RunIsAtPut, VaultConfigs
  <2>3. store[r] # Absent /\ r \in Resources
    BY <2>1, <2>2, VaultResources DEF PastPolicies
  <2> QED
    BY <2>1, <2>3, NothingRemoved
<1>2. CASE e = d /\ at'[e] # 1
  <2>1. /\ cfg'[e] = cfg[e] /\ phase[e] = "apply" /\ at'[e] = at[e] + 1
        /\ store'[Plan(cfg[e])[at[e]].at] = Plan(cfg[e])[at[e]].body
        /\ Plan(cfg[e])[at[e]].body # Absent
    BY <1>2, Applying
  <2>2. cfg[e] \in VaultConfigs
    BY <1>0, <2>1 DEF RunIsAtPut, VaultConfigs
  <2>3. r \in Resources
    BY <2>2, VaultResources
  <2>4. CASE 2 * w - 1 < at[e]
    BY <2>1, <2>3, <2>4, NothingRemoved DEF PastPolicies
  <2>5. CASE 2 * w - 1 = at[e]
    <3>1. Plan(cfg[e])[2 * w - 1].at = r
      BY <2>2, VaultPuts
    <3> QED
      BY <2>1, <2>5, <3>1
  <2>6. at[e] \in Nat /\ w \in Nat
    BY <1>0 DEF DeployTypeOK, Workloads
  <2>7. 2 * w - 1 < at[e] \/ 2 * w - 1 = at[e]
    BY <2>1, <2>6
  <2> QED
    BY <2>4, <2>5, <2>7
<1>3. CASE e = d /\ at'[e] = 1
  BY <1>3 DEF Workloads
<1> QED
  BY <1>1, <1>2, <1>3

LEMMA StepRoles ==
  ASSUME TInv, PastPolicies, RolesNamePolicies, NEW d \in Deployers, Deploy(d)
  PROVE  RolesNamePolicies'
<1> SUFFICES ASSUME NEW c \in VaultConfigs, NEW w \in Workloads,
                    store'[RoleAt(c.workloads[w].role)] = Role(c, w)
             PROVE  store'[PolicyAt(c.workloads[w].policy)] # Absent
  BY DEF RolesNamePolicies
<1> DEFINE r == RoleAt(c.workloads[w].role)
           p == PolicyAt(c.workloads[w].policy)
<1>0. DeployTypeOK /\ RunIsAtPut(d) /\ store \in [Resources -> Bodies \union {Absent}]
  BY DEF TInv, RunsAreAtPuts, DeployTypeOK
<1>1. r \in Resources /\ p \in Resources
  BY VaultResources
<1>2. CASE store[r] = Role(c, w)
  BY <1>1, <1>2, NothingRemoved DEF RolesNamePolicies
<1>3. CASE store[r] # Role(c, w)
  <2>1. /\ phase[d] = "apply" /\ Plan(cfg[d])[at[d]].at = r
        /\ Plan(cfg[d])[at[d]].body = Role(c, w)
    BY <1>0, <1>1, <1>3, Written, KindsDiffer
  <2>2. cfg[d] \in Plannable /\ at[d] \in DOMAIN Plan(cfg[d])
    BY <1>0, <2>1 DEF RunIsAtPut
  <2>3. PICK v : IsRolePut(cfg[d], at[d], v)
    BY <2>1, <2>2, PutKinds, KindsDiffer DEF IsPolicyPut, IsUpstreamPut, IsRoutePut
  <2>4. cfg[d].workloads[v].policy = c.workloads[w].policy
    BY <2>1, <2>3 DEF Role, IsRolePut
  <2>5. v \in Workloads /\ cfg[d] \in Configs /\ at[d] = 2 * v
    BY <2>3 DEF IsRolePut, VaultConfigs
  <2>6. 2 * v - 1 < at[d]
    BY <2>5 DEF Workloads
  <2>7. store[PolicyAt(cfg[d].workloads[v].policy)] # Absent
    BY <2>1, <2>5, <2>6 DEF PastPolicies
  <2> QED
    BY <1>1, <2>4, <2>7, NothingRemoved
<1> QED
  BY <1>2, <1>3

LEMMA InitRoles == DeployInit => RInv /\ UInv
<1> SUFFICES ASSUME DeployInit PROVE RInv /\ UInv
  OBVIOUS
<1>1. /\ \A r \in Resources : r # AuthAt => store[r] = Absent
      /\ \A d \in Deployers : phase[d] # "apply"
  BY DEF DeployInit, DeployersIdle, EmptyStore
<1>2. \A c \in VaultConfigs : \A w \in Workloads :
        /\ store[PolicyAt(c.workloads[w].policy)] = Absent
        /\ store[RoleAt(c.workloads[w].role)] = Absent
  BY <1>1, VaultResources, KindsDiffer
<1>3. \A c \in VaultConfigs : \A w \in Workloads : Role(c, w) # Absent
  BY VaultResources
<1>4. RInv
  BY <1>1, <1>2, <1>3 DEF RInv, PoliciesApproved, PastPolicies, RolesNamePolicies
<1>5. \A g \in GatewayConfigs : \A id \in {g.open, g.submit} : store[RouteAt(id)] = Absent
  BY <1>1, GatewayResources, KindsDiffer
<1>6. \A g \in GatewayConfigs : Route(g, "open") # Absent /\ Route(g, "submit") # Absent
  BY GatewayResources
<1>7. UInv
  BY <1>1, <1>5, <1>6 DEF UInv, PastUpstream, RoutesHaveUpstream, GatewayConfigs
<1> QED
  BY <1>4, <1>7

LEMMA RolesInductive ==
  TInv /\ RInv /\ [DeployNext]_deployVars => RInv'
<1> SUFFICES ASSUME TInv, RInv, [DeployNext]_deployVars PROVE RInv'
  OBVIOUS
<1>1. CASE UNCHANGED deployVars
  BY <1>1 DEF RInv, PoliciesApproved, PastPolicies, RolesNamePolicies, deployVars, run
<1>2. ASSUME NEW d \in Deployers, Deploy(d)
      PROVE  RInv'
  BY <1>2, StepPolicies, StepPastPolicies, StepRoles DEF RInv
<1> QED
  BY <1>1, <1>2 DEF DeployNext

LEMMA PolicyOfRoleIsApproved == RInv => RolesAreExact
<1> SUFFICES ASSUME RInv, NEW c \in VaultConfigs, NEW w \in Workloads, NameKept(c, w),
                    store[RoleAt(c.workloads[w].role)] = Role(c, w)
             PROVE  /\ store[PolicyAt(c.workloads[w].policy)] = [read |-> PathsOf(c, w)]
                    /\ \A p \in Paths : p \in PathsOf(c, w) <=> w \in ExpectedPathReaders[p]
  BY DEF RolesAreExact, VaultConfigs, NomadFragment, Role, PathsOf
<1>1. ValidateConfig(c)
  BY PlansByTool DEF VaultConfigs
<1>2. PathsOf(c, w) = Approved(w)
  BY <1>1, ReadsApproved
<1>3. store[PolicyAt(c.workloads[w].policy)] = [read |-> Approved(w)]
  BY DEF RInv, PoliciesApproved, RolesNamePolicies
<1> QED
  BY <1>2, <1>3 DEF Approved

\* At every moment of all deployments a stored role gives exactly what its
\* workload is approved for, if no configuration gives the name of its policy to
\* another workload.
THEOREM RolesAreExactHolds == DeploySpec => []RolesAreExact
<1>1. DeployInit => RInv
  BY InitRoles
<1>2. TInv /\ RInv /\ [DeployNext]_deployVars => RInv'
  BY RolesInductive
<1>3. DeploySpec => []RInv
  BY <1>1, <1>2, DeployTypes, PTL DEF DeploySpec
<1> QED
  BY <1>3, PolicyOfRoleIsApproved, PTL

-----------------------------------------------------------------------------
(* Routes *)

LEMMA StepUpstream ==
  ASSUME TInv, PastUpstream, NEW d \in Deployers, Deploy(d)
  PROVE  PastUpstream'
<1> SUFFICES ASSUME NEW e \in Deployers, phase'[e] = "apply", cfg'[e] \in Gateways, at'[e] > 1
             PROVE  store'[UpstreamAt(cfg'[e].upstream)] # Absent
  BY DEF PastUpstream
<1> DEFINE r == UpstreamAt(cfg[e].upstream)
<1>0. DeployTypeOK /\ RunIsAtPut(e)
  BY DEF TInv, RunsAreAtPuts
<1>1. CASE e # d
  <2>1. cfg'[e] = cfg[e] /\ phase'[e] = phase[e] /\ at'[e] = at[e]
    BY <1>0, <1>1, OthersStay
  <2>2. cfg[e] \in GatewayConfigs
    BY <1>0, <2>1 DEF RunIsAtPut, GatewayConfigs
  <2>3. store[r] # Absent /\ r \in Resources
    BY <2>1, <2>2, GatewayResources DEF PastUpstream
  <2> QED
    BY <2>1, <2>3, NothingRemoved
<1>2. CASE e = d
  <2>1. /\ cfg'[e] = cfg[e] /\ phase[e] = "apply" /\ at'[e] = at[e] + 1
        /\ store'[Plan(cfg[e])[at[e]].at] = Plan(cfg[e])[at[e]].body
        /\ Plan(cfg[e])[at[e]].body # Absent
    BY <1>2, Applying
  <2>2. cfg[e] \in GatewayConfigs
    BY <1>0, <2>1 DEF RunIsAtPut, GatewayConfigs
  <2>3. r \in Resources
    BY <2>2, GatewayResources
  <2>4. CASE at[e] > 1
    BY <2>1, <2>3, <2>4, NothingRemoved DEF PastUpstream
  <2>5. CASE at[e] = 1
    <3>1. Plan(cfg[e])[1].at = r
      BY <2>2, GatewayPuts
    <3> QED
      BY <2>1, <2>5, <3>1
  <2>6. at[e] \in Nat \ {0}
    BY <1>0 DEF DeployTypeOK
  <2>7. at[e] > 1 \/ at[e] = 1
    BY <2>6
  <2> QED
    BY <2>4, <2>5, <2>7
<1> QED
  BY <1>1, <1>2

LEMMA StepRoutes ==
  ASSUME TInv, PastUpstream, RoutesHaveUpstream, NEW d \in Deployers, Deploy(d)
  PROVE  RoutesHaveUpstream'
<1> SUFFICES ASSUME NEW g \in GatewayConfigs, NEW t \in {"open", "submit"},
                    NEW id \in {g.open, g.submit}, store'[RouteAt(id)] = Route(g, t)
             PROVE  store'[UpstreamAt(g.upstream)] # Absent
  BY DEF RoutesHaveUpstream, GatewayConfigs
<1> DEFINE r == RouteAt(id)
           u == UpstreamAt(g.upstream)
<1>0. RunIsAtPut(d) /\ store \in [Resources -> Bodies \union {Absent}]
  BY DEF TInv, RunsAreAtPuts, DeployTypeOK
<1>1. r \in Resources /\ u \in Resources
  BY GatewayResources
<1>2. CASE store[r] = Route(g, t)
  BY <1>1, <1>2, NothingRemoved DEF RoutesHaveUpstream, GatewayConfigs
<1>3. CASE store[r] # Route(g, t)
  <2>1. /\ phase[d] = "apply" /\ Plan(cfg[d])[at[d]].at = r
        /\ Plan(cfg[d])[at[d]].body = Route(g, t)
    BY <1>0, <1>1, <1>3, Written, KindsDiffer
  <2>2. cfg[d] \in Plannable /\ at[d] \in DOMAIN Plan(cfg[d])
    BY <1>0, <2>1 DEF RunIsAtPut
  <2>3. PICK k, s : IsRoutePut(cfg[d], at[d], k, s)
    BY <2>1, <2>2, PutKinds, KindsDiffer DEF IsPolicyPut, IsRolePut, IsUpstreamPut
  <2>4. cfg[d].upstream = g.upstream
    BY <2>1, <2>3 DEF Route, IsRoutePut
  <2>5. cfg[d] \in Gateways /\ at[d] > 1
    BY <2>3 DEF IsRoutePut, GatewayConfigs
  <2>6. store[UpstreamAt(cfg[d].upstream)] # Absent
    BY <2>1, <2>5 DEF PastUpstream
  <2> QED
    BY <1>1, <2>4, <2>6, NothingRemoved
<1> QED
  BY <1>2, <1>3

LEMMA RoutesInductive == TInv /\ UInv /\ [DeployNext]_deployVars => UInv'
<1> SUFFICES ASSUME TInv, UInv, [DeployNext]_deployVars PROVE UInv'
  OBVIOUS
<1>1. CASE UNCHANGED deployVars
  BY <1>1 DEF UInv, PastUpstream, RoutesHaveUpstream, deployVars, run
<1>2. ASSUME NEW d \in Deployers, Deploy(d)
      PROVE  UInv'
  BY <1>2, StepUpstream, StepRoutes DEF UInv
<1> QED
  BY <1>1, <1>2 DEF DeployNext

\* At every moment of all deployments the upstream of a stored route is there.
THEOREM RoutesHaveUpstreamHolds == DeploySpec => []RoutesHaveUpstream
<1>1. DeployInit => UInv
  BY InitRoles
<1>2. DeploySpec => []UInv
  BY <1>1, DeployTypes, RoutesInductive, PTL DEF DeploySpec
<1>3. UInv => RoutesHaveUpstream
  BY DEF UInv
<1> QED
  BY <1>2, <1>3, PTL

-----------------------------------------------------------------------------
(* A finished run has deployed its configuration *)

\* A store s holds the puts of a plan before the n-th, as far as none of these
\* replaced another.
HoldsPutsBefore(s, c, n) ==
  \A i \in DOMAIN Plan(c) :
    i < n /\ (\A j \in DOMAIN Plan(c) : i < j /\ j < n => Plan(c)[j].at # Plan(c)[i].at)
      => s[Plan(c)[i].at] = Plan(c)[i].body

\* A run that nobody has interfered with: the URL of the auth configuration is
\* its own once it has been compared or written, and so is what it has put so far.
AppliedSoFar(d) ==
  before[d] # NoStore =>
    /\ (phase[d] = "snapshot" /\ ~withAuth[d]) \/ phase[d] = "apply" =>
         (cfg[d].tool = "vault" => store[AuthAt].jwks = cfg[d].auth)
    /\ phase[d] = "apply" => HoldsPutsBefore(store, cfg[d], at[d])

AllAppliedSoFar == \A d \in Deployers : AppliedSoFar(d)

LEMMA NothingBeforeFirst ==
  ASSUME NEW s, NEW c \in Plannable PROVE HoldsPutsBefore(s, c, 1)
<1>1. \A i \in DOMAIN Plan(c) : ~(i < 1)
  BY PlanShape
<1> QED
  BY <1>1 DEF HoldsPutsBefore

\* One more put.
LEMMA HoldsOneMore ==
  ASSUME NEW c \in Plannable, NEW n \in DOMAIN Plan(c),
         NEW s \in [Resources -> Bodies \union {Absent}], HoldsPutsBefore(s, c, n)
  PROVE  HoldsPutsBefore([s EXCEPT ![Plan(c)[n].at] = Plan(c)[n].body], c, n + 1)
<1> DEFINE t == [s EXCEPT ![Plan(c)[n].at] = Plan(c)[n].body]
<1>0. /\ \A i \in DOMAIN Plan(c) : i \in Nat /\ Plan(c)[i].at \in Resources
      /\ n \in Nat
  BY PlanShape
<1> SUFFICES ASSUME NEW i \in DOMAIN Plan(c), i < n + 1,
                    \A j \in DOMAIN Plan(c) : i < j /\ j < n + 1 => Plan(c)[j].at # Plan(c)[i].at
             PROVE  t[Plan(c)[i].at] = Plan(c)[i].body
  BY DEF HoldsPutsBefore
<1>1. CASE i = n
  BY <1>0, <1>1
<1>2. CASE i # n
  <2>1. i < n /\ n < n + 1
    BY <1>0, <1>2
  <2>2. \A j \in DOMAIN Plan(c) : i < j /\ j < n => j < n + 1
    BY <1>0
  <2>3. s[Plan(c)[i].at] = Plan(c)[i].body
    BY <2>1, <2>2 DEF HoldsPutsBefore
  <2>4. Plan(c)[n].at # Plan(c)[i].at
    BY <2>1
  <2> QED
    BY <1>0, <2>3, <2>4
<1> QED
  BY <1>1, <1>2

\* The puts of a configuration of Vault are to different resources: the names
\* of its roles, and of its policies, differ.
LEMMA VaultPutsDiffer ==
  ASSUME NEW c \in VaultConfigs, NEW i \in DOMAIN Plan(c), NEW j \in DOMAIN Plan(c), i # j
  PROVE  Plan(c)[i].at # Plan(c)[j].at
<1>1. c \in Plannable /\ ValidateConfig(c) /\ c \notin GatewayConfigs
  BY PlansByTool DEF VaultConfigs, GatewayConfigs
<1>2. PICK v : IsPolicyPut(c, i, v) \/ IsRolePut(c, i, v)
  BY <1>1, PutKinds DEF IsUpstreamPut, IsRoutePut
<1>3. PICK w : IsPolicyPut(c, j, w) \/ IsRolePut(c, j, w)
  BY <1>1, PutKinds DEF IsUpstreamPut, IsRoutePut
<1>4. v \in Workloads /\ w \in Workloads
  BY <1>2, <1>3 DEF IsPolicyPut, IsRolePut
<1>5. CASE IsPolicyPut(c, i, v) /\ IsPolicyPut(c, j, w)
  <2>1. v # w
    BY <1>5 DEF IsPolicyPut
  <2>2. c.workloads[v].policy # c.workloads[w].policy
    BY <1>1, <1>4, <2>1 DEF ValidateConfig
  <2> QED
    BY <1>5, <2>2 DEF IsPolicyPut, PolicyAt
<1>6. CASE IsRolePut(c, i, v) /\ IsRolePut(c, j, w)
  <2>1. v # w
    BY <1>6 DEF IsRolePut
  <2>2. c.workloads[v].role # c.workloads[w].role
    BY <1>1, <1>4, <2>1 DEF ValidateConfig
  <2> QED
    BY <1>6, <2>2 DEF IsRolePut, RoleAt
<1>7. CASE IsPolicyPut(c, i, v) /\ IsRolePut(c, j, w)
  BY <1>7, KindsDiffer DEF IsPolicyPut, IsRolePut
<1>8. CASE IsRolePut(c, i, v) /\ IsPolicyPut(c, j, w)
  BY <1>8, KindsDiffer DEF IsPolicyPut, IsRolePut
<1> QED
  BY <1>2, <1>3, <1>5, <1>6, <1>7, <1>8

\* No put of a plan is to the auth configuration.
LEMMA PutsLeaveAuth ==
  ASSUME NEW c \in Plannable, NEW i \in DOMAIN Plan(c)
  PROVE  Plan(c)[i].at # AuthAt
<1>1. \A x : UpstreamAt(x) # AuthAt
  BY DEF UpstreamAt, AuthAt
<1> QED
  BY <1>1, PutKinds, KindsDiffer DEF IsPolicyPut, IsRolePut, IsUpstreamPut, IsRoutePut

\* What the put of an Apply does to what is stored.
LEMMA ApplyHolds ==
  ASSUME TInv, NEW d \in Deployers, AppliedSoFar(d), Apply(d), before[d] # NoStore
  PROVE  /\ cfg[d] \in Plannable
         /\ HoldsPutsBefore(store', cfg[d], at[d] + 1)
         /\ cfg[d].tool = "vault" => store'[AuthAt].jwks = cfg[d].auth
<1>1. phase[d] = "apply" /\ Write(d, Plan(cfg[d])[at[d]].at, Plan(cfg[d])[at[d]].body)
  BY DEF Apply
<1>2. cfg[d] \in Plannable /\ at[d] \in DOMAIN Plan(cfg[d])
  BY <1>1 DEF TInv, RunsAreAtPuts, RunIsAtPut
<1>3. store \in [Resources -> Bodies \union {Absent}]
  BY DEF TInv, DeployTypeOK
<1>4. store' = [store EXCEPT ![Plan(cfg[d])[at[d]].at] = Plan(cfg[d])[at[d]].body]
  BY <1>1 DEF Write
<1>5. HoldsPutsBefore(store, cfg[d], at[d])
  BY <1>1 DEF AppliedSoFar
<1>6. HoldsPutsBefore(store', cfg[d], at[d] + 1)
  BY <1>2, <1>3, <1>4, <1>5, HoldsOneMore
<1>7. store'[AuthAt] = store[AuthAt]
  BY <1>2, <1>3, <1>4, PutsLeaveAuth DEF Resources
<1> QED
  BY <1>1, <1>2, <1>6, <1>7 DEF AppliedSoFar

LEMMA StepApplied ==
  ASSUME TInv, NEW d \in Deployers, AppliedSoFar(d), Deploy(d)
  PROVE  AppliedSoFar(d)'
<1>0. DeployTypeOK /\ RunIsAtPut(d)
  BY DEF TInv, RunsAreAtPuts
<1> USE DEF AppliedSoFar
<1>1. CASE DeployVault(d) \/ DeployGateway(d) \/ Unanswered(d) \/ Stop(d)
  <2>1. phase'[d] \in {"preflight", "idle"}
    BY <1>0, <1>1 DEF DeployTypeOK, DeployVault, DeployGateway, Begin, Unanswered, Stop, EndRun
  <2> QED
    BY <2>1
<1>2. CASE Preflight(d)
  <2>1. /\ phase'[d] = "snapshot" /\ cfg' = cfg /\ withAuth' = withAuth /\ store' = store
        /\ cfg[d].tool = "vault" /\ ~withAuth[d] => store[AuthAt].jwks = cfg[d].auth
    BY <1>0, <1>2 DEF DeployTypeOK, Preflight, GoTo
  <2> QED
    BY <2>1
<1>3. CASE Snapshot(d)
  <2>1. phase[d] = "snapshot" /\ store' = store /\ before' = before /\ cfg' = cfg /\ withAuth' = withAuth
    BY <1>3 DEF Snapshot, GoTo
  <2>2. withAuth[d] \in BOOLEAN
    BY <1>0 DEF DeployTypeOK
  <2>3. CASE phase' = phase
    BY <2>1, <2>3
  <2>4. CASE GoTo(d, IF withAuth[d] THEN "auth" ELSE "apply")
    <3>1. /\ phase'[d] = (IF withAuth[d] THEN "auth" ELSE "apply")
          /\ at'[d] = 1
      BY <1>0, <2>4 DEF DeployTypeOK, GoTo
    <3>2. cfg[d] \in Plannable
      BY <1>0, <2>1 DEF RunIsAtPut
    <3> QED
      BY <2>1, <2>2, <3>1, <3>2, NothingBeforeFirst
  <2> QED
    BY <1>3, <2>3, <2>4 DEF Snapshot
<1>4. CASE ApplyAuthConfig(d)
  <2>1. /\ phase'[d] = "apply" /\ at'[d] = 1 /\ cfg' = cfg
        /\ phase[d] = "auth" /\ \E ca \in CaFiles : store' = [store EXCEPT ![AuthAt] = AuthConfig(cfg[d], ca)]
    BY <1>0, <1>4 DEF DeployTypeOK, ApplyAuthConfig, WriteAuth, GoTo, Write
  <2>2. cfg[d] \in Plannable
    BY <1>0, <2>1 DEF RunIsAtPut
  <2>3. store'[AuthAt].jwks = cfg[d].auth
    BY <1>0, <2>1 DEF DeployTypeOK, Resources, AuthConfig
  <2> QED
    BY <2>1, <2>2, <2>3, NothingBeforeFirst
<1>5. CASE Apply(d)
  <2>1. before'[d] = before[d]
    BY <1>0, <1>5 DEF DeployTypeOK, Apply, Write
  <2>2. CASE EndRun(d)
    BY <1>0, <2>2 DEF DeployTypeOK, EndRun
  <2>3. CASE at' = [at EXCEPT ![d] = @ + 1] /\ UNCHANGED <<cfg, withAuth, phase, runs>>
    <3>1. at'[d] = at[d] + 1 /\ cfg' = cfg
      BY <1>0, <2>3 DEF DeployTypeOK
    <3>2. phase'[d] = "apply"
      BY <1>5, <2>3 DEF Apply
    <3> QED
      BY <1>5, <2>1, <3>1, <3>2, ApplyHolds
  <2> QED
    BY <1>5, <2>2, <2>3 DEF Apply
<1> QED
  BY <1>1, <1>2, <1>3, <1>4, <1>5 DEF Deploy

\* Another run either writes, or leaves all that the run relies on.
LEMMA OthersApplied ==
  ASSUME TInv, NEW d \in Deployers, NEW e \in Deployers, e # d, AppliedSoFar(e), Deploy(d)
  PROVE  AppliedSoFar(e)'
<1>0. DeployTypeOK
  BY DEF TInv
<1>1. /\ cfg'[e] = cfg[e] /\ withAuth'[e] = withAuth[e]
      /\ phase'[e] = phase[e] /\ at'[e] = at[e]
  BY <1>0, OthersStay
<1>2. CASE ApplyAuthConfig(d) \/ Apply(d) \/ Unanswered(d)
  <2>1. before'[e] = NoStore
    BY <1>0, <1>2 DEF DeployTypeOK, ApplyAuthConfig, Apply, Unanswered, Write, WriteAuth
  <2> QED
    BY <2>1 DEF AppliedSoFar
<1>3. CASE DeployVault(d) \/ DeployGateway(d) \/ Preflight(d) \/ Snapshot(d) \/ Stop(d)
  <2>1. store' = store /\ before'[e] = before[e]
    BY <1>0, <1>3 DEF DeployTypeOK, DeployVault, DeployGateway, Begin, Preflight, Snapshot, Stop, saved
  <2> QED
    BY <1>1, <2>1 DEF AppliedSoFar
<1> QED
  BY <1>2, <1>3 DEF Deploy

LEMMA InitApplied == DeployInit => AllAppliedSoFar
BY DEF DeployInit, DeployersIdle, AllAppliedSoFar, AppliedSoFar

LEMMA AppliedInductive ==
  TInv /\ AllAppliedSoFar /\ [DeployNext]_deployVars => AllAppliedSoFar'
<1> SUFFICES ASSUME TInv, AllAppliedSoFar, [DeployNext]_deployVars, NEW e \in Deployers
             PROVE  AppliedSoFar(e)'
  BY DEF AllAppliedSoFar
<1>1. AppliedSoFar(e)
  BY DEF AllAppliedSoFar
<1>2. CASE UNCHANGED deployVars
  BY <1>1, <1>2 DEF AppliedSoFar, deployVars, run, saved
<1>3. ASSUME NEW d \in Deployers, Deploy(d)
      PROVE  AppliedSoFar(e)'
  <2>1. CASE e = d
    BY <1>1, <1>3, <2>1, StepApplied
  <2>2. CASE e # d
    BY <1>1, <1>3, <2>2, OthersApplied
  <2> QED
    BY <2>1, <2>2
<1> QED
  BY <1>2, <1>3 DEF DeployNext

\* Its last put completes a configuration.
LEMMA LastPutCompletes ==
  ASSUME TInv, NEW d \in Deployers, AppliedSoFar(d),
         Apply(d), phase'[d] = "idle", before[d] # NoStore
  PROVE  /\ \A i \in DOMAIN Plan(cfg[d]) :
              ~IsReplaced(cfg[d], i) => store'[Plan(cfg[d])[i].at] = Plan(cfg[d])[i].body
         /\ cfg[d].tool = "vault" => store'[AuthAt].jwks = cfg[d].auth
<1> DEFINE c == cfg[d]
<1>1. /\ c \in Plannable /\ HoldsPutsBefore(store', c, at[d] + 1)
      /\ c.tool = "vault" => store'[AuthAt].jwks = c.auth
  BY ApplyHolds
<1>2. at[d] = Len(Plan(c))
  <2>1. phase[d] = "apply"
    BY DEF Apply
  <2>2. phase' # phase
    BY <2>1
  <2> QED
    BY <2>2 DEF Apply
<1>3. /\ DOMAIN Plan(c) = 1..Len(Plan(c)) /\ Len(Plan(c)) \in Nat
  BY <1>1, PlanShape
<1> HIDE DEF c
<1>4. ASSUME NEW i \in DOMAIN Plan(c), ~IsReplaced(c, i)
      PROVE  store'[Plan(c)[i].at] = Plan(c)[i].body
  <2>1. \A j \in DOMAIN Plan(c) : i < j => Plan(c)[j].at # Plan(c)[i].at
    <3>1. CASE c \in Configs
      <4>1. c \in VaultConfigs
        BY <1>1, <3>1 DEF VaultConfigs
      <4>2. \A j \in DOMAIN Plan(c) : i < j => i # j
        BY <1>3
      <4> QED
        BY <4>1, <4>2, VaultPutsDiffer
    <3>2. CASE c \in Gateways
      <4>1. c.tool = "gateway" /\ c \in GatewayConfigs
        BY <1>1, <3>2, ToolsTell DEF GatewayConfigs
      <4>2. ASSUME NEW j \in DOMAIN Plan(c), i < j
            PROVE  Plan(c)[j].at # Plan(c)[i].at
        <5>1. i \in 1..3 /\ j \in 1..3
          BY <4>1, GatewayPuts
        <5>2. CASE i = 1
          <6>1. j = 2 \/ j = 3
            BY <4>2, <5>1, <5>2
          <6> QED
            BY <4>1, <5>2, <6>1, GatewayPuts, KindsDiffer
        <5>3. CASE i = 2
          <6>1. j = 3 /\ c.open # c.submit
            BY <1>4, <4>1, <4>2, <5>1, <5>3 DEF IsReplaced
          <6> QED
            BY <4>1, <5>3, <6>1, GatewayPuts DEF RouteAt
        <5>4. i = 1 \/ i = 2
          BY <4>2, <5>1
        <5> QED
          BY <5>2, <5>3, <5>4
      <4> QED
        BY <4>2
    <3> QED
      BY <1>1, <3>1, <3>2, PlansByTool
  <2>2. i < at[d] + 1
    BY <1>2, <1>3 DEF c
  <2> QED
    BY <1>1, <2>1, <2>2 DEF HoldsPutsBefore
<1> QED
  BY <1>1, <1>4 DEF c

\* A run that has its last put answered leaves every policy and role of its
\* configuration and the URL of the auth configuration, or the upstream and the
\* routes of the gateway but for an open route whose id is the submit route's,
\* for any configurations, operators, certificates and stopped runs, unless
\* somebody else has written since its preflight.
THEOREM FinishedIsDeployedHolds == DeploySpec => FinishedIsDeployed
<1>1. DeploySpec => []AllAppliedSoFar
  BY DeployTypes, InitApplied, AppliedInductive, PTL DEF DeploySpec
<1>2. TInv /\ AllAppliedSoFar =>
        \A d \in Deployers : Apply(d) /\ phase'[d] = "idle" /\ before[d] # NoStore =>
          /\ \A i \in DOMAIN Plan(cfg[d]) :
               ~IsReplaced(cfg[d], i) => store'[Plan(cfg[d])[i].at] = Plan(cfg[d])[i].body
          /\ cfg[d].tool = "vault" => store'[AuthAt].jwks = cfg[d].auth
  BY LastPutCompletes DEF AllAppliedSoFar
<1> QED
  BY <1>1, <1>2, DeployTypes, PTL DEF FinishedIsDeployed
=============================================================================
