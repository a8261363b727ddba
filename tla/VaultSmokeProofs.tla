-------------------------- MODULE VaultSmokeProofs --------------------------
(***************************************************************************)
(* Proofs about VaultSmoke, for any configurations, operators and writers: *)
(* types; that a path which is reported rotated was written; and that a    *)
(* run which passes while nobody deploys proves its configuration stored.  *)
(*                                                                         *)
(* The first of them relates the versions in the evidence, and those seen, *)
(* to the paths written since (VersionsKnown).  The other relates how far  *)
(* a run is to what was stored all along (ProvedSoFar), and needs that a   *)
(* role or policy can only be stored as some plan has it.                  *)
(***************************************************************************)
EXTENDS VaultSmoke, DeploymentProofs

-----------------------------------------------------------------------------
(* Types *)

SmokeFields == {"step", "cfg", "workload", "token", "asked", "tried", "seen", "expect"}

\* A run that is under way has a staging configuration, and one that has passed
\* is at the last workload.
SmokeRun ==
  /\ DOMAIN smoke = SmokeFields
  /\ smoke.step # "idle" => smoke.cfg \in Configs /\ smoke.cfg.environment = "staging"
  /\ smoke.step = "passed" => smoke.workload = N

SInv == SmokeTypeOK /\ SmokeRun

LEMMA FirstWorkload == 1 \in Workloads /\ N \in Workloads
BY NIsPositive DEF Workloads

LEMMA NoVersionsTyped == NoVersions \in Versions
BY WritesArePositive DEF NoVersions, Versions

LEMMA NoSmokeTyped ==
  /\ DOMAIN NoSmoke = SmokeFields
  /\ NoSmoke.step = "idle" /\ NoSmoke.cfg = Absent /\ NoSmoke.workload = 1
  /\ NoSmoke.asked = {} /\ NoSmoke.tried = {} /\ NoSmoke.seen = NoVersions /\ NoSmoke.expect = {}
BY DEF NoSmoke, SmokeFields

LEMMA InitSmoke == SmokeInit => SInv
<1> SUFFICES ASSUME SmokeInit PROVE SInv
  OBVIOUS
<1>1. secrets \in [Paths -> [version : 0..MaxWrites, whole : BOOLEAN]]
  <2>1. [version : {0, 1}, whole : {TRUE}] \subseteq [version : 0..MaxWrites, whole : BOOLEAN]
    <3>1. {0, 1} \subseteq 0..MaxWrites
      BY WritesArePositive
    <3> QED
      BY <3>1, Zenon
  <2> QED
    BY <2>1 DEF SmokeInit
<1>2. calm \in BOOLEAN
  BY Zenon DEF SmokeInit
<1>3. smoke = NoSmoke /\ evidence = NoVersions /\ rotated = {} /\ advanced = {}
  BY DEF SmokeInit
<1>4. /\ DOMAIN smoke = SmokeFields /\ smoke.step = "idle" /\ smoke.cfg = Absent
      /\ smoke.workload = 1 /\ smoke.asked = {} /\ smoke.tried = {}
      /\ smoke.seen = NoVersions /\ smoke.expect = {}
  BY <1>3, NoSmokeTyped
<1>5. SmokeTypeOK
  BY <1>1, <1>2, <1>3, <1>4, FirstWorkload, NoVersionsTyped DEF SmokeTypeOK
<1>6. SmokeRun
  BY <1>4 DEF SmokeRun
<1> QED
  BY <1>5, <1>6 DEF SInv

\* What the actions of a run do with the record of it.
LEMMA RunStops ==
  ASSUME smoke' = NoSmoke
  PROVE  /\ DOMAIN smoke' = SmokeFields /\ smoke'.step = "idle" /\ smoke'.cfg = Absent
         /\ smoke'.workload = 1 /\ smoke'.asked = {} /\ smoke'.tried = {}
         /\ smoke'.seen = NoVersions /\ smoke'.expect = {}
BY NoSmokeTyped

LEMMA RunBegins ==
  ASSUME NEW c, NEW X, BeginSmoke(c, X)
  PROVE  /\ DOMAIN smoke' = SmokeFields /\ smoke'.step = "login" /\ smoke'.cfg = c
         /\ smoke'.workload = 1 /\ smoke'.asked = {} /\ smoke'.tried = {}
         /\ smoke'.seen = NoVersions /\ smoke'.expect = X
BY DEF BeginSmoke, NoSmoke, SmokeFields

LEMMA RunLogsIn ==
  ASSUME SmokeRun, Login
  PROVE  /\ DOMAIN smoke' = SmokeFields /\ smoke'.step = "access"
         /\ smoke'.asked = {} /\ smoke'.tried = {}
         /\ smoke'.token = store[RoleAt(smoke.cfg.workloads[smoke.workload].role)].policy
         /\ smoke'.cfg = smoke.cfg /\ smoke'.workload = smoke.workload
         /\ smoke'.seen = smoke.seen /\ smoke'.expect = smoke.expect
BY DEF Login, SmokeRun, SmokeFields

\* What a request leaves of the record of the run.
RunKeeps ==
  /\ DOMAIN smoke' = SmokeFields
  /\ smoke'.step = smoke.step /\ smoke'.cfg = smoke.cfg /\ smoke'.workload = smoke.workload
  /\ smoke'.token = smoke.token /\ smoke'.expect = smoke.expect

LEMMA RunReadsApproved ==
  ASSUME SmokeRun, NEW p, ReadApproved(p)
  PROVE  /\ RunKeeps
         /\ smoke'.asked = smoke.asked \union {p} /\ smoke'.tried = smoke.tried
         /\ smoke'.seen = [smoke.seen EXCEPT ![smoke.workload] =
                             [smoke.seen[smoke.workload] EXCEPT ![p] = secrets[p].version]]
BY DEF ReadApproved, SmokeRun, SmokeFields, RunKeeps

LEMMA RunReadsDenied ==
  ASSUME SmokeRun, NEW p, ReadDenied(p)
  PROVE  /\ RunKeeps
         /\ smoke'.asked = smoke.asked \union {p} /\ smoke'.tried = smoke.tried
         /\ smoke'.seen = smoke.seen
BY DEF ReadDenied, SmokeRun, SmokeFields, RunKeeps

LEMMA RunTries ==
  ASSUME SmokeRun, NEW v, ForeignLogin(v)
  PROVE  /\ RunKeeps
         /\ smoke'.asked = smoke.asked /\ smoke'.tried = smoke.tried \union {v}
         /\ smoke'.seen = smoke.seen
BY DEF ForeignLogin, SmokeRun, SmokeFields, RunKeeps

LEMMA RunGoesOn ==
  ASSUME SmokeRun, NextWorkload \/ Pass
  PROVE  /\ DOMAIN smoke' = SmokeFields
         /\ smoke'.asked = smoke.asked /\ smoke'.tried = smoke.tried
         /\ smoke'.cfg = smoke.cfg /\ smoke'.seen = smoke.seen /\ smoke'.expect = smoke.expect
         /\ \/ smoke.workload < N /\ smoke'.step = "login" /\ smoke'.workload = smoke.workload + 1
            \/ /\ smoke.workload = N /\ smoke'.step = "passed" /\ smoke'.workload = smoke.workload
               /\ VerifyRotation
BY DEF NextWorkload, Pass, SmokeRun, SmokeFields

LEMMA SmokeStays ==
  ASSUME SInv, UNCHANGED <<smoke, secrets, evidence, rotated, advanced>>, calm' \in BOOLEAN
  PROVE  SInv'
BY DEF SInv, SmokeTypeOK, SmokeRun

LEMMA WrittenSecret ==
  ASSUME SmokeTypeOK, NEW p \in Paths, NEW whole \in BOOLEAN, WriteSecret(p, whole)
  PROVE  /\ secrets' \in [Paths -> [version : 0..MaxWrites, whole : BOOLEAN]]
         /\ \A q \in Paths : /\ q # p => secrets'[q] = secrets[q]
                             /\ secrets[q].version <= secrets'[q].version
<1>1. secrets \in [Paths -> [version : 0..MaxWrites, whole : BOOLEAN]]
  BY DEF SmokeTypeOK
<1>2. secrets[p].version \in 0..MaxWrites /\ secrets[p].version < MaxWrites
  BY <1>1 DEF WriteSecret
<1>3. secrets' = [secrets EXCEPT ![p] = [version |-> secrets[p].version + 1, whole |-> whole]]
  BY DEF WriteSecret
<1>4. secrets[p].version + 1 \in 0..MaxWrites
  BY <1>2, WritesArePositive
<1>5. [version |-> secrets[p].version + 1, whole |-> whole] \in [version : 0..MaxWrites, whole : BOOLEAN]
  BY <1>4
<1>6. \A q \in Paths : secrets[q].version \in 0..MaxWrites
  BY <1>1
<1> QED
  BY <1>1, <1>2, <1>3, <1>5, <1>6

\* The paths asked are paths of some configuration.
LEMMA AskedStays ==
  ASSUME SInv, smoke.step = "access", NEW p \in AllPaths(smoke.cfg)
  PROVE  smoke.asked \union {p} \subseteq UNION {AllPaths(c) : c \in Configs}
<1>1. smoke.cfg \in Configs
  BY DEF SInv, SmokeRun
<1>2. p \in UNION {AllPaths(c) : c \in Configs}
  BY <1>1
<1> QED
  BY <1>2 DEF SInv, SmokeTypeOK

\* A request adds to what was asked, tried and seen, and changes nothing else.
LEMMA RequestTyped ==
  ASSUME SInv, RunKeeps, KeepWorld, smoke.step = "access",
         smoke'.asked \subseteq UNION {AllPaths(c) : c \in Configs},
         smoke'.tried \subseteq Workloads, smoke'.seen \in Versions
  PROVE  SInv'
<1>1. SmokeTypeOK'
  BY DEF SInv, SmokeTypeOK, RunKeeps, KeepWorld
<1>2. SmokeRun'
  BY DEF SInv, SmokeRun, RunKeeps, KeepWorld
<1> QED
  BY <1>1, <1>2 DEF SInv

LEMMA SmokeInductive == SInv /\ [SmokeNext]_vaultVars => SInv'
<1> SUFFICES ASSUME SInv, [SmokeNext]_vaultVars PROVE SInv'
  OBVIOUS
<1>0. SmokeTypeOK /\ SmokeRun
  BY DEF SInv
<1>1. CASE UNCHANGED vaultVars
  BY <1>0, <1>1, SmokeStays DEF vaultVars, smokeVars, SmokeTypeOK
<1>2. ASSUME NEW p \in Paths, NEW whole \in BOOLEAN, WriteSecret(p, whole)
      PROVE  SInv'
  BY <1>0, <1>2, WrittenSecret DEF WriteSecret, SInv, SmokeTypeOK, SmokeRun
<1>3. ASSUME NEW d \in Deployers, DeployMeanwhile(d)
      PROVE  SInv'
  BY <1>0, <1>3, SmokeStays DEF DeployMeanwhile, SmokeTypeOK
<1>4. ASSUME NEW c \in Configs, NEW X \in SUBSET Paths, BeginSmoke(c, X)
      PROVE  SInv'
  <2>1. calm' \in BOOLEAN
    BY <1>4, Zenon DEF BeginSmoke
  <2>2. /\ c.environment = "staging" /\ rotated' = {}
        /\ UNCHANGED <<secrets, evidence, advanced>>
    BY <1>4 DEF BeginSmoke
  <2> QED
    BY <1>0, <1>4, <2>1, <2>2, RunBegins, FirstWorkload, NoVersionsTyped
       DEF SInv, SmokeTypeOK, SmokeRun
<1>5. CASE Login
  BY <1>0, <1>5, RunLogsIn DEF Login, KeepWorld, SInv, SmokeTypeOK, SmokeRun
<1>6. ASSUME NEW p, ReadApproved(p)
      PROVE  SInv'
  <2>1. smoke.seen \in [Workloads -> [Paths -> 0..MaxWrites]] /\ smoke.workload \in Workloads
    BY <1>0 DEF SmokeTypeOK, Versions
  <2> DEFINE row == [smoke.seen[smoke.workload] EXCEPT ![p] = secrets[p].version]
  <2>2. row \in [Paths -> 0..MaxWrites]
    <3>1. CASE p \in Paths
      <4>1. secrets[p].version \in 0..MaxWrites
        BY <1>0, <3>1 DEF SmokeTypeOK
      <4> QED
        BY <2>1, <4>1
    <3>2. CASE p \notin Paths
      BY <2>1, <3>2
    <3> QED
      BY <3>1, <3>2
  <2>3. smoke'.seen = [smoke.seen EXCEPT ![smoke.workload] = row]
    BY <1>0, <1>6, RunReadsApproved
  <2>4. smoke'.seen \in Versions
    <3> HIDE DEF row
    <3> QED
      BY <2>1, <2>2, <2>3 DEF Versions
  <2>5. smoke.step = "access" /\ KeepWorld /\ p \in PathsOf(smoke.cfg, smoke.workload)
    BY <1>6 DEF ReadApproved
  <2>6. smoke.cfg \in Configs /\ smoke.cfg.environment = "staging"
    BY <1>0, <2>5 DEF SmokeRun
  <2>7. p \in AllPaths(smoke.cfg)
    BY <2>1, <2>5, <2>6, TestedHaveResources DEF AllPaths, PathsOf, Bindings
  <2>8. RunKeeps /\ smoke'.asked = smoke.asked \union {p} /\ smoke'.tried = smoke.tried
    BY <1>0, <1>6, RunReadsApproved
  <2>9. smoke.asked \union {p} \subseteq UNION {AllPaths(c) : c \in Configs}
    BY <2>5, <2>7, AskedStays
  <2> QED
    BY <1>0, <2>4, <2>5, <2>8, <2>9, RequestTyped DEF SmokeTypeOK
<1>7. ASSUME NEW p, ReadDenied(p)
      PROVE  SInv'
  <2>1. smoke.step = "access" /\ KeepWorld /\ p \in AllPaths(smoke.cfg)
    BY <1>7 DEF ReadDenied
  <2> QED
    BY <1>0, <1>7, <2>1, RunReadsDenied, AskedStays, RequestTyped DEF SmokeTypeOK
<1>8. ASSUME NEW v \in Workloads, ForeignLogin(v)
      PROVE  SInv'
  <2>1. smoke.step = "access" /\ KeepWorld
    BY <1>8 DEF ForeignLogin, HasRead
  <2> QED
    BY <1>0, <1>8, <2>1, RunTries, RequestTyped DEF SmokeTypeOK
<1>9. CASE NextWorkload \/ Pass
  <2>1. smoke.step = "access" /\ KeepWorld
    BY <1>9 DEF NextWorkload, Pass, HasTried, HasRead
  <2>2. smoke'.workload \in Workloads
    BY <1>0, <1>9, RunGoesOn, NIsPositive DEF SmokeTypeOK, Workloads
  <2> QED
    BY <1>0, <1>9, <2>1, <2>2, RunGoesOn DEF KeepWorld, SInv, SmokeTypeOK, SmokeRun
<1>10. CASE WriteEvidence \/ TruncateEvidence
  <2>1. /\ smoke' = NoSmoke /\ UNCHANGED <<secrets, rotated, calm>>
        /\ evidence' \in {smoke.seen, NoVersions} /\ advanced' \in {rotated, advanced}
    BY <1>10 DEF WriteEvidence, TruncateEvidence
  <2> QED
    BY <1>0, <2>1, RunStops, FirstWorkload, NoVersionsTyped DEF SInv, SmokeTypeOK, SmokeRun
<1>11. CASE SmokeFails
  BY <1>0, <1>11, RunStops, FirstWorkload, NoVersionsTyped
     DEF SmokeFails, FailSmoke, KeepWorld, SInv, SmokeTypeOK, SmokeRun
<1> QED
  BY <1>1, <1>2, <1>3, <1>4, <1>5, <1>6, <1>7, <1>8, <1>9, <1>10, <1>11 DEF SmokeNext

\* To the deployment, the smoke test is a step of an operator or none.
LEMMA SmokeDeploys == [SmokeNext]_vaultVars => [DeployNext]_deployVars
BY DEF SmokeNext, DeployMeanwhile, DeployNext, WriteSecret, BeginSmoke, Login, ReadApproved,
       ReadDenied, ForeignLogin, NextWorkload, Pass, WriteEvidence, TruncateEvidence, SmokeFails,
       KeepWorld, vaultVars, smokeVars

\* Types: the run, the versions it saw and left are within what Vault holds.
THEOREM SmokeTypes == SmokeSpec => []SmokeTypeOK
<1>1. SInv => SmokeTypeOK
  BY DEF SInv
<1> QED
  BY <1>1, InitSmoke, SmokeInductive, PTL DEF SmokeSpec

-----------------------------------------------------------------------------
(* Rotation *)

\* Versions only grow.  A version that was seen is the present one unless the
\* path was written since the run began, and one in the evidence unless it was
\* written since the run began that left it.
VersionsKnown ==
  \A w \in Workloads, p \in Paths :
    /\ smoke.seen[w][p] <= secrets[p].version
    /\ p \notin rotated => smoke.seen[w][p] \in {0, secrets[p].version}
    /\ p \notin advanced => evidence[w][p] \in {0, secrets[p].version}

\* A run that has passed saw every expected path advance.
PassedVerified == smoke.step = "passed" => VerifyRotation

VInv == VersionsKnown /\ PassedVerified

LEMMA InitVersions == SmokeInit => VInv
<1> SUFFICES ASSUME SmokeInit PROVE VInv
  OBVIOUS
<1>1. \A w \in Workloads, p \in Paths : NoVersions[w][p] = 0
  BY DEF NoVersions
<1>2. \A p \in Paths : secrets[p].version \in {0, 1}
  BY DEF SmokeInit
<1>3. smoke.seen = NoVersions /\ smoke.step = "idle" /\ evidence = NoVersions
  BY NoSmokeTyped DEF SmokeInit
<1> QED
  BY <1>1, <1>2, <1>3 DEF VInv, VersionsKnown, PassedVerified

LEMMA VersionsInductive == SInv /\ VInv /\ [SmokeNext]_vaultVars => VInv'
<1> SUFFICES ASSUME SInv, VInv, [SmokeNext]_vaultVars PROVE VInv'
  OBVIOUS
<1>0. SmokeTypeOK /\ SmokeRun /\ VersionsKnown /\ PassedVerified
  BY DEF SInv, VInv
<1>a. \A p \in Paths : secrets[p].version \in Nat
  BY <1>0 DEF SmokeTypeOK
<1>b. \A w \in Workloads, p \in Paths : NoVersions[w][p] = 0
  BY DEF NoVersions
<1>c. \A w \in Workloads, p \in Paths : smoke.seen[w][p] \in Nat /\ evidence[w][p] \in Nat
  <2>1. smoke.seen \in Versions /\ evidence \in Versions
    BY <1>0 DEF SmokeTypeOK
  <2>2. \A w \in Workloads, p \in Paths :
          smoke.seen[w][p] \in 0..MaxWrites /\ evidence[w][p] \in 0..MaxWrites
    BY <2>1 DEF Versions
  <2> QED
    BY <2>2
<1>1. CASE UNCHANGED <<smoke, secrets, evidence, rotated, advanced>>
  BY <1>0, <1>1 DEF VInv, VersionsKnown, PassedVerified, VerifyRotation, Advanced
<1>2. ASSUME NEW p \in Paths, NEW whole \in BOOLEAN, WriteSecret(p, whole)
      PROVE  VInv'
  <2>1. /\ smoke' = smoke /\ evidence' = evidence
        /\ rotated' = rotated \union {p} /\ advanced' = advanced \union {p}
    BY <1>2 DEF WriteSecret
  <2>2. PassedVerified'
    BY <1>0, <2>1 DEF PassedVerified, VerifyRotation, Advanced
  <2>3. ASSUME NEW w \in Workloads, NEW q \in Paths
        PROVE  /\ smoke.seen[w][q] <= secrets'[q].version
               /\ q \notin rotated' => smoke.seen[w][q] \in {0, secrets'[q].version}
               /\ q \notin advanced' => evidence[w][q] \in {0, secrets'[q].version}
    <3>1. /\ q # p => secrets'[q] = secrets[q]
          /\ secrets[q].version <= secrets'[q].version
          /\ secrets'[q].version \in Nat
      BY <1>0, <1>2, WrittenSecret
    <3>2. smoke.seen[w][q] <= secrets[q].version
      BY <1>0 DEF VersionsKnown
    <3>3. smoke.seen[w][q] <= secrets'[q].version
      BY <1>a, <1>c, <3>1, <3>2
    <3> QED
      BY <1>0, <2>1, <3>1, <3>3 DEF VersionsKnown
  <2> QED
    BY <2>1, <2>2, <2>3 DEF VInv, VersionsKnown
<1>3. ASSUME NEW c \in Configs, NEW X \in SUBSET Paths, BeginSmoke(c, X)
      PROVE  VInv'
  <2>1. smoke'.seen = NoVersions /\ smoke'.step = "login"
    BY <1>3, RunBegins
  <2>2. secrets' = secrets /\ evidence' = evidence /\ advanced' = advanced
    BY <1>3 DEF BeginSmoke
  <2> QED
    BY <1>0, <1>a, <1>b, <2>1, <2>2 DEF VInv, VersionsKnown, PassedVerified
<1>4. ASSUME NEW p, ReadApproved(p)
      PROVE  VInv'
  <2>1. /\ UNCHANGED <<secrets, evidence, rotated, advanced>>
        /\ smoke'.step = "access"
        /\ smoke'.seen = [smoke.seen EXCEPT ![smoke.workload] =
                            [smoke.seen[smoke.workload] EXCEPT ![p] = secrets[p].version]]
    BY <1>0, <1>4, RunReadsApproved DEF ReadApproved, KeepWorld, RunKeeps
  <2>2. smoke.seen \in [Workloads -> [Paths -> 0..MaxWrites]]
    BY <1>0 DEF SmokeTypeOK, Versions
  <2>3. \A w \in Workloads, q \in Paths : smoke'.seen[w][q] \in {secrets[q].version, smoke.seen[w][q]}
    BY <2>1, <2>2
  <2>4. \A w \in Workloads, q \in Paths :
          /\ smoke'.seen[w][q] <= secrets[q].version
          /\ q \notin rotated => smoke'.seen[w][q] \in {0, secrets[q].version}
    BY <1>0, <1>a, <2>3 DEF VersionsKnown
  <2>5. PassedVerified'
    BY <2>1 DEF PassedVerified
  <2> QED
    BY <1>0, <2>1, <2>4, <2>5 DEF VInv, VersionsKnown
<1>5. ASSUME UNCHANGED <<secrets, evidence, rotated, advanced>>, smoke'.seen = smoke.seen,
             smoke'.expect = smoke.expect, smoke'.step = "passed" => VerifyRotation
      PROVE  VInv'
  <2>1. PassedVerified'
    BY <1>5 DEF PassedVerified, VerifyRotation, Advanced
  <2> QED
    BY <1>0, <1>5, <2>1 DEF VInv, VersionsKnown
<1>6. CASE Login \/ NextWorkload \/ Pass
  <2>1. UNCHANGED <<secrets, evidence, rotated, advanced>>
    BY <1>6 DEF Login, NextWorkload, Pass, KeepWorld
  <2> QED
    BY <1>0, <1>5, <1>6, <2>1, RunLogsIn, RunGoesOn
<1>7. ASSUME NEW p, ReadDenied(p) \/ ForeignLogin(p)
      PROVE  VInv'
  <2>1. UNCHANGED <<secrets, evidence, rotated, advanced>> /\ smoke.step = "access"
    BY <1>7 DEF ReadDenied, ForeignLogin, HasRead, KeepWorld
  <2> QED
    BY <1>0, <1>5, <1>7, <2>1, RunReadsDenied, RunTries DEF RunKeeps
<1>8. CASE WriteEvidence \/ TruncateEvidence
  <2>1. /\ smoke'.seen = NoVersions /\ smoke'.step = "idle"
    BY <1>8, RunStops DEF WriteEvidence, TruncateEvidence
  <2>2. /\ secrets' = secrets /\ rotated' = rotated
        /\ \/ evidence' = smoke.seen /\ advanced' = rotated
           \/ evidence' = NoVersions /\ advanced' = advanced
    BY <1>8 DEF WriteEvidence, TruncateEvidence
  <2> QED
    BY <1>0, <1>a, <1>b, <2>1, <2>2 DEF VInv, VersionsKnown, PassedVerified
<1>9. CASE SmokeFails
  <2>1. /\ smoke'.seen = NoVersions /\ smoke'.step = "idle"
    BY <1>9, RunStops DEF SmokeFails, FailSmoke
  <2>2. UNCHANGED <<secrets, evidence, rotated, advanced>>
    BY <1>9 DEF SmokeFails, KeepWorld
  <2> QED
    BY <1>0, <1>a, <1>b, <2>1, <2>2 DEF VInv, VersionsKnown, PassedVerified
<1> QED
  BY <1>1, <1>2, <1>3, <1>4, <1>6, <1>7, <1>8, <1>9
     DEF SmokeNext, DeployMeanwhile, vaultVars, smokeVars

LEMMA AdvancedWasWritten == SInv /\ VInv => RotationObserved
<1> SUFFICES ASSUME SInv, VInv, smoke.step = "passed", NEW p \in smoke.expect
             PROVE  p \in advanced
  BY DEF RotationObserved
<1>1. p \in Paths /\ SmokeTypeOK
  BY DEF SInv, SmokeTypeOK
<1>2. PICK w \in Workloads : evidence[w][p] > 0 /\ smoke.seen[w][p] > evidence[w][p]
  BY DEF VInv, PassedVerified, VerifyRotation, Advanced
<1>3. secrets[p].version \in Nat /\ smoke.seen[w][p] \in 0..MaxWrites
  BY <1>1 DEF SmokeTypeOK, Versions
<1>4. smoke.seen[w][p] <= secrets[p].version
  BY <1>1 DEF VInv, VersionsKnown
<1>5. p \notin advanced => evidence[w][p] \in {0, secrets[p].version}
  BY <1>1 DEF VInv, VersionsKnown
<1> QED
  BY <1>2, <1>3, <1>4, <1>5

\* A path that is reported rotated was written since the run that left the
\* evidence began, for any number of workloads, paths, writes and runs.
THEOREM RotationIsObserved == SmokeSpec => []RotationObserved
<1>1. SmokeInit => SInv /\ VInv
  BY InitSmoke, InitVersions
<1>2. SInv /\ VInv /\ [SmokeNext]_vaultVars => SInv' /\ VInv'
  BY SmokeInductive, VersionsInductive
<1> QED
  BY <1>1, <1>2, AdvancedWasWritten, PTL DEF SmokeSpec

-----------------------------------------------------------------------------
(* What is stored *)

\* A role, or a policy, is stored as the plan of some configuration has it.
RolesArePlanned ==
  \A name : RoleAt(name) \in Resources =>
    \/ store[RoleAt(name)] = Absent
    \/ \E c \in VaultConfigs : \E w \in Workloads : store[RoleAt(name)] = Role(c, w)

PoliciesArePlanned ==
  \A name : PolicyAt(name) \in Resources =>
    \/ store[PolicyAt(name)] = Absent
    \/ \E c \in VaultConfigs : \E w \in Workloads : store[PolicyAt(name)] = Policy(c, w)

Planned == RolesArePlanned /\ PoliciesArePlanned

LEMMA InitPlanned == DeployInit => Planned
BY KindsDiffer DEF DeployInit, EmptyStore, Planned, RolesArePlanned, PoliciesArePlanned

LEMMA RolesPlannedInductive ==
  TInv /\ RolesArePlanned /\ [DeployNext]_deployVars => RolesArePlanned'
<1> SUFFICES ASSUME TInv, RolesArePlanned, [DeployNext]_deployVars,
                    NEW name, RoleAt(name) \in Resources, store'[RoleAt(name)] # Absent
             PROVE  \E c \in VaultConfigs : \E w \in Workloads : store'[RoleAt(name)] = Role(c, w)
  BY DEF RolesArePlanned
<1> DEFINE r == RoleAt(name)
<1>1. CASE UNCHANGED store
  BY <1>1 DEF RolesArePlanned
<1>2. ASSUME NEW d \in Deployers, Deploy(d)
      PROVE  \E c \in VaultConfigs : \E w \in Workloads : store'[r] = Role(c, w)
  <2>0. RunIsAtPut(d) /\ store \in [Resources -> Bodies \union {Absent}]
    BY DEF TInv, RunsAreAtPuts, DeployTypeOK
  <2>1. CASE store' = store
    BY <2>1 DEF RolesArePlanned
  <2>2. CASE \E ca \in CaFiles : store' = [store EXCEPT ![AuthAt] = AuthConfig(cfg[d], ca)]
    <3>1. store'[r] = store[r]
      BY <2>0, <2>2, KindsDiffer
    <3> QED
      BY <3>1 DEF RolesArePlanned
  <2>3. CASE /\ phase[d] = "apply"
             /\ store' = [store EXCEPT ![Plan(cfg[d])[at[d]].at] = Plan(cfg[d])[at[d]].body]
    <3>1. cfg[d] \in Plannable /\ at[d] \in DOMAIN Plan(cfg[d])
      BY <2>0, <2>3 DEF RunIsAtPut
    <3>2. CASE Plan(cfg[d])[at[d]].at # r
      <4>1. store'[r] = store[r]
        BY <2>0, <2>3, <3>2
      <4> QED
        BY <4>1 DEF RolesArePlanned
    <3>3. CASE Plan(cfg[d])[at[d]].at = r
      <4>1. PICK w : IsRolePut(cfg[d], at[d], w)
        BY <3>1, <3>3, PutKinds, KindsDiffer DEF IsPolicyPut, IsUpstreamPut, IsRoutePut
      <4>2. store'[r] = Plan(cfg[d])[at[d]].body
        BY <2>0, <2>3, <3>3
      <4> QED
        BY <4>1, <4>2 DEF IsRolePut
    <3> QED
      BY <3>2, <3>3
  <2> QED
    BY <1>2, <2>1, <2>2, <2>3, Written
<1> QED
  BY <1>1, <1>2 DEF DeployNext, deployVars

LEMMA PoliciesPlannedInductive ==
  TInv /\ PoliciesArePlanned /\ [DeployNext]_deployVars => PoliciesArePlanned'
<1> SUFFICES ASSUME TInv, PoliciesArePlanned, [DeployNext]_deployVars,
                    NEW name, PolicyAt(name) \in Resources, store'[PolicyAt(name)] # Absent
             PROVE  \E c \in VaultConfigs : \E w \in Workloads : store'[PolicyAt(name)] = Policy(c, w)
  BY DEF PoliciesArePlanned
<1> DEFINE r == PolicyAt(name)
<1>1. CASE UNCHANGED store
  BY <1>1 DEF PoliciesArePlanned
<1>2. ASSUME NEW d \in Deployers, Deploy(d)
      PROVE  \E c \in VaultConfigs : \E w \in Workloads : store'[r] = Policy(c, w)
  <2>0. RunIsAtPut(d) /\ store \in [Resources -> Bodies \union {Absent}]
    BY DEF TInv, RunsAreAtPuts, DeployTypeOK
  <2>1. CASE store' = store
    BY <2>1 DEF PoliciesArePlanned
  <2>2. CASE \E ca \in CaFiles : store' = [store EXCEPT ![AuthAt] = AuthConfig(cfg[d], ca)]
    <3>1. store'[r] = store[r]
      BY <2>0, <2>2, KindsDiffer
    <3> QED
      BY <3>1 DEF PoliciesArePlanned
  <2>3. CASE /\ phase[d] = "apply"
             /\ store' = [store EXCEPT ![Plan(cfg[d])[at[d]].at] = Plan(cfg[d])[at[d]].body]
    <3>1. cfg[d] \in Plannable /\ at[d] \in DOMAIN Plan(cfg[d])
      BY <2>0, <2>3 DEF RunIsAtPut
    <3>2. CASE Plan(cfg[d])[at[d]].at # r
      <4>1. store'[r] = store[r]
        BY <2>0, <2>3, <3>2
      <4> QED
        BY <4>1 DEF PoliciesArePlanned
    <3>3. CASE Plan(cfg[d])[at[d]].at = r
      <4>1. PICK w : IsPolicyPut(cfg[d], at[d], w)
        BY <3>1, <3>3, PutKinds, KindsDiffer DEF IsRolePut, IsUpstreamPut, IsRoutePut
      <4>2. store'[r] = Plan(cfg[d])[at[d]].body
        BY <2>0, <2>3, <3>3
      <4> QED
        BY <4>1, <4>2 DEF IsPolicyPut
    <3> QED
      BY <3>2, <3>3
  <2> QED
    BY <1>2, <2>1, <2>2, <2>3, Written
<1> QED
  BY <1>1, <1>2 DEF DeployNext, deployVars

LEMMA PlannedInductive == TInv /\ Planned /\ [DeployNext]_deployVars => Planned'
BY RolesPlannedInductive, PoliciesPlannedInductive DEF Planned

\* A policy that is stored lets some paths be read, and no others: those that
\* a workload of a validated configuration is approved for.
LEMMA StoredPolicy ==
  ASSUME PoliciesArePlanned, NEW name, PolicyAt(name) \in Resources, store[PolicyAt(name)] # Absent
  PROVE  \E X \in SUBSET Paths : store[PolicyAt(name)] = [read |-> X]
<1>1. PICK c \in VaultConfigs : \E w \in Workloads : store[PolicyAt(name)] = Policy(c, w)
  BY DEF PoliciesArePlanned
<1>2. PICK w \in Workloads : store[PolicyAt(name)] = Policy(c, w)
  BY <1>1
<1>3. PathsOf(c, w) = Approved(w)
  BY PlansByTool, ReadsApproved DEF VaultConfigs
<1> QED
  BY <1>2, <1>3 DEF Policy, Approved

\* A login that succeeds and receives the workload's policy proves its role.
LEMMA LoginProves ==
  ASSUME RolesArePlanned, NEW c, NEW w, RoleAt(c.workloads[w].role) \in Resources,
         LoginSucceeds(c.workloads[w].role, Jwt(c, w)),
         store[RoleAt(c.workloads[w].role)].policy = c.workloads[w].policy
  PROVE  store[RoleAt(c.workloads[w].role)] = Role(c, w)
<1> DEFINE s == store[RoleAt(c.workloads[w].role)]
<1>1. s # Absent /\ s.task = c.workloads[w].task /\ s.role = c.workloads[w].role
  BY DEF LoginSucceeds, Jwt
<1>2. PICK b \in VaultConfigs : \E v \in Workloads : s = Role(b, v)
  BY <1>1 DEF RolesArePlanned
<1>3. PICK v \in Workloads : s = Role(b, v)
  BY <1>2
<1> QED
  BY <1>1, <1>3 DEF Role

\* Reads that are all answered as they should be prove the policy.
LEMMA ReadsProve ==
  ASSUME PoliciesArePlanned, NEW c, NEW w \in Workloads, NEW name, PolicyAt(name) \in Resources,
         DOMAIN c.workloads = Workloads, Paths \subseteq AllPaths(c), c.workloads[w].bindings # {},
         \A p \in PathsOf(c, w) : ReadStatus(name, p) = 200,
         \A p \in AllPaths(c) \ PathsOf(c, w) : ReadStatus(name, p) = 403
  PROVE  store[PolicyAt(name)] = [read |-> PathsOf(c, w)]
<1>1. PathsOf(c, w) # {}
  BY DEF PathsOf
<1>2. store[PolicyAt(name)] # Absent
  BY <1>1 DEF ReadStatus
<1>3. PICK X \in SUBSET Paths : store[PolicyAt(name)] = [read |-> X]
  BY <1>2, StoredPolicy
<1>4. PathsOf(c, w) \subseteq X
  BY <1>2, <1>3 DEF ReadStatus
<1>5. \A p \in AllPaths(c) \ PathsOf(c, w) : p \notin X
  BY <1>2, <1>3 DEF ReadStatus
<1> QED
  BY <1>3, <1>4, <1>5

-----------------------------------------------------------------------------
(* Isolation *)

HasRole(c, w) == store[RoleAt(c.workloads[w].role)] = Role(c, w)
HasPolicy(c, w) == store[PolicyAt(c.workloads[w].policy)] = Policy(c, w)

\* The answer to a request for the path is the one that the run goes on with.
Answered(p) ==
  ReadStatus(smoke.token, p) = IF p \in PathsOf(smoke.cfg, smoke.workload) THEN 200 ELSE 403

\* A calm run has proved the workloads it is past, the role of a workload that
\* is logged in, and what its policy says of the paths asked so far.
ProvedSoFar ==
  calm =>
    /\ smoke.step # "idle" =>
         \A w \in Workloads : w < smoke.workload => HasRole(smoke.cfg, w) /\ HasPolicy(smoke.cfg, w)
    /\ smoke.step = "access" =>
         /\ HasRole(smoke.cfg, smoke.workload)
         /\ smoke.token = smoke.cfg.workloads[smoke.workload].policy
         /\ \A p \in smoke.asked : Answered(p)
    /\ smoke.step = "passed" =>
         HasRole(smoke.cfg, smoke.workload) /\ HasPolicy(smoke.cfg, smoke.workload)

LEMMA ProvedStays ==
  ASSUME ProvedSoFar, smoke' = smoke, calm' => calm /\ store' = store /\ secrets' = secrets
  PROVE  ProvedSoFar'
BY DEF ProvedSoFar, HasRole, HasPolicy, Answered, ReadStatus

LEMMA ProvedInductive ==
  TestsAreComplete =>
    (SInv /\ Planned /\ ProvedSoFar /\ [SmokeNext]_vaultVars
       => ProvedSoFar')
<1> SUFFICES ASSUME TestsAreComplete, SInv, Planned, ProvedSoFar, [SmokeNext]_vaultVars
             PROVE  ProvedSoFar'
  OBVIOUS
<1>0. /\ SmokeRun /\ smoke.workload \in Workloads /\ calm \in BOOLEAN
      /\ RolesArePlanned /\ PoliciesArePlanned
  BY DEF SInv, SmokeTypeOK, Planned
<1> DEFINE c == smoke.cfg
           w == smoke.workload
<1>1. smoke.step # "idle" =>
        /\ DOMAIN c.workloads = Workloads
        /\ RoleAt(c.workloads[w].role) \in Resources /\ PolicyAt(c.workloads[w].policy) \in Resources
        /\ Paths \subseteq AllPaths(c) /\ c.workloads[w].bindings # {}
  BY <1>0, TestedHaveResources DEF SmokeRun, TestsAreComplete
<1>2. CASE UNCHANGED vaultVars
  BY <1>2, ProvedStays DEF vaultVars, smokeVars, deployVars
<1>3. ASSUME NEW p \in Paths, NEW whole \in BOOLEAN, WriteSecret(p, whole)
      PROVE  ProvedSoFar'
  BY <1>3, ProvedStays DEF WriteSecret
<1>4. ASSUME NEW d \in Deployers, DeployMeanwhile(d)
      PROVE  ProvedSoFar'
  <2>1. smoke' = smoke /\ (calm' => calm /\ store' = store /\ secrets' = secrets)
    BY <1>4 DEF DeployMeanwhile
  <2> QED
    BY <2>1, ProvedStays
<1>5. ASSUME NEW b \in Configs, NEW X \in SUBSET Paths, BeginSmoke(b, X)
      PROVE  ProvedSoFar'
  <2>1. smoke'.step = "login" /\ smoke'.workload = 1
    BY <1>5, RunBegins
  <2>2. \A v \in Workloads : ~(v < 1)
    BY NIsPositive DEF Workloads
  <2> QED
    BY <2>1, <2>2 DEF ProvedSoFar
<1>6. CASE Login
  <2>1. /\ smoke.step = "login" /\ store' = store /\ calm' = calm
        /\ LoginSucceeds(c.workloads[w].role, Jwt(c, w))
        /\ store[RoleAt(c.workloads[w].role)].policy = c.workloads[w].policy
    BY <1>6 DEF Login, KeepWorld, deployVars
  <2>2. /\ smoke'.step = "access" /\ smoke'.cfg = c /\ smoke'.workload = w
        /\ smoke'.asked = {} /\ smoke'.token = c.workloads[w].policy
    BY <1>0, <1>6, <2>1, RunLogsIn
  <2>3. HasRole(c, w)
    BY <1>0, <1>1, <2>1, LoginProves DEF HasRole
  <2> QED
    BY <2>1, <2>2, <2>3 DEF ProvedSoFar, HasRole, HasPolicy
<1>7. ASSUME NEW p, ReadApproved(p) \/ ReadDenied(p)
      PROVE  ProvedSoFar'
  <2>1. /\ smoke.step = "access" /\ store' = store /\ calm' = calm /\ secrets' = secrets
        /\ Answered(p)
    BY <1>7 DEF ReadApproved, ReadDenied, Answered, KeepWorld, deployVars
  <2>2. smoke'.asked = smoke.asked \union {p} /\ RunKeeps
    BY <1>0, <1>7, RunReadsApproved, RunReadsDenied
  <2>3. SUFFICES ASSUME calm PROVE ProvedSoFar'
    BY <2>1 DEF ProvedSoFar
  <2>4. \A q \in smoke'.asked : Answered(q)
    BY <2>1, <2>2, <2>3 DEF ProvedSoFar
  <2>5. \A q \in smoke'.asked : Answered(q)'
    BY <2>1, <2>2, <2>4 DEF Answered, ReadStatus, RunKeeps
  <2> QED
    BY <2>1, <2>2, <2>3, <2>5 DEF ProvedSoFar, HasRole, HasPolicy, RunKeeps
<1>8. ASSUME NEW v \in Workloads, ForeignLogin(v)
      PROVE  ProvedSoFar'
  <2>1. /\ smoke.step = "access" /\ store' = store /\ calm' = calm /\ secrets' = secrets
    BY <1>8 DEF ForeignLogin, HasRead, KeepWorld, deployVars
  <2>2. smoke'.asked = smoke.asked /\ RunKeeps
    BY <1>0, <1>8, RunTries
  <2> QED
    BY <2>1, <2>2 DEF ProvedSoFar, HasRole, HasPolicy, RunKeeps, Answered, ReadStatus
<1>9. CASE NextWorkload \/ Pass
  <2>1. /\ smoke.step = "access" /\ smoke.asked = AllPaths(c) /\ store' = store /\ calm' = calm
    BY <1>9 DEF NextWorkload, Pass, HasTried, HasRead, KeepWorld, deployVars
  <2>2. SUFFICES ASSUME calm PROVE ProvedSoFar'
    BY <2>1 DEF ProvedSoFar
  <2>3. /\ HasRole(c, w) /\ smoke.token = c.workloads[w].policy
        /\ \A p \in AllPaths(c) : Answered(p)
        /\ \A v \in Workloads : v < w => HasRole(c, v) /\ HasPolicy(c, v)
    BY <2>1, <2>2 DEF ProvedSoFar
  <2>4. HasPolicy(c, w)
    <3>1. PathsOf(c, w) \subseteq AllPaths(c)
      BY <1>0, <1>1, <2>1 DEF AllPaths, PathsOf, Bindings
    <3>2. /\ \A p \in PathsOf(c, w) : ReadStatus(smoke.token, p) = 200
          /\ \A p \in AllPaths(c) \ PathsOf(c, w) : ReadStatus(smoke.token, p) = 403
      BY <2>3, <3>1 DEF Answered
    <3> QED
      BY <1>0, <1>1, <2>1, <2>3, <3>2, ReadsProve DEF HasPolicy, Policy
  <2>5. \A v \in Workloads : v < w + 1 => v = w \/ v < w
    BY <1>0, NIsPositive DEF Workloads
  <2>6. smoke'.cfg = c /\ \/ smoke'.step = "login" /\ smoke'.workload = w + 1
                          \/ smoke'.step = "passed" /\ smoke'.workload = w
    BY <1>0, <1>9, RunGoesOn
  <2> HIDE DEF c, w
  <2> QED
    BY <2>1, <2>3, <2>4, <2>5, <2>6 DEF ProvedSoFar, HasRole, HasPolicy
<1>10. CASE WriteEvidence \/ TruncateEvidence \/ SmokeFails
  <2>1. smoke'.step = "idle"
    BY <1>10, RunStops DEF WriteEvidence, TruncateEvidence, SmokeFails, FailSmoke
  <2> QED
    BY <2>1 DEF ProvedSoFar
<1> QED
  BY <1>2, <1>3, <1>4, <1>5, <1>6, <1>7, <1>8, <1>9, <1>10 DEF SmokeNext

LEMMA ProvedIsIsolated == SInv /\ ProvedSoFar => SmokeIsolation
<1> SUFFICES ASSUME SInv, ProvedSoFar, smoke.step = "passed", calm,
                    NEW i \in DOMAIN Plan(smoke.cfg)
             PROVE  store[Plan(smoke.cfg)[i].at] = Plan(smoke.cfg)[i].body
  BY DEF SmokeIsolation
<1> DEFINE c == smoke.cfg
           w == (i + 1) \div 2
<1>1. c \in Configs /\ smoke.workload = N
  BY DEF SInv, SmokeRun
<1>2. Plan(c) = DeploymentResources(c)
  BY <1>1, ToolsTell DEF Plan
<1>3. i \in 1..2 * N
  BY <1>2 DEF DeploymentResources
<1>4. w \in Workloads /\ (w < N \/ w = N)
  BY <1>3, NIsPositive DEF Workloads
<1> HIDE DEF w, c
<1>5. HasRole(c, w) /\ HasPolicy(c, w)
  BY <1>1, <1>4 DEF ProvedSoFar, c
<1>6. \/ Plan(c)[i] = Put(PolicyAt(c.workloads[w].policy), Policy(c, w))
      \/ Plan(c)[i] = Put(RoleAt(c.workloads[w].role), Role(c, w))
  BY <1>2, <1>3 DEF DeploymentResources, w
<1> QED
  BY <1>5, <1>6 DEF HasRole, HasPolicy, Put, c

\* A run that passes while nobody deploys proves its whole configuration
\* deployed, whatever deployments were stopped before and whatever they left,
\* if its configuration binds every path.
THEOREM SmokeIsolates ==
  ASSUME TestsAreComplete
  PROVE  SmokeSpec => []SmokeIsolation
<1>1. SmokeSpec => DeploySpec
  BY SmokeDeploys, PTL DEF SmokeSpec, DeploySpec
<1>2. DeploySpec => []Planned
  BY DeployTypes, InitPlanned, PlannedInductive, PTL DEF DeploySpec
<1>3. SmokeSpec => []SInv
  BY InitSmoke, SmokeInductive, PTL DEF SmokeSpec
<1>4. SmokeInit => ProvedSoFar
  BY NoSmokeTyped DEF SmokeInit, ProvedSoFar
<1>5. SInv /\ Planned /\ ProvedSoFar /\ [SmokeNext]_vaultVars => ProvedSoFar'
  BY ProvedInductive
<1> QED
  BY <1>1, <1>2, <1>3, <1>4, <1>5, ProvedIsIsolated, PTL DEF SmokeSpec
=============================================================================
