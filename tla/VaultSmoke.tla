----------------------------- MODULE VaultSmoke -----------------------------
(***************************************************************************)
(* smoke_vault.py, run against a Vault that operators deploy to and in     *)
(* which secrets are written meanwhile.  Workload after workload logs in   *)
(* with its own role, reads every path, and tries the roles of the others, *)
(* one request after the other; the order of a workload's is left open.    *)
(* The configuration is not validated.  The versions read are the          *)
(* evidence; a later run may ask that named paths advanced since.          *)
(***************************************************************************)
EXTENDS Deployment

CONSTANT MaxWrites  \* bound: writes of secrets in a behaviour

ASSUME WritesArePositive == MaxWrites \in Nat \ {0}

\* The model has a resource for whatever a tested configuration names.
ASSUME TestedHaveResources ==
  \A c \in Configs : c.environment = "staging" =>
    /\ DOMAIN c.workloads = Workloads
    /\ \A w \in Workloads : {RoleAt(c.workloads[w].role), PolicyAt(c.workloads[w].policy)} \subseteq Resources

VARIABLES
  secrets,   \* [Paths]: version, 0 if there is none, and whether the object
             \* has exactly the keys that are bound
  smoke,     \* the run: its step, configuration, workload, the policy of its
             \* token, the paths asked and roles tried with it, the versions
             \* seen, and the paths expected to be rotated
  evidence,  \* [Workloads -> [Paths]]: versions in the evidence file, 0 if none;
             \* all 0 if there is no file or a broken one
  rotated,   \* paths written since the run under way began
  advanced,  \* paths written since the run that left the evidence began
  calm       \* nothing was deployed or written since the run under way began

smokeVars == <<secrets, smoke, evidence, rotated, advanced, calm>>
vaultVars == <<deployVars, smokeVars>>

NoVersions == [w \in Workloads |-> [p \in Paths |-> 0]]

NoSmoke ==
  [step |-> "idle", cfg |-> Absent, workload |-> 1, token |-> Absent,
   asked |-> {}, tried |-> {}, seen |-> NoVersions, expect |-> {}]

Versions == [Workloads -> [Paths -> 0..MaxWrites]]

AllPaths(c) == {b.path : b \in Bindings(c)}

SmokeTypeOK ==
  /\ secrets \in [Paths -> [version : 0..MaxWrites, whole : BOOLEAN]]
  /\ smoke.step \in {"idle", "login", "access", "passed"}
  /\ smoke.cfg \in Configs \union {Absent}
  /\ smoke.workload \in Workloads
  /\ smoke.asked \subseteq UNION {AllPaths(c) : c \in Configs}
  /\ smoke.tried \subseteq Workloads
  /\ smoke.seen \in Versions
  /\ smoke.expect \subseteq Paths
  /\ evidence \in Versions
  /\ rotated \subseteq Paths /\ advanced \subseteq Paths
  /\ calm \in BOOLEAN

SmokeInit ==
  /\ secrets \in [Paths -> [version : {0, 1}, whole : {TRUE}]]
  /\ smoke = NoSmoke
  /\ evidence = NoVersions
  /\ rotated = {} /\ advanced = {}
  /\ calm = TRUE

-----------------------------------------------------------------------------
(* Vault *)

\* A task's token of the workload identity: the issuer, the task and the role.
Jwt(c, w) ==
  [jwks |-> c.auth, task |-> c.workloads[w].task, role |-> c.workloads[w].role]

\* A login succeeds if the mount trusts the issuer and the role is bound to the
\* claims of the token.  With the wrong certificates it may fail nevertheless,
\* which ends the run as SmokeFails.
LoginSucceeds(name, jwt) ==
  /\ store[AuthAt].jwks = jwt.jwks
  /\ store[RoleAt(name)] # Absent
  /\ store[RoleAt(name)].task = jwt.task
  /\ store[RoleAt(name)].role = jwt.role

\* What a token of a policy is answered when it reads a path.
ReadStatus(policy, p) ==
  IF store[PolicyAt(policy)] = Absent \/ p \notin store[PolicyAt(policy)].read THEN 403
  ELSE IF secrets[p].version = 0 THEN 404 ELSE 200

\* A secret is written, with its keys or with others.
WriteSecret(p, whole) ==
  /\ secrets[p].version < MaxWrites
  /\ secrets' = [secrets EXCEPT ![p] = [version |-> @.version + 1, whole |-> whole]]
  /\ rotated' = rotated \union {p}
  /\ advanced' = advanced \union {p}
  /\ calm' = FALSE
  /\ UNCHANGED <<smoke, evidence, deployVars>>

\* An operator deploys.
DeployMeanwhile(d) ==
  /\ Deploy(d)
  /\ calm' = (calm /\ store' = store)
  /\ UNCHANGED <<secrets, smoke, evidence, rotated, advanced>>

-----------------------------------------------------------------------------
(* The run *)

FailSmoke == smoke' = NoSmoke

KeepWorld == UNCHANGED <<secrets, evidence, rotated, advanced, calm, deployVars>>

\* Only a staging configuration is tested.
BeginSmoke(c, expect) ==
  /\ smoke.step = "idle"
  /\ c.environment = "staging"
  /\ smoke' = [NoSmoke EXCEPT !.step = "login", !.cfg = c, !.expect = expect]
  /\ rotated' = {}
  /\ calm' = TRUE
  /\ UNCHANGED <<secrets, evidence, advanced, deployVars>>

\* Mutant of Login: the policies of the token are not compared.
LoginWithAnyPolicy ==
  /\ smoke.step = "login"
  /\ LET c == smoke.cfg
         w == smoke.workload
         name == c.workloads[w].role
     IN  /\ LoginSucceeds(name, Jwt(c, w))
         /\ smoke' = [smoke EXCEPT !.step = "access", !.token = store[RoleAt(name)].policy,
                                    !.asked = {}, !.tried = {}]
  /\ KeepWorld

\* The workload logs in with its own role, and receives its policy alone.
Login ==
  /\ smoke.step = "login"
  /\ LET c == smoke.cfg
         w == smoke.workload
         name == c.workloads[w].role
     IN  /\ LoginSucceeds(name, Jwt(c, w))
         /\ store[RoleAt(name)].policy = c.workloads[w].policy
         /\ smoke' = [smoke EXCEPT !.step = "access", !.token = store[RoleAt(name)].policy,
                                    !.asked = {}, !.tried = {}]
  /\ KeepWorld

\* A path bound to the workload is read and has exactly its keys.
ReadApproved(p) ==
  /\ smoke.step = "access"
  /\ p \in PathsOf(smoke.cfg, smoke.workload) \ smoke.asked
  /\ ReadStatus(smoke.token, p) = 200 /\ secrets[p].whole
  /\ smoke' = [smoke EXCEPT !.asked = @ \union {p}, !.seen[smoke.workload][p] = secrets[p].version]
  /\ KeepWorld

\* A path bound to others only is denied.
ReadDenied(p) ==
  /\ smoke.step = "access"
  /\ p \in AllPaths(smoke.cfg) \ (PathsOf(smoke.cfg, smoke.workload) \union smoke.asked)
  /\ ReadStatus(smoke.token, p) = 403
  /\ smoke' = [smoke EXCEPT !.asked = @ \union {p}]
  /\ KeepWorld

HasRead == smoke.step = "access" /\ smoke.asked = AllPaths(smoke.cfg)

\* After the paths: the role of another workload does not take its token.
ForeignLogin(v) ==
  /\ HasRead
  /\ v \in Workloads \ (smoke.tried \union {smoke.workload})
  /\ ~LoginSucceeds(smoke.cfg.workloads[v].role, Jwt(smoke.cfg, smoke.workload))
  /\ smoke' = [smoke EXCEPT !.tried = @ \union {v}]
  /\ KeepWorld

HasTried == HasRead /\ Workloads \ {smoke.workload} \subseteq smoke.tried

\* Mutant of Advanced: a version that stayed is taken for a new one.
AdvancedOrStayed(p) ==
  \E w \in Workloads : evidence[w][p] > 0 /\ smoke.seen[w][p] >= evidence[w][p]

\* Some workload of the evidence reads a later version of the path.
Advanced(p) ==
  \E w \in Workloads : evidence[w][p] > 0 /\ smoke.seen[w][p] > evidence[w][p]

VerifyRotation == \A p \in smoke.expect : Advanced(p)

\* Mutant of NextWorkload: the loop runs past the last workload.
NextWorkloadOneMore ==
  /\ HasTried
  /\ smoke' = [smoke EXCEPT !.step = "login", !.workload = @ + 1]
  /\ KeepWorld

NextWorkload ==
  /\ HasTried
  /\ smoke.workload < N
  /\ smoke' = [smoke EXCEPT !.step = "login", !.workload = @ + 1]
  /\ KeepWorld

\* After the last workload the rotation is verified and the run has passed.
Pass ==
  /\ HasTried
  /\ smoke.workload = N
  /\ VerifyRotation
  /\ smoke' = [smoke EXCEPT !.step = "passed"]
  /\ KeepWorld

WriteEvidence ==
  /\ smoke.step = "passed"
  /\ evidence' = smoke.seen
  /\ advanced' = rotated
  /\ smoke' = NoSmoke
  /\ UNCHANGED <<secrets, rotated, calm, deployVars>>

\* The evidence file is emptied and the run stops before it is written again:
\* a later run finds no version in it that a path could have advanced from.
TruncateEvidence ==
  /\ smoke.step = "passed"
  /\ evidence' = NoVersions
  /\ smoke' = NoSmoke
  /\ UNCHANGED <<secrets, rotated, advanced, calm, deployVars>>

\* A condition does not hold, or a request is lost.
SmokeFails ==
  /\ smoke.step # "idle"
  /\ FailSmoke
  /\ KeepWorld

SmokeNext ==
  \/ \E p \in Paths, whole \in BOOLEAN : WriteSecret(p, whole)
  \/ \E d \in Deployers : DeployMeanwhile(d)
  \/ \E c \in Configs, X \in SUBSET Paths : BeginSmoke(c, X)
  \/ smoke.step = "access" /\ \E p \in AllPaths(smoke.cfg) : ReadApproved(p) \/ ReadDenied(p)
  \/ \E v \in Workloads : ForeignLogin(v)
  \/ Login \/ NextWorkload \/ Pass \/ WriteEvidence \/ TruncateEvidence \/ SmokeFails

SmokeSpec == SmokeInit /\ DeployInit /\ [][SmokeNext]_vaultVars

-----------------------------------------------------------------------------
(* Properties *)

\* A tested configuration binds every path, and binds each workload to some:
\* the smoke test knows of no other path to be denied.
TestsAreComplete ==
  \A c \in Configs : c.environment = "staging" =>
    Paths \subseteq AllPaths(c) /\ \A w \in Workloads : c.workloads[w].bindings # {}

\* A run that passes while nobody deploys proves its whole configuration
\* deployed: no part of it is missing, left from an earlier configuration, or
\* granting more, after whatever deployments stopped half-way before.
SmokeIsolation ==
  smoke.step = "passed" /\ calm =>
    \A i \in DOMAIN Plan(smoke.cfg) : store[Plan(smoke.cfg)[i].at] = Plan(smoke.cfg)[i].body

\* A path that is reported rotated was written since the run that left the
\* evidence began, whichever of its readers were asked before and after.
RotationObserved == smoke.step = "passed" => smoke.expect \subseteq advanced
=============================================================================
