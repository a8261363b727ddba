----------------------------- MODULE Deployment -----------------------------
(***************************************************************************)
(* deploy_vault.py and deploy_apisix.py.  Both read what is stored under   *)
(* each resource they are about to write into a backup directory, then     *)
(* write one resource after the other and stop at the first failure.       *)
(* Nothing locks the store: several operators may deploy at once.          *)
(*                                                                         *)
(* A backup directory is named by the second and must not exist: a run     *)
(* that finds it there stops before it wrote anything, so no two runs      *)
(* share one.  The dry run and the refused arguments change nothing.       *)
(***************************************************************************)
EXTENDS VaultConfig, GatewayConfig

CONSTANTS
  Deployers,  \* operators that may deploy at the same time
  Configs,    \* configurations of Vault, valid or not
  Gateways,   \* configurations of the gateway, valid or not
  CaFiles,    \* contents of the file with the certificates of the JWKS server
  FirstAuth,  \* auth configuration before the first deployment
  Absent,     \* nothing stored under a resource (404)
  Unsaved,    \* a resource that is not in a backup
  NoStore,    \* before: another operator has written since
  MaxRuns     \* bound: runs of all operators in a behaviour

\* The configurations that are rendered, and whose resources are planned.
Plannable ==
  {c \in Configs : ValidateConfig(c)} \union {g \in Gateways : ValidateGateway(g)}

\* What a run writes after the auth configuration, in order.
Plan(c) == IF c.tool = "vault" THEN DeploymentResources(c) ELSE BuildBundle(c)

PlannedPuts == UNION {{Plan(c)[i] : i \in DOMAIN Plan(c)} : c \in Plannable}

Resources == {p.at : p \in PlannedPuts} \union {AuthAt}

AuthBodies == {FirstAuth} \union UNION {{AuthConfig(c, ca) : ca \in CaFiles} : c \in Configs}

Bodies == {p.body : p \in PlannedPuts} \union AuthBodies

ASSUME ToolsTell ==
  (\A c \in Configs : c.tool = "vault") /\ (\A g \in Gateways : g.tool = "gateway")
ASSUME MarkersAreNone == {Absent, Unsaved} \intersect Bodies = {} /\ Absent # Unsaved
ASSUME RunsNatural == MaxRuns \in Nat

VARIABLES
  store,     \* [Resources]: what Vault, or the gateway, holds
  cfg,       \* [Deployers]: the configuration of the run
  withAuth,  \* [Deployers]: --include-auth-config
  phase,     \* [Deployers]: how far the run is
  at,        \* [Deployers]: the next resource to save, or to write
  backup,    \* [Deployers]: the backup of the last run, by resource
  before,    \* [Deployers]: the store when that backup was begun
             \* (both as long as no other operator has written since)
  runs       \* runs begun so far

run == <<cfg, withAuth, phase, at>>
saved == <<backup, before>>
deployVars == <<store, run, saved, runs>>

DeployTypeOK ==
  /\ store \in [Resources -> Bodies \union {Absent}]
  /\ cfg \in [Deployers -> Plannable \union {Absent}]
  /\ withAuth \in [Deployers -> BOOLEAN]
  /\ phase \in [Deployers -> {"idle", "preflight", "snapshot", "auth", "apply"}]
  /\ at \in [Deployers -> Nat \ {0}]
  /\ backup \in [Deployers -> [Resources -> Bodies \union {Absent, Unsaved}]]
  /\ before \in [Deployers -> [Resources -> Bodies \union {Absent}] \union {NoStore}]
  /\ runs \in 0..MaxRuns

NothingSaved == [r \in Resources |-> Unsaved]

\* Nothing deployed yet; the JWT mount exists.
EmptyStore == [r \in Resources |-> IF r = AuthAt THEN FirstAuth ELSE Absent]

DeployersIdle ==
  /\ cfg = [d \in Deployers |-> Absent]
  /\ withAuth = [d \in Deployers |-> FALSE]
  /\ phase = [d \in Deployers |-> "idle"]
  /\ at = [d \in Deployers |-> 1]
  /\ backup = [d \in Deployers |-> NothingSaved]
  /\ before = [d \in Deployers |-> NoStore]
  /\ runs = 0

DeployInit == store = EmptyStore /\ DeployersIdle

-----------------------------------------------------------------------------

\* Mutant of Targets: the auth configuration is written, but not saved.
TargetsOfPlan(d) == [i \in DOMAIN Plan(cfg[d]) |-> Plan(cfg[d])[i].at]

\* What a run saves before it writes.
Targets(d) ==
  [i \in DOMAIN Plan(cfg[d]) |-> Plan(cfg[d])[i].at] \o (IF withAuth[d] THEN <<AuthAt>> ELSE <<>>)

GoTo(d, p) ==
  /\ phase' = [phase EXCEPT ![d] = p]
  /\ at' = [at EXCEPT ![d] = 1]
  /\ UNCHANGED <<cfg, withAuth, runs>>

EndRun(d) ==
  /\ phase' = [phase EXCEPT ![d] = "idle"]
  /\ at' = [at EXCEPT ![d] = 1]
  /\ cfg' = [cfg EXCEPT ![d] = Absent]
  /\ withAuth' = [withAuth EXCEPT ![d] = FALSE]
  /\ UNCHANGED runs

\* d writes a resource.  The backups of the others cannot undo that; they are
\* not followed any further.
Write(d, resource, body) ==
  /\ store' = [store EXCEPT ![resource] = body]
  /\ before' = [e \in Deployers |-> IF e = d THEN before[e] ELSE NoStore]
  /\ backup' = [e \in Deployers |-> IF e = d THEN backup[e] ELSE NothingSaved]

Begin(d, c, include) ==
  /\ phase[d] = "idle"
  /\ runs < MaxRuns
  /\ runs' = runs + 1
  /\ cfg' = [cfg EXCEPT ![d] = c]
  /\ withAuth' = [withAuth EXCEPT ![d] = include]
  /\ phase' = [phase EXCEPT ![d] = "preflight"]
  /\ at' = [at EXCEPT ![d] = 1]
  /\ UNCHANGED <<store, saved>>

\* deploy_vault.py --apply, confirmed for the environment of its configuration.
DeployVault(d) ==
  \E c \in Plannable \intersect Configs,
     confirmed \in {"local", "staging", "production"}, include \in BOOLEAN :
    /\ confirmed = c.environment
    /\ Begin(d, c, include)

\* deploy_apisix.py --apply, confirmed likewise, with a rendered bundle.
DeployGateway(d) ==
  \E g \in Plannable \intersect Gateways, confirmed \in {"local", "staging", "production"} :
    /\ LoadBundle(BuildBundle(g))
    /\ confirmed = g.environment
    /\ Begin(d, g, FALSE)

\* Mutant of Preflight: the auth configuration is left to whoever wrote it.
PreflightAnyAuth(d) ==
  /\ phase[d] = "preflight"
  /\ GoTo(d, "snapshot")
  /\ backup' = [backup EXCEPT ![d] = NothingSaved]
  /\ before' = [before EXCEPT ![d] = store]
  /\ UNCHANGED store

\* The preflight passes and the backup directory is made.  A run that does not
\* write the auth configuration wants its URL to be that of its configuration;
\* the certificates, which no configuration holds, are not compared.  Health, audit
\* devices, mounts and plugins may fail it too, as Stop.
Preflight(d) ==
  /\ phase[d] = "preflight"
  /\ (cfg[d].tool = "vault" /\ ~withAuth[d]) => store[AuthAt].jwks = cfg[d].auth
  /\ GoTo(d, "snapshot")
  /\ backup' = [backup EXCEPT ![d] = NothingSaved]
  /\ before' = [before EXCEPT ![d] = store]
  /\ UNCHANGED store

\* One resource is read and saved; the manifest follows the last one.
Snapshot(d) ==
  /\ phase[d] = "snapshot"
  /\ LET resource == Targets(d)[at[d]] IN
       backup' = IF before[d] = NoStore THEN backup
                 ELSE [backup EXCEPT ![d] = [@ EXCEPT ![resource] = store[resource]]]
  /\ \/ /\ at[d] < Len(Targets(d))
        /\ at' = [at EXCEPT ![d] = @ + 1]
        /\ UNCHANGED <<cfg, withAuth, phase, runs>>
     \/ /\ at[d] = Len(Targets(d))
        /\ GoTo(d, IF withAuth[d] THEN "auth" ELSE "apply")
  /\ UNCHANGED <<store, before>>

\* The file with the certificates is read when they are written.
WriteAuth(d) == \E ca \in CaFiles : Write(d, AuthAt, AuthConfig(cfg[d], ca))

ApplyAuthConfig(d) ==
  /\ phase[d] = "auth"
  /\ WriteAuth(d)
  /\ GoTo(d, "apply")

\* One resource is written.
Apply(d) ==
  /\ phase[d] = "apply"
  /\ LET put == Plan(cfg[d])[at[d]] IN Write(d, put.at, put.body)
  /\ \/ /\ at[d] < Len(Plan(cfg[d]))
        /\ at' = [at EXCEPT ![d] = @ + 1]
        /\ UNCHANGED <<cfg, withAuth, phase, runs>>
     \/ at[d] = Len(Plan(cfg[d])) /\ EndRun(d)

\* A write takes effect, but its answer is lost: the run stops.
Unanswered(d) ==
  /\ \/ phase[d] = "auth" /\ WriteAuth(d)
     \/ /\ phase[d] = "apply"
        /\ LET put == Plan(cfg[d])[at[d]] IN Write(d, put.at, put.body)
  /\ EndRun(d)

\* A check fails, a request is refused or lost, or the run is killed.
Stop(d) ==
  /\ phase[d] # "idle"
  /\ EndRun(d)
  /\ UNCHANGED <<store, saved>>

Deploy(d) ==
  \/ DeployVault(d) \/ DeployGateway(d)
  \/ Preflight(d) \/ Snapshot(d) \/ ApplyAuthConfig(d) \/ Apply(d)
  \/ Unanswered(d) \/ Stop(d)

DeployNext == \E d \in Deployers : Deploy(d)

DeploySpec == DeployInit /\ [][DeployNext]_deployVars

-----------------------------------------------------------------------------
(* Properties *)

\* No configuration gives the policy name of c's workload w to another workload.
\* The code compares the names of one configuration only.
NameKept(c, w) ==
  \A d \in Plannable \intersect Configs : \A v \in Workloads :
    d.workloads[v].policy = c.workloads[w].policy => v = w

\* At every moment of all deployments, finished, stopped half-way or under way,
\* a role that is stored gives its task what the task's template reads, which
\* is what the workload is approved for: the policy is never missing, and never
\* cut short.  Policies are written before the roles that name them.  Nothing
\* is said of a policy whose name the configurations pass from one workload to
\* another: between the two puts the old role has the new policy.
RolesAreExact ==
  \A c \in Plannable \intersect Configs : \A w \in Workloads :
    store[RoleAt(NomadFragment(c, w).role)] = Role(c, w) /\ NameKept(c, w) =>
      /\ store[PolicyAt(Role(c, w).policy)] = [read |-> {b.path : b \in NomadFragment(c, w).template}]
      /\ \A p \in Paths : p \in PathsOf(c, w) <=> w \in ExpectedPathReaders[p]

\* However far a run got, putting back what it saved gives the store it found,
\* unless somebody else has written since.
StoppedIsRecoverable ==
  \A d \in Deployers : before[d] # NoStore =>
    before[d] = [r \in Resources |-> IF backup[d][r] = Unsaved THEN store[r] ELSE backup[d][r]]

\* A route of the gateway leads to an upstream that is there, in every moment
\* of every deployment: a stopped one leaves no route to nowhere.
RoutesHaveUpstream ==
  \A g \in Plannable \intersect Gateways : \A t \in {"open", "submit"} : \A id \in {g.open, g.submit} :
    store[RouteAt(id)] = Route(g, t) => store[UpstreamAt(g.upstream)] # Absent

\* The put i of the plan is that of the open route, and the put of the submit
\* route replaces it: nothing compares the two ids.
IsReplaced(c, i) == c.tool = "gateway" /\ i = 2 /\ c.open = c.submit

\* A run that has its last put answered leaves what it put and relied on, unless
\* somebody else has written since its preflight, and whatever stopped runs left
\* before.  Vault holds every policy and role of the configuration and, with or
\* without --include-auth-config, the auth configuration's URL; which
\* certificates it holds is not said, because nothing compares them.  The
\* gateway holds the upstream and both routes if their ids differ.  If they are
\* the same the open route is lost, although the run reports success.
FinishedIsDeployed ==
  [][\A d \in Deployers : Apply(d) /\ phase'[d] = "idle" /\ before[d] # NoStore =>
       /\ \A i \in DOMAIN Plan(cfg[d]) :
            ~IsReplaced(cfg[d], i) => store'[Plan(cfg[d])[i].at] = Plan(cfg[d])[i].body
       /\ cfg[d].tool = "vault" => store'[AuthAt].jwks = cfg[d].auth]_deployVars
=============================================================================
