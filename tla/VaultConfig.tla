----------------------------- MODULE VaultConfig -----------------------------
(***************************************************************************)
(* What render_vault.py makes of a configuration: for each workload a      *)
(* policy, a role bound to its Nomad task, and the template of that task.  *)
(* Workloads are numbered in the order of their names.  A configuration    *)
(* has an environment, the URL of its JWT mount's keys, and for           *)
(* each workload its role, policy, task and bindings: sets of records      *)
(* with an environment variable, a secret path and a key.                  *)
(***************************************************************************)
EXTENDS Naturals, Sequences

CONSTANTS
  N,                   \* number of workloads (6)
  ExpectedPathReaders, \* [path -> workloads], EXPECTED_PATH_READERS
  SharedKey            \* [shared path -> its only key]

Workloads == 1..N
Paths == DOMAIN ExpectedPathReaders

ASSUME NIsPositive == N \in Nat \ {0}
ASSUME ReadersAreWorkloads == ExpectedPathReaders \in [Paths -> SUBSET Workloads]

Bindings(c) == UNION {c.workloads[w].bindings : w \in DOMAIN c.workloads}

PathsOf(c, w) == {b.path : b \in c.workloads[w].bindings}

PathReaders(c) ==
  [p \in {b.path : b \in Bindings(c)} |-> {w \in DOMAIN c.workloads : p \in PathsOf(c, w)}]

PathKeys(c, p) == {b.key : b \in {b \in Bindings(c) : b.path = p}}

\* The checks on URLs, versions, token lifetimes and spelling are left out.
ValidateConfig(c) ==
  /\ DOMAIN c.workloads = Workloads
  /\ \A v, w \in Workloads : v # w =>
       /\ c.workloads[v].role # c.workloads[w].role
       /\ c.workloads[v].policy # c.workloads[w].policy
       /\ c.workloads[v].task # c.workloads[w].task
  /\ \A w \in Workloads : c.workloads[w].bindings # {}
  /\ \A a, b \in Bindings(c) : a.env = b.env => a = b
  /\ PathReaders(c) = ExpectedPathReaders
  /\ \A p \in DOMAIN SharedKey : PathKeys(c, p) = {SharedKey[p]}

\* Resources of Vault, by path.
PolicyAt(name) == <<"policy", name>>
RoleAt(name)   == <<"role", name>>
AuthAt         == <<"auth", "config">>

\* The policy of a workload: read on exactly its paths.
Policy(c, w) == [read |-> PathsOf(c, w)]

\* The role of a workload: the claims it is bound to and the policy it gives.
Role(c, w) ==
  [role |-> c.workloads[w].role, task |-> c.workloads[w].task,
   policy |-> c.workloads[w].policy]

\* The body of the auth configuration: the keys' URL of the configuration, and
\* the certificates of a file that the operator's environment names.
AuthConfig(c, ca) == [jwks |-> c.auth, ca |-> ca]

\* The fragment of a workload's task: the role it logs in with, and where each
\* variable of its environment comes from.
NomadFragment(c, w) ==
  [role |-> c.workloads[w].role, template |-> c.workloads[w].bindings]

Put(resource, body) == [at |-> resource, body |-> body]

\* Mutant of DeploymentResources: all roles, then all policies.
RolesThenPolicies(c) ==
  [i \in 1..2 * N |->
     IF i <= N THEN Put(RoleAt(c.workloads[i].role), Role(c, i))
               ELSE Put(PolicyAt(c.workloads[i - N].policy), Policy(c, i - N))]

\* By workload, its policy and then its role.
DeploymentResources(c) ==
  [i \in 1..2 * N |->
     LET w == (i + 1) \div 2 IN
       IF i % 2 = 1 THEN Put(PolicyAt(c.workloads[w].policy), Policy(c, w))
                    ELSE Put(RoleAt(c.workloads[w].role), Role(c, w))]
=============================================================================
