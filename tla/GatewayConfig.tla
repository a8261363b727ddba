---------------------------- MODULE GatewayConfig ----------------------------
(***************************************************************************)
(* What render_apisix.py makes of a configuration: a bundle of one         *)
(* upstream and two routes.  A configuration has an environment, whether   *)
(* its URLs are HTTPS, the source networks it admits, the node of n8n and  *)
(* the ids of its resources.                                               *)
(***************************************************************************)
EXTENDS Naturals, Sequences

CONSTANT DocumentationNetworks  \* networks reserved for documentation

UpstreamAt(id) == <<"upstream", id>>
RouteAt(id)    == <<"route", id>>

\* The values that a configuration may not change at all (paths, limits, plugin
\* priority, secret references) are not in it; the timeouts are left out.
ValidateGateway(g) ==
  /\ g.environment \in {"example", "local", "staging", "production"}
  /\ g.environment \in {"example", "local"} \/ g.https
  /\ g.sources # {}
  /\ g.environment = "production" => g.sources \intersect DocumentationNetworks = {}

\* The plugins of a route: whom it admits, what it takes its payload for, and
\* the rate limit, whose counter both routes share by its group.
Plugins(g, type) ==
  [whitelist |-> g.sources, payload |-> type, count |-> 10, window |-> 60,
   group |-> "daily-checkin-user-v1"]

Route(g, type) == [upstream |-> g.upstream, plugins |-> Plugins(g, type)]

BundlePut(resource, body) == [at |-> resource, body |-> body]

\* Mutant of BuildBundle: the routes before the upstream.
BundleRoutesFirst(g) ==
  <<BundlePut(RouteAt(g.open), Route(g, "open")),
    BundlePut(RouteAt(g.submit), Route(g, "submit")),
    BundlePut(UpstreamAt(g.upstream), [node |-> g.node])>>

BuildBundle(g) ==
  <<BundlePut(UpstreamAt(g.upstream), [node |-> g.node]),
    BundlePut(RouteAt(g.open), Route(g, "open")),
    BundlePut(RouteAt(g.submit), Route(g, "submit"))>>

\* A bundle that deploy_apisix.py takes from a file.
LoadBundle(b) == Len(b) = 3
=============================================================================
