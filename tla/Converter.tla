---- MODULE Converter ----
(***************************************************************************)
(* internal/converter: which Kubernetes objects one Ingress asks for.      *)
(*                                                                         *)
(* Names are sequences of tokens, because the properties of the controller *)
(* depend on when two generated names coincide: a host is a sequence such  *)
(* as <<"a", ".", "com">>, an Ingress name one such as <<"web", "-", "x">>.*)
(* A path of a rule is abstracted to its Service, its port and whether it  *)
(* is the root path (RouteRules says when); the annotations are abstracted *)
(* to the groups the converter asks about, and the auth-url to the         *)
(* reference that PolicyContent says it is made into.                      *)
(***************************************************************************)
EXTENDS Naturals, Sequences

\* The kinds of object the controller writes, in the order of its loops.
KindRank ==
    [HTTPRoute |-> 1, BackendTrafficPolicy |-> 2, ClientTrafficPolicy |-> 3,
     SecurityPolicy |-> 4, BackendTLSPolicy |-> 5]

Kinds == DOMAIN KindRank

\* The annotation groups the converter asks about.
Groups == {"backend", "client", "cors", "auth", "tls", "app-root"}

IngressId == [ns : STRING, name : Seq(STRING)]

\* The number of a port that is not given.
NoPort == 0

\* A reference to a backend. The namespace "" stands for one that is not given,
\* which means that of the object.
Reference == [service : Seq(STRING), ns : STRING, port : Nat]

\* What an Ingress asks for: its class, for each path of a rule the host, the
\* Service, whether it is the path "/" and the number of the port (NoPort if it
\* gives a name instead), the default backend if there is one (at most one), its
\* annotation groups, and the authorization service its auth-url names, if any.
IngressSpec ==
    [class : STRING,
     rules : SUBSET [host : Seq(STRING), root : BOOLEAN,
                     service : Seq(STRING), port : Nat],
     default : SUBSET [service : Seq(STRING), port : Nat],
     annotations : SUBSET Groups,
     auth : SUBSET Reference]

\* The Service of a backend that is not a Service (a Resource backend).
NoService == <<>>

----
\* A host as it appears in an object name: "." becomes "-", "*" "wildcard".
Sanitize(host) ==
    [n \in DOMAIN host |->
        CASE host[n] = "." -> "-"
          [] host[n] = "*" -> "wildcard"
          [] OTHER         -> host[n]]

\* The HTTPRoute name for a host; the empty host keeps the Ingress name.
RouteName(i, host) ==
    IF host = <<>> THEN i.name ELSE i.name \o <<"-">> \o Sanitize(host)

Key(i, kind, name) == [kind |-> kind, ns |-> i.ns, name |-> name]

Object(key, on, refs) == [key |-> key, body |-> [on |-> on, refs |-> refs]]

\* A numeric port is used as it is, for a named port the number under which the
\* Service is found to declare it (in ports). One that is not found is left out.
ResolvePort(b, ports) ==
    IF b.port # NoPort THEN b.port
    ELSE IF b.service \in DOMAIN ports THEN ports[b.service] ELSE NoPort

BackendRef(b, ports) ==
    [service |-> b.service, ns |-> "",
     port    |-> IF b.service = NoService THEN NoPort ELSE ResolvePort(b, ports)]

\* A rule whose path gets the app-root redirect carries no backend.
Backends(spec, r, ports) ==
    IF "app-root" \in spec.annotations /\ r.root
    THEN {}
    ELSE {BackendRef(r, ports)}

----
\* One HTTPRoute for each host, with the paths of every rule of that host; the
\* default backend only counts for an Ingress that has no other route.
HTTPRoutes(i, spec, ports) ==
    LET hosts    == {r.host : r \in spec.rules}
        PathsOf(h) == {r \in spec.rules : r.host = h}
    IN  IF hosts = {}
        THEN {Object(Key(i, "HTTPRoute", i.name), <<>>, {BackendRef(b, ports)}) :
                 b \in spec.default}
        ELSE {Object(Key(i, "HTTPRoute", RouteName(i, h)), h,
                     UNION {Backends(spec, r, ports) : r \in PathsOf(h)}) :
                 h \in hosts}

\* A policy for each HTTPRoute, when an annotation of its groups is present.
RoutePolicies(i, spec, routes, groups, kind, suffix, refs) ==
    IF groups \cap spec.annotations # {}
    THEN {Object(Key(i, kind, d.key.name \o <<"-", suffix>>), d.key.name, refs) :
             d \in routes}
    ELSE {}

BackendTrafficPolicies(i, spec, routes) ==
    RoutePolicies(i, spec, routes, {"backend"}, "BackendTrafficPolicy", "backend", {})

SecurityPolicies(i, spec, routes) ==
    RoutePolicies(i, spec, routes, {"cors", "auth"}, "SecurityPolicy", "security",
                  IF "auth" \in spec.annotations THEN spec.auth ELSE {})

\* The one ClientTrafficPolicy of an Ingress targets the shared Gateway.
ClientTrafficPolicies(i, spec) ==
    IF "client" \in spec.annotations
    THEN {Object(Key(i, "ClientTrafficPolicy", i.name \o <<"-", "client">>),
                 <<"gateway">>, {})}
    ELSE {}

\* One BackendTLSPolicy for each Service an HTTPRoute refers to, and for the
\* Service of the default backend. Its name has the Service, not the Ingress.
BackendTLSPolicies(i, spec, routes) ==
    LET referred == UNION {{ref.service : ref \in d.body.refs} : d \in routes}
        services == (referred \cup {b.service : b \in spec.default}) \ {NoService}
    IN  IF "tls" \in spec.annotations
        THEN {Object(Key(i, "BackendTLSPolicy", svc \o <<"-", "tls">>), svc, {}) :
                 svc \in services}
        ELSE {}

\* Everything Ingress i with this spec asks for.
ConvertIngressFull(i, spec, ports) ==
    LET routes == HTTPRoutes(i, spec, ports)
    IN  routes
        \cup BackendTrafficPolicies(i, spec, routes)
        \cup ClientTrafficPolicies(i, spec)
        \cup SecurityPolicies(i, spec, routes)
        \cup BackendTLSPolicies(i, spec, routes)

\* The namespaces reconcileReferenceGrants puts a ReferenceGrant in: those, other
\* than the Ingress's own, that a backend of an HTTPRoute names.
GrantNamespaces(i, objects) ==
    LET routes == {d \in objects : d.key.kind = "HTTPRoute"}
    IN  (UNION {{ref.ns : ref \in d.body.refs} : d \in routes}) \ {"", i.ns}

\* The API server rejects an object that refers to a Service without a port.
Valid(d) == \A ref \in d.body.refs : ref.service # NoService => ref.port # NoPort
====
