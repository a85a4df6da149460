---- MODULE MCReconciler ----
(***************************************************************************)
(* Instances of IngressReconciler for TLC.                                 *)
(***************************************************************************)
EXTENDS FinalizerRefinement, SettlingInvariant

Web == [ns |-> "shop", name |-> <<"web">>]
Api == [ns |-> "shop", name |-> <<"api">>]

Rule(host, service) ==
    [host |-> host, root |-> FALSE, service |-> service, port |-> 80]

NamedPort(rule) == [rule EXCEPT !.port = NoPort]

Spec1(class, rules, annotations) ==
    [class |-> class, rules |-> rules, default |-> {}, annotations |-> annotations,
     auth |-> {}]

Svc == <<"svc">>

\* One host, and another.
OnA == Spec1("envoy", {Rule(<<"a">>, Svc)}, {})
OnB == Spec1("envoy", {Rule(<<"b">>, Svc)}, {})

\* Both, the first with another Service behind it, the second with a named port:
\* from OnA to this, one HTTPRoute is updated and one is new.
OnBothNamed == Spec1("envoy", {Rule(<<"a">>, <<"svc", "2">>), NamedPort(Rule(<<"b">>, Svc))}, {})

\* The first host in another Ingress class.
OnOther == Spec1("other", {Rule(<<"a">>, Svc)}, {})

\* No rule with a path: nothing is asked for.
OnNone == Spec1("envoy", {}, {})

\* Two other hosts, one of them with a port that is not found.
OnPart == Spec1("envoy", {Rule(<<"b">>, Svc), NamedPort(Rule(<<"c">>, Svc))}, {})

\* Policies of every way of naming: by Ingress, by HTTPRoute and by Service, with
\* requests authorized by a Service of another namespace; those by HTTPRoute
\* alone; and the one by Service alone.
OnAPolicies ==
    [Spec1("envoy", {Rule(<<"a">>, Svc)}, {"client", "auth", "tls"}) EXCEPT
        !.auth = {[service |-> <<"auth">>, ns |-> "login", port |-> 80]}]
OnARoute    == Spec1("envoy", {Rule(<<"a">>, Svc)}, {"backend", "cors"})
OnATls      == Spec1("envoy", {Rule(<<"a">>, Svc)}, {"tls"})

\* Two hosts whose names are the same once the dots are gone.
OnDots == Spec1("envoy", {Rule(<<"a", ".", "b">>, Svc), Rule(<<"a", "-", "b">>, Svc)}, {})

JustWeb   == {Web}
WebAndApi == {Web, Api}
SpecsAB    == {OnA, OnB}
SpecsA     == {OnA}
SpecsClass == {OnA, OnOther}
SpecsPolicies == {OnARoute, OnAPolicies}
SpecsLife  == {OnA, OnPart, OnOther}
SpecsNone  == {OnA, OnNone}
SpecsBothNamed  == {OnA, OnBothNamed}
SpecsTls   == {OnA, OnATls}
SpecsDots  == {OnDots}
TheService == {Svc}

\* What the converter makes has the kinds, and the shape, of the code's objects.
ASSUME ObjectShape ==
    AllObjects \subseteq
        [key : [kind : Kinds, ns : STRING, name : Seq(STRING)],
         body : [on : Seq(STRING),
                 refs : SUBSET Reference]]
====
