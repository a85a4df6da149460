---- MODULE FinalizerRefinement ----
(***************************************************************************)
(* How the states of IngressReconciler map to those of FinalizerProtocol:  *)
(* what counts is the server.                                              *)
(***************************************************************************)
EXTENDS FinalizerInvariant

StageOf(r) ==
    IF FinalizerName \in r.finalizers
    THEN IF r.deleting THEN "closing" ELSE "guarded"
    ELSE IF r.deleting THEN "closed"  ELSE "open"

LifeOf(r) ==
    IF r = None THEN [stage |-> "absent", uid |-> 0]
                ELSE [stage |-> StageOf(r), uid |-> r.uid]

Life == [i \in Ingresses |-> LifeOf(ingress[i])]

MadeFor(obj) ==
    {<<obj[k].src, obj[k].uid>> : k \in {l \in Keys : obj[l] # None /\ obj[l].src # None}}

Protocol == INSTANCE FinalizerProtocol
    WITH life <- Life, issued <- incarnation, made <- MadeFor(object)

\* The reconciler, reading stale caches and failing between any two calls, keeps
\* the protocol: it never takes the finalizer off an Ingress that lives, or off
\* one that was created later under the same name, and never makes an object for
\* an Ingress that does not carry it.
KeepsProtocol == Protocol!Spec
====
