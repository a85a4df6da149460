---- MODULE TwoInstances ----
(***************************************************************************)
(* cmd/main.go leaves leader election off unless a flag turns it on: then  *)
(* an old and a new process run the same reconciler during a rollout, each *)
(* with its own caches, queue and worker. The first process is the one of  *)
(* IngressReconciler; the second has the variables declared here. They     *)
(* share the server and nothing else.                                      *)
(***************************************************************************)
EXTENDS IngressReconciler

CONSTANTS
    MaxIngressLag,  \* bound on how many versions of an Ingress a cache is behind
    MaxObjectLag    \* the same for an object

ASSUME LagAssumption == MaxIngressLag \in Nat \ {0} /\ MaxObjectLag \in Nat \ {0}

VARIABLES
    cachedIngress2, cachedObject2, cachedGateway2, cachedPorts2,
    ingressEvents2, objectEvents2,
    queue2, pc2, cur2, copy2, want2, toWrite2, toList2, toDelete2

own2 == <<cachedIngress2, cachedObject2, cachedGateway2, cachedPorts2,
          queue2, pc2, cur2, copy2, want2, toWrite2, toList2, toDelete2>>
events2 == <<ingressEvents2, objectEvents2>>
vars2 == <<vars, own2, events2>>

Second == INSTANCE IngressReconciler WITH
    cachedIngress <- cachedIngress2, cachedObject <- cachedObject2,
    cachedGateway <- cachedGateway2, cachedPorts <- cachedPorts2,
    ingressEvents <- ingressEvents2, objectEvents <- objectEvents2,
    queue <- queue2, pc <- pc2, cur <- cur2, copy <- copy2, want <- want2,
    toWrite <- toWrite2, toList <- toList2, toDelete <- toDelete2

InitBoth == Init /\ Second!Init

\* What a step of the one process, or of anybody else, changes on the server is
\* announced to the other process as well.
Announced(events, before, after) ==
    [x \in DOMAIN events |->
        IF after[x] = before[x] THEN events[x] ELSE Append(events[x], after[x])]

StepFirst ==
    /\ Next
    /\ ingressEvents2' = Announced(ingressEvents2, ingress, ingress')
    /\ objectEvents2' = Announced(objectEvents2, object, object')
    /\ UNCHANGED own2

StepSecond ==
    /\ \/ \E i \in Ingresses : Second!Begin(i)
       \/ Second!Continue
       \/ Second!Deliver
       \/ Second!Restart
    /\ ingressEvents' = Announced(ingressEvents, ingress, ingress')
    /\ objectEvents' = Announced(objectEvents, object, object')
    /\ UNCHANGED <<cacheVars, queue, workVars>>

\* A process that is behind can write without end, and so fill the queue of the
\* other (see the README): the lag of both is bounded.
Lags(events) == {Len(events[x]) : x \in DOMAIN events}

WithinLag ==
    /\ Lags(objectEvents) \cup Lags(objectEvents2) \subseteq 0 .. MaxObjectLag
    /\ Lags(ingressEvents) \cup Lags(ingressEvents2) \subseteq 0 .. MaxIngressLag

NextBoth == (StepFirst \/ StepSecond) /\ WithinLag'

SpecBoth == InitBoth /\ [][NextBoth]_vars2

BothQuiet == Quiet /\ Second!Quiet

\* Two processes that know nothing of each other, one of them always behind, undo
\* each other's work and write for an Ingress the other has released; yet when
\* both are quiet, the server holds what the Ingresses ask for.
BothQuietImpliesSettled == BothQuiet => \A i \in Ingresses : Settled(i)

\* ... and every Ingress shows the address of the Gateway: a status update that
\* met a conflict, with the other process or with a user, is made up for, although
\* its error is not returned. (For a Gateway that does not change and updates that
\* do not fail otherwise.)
BothQuietImpliesStatus == BothQuiet => \A i \in Ingresses : StatusSettled(i)
====
