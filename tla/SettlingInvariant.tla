---- MODULE SettlingInvariant ----
(***************************************************************************)
(* Why QuietImpliesSettled holds: an inductive invariant about the         *)
(* Ingresses that no event and no queue will bring to the worker again.    *)
(*                                                                         *)
(* QuietImpliesSettled is about states in which nothing is left to do, and *)
(* says nothing of those before them. What the controller relies on is     *)
(* that every difference between the server and what an Ingress asks for   *)
(* is on its way to the worker: in the queue, as an event of the Ingress,  *)
(* or as an event of an object that is, or was, of that Ingress.           *)
(***************************************************************************)
EXTENDS IngressReconciler

\* The versions of an object from the one in the cache to the last one announced.
Versions(k) ==
    {cachedObject[k]} \cup {objectEvents[k][n] : n \in 1 .. Len(objectEvents[k])}

IsOf(v, i) == v # None /\ v.src = i

\* An event of the object under k will put i in the queue: one of the versions it
\* goes through has i for its source, and the watch tells of the one before, too.
Announces(k, i) ==
    /\ objectEvents[k] # <<>>
    /\ \E v \in Versions(k) : IsOf(v, i)

\* The worker will look at i (again) with no help from the resync.
Due(i) ==
    \/ i \in queue
    \/ ingressEvents[i] # <<>>
    \/ \E k \in Keys : Announces(k, i)

\* The events end with the version that is on the server.
EventsEnd(events, cached, live) ==
    live = IF events = <<>> THEN cached ELSE events[Len(events)]

Arriving ==
    /\ \A i \in Ingresses : EventsEnd(ingressEvents[i], cachedIngress[i], ingress[i])
    /\ \A k \in Keys : EventsEnd(objectEvents[k], cachedObject[k], object[k])

----
\* The caches of what is not watched show what nobody changes.
LookupsKeep ==
    /\ "port" \notin Disturbances => cachedPorts = ports
    /\ "gateway" \notin Disturbances => cachedGateway = gateway

\* How the Services declared their ports when a pass looked.
Looked == IF "port" \in Disturbances THEN Declarations ELSE {ports}

\* There is nothing the worker would do for i if it looked.
AtRest(i) ==
    (ingress[i] # None /\ ShouldProcess(ingress[i].spec)) =>
        IF ingress[i].deleting
        THEN FinalizerName \notin ingress[i].finalizers
        ELSE \E declared \in Looked : HasWhatItWants(i, declared)

\* An Ingress that is not due is at rest, unless the worker is busy with it.
OthersRest == \A i \in Ingresses : Due(i) \/ cur = i \/ AtRest(i)

\* What the worker took up, it took up for a reason its copy gives.
CopyAsked ==
    /\ pc = "apply" =>
          /\ FinalizerName \in copy.finalizers
          /\ ~copy.deleting
          /\ \E declared \in Looked : want = ConvertIngressFull(cur, copy.spec, declared)
    /\ pc = "purge" => FinalizerName \in copy.finalizers

\* What is left of the pass: an object of this Ingress that is not wanted has been
\* found by a search, or is of a kind still to be searched.
StillSwept(k) ==
    \/ k \in Expected
    \/ k.kind \in toList
    \/ k \in toDelete

\* Unless i is due again, the pass does what it is for: its copy is the Ingress on
\* the server, what it has written is there, and what is not wanted will go.
PassCounts ==
    (pc # "idle" /\ ~Due(cur)) =>
        /\ copy = ingress[cur]
        /\ pc = "apply" =>
              /\ \A d \in want \ toWrite :
                    object[d.key] = [src |-> cur, uid |-> copy.uid, body |-> d.body]
              /\ \A k \in ProducedFor(cur) : StillSwept(k)

\* The invariant that is inductive.
SettlingInv ==
    /\ Arriving
    /\ LookupsKeep
    /\ OthersRest
    /\ CopyAsked
    /\ PassCounts

----
\* The same for the address in the status, of an Ingress the controller handles.
StatusAtRest(i) ==
    (/\ ingress[i] # None
     /\ ~ingress[i].deleting
     /\ ShouldProcess(ingress[i].spec)) => gateway \in {None, ingress[i].address}

StatusInv == \A i \in Ingresses : Due(i) \/ cur = i \/ StatusAtRest(i)

\* Once all is quiet, the server holds what the Ingresses ask for, but for the
\* numbers of ports they ask for by name: nobody tells the worker that a Service
\* has renumbered one, but what was refused for want of a port is still in the
\* queue.
QuietImpliesSettledButPorts ==
    Quiet => \A i \in Ingresses : SettledButPorts(i)
====
