---- MODULE IngressReconciler ----
(***************************************************************************)
(* internal/controller: the one worker of the controller, which takes the  *)
(* name of an Ingress from its work queue and brings the objects of that   *)
(* Ingress in line with it, one API call at a time. Everything it reads    *)
(* comes from the informer caches; everything it writes goes to the server.*)
(*                                                                         *)
(* reconcileReferenceGrants has no step: it writes a grant in each of the  *)
(* GrantNamespaces, and there are none, since the converter gives no       *)
(* backend of an HTTPRoute a namespace (theorem NoGrants).                 *)
(***************************************************************************)
EXTENDS Cluster

CONSTANT IngressClass   \* the class filter of the configuration; "" takes all

VARIABLES
    queue,      \* names waiting for a reconcile, now or after a delay
    pc,         \* what the worker is doing
    cur,        \* the Ingress it is doing it for
    copy,       \* the version of that Ingress it read from the cache
    want,       \* the objects it decided that version asks for
    toWrite,    \* the objects of want not yet created or updated
    toList,     \* the kinds not yet searched for objects to delete
    toDelete    \* objects found by the last search, not yet deleted

workVars == <<pc, cur, copy, want, toWrite, toList, toDelete>>
vars == <<clusterVars, queue, workVars>>

UsedKinds == {k.kind : k \in Keys}

TypeOK ==
    /\ ClusterTypeOK
    /\ queue \in SUBSET Ingresses
    /\ pc \in {"idle", "finalize", "apply", "purge"}
    /\ cur \in Ingresses \cup {None}
    /\ copy \in IngressRecord \cup {None}
    /\ want \in SUBSET AllObjects
    /\ toWrite \in SUBSET want
    /\ toList \in SUBSET UsedKinds
    /\ toDelete \in SUBSET Keys
    /\ pc = "idle" <=> cur = None
    /\ pc = "idle" <=> copy = None
    /\ pc = "idle" => want = {} /\ toList = {} /\ toDelete = {}

Idle ==
    /\ pc' = "idle" /\ cur' = None /\ copy' = None
    /\ want' = {} /\ toWrite' = {} /\ toList' = {} /\ toDelete' = {}

Init ==
    /\ ClusterInit
    /\ queue = {}
    /\ pc = "idle" /\ cur = None /\ copy = None
    /\ want = {} /\ toWrite = {} /\ toList = {} /\ toDelete = {}

----
\* Reconcile returns with nothing to retry; or with an error or a request to
\* come back, and the name goes to the queue again.
Finish  == Idle /\ UNCHANGED queue
Abandon == Idle /\ queue' = queue \cup {cur}

\* What the server says is not valid is tried again after a delay, and here a
\* delay is a place in the queue.
RequeueAfter == Abandon

\* A call has taken effect: either its reply arrives and the worker goes on, or
\* the reply is lost and the worker takes the call for failed.
Answered(goOn) ==
    \/ goOn /\ UNCHANGED spent
    \/ Spend("fault") /\ Abandon

ShouldProcess(spec) == IngressClass = "" \/ spec.class = IngressClass

First(kinds) ==
    CHOOSE kind \in kinds : \A other \in kinds : KindRank[kind] <= KindRank[other]

\* The worker takes the name of an Ingress that the cache has ...
Take(i) ==
    /\ pc = "idle"
    /\ i \in queue
    /\ queue' = queue \ {i}
    /\ UNCHANGED clusterVars

Start(i) ==
    /\ cur' = i
    /\ copy' = cachedIngress[i]
    /\ toDelete' = {}

\* ... not, or of another class, or being deleted without our finalizer.
Ignore(i) ==
    /\ Take(i)
    /\ cachedIngress[i] # None =>
          \/ ~ShouldProcess(cachedIngress[i].spec)
          \/ /\ cachedIngress[i].deleting
             /\ FinalizerName \notin cachedIngress[i].finalizers
    /\ UNCHANGED workVars

Purge(i) ==
    /\ Take(i)
    /\ cachedIngress[i] # None
    /\ ShouldProcess(cachedIngress[i].spec)
    /\ FinalizerName \in cachedIngress[i].finalizers
    /\ Start(i)
    /\ pc' = "purge"
    /\ want' = {} /\ toWrite' = {} /\ toList' = UsedKinds

BeginDeletion(i) == cachedIngress[i] # None /\ cachedIngress[i].deleting /\ Purge(i)

BeginFinalizer(i) ==
    /\ Take(i)
    /\ cachedIngress[i] # None
    /\ ShouldProcess(cachedIngress[i].spec)
    /\ ~cachedIngress[i].deleting
    /\ FinalizerName \notin cachedIngress[i].finalizers
    /\ Start(i)
    /\ pc' = "finalize"
    /\ want' = {} /\ toWrite' = {} /\ toList' = {}

Convert(i) ==
    /\ Take(i)
    /\ cachedIngress[i] # None
    /\ ShouldProcess(cachedIngress[i].spec)
    /\ ~cachedIngress[i].deleting
    /\ Start(i)
    /\ pc' = "apply"
    /\ want' = ConvertIngressFull(i, cachedIngress[i].spec, cachedPorts)
    /\ toWrite' = want' /\ toList' = UsedKinds

BeginApply(i) == Convert(i) /\ FinalizerName \in cachedIngress[i].finalizers

----
\* The finalizer is added with a merge patch: the list of the copy, and ours.
AddFinalizer ==
    LET fs == copy.finalizers \cup {FinalizerName}
    IN  /\ pc = "finalize"
        /\ IF ingress[cur] # None /\ FinalizersAllowed(cur, fs)
           THEN /\ SetFinalizers(cur, fs)
                /\ Answered(Abandon)
           ELSE /\ UNCHANGED <<ingress, ingressEvents, spent>>
                /\ Abandon
        /\ UNCHANGED <<object, objectEvents, incarnation, gateway, ports, cacheVars>>

\* reconcileHTTPRoute and its siblings: create the object the cache does not
\* have, update the one it has. The server refuses an object that is not valid,
\* a create of one that exists, an update of a version that is not the last.
Accepts(d) ==
    /\ Valid(d)
    /\ IF cachedObject[d.key] = None
       THEN object[d.key] = None
       ELSE objectEvents[d.key] = <<>>

WriteObject(d) ==
    /\ pc = "apply"
    /\ d \in toWrite
    /\ d.key.kind = First({e.key.kind : e \in toWrite})
    /\ IF Accepts(d)
       THEN /\ StoreObject(d.key, [src |-> cur, uid |-> copy.uid, body |-> d.body])
            /\ Answered(/\ toWrite' = toWrite \ {d}
                        /\ UNCHANGED <<queue, pc, cur, copy, want, toList, toDelete>>)
       ELSE /\ UNCHANGED <<object, objectEvents, spent>>
            /\ IF Valid(d) THEN Abandon ELSE RequeueAfter
    /\ UNCHANGED <<ingress, ingressEvents, incarnation, gateway, ports, cacheVars>>

\* cleanupStaleResources and handleDeletion search the cache of one kind after
\* the other for objects of this Ingress that it does not want (any more).
Listed(kind) ==
    {k \in Keys : k.kind = kind /\ k.ns = cur.ns /\ cachedObject[k] # None}

Owned(kind) == {k \in Listed(kind) : cachedObject[k].src = cur}

Expected == {d.key : d \in want}

\* Two mistakes, for mutation: no look at the source annotation, and a kind that
\* was forgotten.
UnwantedByAll(kind) == Listed(kind) \ Expected
UnwantedButOne(kind) ==
    IF kind = "ClientTrafficPolicy" THEN {} ELSE Owned(kind) \ Expected

Unwanted(kind) == Owned(kind) \ Expected

ListKind ==
    /\ pc \in {"apply", "purge"}
    /\ toWrite = {} /\ toDelete = {} /\ toList # {}
    /\ toDelete' = Unwanted(First(toList))
    /\ toList' = toList \ {First(toList)}
    /\ UNCHANGED <<clusterVars, queue, pc, cur, copy, want, toWrite>>

\* They delete what they found by name, whatever it has become since.
DeleteObject(k) ==
    /\ k \in toDelete
    /\ StoreObject(k, None)
    /\ Answered(/\ toDelete' = toDelete \ {k}
                /\ UNCHANGED <<queue, pc, cur, copy, want, toWrite, toList>>)
    /\ UNCHANGED <<ingress, ingressEvents, incarnation, gateway, ports, cacheVars>>

Swept == toWrite = {} /\ toList = {} /\ toDelete = {}

\* The finalizer is removed with a merge patch: the list of the copy but ours.
RemoveFinalizer ==
    /\ pc = "purge"
    /\ Swept
    /\ IF ingress[cur] # None
          /\ FinalizersAllowed(cur, copy.finalizers \ {FinalizerName})
       THEN /\ SetFinalizers(cur, copy.finalizers \ {FinalizerName})
            /\ Answered(Finish)
       ELSE /\ UNCHANGED <<ingress, ingressEvents, spent>>
            /\ Abandon
    /\ UNCHANGED <<object, objectEvents, incarnation, gateway, ports, cacheVars>>

\* The status is written last, and only if the address of the copy is not that
\* of the cached Gateway. The server refuses it unless the copy is the last version.
\* Whatever becomes of it, Reconcile returns without an error.
StatusDiffers == copy.address # cachedGateway

\* A mistake, for mutation: a status once written is left alone.
StatusUnset == cachedGateway # None /\ copy.address = NoAddress

StatusDue == cachedGateway # None /\ StatusDiffers

UpdateIngressStatus ==
    /\ pc = "apply"
    /\ Swept
    /\ \/ /\ StatusDue
          /\ ingress[cur] = copy
          /\ PutIngress(cur, NextVersion([copy EXCEPT !.address = cachedGateway]))
          /\ UNCHANGED spent
       \/ /\ ~StatusDue \/ ingress[cur] # copy
          /\ UNCHANGED <<ingress, ingressEvents, spent>>
       \/ /\ StatusDue
          /\ Spend("fault")
          /\ UNCHANGED <<ingress, ingressEvents>>
    /\ Finish
    /\ UNCHANGED <<object, objectEvents, incarnation, gateway, ports, cacheVars>>

\* A write fails before it has any effect, and Reconcile returns the error.
WriteFails ==
    /\ \/ pc = "finalize"
       \/ toWrite # {}
       \/ toDelete # {}
       \/ pc = "purge" /\ Swept
    /\ Spend("fault")
    /\ Abandon
    /\ UNCHANGED <<serverVars, cacheVars, eventVars>>

----
\* A mistake, for mutation: a predicate that lets only new generations through.
DeliverNewGeneration(i) ==
    /\ ingressEvents[i] # <<>>
    /\ cachedIngress' = [cachedIngress EXCEPT ![i] = Head(ingressEvents[i])]
    /\ ingressEvents' = [ingressEvents EXCEPT ![i] = Tail(@)]
    /\ LET old == cachedIngress[i]
           new == Head(ingressEvents[i])
       IN  queue' = IF /\ old # None /\ new # None
                       /\ old.spec = new.spec /\ old.deleting = new.deleting
                    THEN queue ELSE queue \cup {i}
    /\ UNCHANGED <<serverVars, spent, cachedObject, lookupVars, objectEvents, workVars>>

\* SetupWithManager: an event of an Ingress puts its name in the queue, an event
\* of an object the name of its owner, before and after.
DeliverIngress(i) ==
    /\ ingressEvents[i] # <<>>
    /\ cachedIngress' = [cachedIngress EXCEPT ![i] = Head(ingressEvents[i])]
    /\ ingressEvents' = [ingressEvents EXCEPT ![i] = Tail(@)]
    /\ queue' = queue \cup {i}
    /\ UNCHANGED <<serverVars, spent, cachedObject, lookupVars, objectEvents, workVars>>

\* A mistake, for mutation: the objects are not watched.
NoOwners(objects) == {}

Owners(objects) == {r.src : r \in objects \ {None}} \ {None}

DeliverObject(k) ==
    /\ objectEvents[k] # <<>>
    /\ cachedObject' = [cachedObject EXCEPT ![k] = Head(objectEvents[k])]
    /\ objectEvents' = [objectEvents EXCEPT ![k] = Tail(@)]
    /\ queue' = queue \cup Owners({cachedObject[k], Head(objectEvents[k])})
    /\ UNCHANGED <<serverVars, spent, cachedIngress, lookupVars, ingressEvents, workVars>>

\* The Gateway and the Services are read through caches too, but nobody watches
\* them: that the cache has moved on puts no name in the queue. What was there in
\* between does not matter, for it is read in passing only.
DeliverGateway ==
    /\ cachedGateway # gateway
    /\ cachedGateway' = gateway
    /\ UNCHANGED <<serverVars, spent, cachedIngress, cachedObject, cachedPorts, eventVars>>
    /\ UNCHANGED <<queue, workVars>>

DeliverService(svc) ==
    /\ cachedPorts[svc] # ports[svc]
    /\ cachedPorts' = [cachedPorts EXCEPT ![svc] = ports[svc]]
    /\ UNCHANGED <<serverVars, spent, cachedIngress, cachedObject, cachedGateway, eventVars>>
    /\ UNCHANGED <<queue, workVars>>

\* The process stops between two calls and starts again: the caches are filled
\* from the server, and all they hold is an event.
Restart ==
    /\ Spend("crash")
    /\ cachedIngress' = ingress
    /\ cachedObject' = object
    /\ cachedGateway' = gateway
    /\ cachedPorts' = ports
    /\ ingressEvents' = [i \in Ingresses |-> <<>>]
    /\ objectEvents' = [k \in Keys |-> <<>>]
    /\ queue' = {i \in Ingresses : ingress[i] # None}
                   \cup Owners({object[k] : k \in Keys})
    /\ Idle
    /\ UNCHANGED serverVars

\* The periodic resync of the caches delivers all they hold again.
Resync ==
    /\ "resync" \in Disturbances
    /\ queue' = queue \cup {i \in Ingresses : cachedIngress[i] # None}
                     \cup Owners({cachedObject[k] : k \in Keys})
    /\ UNCHANGED <<clusterVars, workVars>>

----
Begin(i) ==
    Ignore(i) \/ BeginDeletion(i) \/ BeginFinalizer(i) \/ BeginApply(i)

Continue ==
    \/ AddFinalizer
    \/ \E d \in toWrite : WriteObject(d)
    \/ ListKind
    \/ \E k \in toDelete : DeleteObject(k)
    \/ RemoveFinalizer
    \/ UpdateIngressStatus
    \/ WriteFails

Deliver ==
    \/ \E i \in Ingresses : DeliverIngress(i)
    \/ \E k \in Keys : DeliverObject(k)
    \/ DeliverGateway
    \/ \E svc \in Services : DeliverService(svc)
    \/ Resync

Next ==
    \/ \E i \in Ingresses : Begin(i)
    \/ Continue
    \/ Deliver
    \/ Restart
    \/ Environment /\ UNCHANGED <<queue, workVars>>

\* The work queue is served in turn, watches deliver, the collector collects;
\* users, other controllers, failures, restarts and the resync owe nothing.
Fairness ==
    /\ \A i \in Ingresses : SF_vars(Begin(i))
    /\ WF_vars(Continue)
    /\ \A i \in Ingresses : WF_vars(DeliverIngress(i))
    /\ \A k \in Keys : WF_vars(DeliverObject(k))
    /\ WF_vars(DeliverGateway)
    /\ \A svc \in Services : WF_vars(DeliverService(svc))
    /\ \A k \in Keys : WF_vars(GarbageCollects(k) /\ UNCHANGED <<queue, workVars>>)

Spec     == Init /\ [][Next]_vars
FairSpec == Spec /\ Fairness

----
\* While the worker writes objects for an Ingress, that Ingress is on the server,
\* is the one the worker read, and carries the finalizer: however old the copy
\* is, no object is written for an Ingress that is past its cleanup. The copy
\* comes from a cache, and Reconcile looks at the finalizer only there.
WritesUnderFinalizer ==
    pc = "apply" => /\ ingress[cur] # None
                    /\ ingress[cur].uid = copy.uid
                    /\ FinalizerName \in ingress[cur].finalizers

\* What the worker has written in this pass is on the server until the pass is
\* over, and while it has something to delete that is all the Ingress asks for:
\* nothing stale goes before its replacement is there, and nothing at all if one
\* of the objects is refused.
MakeBeforeBreak ==
    \A d \in IF toDelete = {} THEN want \ toWrite ELSE want :
        object[d.key] = [src |-> cur, uid |-> copy.uid, body |-> d.body]

\* Nothing is left to do, for the worker, the watches and the collector.
Quiet ==
    /\ pc = "idle"
    /\ queue = {}
    /\ \A i \in Ingresses : ingressEvents[i] = <<>>
    /\ \A k \in Keys : objectEvents[k] = <<>> /\ ~Orphaned(k)

ProducedFor(i) == {k \in Keys : object[k] # None /\ object[k].src = i}

\* What Ingress i asks for, if Services declare their ports like this.
Wanted(i, declared) == ConvertIngressFull(i, ingress[i].spec, declared)

\* The Ingresses the controller promises something for: not one of another
\* class, nor one whose HTTPRoutes the server refuses.
Served(i) ==
    /\ ingress[i] # None
    /\ ~ingress[i].deleting
    /\ ShouldProcess(ingress[i].spec)
    /\ \A d \in Wanted(i, ports) : Valid(d)

\* The server holds what Ingress i asks for: all of it and, of what the
\* controller once wrote for i, nothing else.
HasWhatItWants(i, declared) ==
    /\ FinalizerName \in ingress[i].finalizers
    /\ ProducedFor(i) = {d.key : d \in Wanted(i, declared)}
    /\ \A d \in Wanted(i, declared) :
          object[d.key] = [src |-> i, uid |-> ingress[i].uid, body |-> d.body]

NotHeldUp(i) ==
    (ingress[i] # None /\ ingress[i].deleting)
        => FinalizerName \notin ingress[i].finalizers

SettledWith(i, declared) ==
    /\ ingress[i] = None => ProducedFor(i) = {}
    /\ Served(i) => HasWhatItWants(i, declared)
    /\ (ingress[i] # None /\ ShouldProcess(ingress[i].spec)) => NotHeldUp(i)

Settled(i) == SettledWith(i, ports)

\* The same but for the number of a named port: that may be of another day.
SettledButPorts(i) == \E declared \in Declarations : SettledWith(i, declared)

\* When everything is quiet, the server holds what the Ingresses ask for: no
\* reading of a stale cache, failed call, restart or tampering leaves a
\* difference behind that no event or retry will repair.
QuietImpliesSettled == Quiet => \A i \in Ingresses : Settled(i)

\* When everything is quiet, no Ingress waits for our finalizer to be removed.
QuietImpliesNotHeldUp == Quiet => \A i \in Ingresses : NotHeldUp(i)

StatusSettled(i) == Served(i) => gateway \in {None, ingress[i].address}

\* Users, failures and restarts come to an end; from some point on, the server
\* holds what the Ingresses ask for, but for the numbers of ports they ask for by
\* name. The watches and the retries suffice for that: an Ingress that was refused
\* because a Service did not declare the port is tried until it does.
EventuallySettled ==
    <>[](\A i \in Ingresses : SettledButPorts(i))

\* With the periodic resync, the numbers come to be those of the Services, ...
ResyncSettles == WF_vars(Resync) => <>[](\A i \in Ingresses : Settled(i))

\* ... and every Ingress comes to show the address of the Gateway.
ResyncBringsStatus ==
    WF_vars(Resync) => <>[](\A i \in Ingresses : StatusSettled(i))

\* A deletion does not take from another Ingress what that one asks for.
SparesOthers ==
    \A k \in toDelete \ toDelete' :
        object'[k] # object[k] =>
            \A i \in Ingresses \ {cur} :
                ~(Served(i) /\ k \in {d.key : d \in Wanted(i, ports)})

\* Two Ingresses of one namespace, however their reconciles, edits and
\* deletions interleave, do not delete each other's objects. (As long as their
\* names differ, that is: see CleansUpOnlyUnneeded.)
DeletesOnlyUnneeded == [][SparesOthers]_vars

----
\* The following three say what comments and log lines of the code say; the runs
\* that check them end in a violation (see "findings" in the README).

\* generateRouteName "generates a unique name for the HTTPRoute": two hosts of
\* an Ingress do not get HTTPRoutes of the same name.
RouteNamesUnique ==
    \A d, e \in want :
        (d.key.kind = "HTTPRoute" /\ d.key = e.key) => d.body.on = e.body.on

\* The clean-up "deletes any owned resources that are no longer needed": it
\* deletes nothing that another Ingress needs.
CleansUpOnlyUnneeded == [][pc = "apply" => SparesOthers]_vars

\* "Conflict adding Ingress finalizer, will retry", "Conflict removing
\* finalizer, will retry": the controller changes its own finalizer, and never
\* undoes what another controller did to the list meanwhile.
OtherFinalizersKept ==
    [][(AddFinalizer \/ RemoveFinalizer) =>
          \A i \in Ingresses :
              ingress[i] # None =>
                  IF ingress'[i] = None
                  THEN ingress[i].finalizers = {FinalizerName}
                  ELSE \A f \in OtherFinalizers :
                          f \in ingress'[i].finalizers <=> f \in ingress[i].finalizers]_vars
====
