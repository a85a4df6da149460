---- MODULE Cluster ----
(***************************************************************************)
(* What surrounds the controller: the API server that holds the Ingresses  *)
(* and the objects written for them, the informer caches the controller    *)
(* reads instead of the server, the garbage collector, and the people and  *)
(* other controllers that change things meanwhile. None of this is code    *)
(* of the repository; it is modelled from how the repository uses it       *)
(* (client.Client of a controller-runtime Manager).                        *)
(*                                                                         *)
(* Every change of an Ingress or an object is appended to a queue of watch *)
(* events, one per name; the cache holds the version delivered last. Of    *)
(* the Services and the Gateway, whose events nobody waits for, the cache  *)
(* holds some earlier version until it gets the one of now.                *)
(***************************************************************************)
EXTENDS Converter, FiniteSets

CONSTANTS
    Ingresses,          \* names of Ingresses, records [ns, name]
    Specs,              \* what an Ingress may ask for: class, rules, annotations
    Services,           \* Services that may declare the named port asked for
    PortNumbers,        \* the numbers they may declare it under
    FirstPorts,         \* those they declare it under at first, NoPort if they do not
    Addresses,          \* address lists a Gateway may publish
    NoAddress,          \* the empty address list
    FirstGateways,      \* what the Gateway may publish at first, None if absent
    OtherFinalizers,    \* finalizers of other controllers
    FinalizerName,      \* the finalizer of this controller
    None,               \* no such Ingress, object, Gateway or work item
    Disturbances,       \* kinds of disturbance that may happen
    MaxDisturbances,    \* bound on their number
    MaxIncarnations     \* bound on how often an Ingress is created

Finalizers == OtherFinalizers \cup {FinalizerName}

\* Under which number each Service declares the named port, if it does.
Declarations == [Services -> PortNumbers \cup {NoPort}]

IngressRecord ==
    [uid : Nat, rv : Nat, spec : Specs, finalizers : SUBSET Finalizers,
     deleting : BOOLEAN, address : Addresses]

\* Every object some Ingress may ask for, and the keys it may be stored under.
AllObjects ==
    UNION {ConvertIngressFull(i, spec, declared) :
              i \in Ingresses, spec \in Specs, declared \in Declarations}
Keys   == {d.key : d \in AllObjects}
Bodies == {d.body : d \in AllObjects}

\* src is the source annotation and the name in the owner reference, uid the
\* uid in the owner reference; the body None is one that somebody else wrote.
ObjectRecord ==
    [src : Ingresses \cup {None}, uid : Nat, body : Bodies \cup {None}]

ASSUME InputAssumption ==
    /\ Ingresses \subseteq IngressId
    /\ Specs \subseteq IngressSpec
    /\ \A spec \in Specs : \A b, c \in spec.default : b = c

ASSUME NoneAssumption ==
    /\ None \notin IngressRecord
    /\ None \notin ObjectRecord
    /\ None \notin Ingresses

ASSUME ClusterAssumption ==
    /\ FinalizerName \notin OtherFinalizers
    /\ NoAddress \in Addresses
    /\ FirstGateways \subseteq Addresses \cup {None}
    /\ PortNumbers \subseteq Nat \ {NoPort}
    /\ FirstPorts \subseteq PortNumbers \cup {NoPort}
    /\ MaxDisturbances \in Nat
    /\ MaxIncarnations \in Nat

VARIABLES
    ingress,        \* the Ingresses on the API server
    object,         \* the HTTPRoutes and policies on the API server
    incarnation,    \* how often each Ingress has been created; its next uid
    gateway,        \* the addresses of the shared Gateway, None if it is absent
    ports,          \* under which number each Service declares the named port
    spent,          \* disturbances so far
    cachedIngress,  \* the informer cache of Ingresses
    cachedObject,   \* the informer caches of objects
    cachedGateway,  \* what the cache of Gateways has for gateway
    cachedPorts,    \* what the cache of Services has for ports
    ingressEvents,  \* versions of an Ingress not yet delivered to the cache
    objectEvents    \* versions of an object not yet delivered to its cache

serverVars == <<ingress, object, incarnation, gateway, ports>>
lookupVars == <<cachedGateway, cachedPorts>>
cacheVars  == <<cachedIngress, cachedObject, lookupVars>>
eventVars  == <<ingressEvents, objectEvents>>
clusterVars == <<serverVars, spent, cacheVars, eventVars>>

ClusterTypeOK ==
    /\ ingress \in [Ingresses -> IngressRecord \cup {None}]
    /\ object \in [Keys -> ObjectRecord \cup {None}]
    /\ incarnation \in [Ingresses -> Nat]
    /\ gateway \in Addresses \cup {None}
    /\ ports \in Declarations
    /\ spent \in Nat
    /\ cachedIngress \in [Ingresses -> IngressRecord \cup {None}]
    /\ cachedObject \in [Keys -> ObjectRecord \cup {None}]
    /\ cachedGateway \in Addresses \cup {None}
    /\ cachedPorts \in Declarations
    /\ ingressEvents \in [Ingresses -> Seq(IngressRecord \cup {None})]
    /\ objectEvents \in [Keys -> Seq(ObjectRecord \cup {None})]

ClusterInit ==
    /\ ingress = [i \in Ingresses |-> None]
    /\ object = [k \in Keys |-> None]
    /\ incarnation = [i \in Ingresses |-> 0]
    /\ gateway \in FirstGateways
    /\ ports \in [Services -> FirstPorts]
    /\ spent = 0
    /\ cachedIngress = ingress
    /\ cachedObject = object
    /\ cachedGateway = gateway
    /\ cachedPorts = ports
    /\ ingressEvents = [i \in Ingresses |-> <<>>]
    /\ objectEvents = [k \in Keys |-> <<>>]

----
\* Writes of the API server: the new version, and the event that announces it.
PutIngress(i, r) ==
    /\ ingress' = [ingress EXCEPT ![i] = r]
    /\ ingressEvents' = [ingressEvents EXCEPT ![i] = Append(@, r)]

PutObject(k, r) ==
    /\ object' = [object EXCEPT ![k] = r]
    /\ objectEvents' = [objectEvents EXCEPT ![k] = Append(@, r)]

\* A write that changes nothing makes no version and no event.
StoreObject(k, r) ==
    IF r = object[k] THEN UNCHANGED <<object, objectEvents>>
                     ELSE PutObject(k, r)

\* The version of r that the server stores after a change.
NextVersion(r) == [r EXCEPT !.rv = @ + 1]

\* The finalizers of a live Ingress become fs, whatever they were before: a
\* merge patch replaces the list. An Ingress that is being deleted goes with
\* its last finalizer.
SetFinalizers(i, fs) ==
    LET r == ingress[i]
    IN  IF r.deleting /\ fs = {} THEN PutIngress(i, None)
        ELSE IF fs = r.finalizers THEN UNCHANGED <<ingress, ingressEvents>>
        ELSE PutIngress(i, NextVersion([r EXCEPT !.finalizers = fs]))

\* The server takes no new finalizer for an Ingress that is being deleted.
FinalizersAllowed(i, fs) == ingress[i].deleting => fs \subseteq ingress[i].finalizers

Spend(kind) ==
    /\ kind \in Disturbances
    /\ spent < MaxDisturbances
    /\ spent' = spent + 1

----
\* Users.
UserCreates(i) ==
    /\ ingress[i] = None
    /\ incarnation[i] < MaxIncarnations
    /\ incarnation' = [incarnation EXCEPT ![i] = @ + 1]
    /\ \E spec \in Specs :
          PutIngress(i, [uid |-> incarnation[i] + 1, rv |-> 1, spec |-> spec,
                         finalizers |-> {}, deleting |-> FALSE,
                         address |-> NoAddress])
    /\ UNCHANGED <<object, objectEvents, gateway, ports, spent, cacheVars>>

UserEdits(i) ==
    /\ ingress[i] # None
    /\ Spend("edit")
    /\ \E spec \in Specs \ {ingress[i].spec} :
          PutIngress(i, NextVersion([ingress[i] EXCEPT !.spec = spec]))
    /\ UNCHANGED <<object, objectEvents, incarnation, gateway, ports, cacheVars>>

UserDeletes(i) ==
    /\ ingress[i] # None
    /\ ~ingress[i].deleting
    /\ IF ingress[i].finalizers = {}
       THEN PutIngress(i, None)
       ELSE PutIngress(i, NextVersion([ingress[i] EXCEPT !.deleting = TRUE]))
    /\ UNCHANGED <<object, objectEvents, incarnation, gateway, ports, spent, cacheVars>>

\* Somebody deletes an object, overwrites its body, or puts one of their own
\* in its place.
UserTampers(k) ==
    /\ Spend("tamper")
    /\ \/ /\ object[k] # None
          /\ \/ PutObject(k, None)
             \/ /\ object[k].body # None
                /\ PutObject(k, [object[k] EXCEPT !.body = None])
       \/ /\ object[k] = None
          /\ PutObject(k, [src |-> None, uid |-> 0, body |-> None])
    /\ UNCHANGED <<ingress, ingressEvents, incarnation, gateway, ports, cacheVars>>

\* Another controller adds its finalizer to an Ingress, or removes it.
OtherFinalizerChanges(i) ==
    /\ ingress[i] # None
    /\ Spend("finalizer")
    /\ \E f \in OtherFinalizers :
          \/ /\ f \notin ingress[i].finalizers
             /\ ~ingress[i].deleting
             /\ SetFinalizers(i, ingress[i].finalizers \cup {f})
          \/ /\ f \in ingress[i].finalizers
             /\ SetFinalizers(i, ingress[i].finalizers \ {f})
    /\ UNCHANGED <<object, objectEvents, incarnation, gateway, ports, cacheVars>>

\* The Gateway appears, goes, or gets other addresses.
GatewayChanges ==
    /\ Spend("gateway")
    /\ gateway' \in (Addresses \cup {None}) \ {gateway}
    /\ UNCHANGED <<ingress, object, incarnation, ports, cacheVars, eventVars>>

\* A Service starts or stops to declare the named port, or renumbers it.
ServiceChanges ==
    /\ Spend("port")
    /\ \E svc \in Services, port \in PortNumbers \cup {NoPort} :
          /\ port # ports[svc]
          /\ ports' = [ports EXCEPT ![svc] = port]
    /\ UNCHANGED <<ingress, object, incarnation, gateway, cacheVars, eventVars>>

----
\* The garbage collector deletes an object whose owner is gone: the Ingress of
\* that name is absent, or is a later one with another uid.
Orphaned(k) ==
    /\ object[k] # None
    /\ object[k].src # None
    /\ LET owner == ingress[object[k].src]
       IN  owner # None => owner.uid # object[k].uid

GarbageCollects(k) ==
    /\ Orphaned(k)
    /\ PutObject(k, None)
    /\ UNCHANGED <<ingress, ingressEvents, incarnation, gateway, ports, spent, cacheVars>>

Environment ==
    \/ \E i \in Ingresses :
          \/ UserCreates(i)
          \/ UserEdits(i)
          \/ UserDeletes(i)
          \/ OtherFinalizerChanges(i)
    \/ \E k \in Keys : UserTampers(k) \/ GarbageCollects(k)
    \/ GatewayChanges
    \/ ServiceChanges
====
