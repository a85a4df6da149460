---- MODULE SettlingProofs ----
(***************************************************************************)
(* Proofs about quiet states, for any Ingresses, specs and bounds: that    *)
(* SettlingInv is inductive, and that the server then holds what the       *)
(* Ingresses ask for. Names may collide, and anybody may interfere.        *)
(***************************************************************************)
EXTENDS SettlingInvariant, ObjectProofs, SequenceTheorems

\* The name of every object is in the namespace of its Ingress.
LEMMA KeysInNamespace ==
    ASSUME NEW i \in Ingresses, NEW k \in KeysOf(i)
    PROVE  k.ns = i.ns
  <1>1. PICK spec \in Specs, declared \in Declarations :
           \E d \in ConvertIngressFull(i, spec, declared) : k = d.key
    BY DEF KeysOf
  <1>2. PICK d \in ConvertIngressFull(i, spec, declared) : k = d.key
    BY <1>1
  <1>3. ASSUME NEW e \in HTTPRoutes(i, spec, declared)
        PROVE  e.key.ns = i.ns
    BY RouteKeys
  <1> QED
    BY <1>2, <1>3
    DEF ConvertIngressFull, BackendTrafficPolicies, ClientTrafficPolicies,
        SecurityPolicies, BackendTLSPolicies, RoutePolicies, Object, Key

\* What the worker writes is an object, of the Ingress it works for.
LEMMA ProductReal ==
    ASSUME TypeOK, pc # "idle", NEW d \in want
    PROVE  /\ d.key \in Keys
           /\ Product(d) \in ObjectRecord
           /\ IsOf(Product(d), cur)
  <1>1. WorkOK /\ d \in AllObjects
    BY TypeParts DEF TypeOK
  <1>2. cur \in Ingresses /\ copy.uid \in Nat
    BY <1>1, Working DEF IngressRecord
  <1>3. d.key \in Keys /\ d.body \in Bodies
    BY <1>1 DEF Keys, Bodies
  <1>4. Product(d) \in ObjectRecord
    BY <1>2, <1>3 DEF Product, ObjectRecord
  <1>5. Product(d) # None /\ Product(d).src = cur
    BY <1>4, NoneAssumption DEF Product
  <1> QED
    BY <1>3, <1>4, <1>5 DEF IsOf

----
\* What a step must not do behind the back of the controller: change an Ingress,
\* or an object that is or becomes one of that Ingress, which is not due then.
Kept(i) ==
    ~Due(i)' => /\ ~Due(i)
                /\ ingress'[i] = ingress[i]
                /\ \A k \in Keys : IsOf(object[k], i) \/ IsOf(object'[k], i)
                                      => object'[k] = object[k]

\* What nobody changes stays, and the caches show it.
LookupsStay ==
    /\ "port" \notin Disturbances => ports' = ports
    /\ LookupsKeep'

\* The server makes versions, and announces every one of them.
Announcing(live, next, events, later) ==
    \/ next = live /\ later = events
    \/ later = Append(events, next)

IngressesMove ==
    \A i \in Ingresses :
        Announcing(ingress[i], ingress'[i], ingressEvents[i], ingressEvents'[i])

ObjectsMove ==
    \A k \in Keys :
        Announcing(object[k], object'[k], objectEvents[k], objectEvents'[k])

ServerMoves ==
    /\ IngressesMove /\ ObjectsMove
    /\ queue \subseteq queue'
    /\ UNCHANGED cacheVars

LEMMA EventsEndStill ==
    ASSUME NEW T, NEW events \in Seq(T), NEW later, NEW cached, NEW live, NEW next \in T,
           EventsEnd(events, cached, live), Announcing(live, next, events, later)
    PROVE  EventsEnd(later, cached, next)
  <1>1. CASE later = Append(events, next)
    BY <1>1 DEF EventsEnd
  <1>2. CASE next = live /\ later = events
    BY <1>2
  <1> QED
    BY <1>1, <1>2 DEF Announcing

LEMMA MovesArrive ==
    ASSUME TypeOK, TypeOK', Arriving, ServerMoves
    PROVE  Arriving'
  <1>1. ASSUME NEW i \in Ingresses
        PROVE  EventsEnd(ingressEvents'[i], cachedIngress'[i], ingress'[i])
    <2>1. /\ ingressEvents[i] \in Seq(IngressRecord \cup {None})
          /\ ingress'[i] \in IngressRecord \cup {None}
          /\ cachedIngress' = cachedIngress
      BY DEF TypeOK, ClusterTypeOK, ServerMoves, cacheVars
    <2> QED
      BY <2>1, EventsEndStill DEF Arriving, ServerMoves, IngressesMove, ObjectsMove
  <1>2. ASSUME NEW k \in Keys
        PROVE  EventsEnd(objectEvents'[k], cachedObject'[k], object'[k])
    <2>1. /\ objectEvents[k] \in Seq(ObjectRecord \cup {None})
          /\ object'[k] \in ObjectRecord \cup {None}
          /\ cachedObject' = cachedObject
      BY DEF TypeOK, ClusterTypeOK, ServerMoves, cacheVars
    <2> QED
      BY <2>1, EventsEndStill DEF Arriving, ServerMoves, IngressesMove, ObjectsMove
  <1> QED
    BY <1>1, <1>2 DEF Arriving

\* The version on the server is the last of those announced.
LEMMA LiveIsVersion ==
    ASSUME TypeOK, Arriving, NEW k \in Keys
    PROVE  object[k] \in Versions(k)
  <1>1. objectEvents[k] \in Seq(ObjectRecord \cup {None})
    BY DEF TypeOK, ClusterTypeOK
  <1>2. CASE objectEvents[k] = <<>>
    BY <1>2 DEF Arriving, EventsEnd, Versions
  <1>3. CASE objectEvents[k] # <<>>
    <2>1. Len(objectEvents[k]) \in 1 .. Len(objectEvents[k])
      BY <1>1, <1>3
    <2> QED
      BY <1>3, <2>1 DEF Arriving, EventsEnd, Versions
  <1> QED
    BY <1>2, <1>3

\* A version that is announced is one of those on their way.
LEMMA VersionsGrow ==
    ASSUME TypeOK, ServerMoves, NEW k \in Keys
    PROVE  /\ Versions(k) \subseteq Versions(k)'
           /\ objectEvents[k] # <<>> => objectEvents'[k] # <<>>
           /\ object'[k] # object[k] => /\ objectEvents'[k] # <<>>
                                        /\ object'[k] \in Versions(k)'
  <1>1. objectEvents[k] \in Seq(ObjectRecord \cup {None})
    BY DEF TypeOK, ClusterTypeOK
  <1>2. cachedObject' = cachedObject
    BY DEF ServerMoves, cacheVars
  <1>3. CASE object'[k] = object[k] /\ objectEvents'[k] = objectEvents[k]
    BY <1>2, <1>3 DEF Versions
  <1>4. CASE objectEvents'[k] = Append(objectEvents[k], object'[k])
    <2>1. /\ Len(objectEvents'[k]) = Len(objectEvents[k]) + 1
          /\ objectEvents'[k] # <<>>
          /\ objectEvents'[k][Len(objectEvents[k]) + 1] = object'[k]
          /\ \A n \in 1 .. Len(objectEvents[k]) : objectEvents'[k][n] = objectEvents[k][n]
          /\ Len(objectEvents[k]) \in Nat
      BY <1>1, <1>4
    <2>2. \A n \in 1 .. Len(objectEvents[k]) : n \in 1 .. Len(objectEvents'[k])
      BY <2>1
    <2>3. Len(objectEvents[k]) + 1 \in 1 .. Len(objectEvents'[k])
      BY <2>1
    <2> QED
      BY <1>2, <2>1, <2>2, <2>3 DEF Versions
  <1> QED
    BY <1>3, <1>4 DEF ServerMoves, ObjectsMove, Announcing

LEMMA MovesKeep ==
    ASSUME TypeOK, Arriving, ServerMoves, NEW i \in Ingresses
    PROVE  Kept(i)
  <1> SUFFICES ASSUME ~Due(i)'
               PROVE  /\ ~Due(i)
                      /\ ingress'[i] = ingress[i]
                      /\ \A k \in Keys : IsOf(object[k], i) \/ IsOf(object'[k], i)
                                            => object'[k] = object[k]
    BY DEF Kept
  <1>1. i \notin queue' /\ ingressEvents'[i] = <<>>
    BY DEF Due
  <1>2. ASSUME NEW k \in Keys
        PROVE  \/ objectEvents'[k] = <<>>
               \/ \A v \in Versions(k)' : ~IsOf(v, i)
    BY DEF Due, Announces, IsOf
  <1>3. ingressEvents[i] = <<>> /\ ingress'[i] = ingress[i]
    <2>1. ingressEvents[i] \in Seq(IngressRecord \cup {None})
      BY DEF TypeOK, ClusterTypeOK
    <2>2. \A x : Append(ingressEvents[i], x) # <<>>
      BY <2>1
    <2> QED
      BY <1>1, <2>2 DEF ServerMoves, IngressesMove, Announcing
  <1>4. ASSUME NEW k \in Keys
        PROVE  ~Announces(k, i)
    BY <1>2, VersionsGrow DEF Announces
  <1>5. ASSUME NEW k \in Keys, IsOf(object[k], i) \/ IsOf(object'[k], i),
               object'[k] # object[k]
        PROVE  FALSE
    BY <1>2, <1>5, VersionsGrow, LiveIsVersion
  <1> QED
    BY <1>1, <1>3, <1>4, <1>5 DEF Due, ServerMoves

----
LEMMA LookedStays ==
    ASSUME LookupsStay
    PROVE  Looked' = Looked
  BY DEF LookupsStay, Looked

\* An Ingress at rest stays so, as long as it does not become due.
LEMMA RestStays ==
    ASSUME LookupsStay, NEW i \in Ingresses, Kept(i), AtRest(i)
    PROVE  Due(i)' \/ AtRest(i)'
  <1> SUFFICES ASSUME ~Due(i)', ingress[i] # None, ShouldProcess(ingress[i].spec)
               PROVE  IF ingress[i].deleting
                      THEN FinalizerName \notin ingress[i].finalizers
                      ELSE \E declared \in Looked : HasWhatItWants(i, declared)'
    BY LookedStays DEF Kept, AtRest
  <1>1. /\ ingress'[i] = ingress[i]
        /\ \A k \in Keys : IsOf(object[k], i) \/ IsOf(object'[k], i)
                              => object'[k] = object[k]
    BY DEF Kept
  <1>2. ASSUME ~ingress[i].deleting
        PROVE  \E declared \in Looked : HasWhatItWants(i, declared)'
    <2>1. PICK declared \in Looked : HasWhatItWants(i, declared)
      BY <1>2 DEF AtRest
    <2>2. Wanted(i, declared)' = Wanted(i, declared)
      BY <1>1 DEF Wanted
    <2>3. ProducedFor(i)' = ProducedFor(i)
      BY <1>1 DEF ProducedFor, IsOf
    <2>4. ASSUME NEW d \in Wanted(i, declared)
          PROVE  object'[d.key] = object[d.key]
      BY <1>1, <2>1 DEF HasWhatItWants, ProducedFor, IsOf
    <2>5. HasWhatItWants(i, declared)'
      BY <1>1, <2>1, <2>2, <2>3, <2>4 DEF HasWhatItWants
    <2> QED
      BY <2>5
  <1> QED
    BY <1>2 DEF AtRest

\* So all that are not the worker's stay at rest: it may keep the one it has, or
\* leave it, due or at rest.
LEMMA OthersStayAtRest ==
    ASSUME LookupsStay, \A i \in Ingresses : Kept(i), OthersRest, cur' \in {cur, None},
           \A i \in Ingresses : i = cur /\ cur' # cur => Due(i)' \/ AtRest(i)'
    PROVE  OthersRest'
  <1>1. ASSUME NEW i \in Ingresses, cur' # i
        PROVE  Due(i)' \/ AtRest(i)'
    <2>1. CASE cur = i
      BY <1>1, <2>1
    <2>2. CASE cur # i
      <3>1. Due(i) \/ AtRest(i)
        BY <2>2 DEF OthersRest
      <3>2. CASE Due(i)
        BY <3>2 DEF Kept
      <3>3. CASE AtRest(i)
        BY <3>3, RestStays
      <3> QED
        BY <3>1, <3>2, <3>3
    <2> QED
      BY <2>1, <2>2
  <1> QED
    BY <1>1 DEF OthersRest

LEMMA AskedStays ==
    ASSUME LookupsStay, CopyAsked, UNCHANGED <<pc, cur, copy, want>>
    PROVE  CopyAsked'
  BY LookedStays DEF CopyAsked

\* What was written in this pass stays as long as its Ingress is not due.
LEMMA WrittenStays ==
    ASSUME TypeOK, PassCounts, pc = "apply", NEW i, i = cur, Kept(i), ~Due(i)',
           NEW d \in want \ toWrite
    PROVE  object[d.key] = Product(d) /\ object'[d.key] = Product(d)
  <1>1. object[d.key] = Product(d)
    BY DEF PassCounts, Kept, Product
  <1>2. d.key \in Keys /\ IsOf(object[d.key], i)
    BY <1>1, ProductReal
  <1> QED
    BY <1>1, <1>2 DEF Kept

\* Nothing of what the Ingress has comes unseen.
LEMMA ProducedStays ==
    ASSUME NEW i \in Ingresses, Kept(i), ~Due(i)'
    PROVE  ProducedFor(i)' = ProducedFor(i)
  BY DEF Kept, ProducedFor, IsOf

\* A step that leaves the work as it is.
LEMMA StaySettles ==
    ASSUME TypeOK, SettlingInv, LookupsStay, \A i \in Ingresses : Kept(i), Arriving',
           UNCHANGED workVars
    PROVE  SettlingInv'
  <1>1. /\ OthersRest /\ CopyAsked /\ PassCounts
        /\ UNCHANGED <<pc, cur, copy, want, toWrite, toList, toDelete>>
    BY DEF SettlingInv, workVars
  <1>2. OthersRest' /\ CopyAsked'
    BY <1>1, OthersStayAtRest, AskedStays
  <1>3. PassCounts'
    <2> SUFFICES ASSUME pc # "idle", NEW i \in Ingresses, i = cur, ~Due(i)'
                 PROVE  /\ copy = ingress'[i]
                        /\ pc = "apply" =>
                              /\ \A d \in want \ toWrite : object'[d.key] = Product(d)
                              /\ \A k \in ProducedFor(i)' : StillSwept(k)
      BY <1>1, TypeParts, Working DEF PassCounts, Product, StillSwept, Expected
    <2>2. Kept(i) /\ ~Due(i)
      BY DEF Kept
    <2>3. copy = ingress'[i]
      BY <1>1, <2>2 DEF PassCounts, Kept
    <2>4. ProducedFor(i)' = ProducedFor(i)
      BY <2>2, ProducedStays
    <2> QED
      BY <1>1, <2>2, <2>3, <2>4, WrittenStays DEF PassCounts
  <1> QED
    BY <1>2, <1>3 DEF SettlingInv, LookupsStay

\* A step by which Reconcile returns.
LEMMA ReturnSettles ==
    ASSUME TypeOK, SettlingInv, LookupsStay, \A i \in Ingresses : Kept(i), Arriving',
           Idle, \A i \in Ingresses : i = cur => Due(i)' \/ AtRest(i)'
    PROVE  SettlingInv'
  <1>1. OthersRest'
    BY OthersStayAtRest DEF SettlingInv, Idle
  <1> QED
    BY <1>1 DEF Idle, SettlingInv, CopyAsked, PassCounts, LookupsStay

----
LEMMA PutIngressMoves ==
    ASSUME TypeOK, NEW i \in Ingresses, NEW r, PutIngress(i, r)
    PROVE  IngressesMove
  BY DEF TypeOK, ClusterTypeOK, PutIngress, IngressesMove, Announcing

LEMMA SetFinalizersMoves ==
    ASSUME TypeOK, NEW i \in Ingresses, NEW fs, SetFinalizers(i, fs)
    PROVE  IngressesMove
  <1>1. CASE UNCHANGED <<ingress, ingressEvents>>
    BY <1>1 DEF IngressesMove, Announcing
  <1>2. CASE \E r : PutIngress(i, r)
    BY <1>2, PutIngressMoves
  <1> QED
    BY <1>1, <1>2 DEF SetFinalizers

LEMMA StoreObjectMoves ==
    ASSUME TypeOK, NEW k \in Keys, NEW r, PutObject(k, r) \/ StoreObject(k, r)
    PROVE  ObjectsMove
  BY DEF TypeOK, ClusterTypeOK, PutObject, StoreObject, ObjectsMove, Announcing

LEMMA IngressesStill ==
    ASSUME UNCHANGED <<ingress, ingressEvents>>
    PROVE  IngressesMove
  BY DEF IngressesMove, Announcing

LEMMA ObjectsStill ==
    ASSUME UNCHANGED <<object, objectEvents>>
    PROVE  ObjectsMove
  BY DEF ObjectsMove, Announcing

\* Whoever it is that changes something on the server, it is announced.
LEMMA EnvironmentMoves ==
    ASSUME TypeOK, Environment, UNCHANGED queue
    PROVE  ServerMoves
  <1>1. ASSUME NEW i \in Ingresses,
               UserCreates(i) \/ UserEdits(i) \/ UserDeletes(i) \/ OtherFinalizerChanges(i)
        PROVE  IngressesMove /\ ObjectsMove /\ UNCHANGED cacheVars
    <2>1. (\E r : PutIngress(i, r)) \/ (\E fs : SetFinalizers(i, fs))
      BY <1>1 DEF UserCreates, UserEdits, UserDeletes, OtherFinalizerChanges
    <2>2. UNCHANGED <<object, objectEvents>> /\ UNCHANGED cacheVars
      BY <1>1 DEF UserCreates, UserEdits, UserDeletes, OtherFinalizerChanges
    <2> QED
      BY <2>1, <2>2, PutIngressMoves, SetFinalizersMoves, ObjectsStill
  <1>2. ASSUME NEW k \in Keys, UserTampers(k) \/ GarbageCollects(k)
        PROVE  IngressesMove /\ ObjectsMove /\ UNCHANGED cacheVars
    <2>1. \E r : PutObject(k, r)
      BY <1>2 DEF UserTampers, GarbageCollects
    <2>2. UNCHANGED <<ingress, ingressEvents>> /\ UNCHANGED cacheVars
      BY <1>2 DEF UserTampers, GarbageCollects
    <2> QED
      BY <2>1, <2>2, StoreObjectMoves, IngressesStill
  <1>3. CASE GatewayChanges \/ ServiceChanges
    BY <1>3, IngressesStill, ObjectsStill
    DEF GatewayChanges, ServiceChanges, cacheVars, eventVars, ServerMoves
  <1> QED
    BY <1>1, <1>2, <1>3 DEF Environment, ServerMoves

LEMMA ContinueMoves ==
    ASSUME TypeOK, Continue
    PROVE  ServerMoves
  <1>0. pc # "idle" /\ cur \in Ingresses
    <2>1. WorkOK
      BY TypeParts
    <2>2. pc # "idle"
      BY <2>1 DEF WorkOK, Continue, AddFinalizer, WriteObject, ListKind, DeleteObject,
                  RemoveFinalizer, UpdateIngressStatus, WriteFails
    <2> QED
      BY <2>1, <2>2, Working
  <1>1. CASE AddFinalizer
    <2>1. IngressesMove
      BY <1>0, <1>1, SetFinalizersMoves, IngressesStill DEF AddFinalizer
    <2> QED
      BY <1>1, <2>1, ObjectsStill DEF AddFinalizer, Answered, Abandon, ServerMoves
  <1>2. ASSUME NEW d \in toWrite, WriteObject(d)
        PROVE  ServerMoves
    <2>1. d.key \in Keys
      BY DEF TypeOK, Keys
    <2>2. ObjectsMove
      BY <1>2, <2>1, StoreObjectMoves, ObjectsStill DEF WriteObject
    <2> QED
      BY <1>2, <2>2, IngressesStill
      DEF WriteObject, Answered, Abandon, RequeueAfter, ServerMoves
  <1>3. CASE ListKind
    BY <1>3, IngressesStill, ObjectsStill
    DEF ListKind, clusterVars, serverVars, eventVars, ServerMoves
  <1>4. ASSUME NEW k \in toDelete, DeleteObject(k)
        PROVE  ServerMoves
    <2>1. ObjectsMove
      BY <1>4, StoreObjectMoves DEF DeleteObject, TypeOK
    <2> QED
      BY <1>4, <2>1, IngressesStill DEF DeleteObject, Answered, Abandon, ServerMoves
  <1>5. CASE RemoveFinalizer
    <2>1. IngressesMove
      BY <1>0, <1>5, SetFinalizersMoves, IngressesStill DEF RemoveFinalizer
    <2> QED
      BY <1>5, <2>1, ObjectsStill DEF RemoveFinalizer, Answered, Finish, Abandon, ServerMoves
  <1>6. CASE UpdateIngressStatus
    <2>1. IngressesMove
      BY <1>0, <1>6, PutIngressMoves, IngressesStill DEF UpdateIngressStatus
    <2> QED
      BY <1>6, <2>1, ObjectsStill DEF UpdateIngressStatus, Finish, ServerMoves
  <1>7. CASE WriteFails
    BY <1>7, IngressesStill, ObjectsStill
    DEF WriteFails, serverVars, eventVars, Abandon, ServerMoves
  <1> QED
    BY <1>1, <1>2, <1>3, <1>4, <1>5, <1>6, <1>7 DEF Continue

\* A Service that declares another port is the one thing that moves the ports, and
\* only the Gateway itself gets other addresses.
LEMMA NextPorts ==
    ASSUME Next
    PROVE  /\ "port" \notin Disturbances => ports' = ports
           /\ "gateway" \notin Disturbances => gateway' = gateway
  BY DEF Next, Environment, UserCreates, UserEdits, UserDeletes, OtherFinalizerChanges,
         UserTampers, GarbageCollects, GatewayChanges, ServiceChanges, Spend,
         Begin, Ignore, BeginDeletion, Purge, BeginFinalizer, BeginApply, Convert, Take,
         Continue, AddFinalizer, WriteObject, ListKind, DeleteObject, RemoveFinalizer,
         UpdateIngressStatus, WriteFails, Deliver, DeliverIngress, DeliverObject,
         DeliverGateway, DeliverService, Resync, Restart, clusterVars, serverVars

\* The caches of them only ever get what there is.
LEMMA NextLookups ==
    ASSUME LookupsKeep, Next
    PROVE  LookupsStay
  <1>1. CASE UNCHANGED lookupVars
    BY <1>1, NextPorts DEF lookupVars, LookupsKeep, LookupsStay
  <1>2. CASE DeliverGateway
    BY <1>2, NextPorts DEF DeliverGateway, LookupsKeep, LookupsStay
  <1>3. ASSUME NEW svc \in Services, DeliverService(svc)
        PROVE  LookupsStay
    BY <1>3, NextPorts DEF DeliverService, LookupsKeep, LookupsStay
  <1>4. CASE Restart
    BY <1>4, NextPorts DEF Restart, serverVars, LookupsKeep, LookupsStay
  <1>5. CASE Environment /\ UNCHANGED <<queue, workVars>>
    BY <1>1, <1>5
    DEF Environment, UserCreates, UserEdits, UserDeletes, OtherFinalizerChanges,
        UserTampers, GarbageCollects, GatewayChanges, ServiceChanges, cacheVars
  <1>6. ASSUME NEW i \in Ingresses, Begin(i)
        PROVE  LookupsStay
    BY <1>1, <1>6
    DEF Begin, Ignore, BeginDeletion, Purge, BeginFinalizer, BeginApply, Convert, Take,
        clusterVars, cacheVars
  <1>7. CASE Continue
    BY <1>1, <1>7
    DEF Continue, AddFinalizer, WriteObject, ListKind, DeleteObject, RemoveFinalizer,
        UpdateIngressStatus, WriteFails, clusterVars, cacheVars
  <1>8. ASSUME Resync \/ (\E i \in Ingresses : DeliverIngress(i))
                      \/ (\E k \in Keys : DeliverObject(k))
        PROVE  LookupsStay
    BY <1>1, <1>8 DEF DeliverIngress, DeliverObject, Resync, clusterVars, cacheVars
  <1> QED
    BY <1>2, <1>3, <1>4, <1>5, <1>6, <1>7, <1>8 DEF Next, Deliver

----
\* The worker writes one more object.
LEMMA WriteSettles ==
    ASSUME TypeOK, SettlingInv, LookupsStay, \A i \in Ingresses : Kept(i), Arriving',
           NEW d \in toWrite, WriteObject(d)
    PROVE  SettlingInv'
  <1>0. WorkOK /\ pc = "apply" /\ cur \in Ingresses /\ d \in want
    BY TypeParts, Working DEF WriteObject, TypeOK
  <1>1. CASE Abandon
    <2>1. \A i \in Ingresses : i = cur => Due(i)'
      BY <1>1 DEF Abandon, Due
    <2> QED
      BY <1>1, <2>1, ReturnSettles DEF Abandon
  <1>2. CASE /\ StoreObject(d.key, Product(d))
             /\ toWrite' = toWrite \ {d}
             /\ UNCHANGED <<queue, pc, cur, copy, want, toList, toDelete>>
    <2>1. OthersRest' /\ CopyAsked'
      BY <1>2, OthersStayAtRest, AskedStays DEF SettlingInv
    <2>2. PassCounts'
      <3> SUFFICES ASSUME NEW i \in Ingresses, i = cur, ~Due(i)'
                   PROVE  /\ copy = ingress'[i]
                          /\ \A e \in want \ toWrite' : object'[e.key] = Product(e)
                          /\ \A k \in ProducedFor(i)' : StillSwept(k)
        BY <1>0, <1>2 DEF PassCounts, Product, StillSwept, Expected
      <3>1. Kept(i) /\ ~Due(i) /\ ingress'[i] = ingress[i]
        BY DEF Kept
      <3>2. /\ copy = ingress[i]
            /\ \A k \in ProducedFor(i) : StillSwept(k)
        BY <1>0, <3>1 DEF SettlingInv, PassCounts
      <3>3. ProducedFor(i)' = ProducedFor(i)
        BY <3>1, ProducedStays
      <3>4. ASSUME NEW e \in want \ toWrite'
            PROVE  object'[e.key] = Product(e)
        <4>1. CASE e \in want \ toWrite
          BY <1>0, <3>1, <4>1, WrittenStays DEF SettlingInv
        <4>2. CASE e = d
          <5>1. d.key \in Keys
            BY <1>0, ProductReal
          <5> QED
            BY <1>2, <4>2, <5>1 DEF StoreObject, PutObject, TypeOK, ClusterTypeOK
        <4> QED
          BY <1>2, <3>4, <4>1, <4>2
      <3> QED
        BY <3>1, <3>2, <3>3, <3>4
    <2> QED
      BY <2>1, <2>2 DEF SettlingInv, LookupsStay
  <1> QED
    BY <1>1, <1>2 DEF WriteObject, Answered, Abandon, RequeueAfter, Product

\* The worker searches one more kind: the cache has what the server has of an
\* Ingress that is not due.
LEMMA ListSettles ==
    ASSUME TypeOK, SourceInv, SettlingInv, LookupsStay, \A i \in Ingresses : Kept(i),
           Arriving', ListKind
    PROVE  SettlingInv'
  <1>0. /\ UNCHANGED <<clusterVars, queue, pc, cur, copy, want, toWrite>>
        /\ toDelete = {}
        /\ toDelete' = Unwanted(First(toList))
        /\ toList' = toList \ {First(toList)}
    BY DEF ListKind
  <1>1. OthersRest' /\ CopyAsked'
    BY <1>0, OthersStayAtRest, AskedStays DEF SettlingInv
  <1>2. PassCounts'
    <2> SUFFICES ASSUME NEW i \in Ingresses, i = cur, ~Due(i)'
                 PROVE  /\ copy = ingress'[i]
                        /\ pc = "apply" =>
                              /\ \A d \in want \ toWrite : object'[d.key] = Product(d)
                              /\ \A k \in ProducedFor(i)' : StillSwept(k)'
      BY <1>0, TypeParts, Working DEF PassCounts, Product
    <2>1. Kept(i) /\ ~Due(i) /\ ingress'[i] = ingress[i] /\ copy = ingress[i]
      BY DEF Kept, SettlingInv, PassCounts, ListKind
    <2>2. ASSUME NEW k \in ProducedFor(i), pc = "apply"
          PROVE  StillSwept(k)'
      <3>1. StillSwept(k)
        BY <2>1, <2>2 DEF SettlingInv, PassCounts
      <3>2. k \in Keys /\ IsOf(object[k], i)
        BY DEF ProducedFor, IsOf
      <3>3. objectEvents[k] = <<>>
        BY <2>1, <3>2, LiveIsVersion DEF Due, Announces, SettlingInv
      <3>4. cachedObject[k] = object[k]
        BY <3>2, <3>3 DEF SettlingInv, Arriving, EventsEnd
      <3>5. k.ns = i.ns
        <4>1. k \in KeysOf(i)
          BY <3>2, NoneAssumption DEF IsOf, SourceInv, SourcesFit, Fits
        <4> QED
          BY <4>1, KeysInNamespace
      <3>6. CASE k.kind = First(toList) /\ k \notin Expected
        BY <1>0, <3>2, <3>4, <3>5, <3>6
        DEF Unwanted, Owned, Listed, StillSwept, IsOf
      <3> QED
        BY <1>0, <3>1, <3>6 DEF StillSwept, Expected
    <2>3. ProducedFor(i)' = ProducedFor(i)
      BY <2>1, ProducedStays
    <2> QED
      BY <2>1, <2>2, <2>3, WrittenStays DEF SettlingInv
  <1> QED
    BY <1>1, <1>2 DEF SettlingInv, LookupsStay

\* The worker deletes what a search has found: if that was of its Ingress, its
\* deletion makes the Ingress due.
LEMMA DeleteSettles ==
    ASSUME TypeOK, SettlingInv, LookupsStay, \A i \in Ingresses : Kept(i), Arriving',
           NEW k \in toDelete, DeleteObject(k)
    PROVE  SettlingInv'
  <1>0. WorkOK /\ k \in Keys /\ pc # "idle"
    BY TypeParts DEF TypeOK
  <1>1. CASE Abandon
    <2>1. \A i \in Ingresses : i = cur => Due(i)'
      BY <1>1 DEF Abandon, Due
    <2> QED
      BY <1>1, <2>1, ReturnSettles DEF Abandon
  <1>2. CASE /\ toDelete' = toDelete \ {k}
             /\ UNCHANGED <<queue, pc, cur, copy, want, toWrite, toList>>
    <2>1. OthersRest' /\ CopyAsked'
      BY <1>2, OthersStayAtRest, AskedStays DEF SettlingInv
    <2>2. PassCounts'
      <3> SUFFICES ASSUME NEW i \in Ingresses, i = cur, ~Due(i)'
                   PROVE  /\ copy = ingress'[i]
                          /\ pc = "apply" =>
                                /\ \A d \in want \ toWrite : object'[d.key] = Product(d)
                                /\ \A l \in ProducedFor(i)' : StillSwept(l)'
        BY <1>0, <1>2, Working DEF PassCounts, Product
      <3>1. Kept(i) /\ ~Due(i) /\ ingress'[i] = ingress[i]
        BY DEF Kept
      <3>2. /\ copy = ingress[i]
            /\ pc = "apply" => \A l \in ProducedFor(i) : StillSwept(l)
        BY <1>0, <3>1 DEF SettlingInv, PassCounts
      <3>3. k \notin ProducedFor(i)'
        <4>1. object'[k] = None
          BY <1>0 DEF DeleteObject, StoreObject, PutObject, TypeOK, ClusterTypeOK
        <4> QED
          BY <4>1 DEF ProducedFor
      <3>4. ProducedFor(i)' = ProducedFor(i)
        BY <3>1, ProducedStays
      <3> QED
        BY <1>2, <3>1, <3>2, <3>3, <3>4, WrittenStays DEF StillSwept, Expected, SettlingInv
    <2> QED
      BY <2>1, <2>2 DEF SettlingInv, LookupsStay
  <1> QED
    BY <1>1, <1>2 DEF DeleteObject, Answered

\* A version of an Ingress that was just made is announced.
LEMMA PutDue ==
    ASSUME TypeOK, NEW i \in Ingresses, NEW r, PutIngress(i, r)
    PROVE  Due(i)'
  <1>1. ingressEvents'[i] = Append(ingressEvents[i], r)
    BY DEF PutIngress, TypeOK, ClusterTypeOK
  <1>2. ingressEvents[i] \in Seq(IngressRecord \cup {None})
    BY DEF TypeOK, ClusterTypeOK
  <1>3. ingressEvents'[i] # <<>>
    BY <1>1, <1>2
  <1> QED
    BY <1>3 DEF Due

\* The worker removes the finalizer: the Ingress is another one then, or the
\* worker has failed.
LEMMA RemovedIsDue ==
    ASSUME TypeOK, SettlingInv, RemoveFinalizer, NEW i \in Ingresses, i = cur, Kept(i)
    PROVE  Due(i)'
  <1> SUFFICES ASSUME ~Due(i)'
               PROVE  FALSE
    OBVIOUS
  <1>1. ~Abandon
    BY DEF Abandon, Due
  <1>2. SetFinalizers(cur, copy.finalizers \ {FinalizerName}) /\ pc = "purge"
    BY <1>1 DEF RemoveFinalizer
  <1>3. ~Due(i)
    BY DEF Kept
  <1>4. copy = ingress[i] /\ FinalizerName \in copy.finalizers
    BY <1>2, <1>3 DEF SettlingInv, PassCounts, CopyAsked
  <1> QED
    BY <1>2, <1>4, PutDue DEF SetFinalizers

LEMMA RemoveSettles ==
    ASSUME TypeOK, SettlingInv, LookupsStay, \A i \in Ingresses : Kept(i), Arriving',
           RemoveFinalizer
    PROVE  SettlingInv'
  <1>1. Idle
    BY DEF RemoveFinalizer, Answered, Finish, Abandon
  <1> QED
    BY <1>1, RemovedIsDue, ReturnSettles

\* The pass ends with the status: all it was for is done by then.
LEMMA StatusSettles ==
    ASSUME TypeOK, SettlingInv, LookupsStay, \A i \in Ingresses : Kept(i), Arriving',
           UpdateIngressStatus
    PROVE  SettlingInv'
  <1>0. /\ pc = "apply" /\ cur \in Ingresses
        /\ toWrite = {} /\ toList = {} /\ toDelete = {}
        /\ UNCHANGED <<object, ports>>
    BY TypeParts, Working DEF UpdateIngressStatus, Swept
  <1>1. Idle
    BY DEF UpdateIngressStatus, Finish
  <1>2. ASSUME NEW i \in Ingresses, i = cur, ~Due(i)'
        PROVE  AtRest(i)
    <2>1. ~Due(i)
      BY <1>2 DEF Kept
    <2>2. /\ copy = ingress[i]
          /\ \A d \in want : object[d.key] = Product(d)
          /\ \A k \in ProducedFor(i) : k \in Expected
      BY <1>0, <1>2, <2>1 DEF SettlingInv, PassCounts, Product, StillSwept
    <2>3. PICK declared \in Looked : want = ConvertIngressFull(i, copy.spec, declared)
      BY <1>0, <1>2 DEF SettlingInv, CopyAsked
    <2>4. FinalizerName \in copy.finalizers /\ ~copy.deleting
      BY <1>0 DEF SettlingInv, CopyAsked
    <2>5. HasWhatItWants(i, declared)
      <3>1. want = Wanted(i, declared)
        BY <2>2, <2>3 DEF Wanted
      <3>2. ASSUME NEW d \in want
            PROVE  d.key \in ProducedFor(i)
        BY <1>0, <1>2, <2>2, <3>2, ProductReal DEF ProducedFor, IsOf
      <3>3. ProducedFor(i) = {d.key : d \in want}
        BY <2>2, <3>2 DEF Expected
      <3> QED
        BY <1>2, <2>2, <2>4, <3>1, <3>3 DEF HasWhatItWants, Product
    <2> QED
      BY <2>2, <2>3, <2>4, <2>5 DEF AtRest
  <1>3. \A i \in Ingresses : i = cur => Due(i)' \/ AtRest(i)'
    BY <1>2, RestStays
  <1> QED
    BY <1>1, <1>3, ReturnSettles

LEMMA ContinueSettles ==
    ASSUME TypeOK, SourceInv, SettlingInv, LookupsStay, \A i \in Ingresses : Kept(i),
           Arriving', Continue
    PROVE  SettlingInv'
  <1>1. CASE AddFinalizer \/ WriteFails
    <2>1. Abandon
      BY <1>1 DEF AddFinalizer, WriteFails, Answered
    <2>2. \A i \in Ingresses : i = cur => Due(i)'
      BY <2>1 DEF Abandon, Due
    <2> QED
      BY <2>1, <2>2, ReturnSettles DEF Abandon
  <1> QED
    BY <1>1, WriteSettles, ListSettles, DeleteSettles, RemoveSettles, StatusSettles
    DEF Continue

----
LEMMA EventsEndSooner ==
    ASSUME NEW T, NEW events \in Seq(T), events # <<>>, NEW cached, NEW live,
           EventsEnd(events, cached, live)
    PROVE  EventsEnd(Tail(events), Head(events), live)
  <1>1. CASE Len(events) = 1
    <2>1. Tail(events) \in Seq(T) /\ Len(Tail(events)) = 0
      BY <1>1
    <2>2. Tail(events) = <<>>
      BY <2>1, EmptySeq
    <2>3. Head(events) = events[1]
      OBVIOUS
    <2> QED
      BY <1>1, <2>2, <2>3 DEF EventsEnd
  <1>2. CASE Len(events) # 1
    <2>1. Len(events) \in Nat /\ Len(events) > 1
      BY <1>2
    <2>2. /\ Len(Tail(events)) = Len(events) - 1
          /\ Tail(events) # <<>>
          /\ Tail(events)[Len(events) - 1] = events[Len(events)]
      BY <2>1
    <2> QED
      BY <2>2 DEF EventsEnd
  <1> QED
    BY <1>1, <1>2

\* A delivery takes an event off, and what it was the event of goes to the queue.
LEMMA DeliverKeeps ==
    ASSUME TypeOK, Arriving, Deliver
    PROVE  Arriving' /\ \A i \in Ingresses : Kept(i)
  <1>0. UNCHANGED <<ingress, object>>
    BY DEF Deliver, DeliverIngress, DeliverObject, DeliverGateway, DeliverService,
           Resync, clusterVars, serverVars
  <1>1. ASSUME NEW j \in Ingresses, DeliverIngress(j)
        PROVE  Arriving' /\ \A i \in Ingresses : Due(i) => Due(i)'
    <2>1. /\ cachedIngress' = [cachedIngress EXCEPT ![j] = Head(ingressEvents[j])]
          /\ ingressEvents' = [ingressEvents EXCEPT ![j] = Tail(ingressEvents[j])]
          /\ queue' = queue \cup {j}
          /\ UNCHANGED <<cachedObject, objectEvents>>
      BY <1>1 DEF DeliverIngress
    <2>2. ASSUME NEW i \in Ingresses
          PROVE  EventsEnd(ingressEvents'[i], cachedIngress'[i], ingress[i])
      <3>1. ingressEvents[i] \in Seq(IngressRecord \cup {None})
        BY DEF TypeOK, ClusterTypeOK
      <3>2. CASE i = j
        <4>1. ingressEvents'[i] = Tail(ingressEvents[i]) /\ cachedIngress'[i] = Head(ingressEvents[i])
          BY <2>1, <3>2 DEF TypeOK, ClusterTypeOK
        <4> QED
          BY <1>1, <3>1, <3>2, <4>1, EventsEndSooner DEF Arriving, DeliverIngress
      <3>3. CASE i # j
        BY <2>1, <3>3 DEF Arriving, TypeOK, ClusterTypeOK
      <3> QED
        BY <3>2, <3>3
    <2>3. Arriving'
      BY <1>0, <2>1, <2>2 DEF Arriving
    <2>4. ASSUME NEW i \in Ingresses, Due(i)
          PROVE  Due(i)'
      <3>1. CASE i = j
        BY <2>1, <3>1 DEF Due
      <3>2. CASE i # j
        BY <2>1, <2>4, <3>2 DEF Due, Announces, Versions, TypeOK, ClusterTypeOK
      <3> QED
        BY <3>1, <3>2
    <2> QED
      BY <2>3, <2>4
  <1>2. ASSUME NEW k \in Keys, DeliverObject(k)
        PROVE  Arriving' /\ \A i \in Ingresses : Due(i) => Due(i)'
    <2>1. /\ cachedObject' = [cachedObject EXCEPT ![k] = Head(objectEvents[k])]
          /\ objectEvents' = [objectEvents EXCEPT ![k] = Tail(objectEvents[k])]
          /\ queue' = queue \cup Owners({cachedObject[k], Head(objectEvents[k])})
          /\ UNCHANGED <<cachedIngress, ingressEvents>>
      BY <1>2 DEF DeliverObject
    <2>2. objectEvents[k] \in Seq(ObjectRecord \cup {None}) /\ objectEvents[k] # <<>>
      BY <1>2 DEF TypeOK, ClusterTypeOK, DeliverObject
    <2>3. objectEvents'[k] = Tail(objectEvents[k]) /\ cachedObject'[k] = Head(objectEvents[k])
      BY <2>1 DEF TypeOK, ClusterTypeOK
    <2>4. ASSUME NEW l \in Keys, l # k
          PROVE  objectEvents'[l] = objectEvents[l] /\ cachedObject'[l] = cachedObject[l]
      BY <2>1, <2>4 DEF TypeOK, ClusterTypeOK
    <2>5. Arriving'
      <3>1. EventsEnd(objectEvents'[k], cachedObject'[k], object[k])
        BY <2>2, <2>3, EventsEndSooner DEF Arriving
      <3> QED
        BY <1>0, <2>1, <2>4, <3>1 DEF Arriving
    <2>6. ASSUME NEW i \in Ingresses, Announces(k, i)
          PROVE  Due(i)'
      <3>1. PICK v \in Versions(k) : IsOf(v, i)
        BY <2>6 DEF Announces
      <3>2. CASE v \in {cachedObject[k], Head(objectEvents[k])}
        BY <2>1, <3>1, <3>2, NoneAssumption DEF Due, Owners, IsOf
      <3>3. CASE v \notin {cachedObject[k], Head(objectEvents[k])}
        <4>1. PICK n \in 1 .. Len(objectEvents[k]) : v = objectEvents[k][n]
          BY <3>3 DEF Versions
        <4>2. n # 1
          BY <2>2, <3>3, <4>1
        <4>3. /\ n - 1 \in 1 .. Len(Tail(objectEvents[k]))
              /\ v = Tail(objectEvents[k])[n - 1]
              /\ Tail(objectEvents[k]) # <<>>
          <5> DEFINE events == objectEvents[k]
          <5>1. events \in Seq(ObjectRecord \cup {None}) /\ n \in 1 .. Len(events) /\ n # 1
            BY <2>2, <4>1, <4>2
          <5>2. v = events[n]
            BY <4>1
          <5> HIDE DEF events
          <5>3. /\ n - 1 \in 1 .. Len(Tail(events))
                /\ Tail(events)[n - 1] = events[n]
                /\ Tail(events) # <<>>
            BY <5>1
          <5> QED
            BY <5>2, <5>3 DEF events
        <4> QED
          BY <2>3, <3>1, <4>3 DEF Due, Announces, Versions
      <3> QED
        BY <3>2, <3>3
    <2>7. ASSUME NEW i \in Ingresses, NEW l \in Keys, Announces(l, i), l # k
          PROVE  Due(i)'
      BY <2>4, <2>7 DEF Due, Announces, Versions
    <2> QED
      BY <2>1, <2>5, <2>6, <2>7 DEF Due
  <1>3. ASSUME Resync
        PROVE  Arriving' /\ \A i \in Ingresses : Due(i) => Due(i)'
    <2>1. UNCHANGED <<cacheVars, eventVars>> /\ queue \subseteq queue'
      BY <1>3 DEF Resync, clusterVars
    <2>2. Arriving'
      BY <1>0, <2>1 DEF Arriving, cacheVars, eventVars
    <2>3. ASSUME NEW i \in Ingresses, Due(i)
          PROVE  Due(i)'
      BY <2>1, <2>3 DEF Due, Announces, Versions, cacheVars, eventVars
    <2> QED
      BY <2>2, <2>3
  <1>4. ASSUME DeliverGateway \/ \E svc \in Services : DeliverService(svc)
        PROVE  Arriving' /\ \A i \in Ingresses : Due(i) => Due(i)'
    <2>1. UNCHANGED <<cachedIngress, cachedObject, eventVars, queue>>
      BY <1>4 DEF DeliverGateway, DeliverService
    <2>2. Arriving'
      BY <1>0, <2>1 DEF Arriving, eventVars
    <2>3. ASSUME NEW i \in Ingresses, Due(i)
          PROVE  Due(i)'
      BY <2>1, <2>3 DEF Due, Announces, Versions, eventVars
    <2> QED
      BY <2>2, <2>3
  <1>5. Arriving' /\ \A i \in Ingresses : Due(i) => Due(i)'
    BY <1>1, <1>2, <1>3, <1>4 DEF Deliver
  <1> QED
    BY <1>0, <1>5 DEF Kept

\* After a restart, everything the cluster has is due.
LEMMA RestartSettles ==
    ASSUME Restart
    PROVE  SettlingInv'
  <1>1. /\ Idle
        /\ cachedIngress' = ingress' /\ cachedObject' = object'
        /\ ingressEvents' = [i \in Ingresses |-> <<>>]
        /\ objectEvents' = [k \in Keys |-> <<>>]
        /\ \A i \in Ingresses : ingress'[i] # None => i \in queue'
    BY DEF Restart, serverVars
  <1>2. Arriving'
    BY <1>1 DEF Arriving, EventsEnd
  <1>3. OthersRest'
    BY <1>1 DEF OthersRest, Due, AtRest
  <1>4. LookupsKeep'
    BY DEF Restart, serverVars, LookupsKeep
  <1> QED
    BY <1>1, <1>2, <1>3, <1>4 DEF Idle, SettlingInv, CopyAsked, PassCounts

\* The worker takes i from the queue: if nothing else makes it due, the version in
\* the cache is the one on the server.
LEMMA BeginSettles ==
    ASSUME TypeOK, SettlingInv, NEW i \in Ingresses, Begin(i)
    PROVE  SettlingInv'
  <1>1. Take(i)
    BY DEF Begin, Ignore, BeginDeletion, Purge, BeginFinalizer, BeginApply, Convert
  <1>2. /\ pc = "idle" /\ cur = None
        /\ queue' = queue \ {i}
        /\ UNCHANGED <<ingress, object, ports, gateway, cachedIngress, cachedObject,
                       cachedGateway, cachedPorts, ingressEvents, objectEvents>>
    BY <1>1
    DEF Take, TypeOK, clusterVars, serverVars, cacheVars, lookupVars, eventVars
  <1>3. Arriving' /\ LookupsKeep' /\ Looked' = Looked
    BY <1>2 DEF SettlingInv, Arriving, LookupsKeep, Looked
  <1>4. ASSUME NEW j \in Ingresses, j # i
        PROVE  Due(j)' \/ AtRest(j)'
    <2>1. Due(j) => Due(j)'
      BY <1>2, <1>4 DEF Due, Announces, Versions
    <2>2. Due(j) \/ AtRest(j)
      BY <1>2, NoneAssumption DEF SettlingInv, OthersRest
    <2>3. AtRest(j) => AtRest(j)'
      BY <1>2, <1>3 DEF AtRest, HasWhatItWants, ProducedFor, Wanted
    <2> QED
      BY <2>1, <2>2, <2>3
  <1>5. ASSUME ~Due(i)'
        PROVE  cachedIngress[i] = ingress[i]
    BY <1>2, <1>5 DEF Due, SettlingInv, Arriving, EventsEnd
  <1>6. CASE Ignore(i)
    <2>1. UNCHANGED <<pc, cur>>
      BY <1>6 DEF Ignore, workVars
    <2>2. ASSUME ~Due(i)'
          PROVE  AtRest(i)'
      BY <1>2, <1>5, <1>6, <2>2 DEF Ignore, AtRest
    <2>3. OthersRest'
      BY <1>4, <2>2 DEF OthersRest
    <2> QED
      BY <1>2, <1>3, <2>1, <2>3 DEF SettlingInv, CopyAsked, PassCounts
  <1>7. CASE BeginDeletion(i) \/ BeginFinalizer(i) \/ BeginApply(i)
    <2>1. /\ cur' = i /\ copy' = cachedIngress[i] /\ toDelete' = {}
          /\ pc' \in {"purge", "finalize", "apply"}
      BY <1>7 DEF BeginDeletion, Purge, BeginFinalizer, BeginApply, Convert, Start
    <2>2. OthersRest'
      BY <1>4, <2>1 DEF OthersRest
    <2>3. ASSUME pc' = "apply"
          PROVE  /\ want' = ConvertIngressFull(i, copy'.spec, cachedPorts)
                 /\ toWrite' = want' /\ toList' = UsedKinds
                 /\ FinalizerName \in copy'.finalizers /\ ~copy'.deleting
      BY <1>7, <2>1, <2>3 DEF BeginDeletion, Purge, BeginFinalizer, BeginApply, Convert
    <2>4. pc' = "purge" => FinalizerName \in copy'.finalizers
      BY <1>7, <2>1 DEF BeginDeletion, Purge, BeginFinalizer, BeginApply, Convert
    <2>5. CopyAsked'
      <3>1. cachedPorts \in Looked
        BY DEF SettlingInv, LookupsKeep, Looked, TypeOK, ClusterTypeOK
      <3> QED
        BY <1>3, <2>1, <2>3, <2>4, <3>1 DEF CopyAsked
    <2>6. PassCounts'
      <3>1. ASSUME pc' = "apply", NEW k \in ProducedFor(i)'
            PROVE  k.kind \in toList'
        BY <2>3, <3>1 DEF ProducedFor, UsedKinds
      <3>2. ASSUME ~Due(i)'
            PROVE  copy' = ingress'[i]
        BY <1>2, <1>5, <2>1, <3>2
      <3> QED
        BY <2>1, <2>3, <3>1, <3>2 DEF PassCounts, StillSwept
    <2> QED
      BY <1>3, <2>2, <2>5, <2>6 DEF SettlingInv
  <1> QED
    BY <1>6, <1>7 DEF Begin

LEMMA NextSettles ==
    ASSUME TypeOK, TypeOK', SourceInv, SettlingInv, [Next]_vars
    PROVE  SettlingInv'
  <1>1. CASE UNCHANGED vars
    BY <1>1
    DEF vars, clusterVars, serverVars, cacheVars, lookupVars, eventVars, workVars,
        SettlingInv, Arriving, OthersRest, CopyAsked, PassCounts, Due, Announces,
        Versions, LookupsKeep, Looked, AtRest, HasWhatItWants, ProducedFor, Wanted,
        StillSwept, Expected
  <1>2. ASSUME Next
        PROVE  SettlingInv'
    <2>1. LookupsStay
      BY <1>2, NextLookups DEF SettlingInv
    <2>2. CASE Environment /\ UNCHANGED <<queue, workVars>>
      BY <2>1, <2>2, EnvironmentMoves, MovesArrive, MovesKeep, StaySettles DEF SettlingInv
    <2>3. CASE Continue
      BY <2>1, <2>3, ContinueMoves, MovesArrive, MovesKeep, ContinueSettles DEF SettlingInv
    <2>4. CASE Deliver
      <3>1. UNCHANGED workVars
        BY <2>4
        DEF Deliver, DeliverIngress, DeliverObject, DeliverGateway, DeliverService, Resync
      <3> QED
        BY <2>1, <2>4, <3>1, DeliverKeeps, StaySettles DEF SettlingInv
    <2> QED
      BY <1>2, <2>2, <2>3, <2>4, RestartSettles, BeginSettles DEF Next
  <1> QED
    BY <1>1, <1>2

LEMMA InitSettles == Init => SettlingInv
  BY DEF Init, ClusterInit, SettlingInv, Arriving, EventsEnd, LookupsKeep, OthersRest,
         AtRest, CopyAsked, PassCounts

----
LEMMA SettledWhenQuiet ==
    ASSUME TypeOK, SettlingInv, Quiet, NEW i \in Ingresses
    PROVE  \E declared \in Looked : SettledWith(i, declared)
  <1>1. ~Due(i) /\ cur # i
    BY NoneAssumption DEF Quiet, Due, Announces, TypeOK
  <1>2. AtRest(i)
    BY <1>1 DEF SettlingInv, OthersRest
  <1>3. ASSUME ingress[i] = None
        PROVE  ProducedFor(i) = {}
    BY <1>3, NoneAssumption DEF Quiet, Orphaned, ProducedFor
  <1>4. Looked # {}
    BY DEF Looked, TypeOK, ClusterTypeOK
  <1> QED
    BY <1>2, <1>3, <1>4 DEF SettledWith, Served, NotHeldUp, AtRest

LEMMA SettledAlways == Spec => [](TypeOK /\ SettlingInv)
  <1>1. TypeOK /\ SourceInv /\ [Next]_vars => SourceInv'
    BY NextFits
  <1>2. TypeOK /\ TypeOK' /\ SourceInv /\ SettlingInv /\ [Next]_vars => SettlingInv'
    BY NextSettles
  <1> QED
    BY <1>1, <1>2, InitFits, InitSettles, TypeCorrect, PTL DEF Spec

\* SetupWithManager and the returns of Reconcile: at every moment, each difference
\* between the server and what an Ingress asks for is in the queue, in an event that
\* will put it there, or in the hands of the worker, whatever ports Services declare.
THEOREM DifferencesAreDue == Spec => []SettlingInv
  BY SettledAlways, PTL

\* However Reconcile, the watches, users, the collector, failures and restarts
\* interleave, and whoever tampers with the objects: once all is quiet, the server
\* holds what the Ingresses ask for, if no Service changes its ports.
THEOREM QuietMeansSettled ==
    ASSUME "port" \notin Disturbances
    PROVE  Spec => []QuietImpliesSettled
  <1>1. TypeOK /\ SettlingInv => QuietImpliesSettled
    BY SettledWhenQuiet DEF QuietImpliesSettled, Looked, Settled
  <1> QED
    BY <1>1, SettledAlways, PTL

\* If Services do change their ports, this is still so but for the numbers of those an
\* Ingress asks for by name: no object of it is missing, nor is one left over.
THEOREM QuietMeansSettledButPorts == Spec => []QuietImpliesSettledButPorts
  <1>1. TypeOK /\ SettlingInv => QuietImpliesSettledButPorts
    <2>1. TypeOK => Looked \subseteq Declarations
      BY DEF Looked, TypeOK, ClusterTypeOK
    <2> QED
      BY <2>1, SettledWhenQuiet DEF QuietImpliesSettledButPorts, SettledButPorts
  <1> QED
    BY <1>1, SettledAlways, PTL

----
\* What the status shows stays right while the Gateway and the Ingress stay.
LEMMA StatusStays ==
    ASSUME StatusInv, gateway' = gateway, \A i \in Ingresses : Kept(i),
           cur' \in {cur, None},
           \A i \in Ingresses : i = cur /\ cur' # cur => Due(i)' \/ StatusAtRest(i)
    PROVE  StatusInv'
  <1>1. ASSUME NEW i \in Ingresses, cur' # i, ~Due(i)'
        PROVE  StatusAtRest(i)'
    <2>1. ~Due(i) /\ ingress'[i] = ingress[i]
      BY <1>1 DEF Kept
    <2>2. StatusAtRest(i)
      BY <1>1, <2>1 DEF StatusInv
    <2> QED
      BY <2>1, <2>2 DEF StatusAtRest
  <1> QED
    BY <1>1 DEF StatusInv

\* The worker leaves an Ingress that is not due with the address of the Gateway: if
\* the server refused the status, there is a later version to be delivered.
LEMMA LeavesStatus ==
    ASSUME TypeOK, SettlingInv, UpdateIngressStatus,
           "gateway" \notin Disturbances, "fault" \notin Disturbances,
           NEW i \in Ingresses, i = cur, Kept(i), ~Due(i)'
    PROVE  StatusAtRest(i)
  <1>1. ~Due(i) /\ pc = "apply"
    BY DEF Kept, UpdateIngressStatus
  <1>2. copy = ingress[i]
    BY <1>1 DEF SettlingInv, PassCounts
  <1>3. ~StatusDue
    BY <1>2, PutDue DEF UpdateIngressStatus, Spend
  <1>4. cachedGateway = gateway
    BY DEF SettlingInv, LookupsKeep
  <1> QED
    BY <1>2, <1>3, <1>4 DEF StatusDue, StatusDiffers, StatusAtRest

LEMMA ContinueStatus ==
    ASSUME TypeOK, SettlingInv, StatusInv, Continue, \A i \in Ingresses : Kept(i),
           gateway' = gateway, "gateway" \notin Disturbances, "fault" \notin Disturbances
    PROVE  StatusInv'
  <1>1. CASE Abandon
    <2>1. cur' = None /\ \A i \in Ingresses : i = cur => Due(i)'
      BY <1>1 DEF Abandon, Idle, Due
    <2> QED
      BY <2>1, StatusStays
  <1>2. CASE cur' = cur
    BY <1>2, StatusStays
  <1>3. CASE RemoveFinalizer
    <2>1. cur' = None
      BY <1>3 DEF RemoveFinalizer, Answered, Finish, Abandon, Idle
    <2> QED
      BY <1>3, <2>1, RemovedIsDue, StatusStays
  <1>4. CASE UpdateIngressStatus
    <2>1. cur' = None
      BY <1>4 DEF UpdateIngressStatus, Finish, Idle
    <2> QED
      BY <1>4, <2>1, LeavesStatus, StatusStays
  <1> QED
    BY <1>1, <1>2, <1>3, <1>4
    DEF Continue, AddFinalizer, WriteObject, RequeueAfter, ListKind, DeleteObject,
        WriteFails, Answered

LEMMA BeginStatus ==
    ASSUME TypeOK, SettlingInv, StatusInv, NEW i \in Ingresses, Begin(i)
    PROVE  StatusInv'
  <1>1. Take(i)
    BY DEF Begin, Ignore, BeginDeletion, Purge, BeginFinalizer, BeginApply, Convert
  <1>2. /\ cur = None
        /\ queue' = queue \ {i}
        /\ UNCHANGED <<ingress, gateway, cachedIngress, cachedObject,
                       ingressEvents, objectEvents>>
    BY <1>1 DEF Take, TypeOK, clusterVars, serverVars, cacheVars, eventVars
  <1>3. ASSUME NEW j \in Ingresses, j # i
        PROVE  Due(j)' \/ StatusAtRest(j)'
    <2>1. Due(j) => Due(j)'
      BY <1>2, <1>3 DEF Due, Announces, Versions
    <2>2. Due(j) \/ StatusAtRest(j)
      BY <1>2, NoneAssumption DEF StatusInv
    <2> QED
      BY <1>2, <2>1, <2>2 DEF StatusAtRest
  <1>4. ASSUME ~Due(i)'
        PROVE  cachedIngress[i] = ingress[i]
    BY <1>2, <1>4 DEF Due, SettlingInv, Arriving, EventsEnd
  <1>5. CASE Ignore(i)
    BY <1>2, <1>3, <1>4, <1>5 DEF Ignore, StatusInv, StatusAtRest
  <1>6. CASE BeginDeletion(i) \/ BeginFinalizer(i) \/ BeginApply(i)
    <2>1. cur' = i
      BY <1>6 DEF BeginDeletion, Purge, BeginFinalizer, BeginApply, Convert, Start
    <2> QED
      BY <1>3, <2>1 DEF StatusInv
  <1> QED
    BY <1>5, <1>6 DEF Begin

LEMMA NextStatus ==
    ASSUME TypeOK, TypeOK', SettlingInv, StatusInv, [Next]_vars,
           "gateway" \notin Disturbances, "fault" \notin Disturbances
    PROVE  StatusInv'
  <1>1. CASE UNCHANGED vars
    BY <1>1
    DEF vars, clusterVars, serverVars, cacheVars, eventVars, workVars, StatusInv,
        StatusAtRest, Due, Announces, Versions
  <1>2. ASSUME Next
        PROVE  StatusInv'
    <2>1. gateway' = gateway
      BY <1>2, NextPorts
    <2>2. CASE Environment /\ UNCHANGED <<queue, workVars>>
      BY <2>1, <2>2, EnvironmentMoves, MovesKeep, StatusStays DEF SettlingInv, workVars
    <2>3. CASE Continue
      BY <2>1, <2>3, ContinueMoves, MovesKeep, ContinueStatus DEF SettlingInv
    <2>4. CASE Deliver
      <3>1. UNCHANGED workVars
        BY <2>4
        DEF Deliver, DeliverIngress, DeliverObject, DeliverGateway, DeliverService, Resync
      <3> QED
        BY <2>1, <2>4, <3>1, DeliverKeeps, StatusStays DEF SettlingInv, workVars
    <2>5. CASE Restart
      BY <2>5 DEF Restart, serverVars, StatusInv, StatusAtRest, Due
    <2> QED
      BY <1>2, <2>2, <2>3, <2>4, <2>5, BeginStatus DEF Next
  <1> QED
    BY <1>1, <1>2

LEMMA InitStatus == Init => StatusInv
  BY DEF Init, ClusterInit, StatusInv, StatusAtRest

LEMMA StatusWhenQuiet ==
    ASSUME TypeOK, StatusInv, Quiet, NEW i \in Ingresses
    PROVE  StatusSettled(i)
  <1>1. ~Due(i) /\ cur # i
    BY NoneAssumption DEF Quiet, Due, Announces, TypeOK
  <1> QED
    BY <1>1 DEF StatusInv, StatusAtRest, StatusSettled, Served
====
