---- MODULE InstancesProofs ----
(***************************************************************************)
(* Proofs about TwoInstances, for any Ingresses, specs and bounds.         *)
(***************************************************************************)
EXTENDS TwoInstances, SettlingProofs

\* The second process, with what is proved of one.
Other == INSTANCE SettlingProofs WITH
    cachedIngress <- cachedIngress2, cachedObject <- cachedObject2,
    cachedGateway <- cachedGateway2, cachedPorts <- cachedPorts2,
    ingressEvents <- ingressEvents2, objectEvents <- objectEvents2,
    queue <- queue2, pc <- pc2, cur <- cur2, copy <- copy2, want <- want2,
    toWrite <- toWrite2, toList <- toList2, toDelete <- toDelete2

\* It is of the same world as the first.
LEMMA SameConversion ==
    ASSUME NEW i, NEW spec, NEW declared
    PROVE  Other!ConvertIngressFull(i, spec, declared) = ConvertIngressFull(i, spec, declared)
  BY DEF Other!ConvertIngressFull, ConvertIngressFull, Other!HTTPRoutes, HTTPRoutes,
         Other!BackendTrafficPolicies, BackendTrafficPolicies,
         Other!ClientTrafficPolicies, ClientTrafficPolicies,
         Other!SecurityPolicies, SecurityPolicies,
         Other!BackendTLSPolicies, BackendTLSPolicies,
         Other!RoutePolicies, RoutePolicies, Other!Object, Object, Other!Key, Key,
         Other!Backends, Backends, Other!BackendRef, BackendRef,
         Other!ResolvePort, ResolvePort, Other!RouteName, RouteName,
         Other!Sanitize, Sanitize, Other!NoService, NoService, Other!NoPort, NoPort

LEMMA SameWorld ==
    /\ Other!IngressRecord = IngressRecord
    /\ Other!Keys = Keys
    /\ Other!ObjectRecord = ObjectRecord
    /\ Other!AllObjects = AllObjects
    /\ Other!UsedKinds = UsedKinds
    /\ Other!Declarations = Declarations
  <1>0. Other!Declarations = Declarations
    BY DEF Other!Declarations, Declarations, Other!NoPort, NoPort
  <1>1. Other!IngressRecord = IngressRecord
    BY DEF Other!IngressRecord, IngressRecord, Other!Finalizers, Finalizers
  <1>2. Other!AllObjects = AllObjects
    BY <1>0, SameConversion DEF Other!AllObjects, AllObjects
  <1>3. Other!Keys = Keys /\ Other!Bodies = Bodies
    BY <1>2 DEF Other!Keys, Keys, Other!Bodies, Bodies
  <1>4. Other!ObjectRecord = ObjectRecord
    BY <1>3 DEF Other!ObjectRecord, ObjectRecord
  <1> QED
    BY <1>0, <1>1, <1>2, <1>3, <1>4 DEF Other!UsedKinds, UsedKinds

\* What is assumed of the constants holds for the second process, too.
LEMMA SameAssumptions ==
    /\ Ingresses \subseteq Other!IngressId /\ Specs \subseteq Other!IngressSpec
    /\ \A spec \in Specs : \A b, c \in spec.default : b = c
    /\ None \notin Other!IngressRecord
    /\ None \notin Other!ObjectRecord
    /\ None \notin Ingresses
    /\ FinalizerName \notin OtherFinalizers
    /\ NoAddress \in Addresses
    /\ FirstGateways \subseteq Addresses \cup {None}
    /\ PortNumbers \subseteq Nat \ {Other!NoPort}
    /\ FirstPorts \subseteq PortNumbers \cup {Other!NoPort}
    /\ MaxDisturbances \in Nat
    /\ MaxIncarnations \in Nat
  BY InputAssumption, NoneAssumption, ClusterAssumption, SameWorld
  DEF Other!IngressId, IngressId, Other!IngressSpec, IngressSpec,
      Other!Reference, Reference, Other!Groups, Groups, Other!NoPort, NoPort

LEMMA SameKeys ==
    ASSUME NEW i
    PROVE  Other!KeysOf(i) = KeysOf(i)
  BY SameConversion, SameWorld DEF Other!KeysOf, KeysOf

LEMMA SameOfSecond ==
    /\ Other!Keys = Second!Keys
    /\ Other!UsedKinds = Second!UsedKinds
    /\ \A i, spec, declared : Other!ConvertIngressFull(i, spec, declared)
                                 = Second!ConvertIngressFull(i, spec, declared)
    /\ \A kinds : Other!First(kinds) = Second!First(kinds)
    /\ \A objects : Other!Owners(objects) = Second!Owners(objects)
  <1>1. ASSUME NEW i, NEW spec, NEW declared
        PROVE  Other!ConvertIngressFull(i, spec, declared)
                  = Second!ConvertIngressFull(i, spec, declared)
    BY
    DEF Other!ConvertIngressFull, Second!ConvertIngressFull, Other!HTTPRoutes,
        Second!HTTPRoutes, Other!BackendTrafficPolicies, Second!BackendTrafficPolicies,
        Other!ClientTrafficPolicies, Second!ClientTrafficPolicies,
        Other!SecurityPolicies, Second!SecurityPolicies, Other!BackendTLSPolicies,
        Second!BackendTLSPolicies, Other!RoutePolicies, Second!RoutePolicies,
        Other!Object, Second!Object, Other!Key, Second!Key, Other!Backends,
        Second!Backends, Other!BackendRef, Second!BackendRef, Other!ResolvePort,
        Second!ResolvePort, Other!RouteName, Second!RouteName, Other!Sanitize,
        Second!Sanitize, Other!NoService, Second!NoService, Other!NoPort, Second!NoPort
  <1>2. Other!AllObjects = Second!AllObjects
    BY <1>1 DEF Other!AllObjects, Second!AllObjects, Other!Declarations,
                Second!Declarations, Other!NoPort, Second!NoPort
  <1>3. Other!Keys = Second!Keys
    BY <1>2 DEF Other!Keys, Second!Keys
  <1>4. ASSUME NEW kinds
        PROVE  Other!First(kinds) = Second!First(kinds)
    BY DEF Other!First, Second!First, Other!KindRank, Second!KindRank
  <1>5. ASSUME NEW objects
        PROVE  Other!Owners(objects) = Second!Owners(objects)
    BY DEF Other!Owners, Second!Owners
  <1> QED
    BY <1>1, <1>3, <1>4, <1>5 DEF Other!UsedKinds, Second!UsedKinds

LEMMA SameBegin ==
    ASSUME NEW i \in Ingresses, Second!Begin(i)
    PROVE  Other!Begin(i)
  BY SameOfSecond
  DEF Other!Begin, Second!Begin, Other!Ignore, Second!Ignore, Other!BeginDeletion,
      Second!BeginDeletion, Other!BeginFinalizer, Second!BeginFinalizer,
      Other!BeginApply, Second!BeginApply, Other!Purge, Second!Purge, Other!Convert,
      Second!Convert, Other!Take, Second!Take, Other!Start, Second!Start,
      Other!ShouldProcess, Second!ShouldProcess, Other!serverVars, Second!serverVars,
      Other!cacheVars, Second!cacheVars, Other!lookupVars, Second!lookupVars,
      Other!eventVars, Second!eventVars, Other!clusterVars, Second!clusterVars,
      Other!workVars, Second!workVars

LEMMA SameAddFinalizer ==
    ASSUME Second!AddFinalizer
    PROVE  Other!AddFinalizer
  BY SameOfSecond
  DEF Other!AddFinalizer, Second!AddFinalizer, Other!PutIngress, Second!PutIngress,
      Other!PutObject, Second!PutObject, Other!StoreObject, Second!StoreObject,
      Other!NextVersion, Second!NextVersion, Other!SetFinalizers,
      Second!SetFinalizers, Other!FinalizersAllowed, Second!FinalizersAllowed,
      Other!Spend, Second!Spend, Other!Idle, Second!Idle, Other!Finish, Second!Finish,
      Other!Abandon, Second!Abandon, Other!Answered, Second!Answered,
      Other!serverVars, Second!serverVars, Other!cacheVars, Second!cacheVars,
      Other!lookupVars, Second!lookupVars, Other!eventVars, Second!eventVars,
      Other!clusterVars, Second!clusterVars, Other!workVars, Second!workVars

LEMMA SameListKind ==
    ASSUME Second!ListKind
    PROVE  Other!ListKind
  BY SameOfSecond
  DEF Other!ListKind, Second!ListKind, Other!Unwanted, Second!Unwanted, Other!Owned,
      Second!Owned, Other!Listed, Second!Listed, Other!Expected, Second!Expected,
      Other!PutIngress, Second!PutIngress, Other!PutObject, Second!PutObject,
      Other!StoreObject, Second!StoreObject, Other!NextVersion, Second!NextVersion,
      Other!SetFinalizers, Second!SetFinalizers, Other!FinalizersAllowed,
      Second!FinalizersAllowed, Other!Spend, Second!Spend, Other!Idle, Second!Idle,
      Other!Finish, Second!Finish, Other!Abandon, Second!Abandon, Other!Answered,
      Second!Answered, Other!serverVars, Second!serverVars, Other!cacheVars,
      Second!cacheVars, Other!lookupVars, Second!lookupVars, Other!eventVars,
      Second!eventVars, Other!clusterVars, Second!clusterVars, Other!workVars,
      Second!workVars

LEMMA SameRemoveFinalizer ==
    ASSUME Second!RemoveFinalizer
    PROVE  Other!RemoveFinalizer
  BY SameOfSecond
  DEF Other!RemoveFinalizer, Second!RemoveFinalizer, Other!Swept, Second!Swept,
      Other!PutIngress, Second!PutIngress, Other!PutObject, Second!PutObject,
      Other!StoreObject, Second!StoreObject, Other!NextVersion, Second!NextVersion,
      Other!SetFinalizers, Second!SetFinalizers, Other!FinalizersAllowed,
      Second!FinalizersAllowed, Other!Spend, Second!Spend, Other!Idle, Second!Idle,
      Other!Finish, Second!Finish, Other!Abandon, Second!Abandon, Other!Answered,
      Second!Answered, Other!serverVars, Second!serverVars, Other!cacheVars,
      Second!cacheVars, Other!lookupVars, Second!lookupVars, Other!eventVars,
      Second!eventVars, Other!clusterVars, Second!clusterVars, Other!workVars,
      Second!workVars

LEMMA SameUpdateIngressStatus ==
    ASSUME Second!UpdateIngressStatus
    PROVE  Other!UpdateIngressStatus
  BY SameOfSecond
  DEF Other!UpdateIngressStatus, Second!UpdateIngressStatus, Other!Swept,
      Second!Swept, Other!StatusDue, Second!StatusDue, Other!StatusDiffers,
      Second!StatusDiffers, Other!PutIngress, Second!PutIngress, Other!PutObject,
      Second!PutObject, Other!StoreObject, Second!StoreObject, Other!NextVersion,
      Second!NextVersion, Other!SetFinalizers, Second!SetFinalizers,
      Other!FinalizersAllowed, Second!FinalizersAllowed, Other!Spend, Second!Spend,
      Other!Idle, Second!Idle, Other!Finish, Second!Finish, Other!Abandon,
      Second!Abandon, Other!Answered, Second!Answered, Other!serverVars,
      Second!serverVars, Other!cacheVars, Second!cacheVars, Other!lookupVars,
      Second!lookupVars, Other!eventVars, Second!eventVars, Other!clusterVars,
      Second!clusterVars, Other!workVars, Second!workVars

LEMMA SameWriteFails ==
    ASSUME Second!WriteFails
    PROVE  Other!WriteFails
  BY SameOfSecond
  DEF Other!WriteFails, Second!WriteFails, Other!Swept, Second!Swept,
      Other!PutIngress, Second!PutIngress, Other!PutObject, Second!PutObject,
      Other!StoreObject, Second!StoreObject, Other!NextVersion, Second!NextVersion,
      Other!SetFinalizers, Second!SetFinalizers, Other!FinalizersAllowed,
      Second!FinalizersAllowed, Other!Spend, Second!Spend, Other!Idle, Second!Idle,
      Other!Finish, Second!Finish, Other!Abandon, Second!Abandon, Other!Answered,
      Second!Answered, Other!serverVars, Second!serverVars, Other!cacheVars,
      Second!cacheVars, Other!lookupVars, Second!lookupVars, Other!eventVars,
      Second!eventVars, Other!clusterVars, Second!clusterVars, Other!workVars,
      Second!workVars

LEMMA SameWriteObject ==
    ASSUME NEW d, Second!WriteObject(d)
    PROVE  Other!WriteObject(d)
  BY SameOfSecond
  DEF Other!WriteObject, Second!WriteObject, Other!Accepts, Second!Accepts,
      Other!Valid, Second!Valid, Other!NoPort, Second!NoPort, Other!NoService,
      Second!NoService, Other!RequeueAfter, Second!RequeueAfter, Other!PutIngress,
      Second!PutIngress, Other!PutObject, Second!PutObject, Other!StoreObject,
      Second!StoreObject, Other!NextVersion, Second!NextVersion, Other!SetFinalizers,
      Second!SetFinalizers, Other!FinalizersAllowed, Second!FinalizersAllowed,
      Other!Spend, Second!Spend, Other!Idle, Second!Idle, Other!Finish, Second!Finish,
      Other!Abandon, Second!Abandon, Other!Answered, Second!Answered,
      Other!serverVars, Second!serverVars, Other!cacheVars, Second!cacheVars,
      Other!lookupVars, Second!lookupVars, Other!eventVars, Second!eventVars,
      Other!clusterVars, Second!clusterVars, Other!workVars, Second!workVars

LEMMA SameDeleteObject ==
    ASSUME NEW k, Second!DeleteObject(k)
    PROVE  Other!DeleteObject(k)
  BY SameOfSecond
  DEF Other!DeleteObject, Second!DeleteObject, Other!PutIngress, Second!PutIngress,
      Other!PutObject, Second!PutObject, Other!StoreObject, Second!StoreObject,
      Other!NextVersion, Second!NextVersion, Other!SetFinalizers,
      Second!SetFinalizers, Other!FinalizersAllowed, Second!FinalizersAllowed,
      Other!Spend, Second!Spend, Other!Idle, Second!Idle, Other!Finish, Second!Finish,
      Other!Abandon, Second!Abandon, Other!Answered, Second!Answered,
      Other!serverVars, Second!serverVars, Other!cacheVars, Second!cacheVars,
      Other!lookupVars, Second!lookupVars, Other!eventVars, Second!eventVars,
      Other!clusterVars, Second!clusterVars, Other!workVars, Second!workVars

LEMMA SameDeliver ==
    ASSUME Second!Deliver
    PROVE  Other!Deliver
  BY SameOfSecond
  DEF Other!Deliver, Second!Deliver, Other!DeliverIngress, Second!DeliverIngress,
      Other!DeliverObject, Second!DeliverObject, Other!DeliverGateway,
      Second!DeliverGateway, Other!DeliverService, Second!DeliverService,
      Other!Resync, Second!Resync, Other!serverVars, Second!serverVars,
      Other!cacheVars, Second!cacheVars, Other!lookupVars, Second!lookupVars,
      Other!eventVars, Second!eventVars, Other!clusterVars, Second!clusterVars,
      Other!workVars, Second!workVars

LEMMA SameRestart ==
    ASSUME Second!Restart
    PROVE  Other!Restart
  BY SameOfSecond
  DEF Other!Restart, Second!Restart, Other!Spend, Second!Spend, Other!Idle,
      Second!Idle, Other!serverVars, Second!serverVars, Other!cacheVars,
      Second!cacheVars, Other!lookupVars, Second!lookupVars, Other!eventVars,
      Second!eventVars, Other!clusterVars, Second!clusterVars, Other!workVars,
      Second!workVars

LEMMA SecondIsNext ==
    ASSUME StepSecond
    PROVE  Other!Next
  <1>1. ASSUME Second!Continue
        PROVE  Other!Continue
    BY <1>1, SameAddFinalizer, SameWriteObject, SameListKind, SameDeleteObject,
       SameRemoveFinalizer, SameUpdateIngressStatus, SameWriteFails
    DEF Other!Continue, Second!Continue
  <1> QED
    BY <1>1, SameBegin, SameDeliver, SameRestart DEF StepSecond, Other!Next

----
LEMMA AnnouncedType ==
    ASSUME NEW X, NEW T, NEW events \in [X -> Seq(T)], NEW before, NEW after \in [X -> T]
    PROVE  Announced(events, before, after) \in [X -> Seq(T)]
  BY DEF Announced

\* An event was announced before, or is the new version.
LEMMA AnnouncedFits ==
    ASSUME NEW T, NEW events \in [Keys -> Seq(T)], NEW before, NEW after \in [Keys -> T],
           NEW k \in Keys, Fits(k, after[k]),
           \A n \in 1 .. Len(events[k]) : Fits(k, events[k][n])
    PROVE  \A n \in 1 .. Len(Announced(events, before, after)[k]) :
               Fits(k, Announced(events, before, after)[k][n])
  <1> DEFINE s == events[k]
             x == after[k]
  <1>1. s \in Seq(T) /\ x \in T
    OBVIOUS
  <1>2. Announced(events, before, after)[k] \in {s, Append(s, x)}
    BY DEF Announced
  <1>3. Fits(k, x) /\ \A n \in 1 .. Len(s) : Fits(k, s[n])
    OBVIOUS
  <1> HIDE DEF s, x
  <1>4. ASSUME NEW n \in 1 .. Len(Append(s, x))
        PROVE  Fits(k, Append(s, x)[n])
    <2>1. CASE n \in 1 .. Len(s)
      BY <1>1, <1>3, <2>1
    <2>2. CASE n = Len(s) + 1
      BY <1>1, <1>3, <2>2
    <2> QED
      BY <1>1, <2>1, <2>2
  <1> QED
    BY <1>2, <1>3, <1>4

LEMMA AnnouncedMoves ==
    ASSUME NEW X, NEW T, NEW events \in [X -> Seq(T)], NEW before, NEW after, NEW x \in X
    PROVE  Announcing(before[x], after[x], events[x], Announced(events, before, after)[x])
  BY DEF Announced, Announcing

----
LEMMA FirstSteps ==
    ASSUME StepFirst, TypeOK, TypeOK', SourceInv', Other!TypeOK, Other!SourceInv
    PROVE  Other!TypeOK' /\ Other!SourceInv'
  <1>1. /\ UNCHANGED <<cachedIngress2, cachedObject2, cachedGateway2, cachedPorts2,
                       queue2, pc2, cur2, copy2, want2,
                       toWrite2, toList2, toDelete2>>
        /\ ingressEvents2' = Announced(ingressEvents2, ingress, ingress')
        /\ objectEvents2' = Announced(objectEvents2, object, object')
    BY DEF StepFirst, own2
  <1>2. /\ ingressEvents2 \in [Ingresses -> Seq(IngressRecord \cup {None})]
        /\ objectEvents2 \in [Keys -> Seq(ObjectRecord \cup {None})]
    BY SameWorld DEF Other!TypeOK, Other!ClusterTypeOK
  <1>3. /\ ingress' \in [Ingresses -> IngressRecord \cup {None}]
        /\ object' \in [Keys -> ObjectRecord \cup {None}]
    BY DEF TypeOK, ClusterTypeOK
  <1>4. /\ ingressEvents2' \in [Ingresses -> Seq(IngressRecord \cup {None})]
        /\ objectEvents2' \in [Keys -> Seq(ObjectRecord \cup {None})]
    BY <1>1, <1>2, <1>3, AnnouncedType
  <1>5. Other!TypeOK'
    BY <1>1, <1>4, SameWorld DEF TypeOK, ClusterTypeOK, Other!TypeOK, Other!ClusterTypeOK
  <1>6. ASSUME NEW k \in Keys
        PROVE  /\ Fits(k, object'[k])
               /\ Fits(k, cachedObject2'[k])
               /\ \A n \in 1 .. Len(objectEvents2'[k]) : Fits(k, objectEvents2'[k][n])
    <2>1. Fits(k, object'[k])
      BY DEF SourceInv, SourcesFit
    <2>2. /\ Fits(k, cachedObject2[k])
          /\ \A n \in 1 .. Len(objectEvents2[k]) : Fits(k, objectEvents2[k][n])
      BY SameWorld, SameKeys
      DEF Other!SourceInv, Other!SourcesFit, Other!Fits, Fits
    <2>3. \A n \in 1 .. Len(objectEvents2'[k]) : Fits(k, objectEvents2'[k][n])
      BY <1>1, <1>2, <1>3, <2>1, <2>2, AnnouncedFits
    <2> QED
      BY <1>1, <2>1, <2>2, <2>3
  <1>7. Other!SourcesFit'
    BY <1>6, SameWorld, SameKeys DEF Other!SourcesFit, Other!Fits, Fits
  <1>8. Other!WorkFits'
    BY <1>1 DEF Other!SourceInv, Other!WorkFits
  <1> QED
    BY <1>5, <1>7, <1>8 DEF Other!SourceInv

LEMMA SecondSteps ==
    ASSUME StepSecond, Other!TypeOK, Other!TypeOK', Other!SourceInv', TypeOK, SourceInv
    PROVE  TypeOK' /\ SourceInv' /\ ServerMoves /\ (LookupsKeep => LookupsStay)
  <1>1. /\ UNCHANGED <<cachedIngress, cachedObject, cachedGateway, cachedPorts,
                       queue, pc, cur, copy, want,
                       toWrite, toList, toDelete>>
        /\ ingressEvents' = Announced(ingressEvents, ingress, ingress')
        /\ objectEvents' = Announced(objectEvents, object, object')
    BY DEF StepSecond, cacheVars, lookupVars, workVars
  <1>2. /\ ingressEvents \in [Ingresses -> Seq(IngressRecord \cup {None})]
        /\ objectEvents \in [Keys -> Seq(ObjectRecord \cup {None})]
    BY DEF TypeOK, ClusterTypeOK
  <1>3. /\ ingress' \in [Ingresses -> IngressRecord \cup {None}]
        /\ object' \in [Keys -> ObjectRecord \cup {None}]
    BY SameWorld DEF Other!TypeOK, Other!ClusterTypeOK
  <1>4. /\ ingressEvents' \in [Ingresses -> Seq(IngressRecord \cup {None})]
        /\ objectEvents' \in [Keys -> Seq(ObjectRecord \cup {None})]
    BY <1>1, <1>2, <1>3, AnnouncedType
  <1>5. TypeOK'
    BY <1>1, <1>4, SameWorld DEF TypeOK, ClusterTypeOK, Other!TypeOK, Other!ClusterTypeOK
  <1>6. ASSUME NEW k \in Keys
        PROVE  /\ Fits(k, object'[k])
               /\ Fits(k, cachedObject'[k])
               /\ \A n \in 1 .. Len(objectEvents'[k]) : Fits(k, objectEvents'[k][n])
    <2>1. Fits(k, object'[k])
      BY SameWorld, SameKeys DEF Other!SourceInv, Other!SourcesFit, Other!Fits, Fits
    <2>2. /\ Fits(k, cachedObject[k])
          /\ \A n \in 1 .. Len(objectEvents[k]) : Fits(k, objectEvents[k][n])
      BY DEF SourceInv, SourcesFit
    <2>3. \A n \in 1 .. Len(objectEvents'[k]) : Fits(k, objectEvents'[k][n])
      BY <1>1, <1>2, <1>3, <2>1, <2>2, AnnouncedFits
    <2> QED
      BY <1>1, <2>1, <2>2, <2>3
  <1>7. SourceInv'
    BY <1>1, <1>6 DEF SourceInv, SourcesFit, WorkFits, Fits
  <1>8. ServerMoves
    BY <1>1, <1>2, AnnouncedMoves DEF ServerMoves, IngressesMove, ObjectsMove, cacheVars,
                                       lookupVars
  <1>9. LookupsKeep => LookupsStay
    <2>1. /\ "port" \notin Disturbances => ports' = ports
          /\ "gateway" \notin Disturbances => gateway' = gateway
      BY SecondIsNext, Other!NextPorts, SameAssumptions
    <2> QED
      BY <1>1, <2>1 DEF LookupsStay, LookupsKeep
  <1> QED
    BY <1>5, <1>7, <1>8, <1>9

----
\* What holds of both processes, and what the first relies on.
BothOK ==
    /\ TypeOK /\ Other!TypeOK
    /\ SourceInv /\ Other!SourceInv

LEMMA InitBothOK == InitBoth => BothOK /\ SettlingInv /\ StatusInv
  <1> SUFFICES ASSUME InitBoth
               PROVE  BothOK /\ SettlingInv /\ StatusInv
    OBVIOUS
  <1>1. TypeOK /\ SourceInv /\ SettlingInv /\ StatusInv
    BY InitType, InitFits, InitSettles, InitStatus DEF InitBoth
  <1>2. Other!Init
    BY SameOfSecond DEF InitBoth, Second!Init, Other!Init, Second!ClusterInit, Other!ClusterInit
  <1> QED
    BY <1>1, <1>2, Other!InitType, Other!InitFits, SameAssumptions DEF BothOK

LEMMA NextBothOK ==
    ASSUME BothOK, [NextBoth]_vars2
    PROVE  BothOK'
  <1>1. CASE StepFirst
    <2>1. TypeOK' /\ SourceInv'
      BY <1>1, NextType, NextFits DEF BothOK, StepFirst
    <2> QED
      BY <1>1, <2>1, FirstSteps DEF BothOK
  <1>2. CASE StepSecond
    <2>1. Other!TypeOK' /\ Other!SourceInv'
      BY <1>2, SecondIsNext, Other!NextType, Other!NextFits, SameAssumptions DEF BothOK
    <2> QED
      BY <1>2, <2>1, SecondSteps DEF BothOK
  <1>3. CASE UNCHANGED vars2
    <2>1. UNCHANGED vars /\ UNCHANGED Other!vars
      BY <1>3
      DEF vars2, own2, events2, vars, Other!vars, clusterVars, serverVars, Other!clusterVars,
          Other!serverVars, Other!cacheVars, Other!lookupVars, Other!eventVars,
          Other!workVars
    <2> QED
      BY <2>1, NextType, NextFits, Other!NextType, Other!NextFits, SameAssumptions DEF BothOK
  <1> QED
    BY <1>1, <1>2, <1>3 DEF NextBoth

\* To the first process, the steps of the second are those of one more user.
LEMMA NextBothSettles ==
    ASSUME BothOK, BothOK', SettlingInv, [NextBoth]_vars2
    PROVE  SettlingInv'
  <1>1. CASE StepFirst \/ UNCHANGED vars2
    BY <1>1, NextSettles DEF BothOK, StepFirst, vars2
  <1>2. CASE StepSecond
    <2>1. ServerMoves /\ LookupsStay /\ UNCHANGED workVars
      BY <1>2, SecondSteps DEF BothOK, StepSecond, SettlingInv
    <2> QED
      BY <2>1, MovesArrive, MovesKeep, StaySettles DEF BothOK, SettlingInv
  <1> QED
    BY <1>1, <1>2 DEF NextBoth

LEMMA NextBothStatus ==
    ASSUME BothOK, BothOK', SettlingInv, StatusInv, [NextBoth]_vars2,
           "gateway" \notin Disturbances, "fault" \notin Disturbances
    PROVE  StatusInv'
  <1>1. CASE StepFirst \/ UNCHANGED vars2
    BY <1>1, NextStatus DEF BothOK, StepFirst, vars2
  <1>2. CASE StepSecond
    <2>1. ServerMoves /\ UNCHANGED workVars
      BY <1>2, SecondSteps DEF BothOK, StepSecond, SettlingInv
    <2>2. gateway' = gateway
      BY <1>2, SecondIsNext, Other!NextPorts, SameAssumptions DEF BothOK
    <2> QED
      BY <2>1, <2>2, MovesKeep, StatusStays DEF BothOK, SettlingInv, workVars
  <1> QED
    BY <1>1, <1>2 DEF NextBoth

LEMMA BothAlways == SpecBoth => [](BothOK /\ SettlingInv)
  BY InitBothOK, NextBothOK, NextBothSettles, PTL DEF SpecBoth

\* However the two processes and everybody else interleave, and however far either
\* is behind: once both are quiet, the server holds what the Ingresses ask for, if
\* no Service changes its ports.
THEOREM TwoSettle ==
    ASSUME "port" \notin Disturbances
    PROVE  SpecBoth => []BothQuietImpliesSettled
  <1>1. BothOK /\ SettlingInv => BothQuietImpliesSettled
    BY SettledWhenQuiet
    DEF BothOK, BothQuietImpliesSettled, BothQuiet, Looked, Settled
  <1> QED
    BY <1>1, BothAlways, PTL

\* ... and the Ingresses show the address of the Gateway, if that does not change
\* and no update of a status fails but for a conflict.
THEOREM TwoShowStatus ==
    ASSUME "gateway" \notin Disturbances, "fault" \notin Disturbances
    PROVE  SpecBoth => []BothQuietImpliesStatus
  <1>1. BothOK /\ StatusInv => BothQuietImpliesStatus
    BY StatusWhenQuiet DEF BothOK, BothQuietImpliesStatus, BothQuiet
  <1>2. /\ BothOK /\ BothOK' /\ SettlingInv /\ StatusInv /\ [NextBoth]_vars2 => StatusInv'
    BY NextBothStatus
  <1> QED
    BY <1>1, <1>2, InitBothOK, BothAlways, PTL DEF SpecBoth
====
