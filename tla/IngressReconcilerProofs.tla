---- MODULE IngressReconcilerProofs ----
(***************************************************************************)
(* Proofs about IngressReconciler, for any Ingresses, specs and bounds.    *)
(***************************************************************************)
EXTENDS IngressReconciler, TLAPS

\* The part of the type invariant that writes of an Ingress concern.
IngressesOK ==
    /\ ingress \in [Ingresses -> IngressRecord \cup {None}]
    /\ ingressEvents \in [Ingresses -> Seq(IngressRecord \cup {None})]

\* The part of the type invariant that writes of an object concern.
ObjectsOK ==
    /\ object \in [Keys -> ObjectRecord \cup {None}]
    /\ objectEvents \in [Keys -> Seq(ObjectRecord \cup {None})]

LEMMA PutIngressType ==
    ASSUME IngressesOK, NEW i \in Ingresses, NEW r \in IngressRecord \cup {None},
           PutIngress(i, r)
    PROVE  IngressesOK'
  BY DEF IngressesOK, PutIngress

LEMMA PutObjectType ==
    ASSUME ObjectsOK, NEW k \in Keys, NEW r \in ObjectRecord \cup {None},
           PutObject(k, r)
    PROVE  ObjectsOK'
  BY DEF ObjectsOK, PutObject

LEMMA StoreObjectType ==
    ASSUME ObjectsOK, NEW k \in Keys, NEW r \in ObjectRecord \cup {None},
           StoreObject(k, r)
    PROVE  ObjectsOK'
  BY PutObjectType DEF StoreObject, ObjectsOK

LEMMA NextVersionType ==
    ASSUME NEW r \in IngressRecord
    PROVE  NextVersion(r) \in IngressRecord
  BY DEF NextVersion, IngressRecord

LEMMA SetFinalizersType ==
    ASSUME IngressesOK, NEW i \in Ingresses, ingress[i] # None,
           NEW fs \in SUBSET Finalizers, SetFinalizers(i, fs)
    PROVE  IngressesOK'
  <1> DEFINE r == [ingress[i] EXCEPT !.finalizers = fs]
  <1>1. ingress[i] \in IngressRecord
    BY DEF IngressesOK
  <1>2. r \in IngressRecord
    BY <1>1 DEF IngressRecord
  <1>3. NextVersion(r) \in IngressRecord
    BY <1>2, NextVersionType
  <1>4. \/ PutIngress(i, None)
        \/ UNCHANGED <<ingress, ingressEvents>>
        \/ PutIngress(i, NextVersion(r))
    BY DEF SetFinalizers
  <1> QED
    BY <1>3, <1>4, PutIngressType DEF IngressesOK

\* Every object the converter makes for these inputs has its key and body among
\* those of the model.
LEMMA ConvertedObjects ==
    ASSUME NEW i \in Ingresses, NEW spec \in Specs, NEW declared \in Declarations
    PROVE  ConvertIngressFull(i, spec, declared) \subseteq AllObjects
  BY DEF AllObjects

LEMMA ObjectsOfWorker ==
    ASSUME NEW d \in AllObjects, NEW i \in Ingresses, NEW u \in Nat
    PROVE  /\ d.key \in Keys
           /\ [src |-> i, uid |-> u, body |-> d.body] \in ObjectRecord
  BY DEF Keys, Bodies, ObjectRecord


----
\* The parts of the type invariant that most actions leave alone together.
RestOK ==
    /\ incarnation \in [Ingresses -> Nat]
    /\ gateway \in Addresses \cup {None}
    /\ ports \in Declarations
    /\ spent \in Nat

CachesOK ==
    /\ cachedIngress \in [Ingresses -> IngressRecord \cup {None}]
    /\ cachedObject \in [Keys -> ObjectRecord \cup {None}]
    /\ cachedGateway \in Addresses \cup {None}
    /\ cachedPorts \in Declarations

WorkOK ==
    /\ queue \in SUBSET Ingresses
    /\ pc \in {"idle", "finalize", "apply", "purge"}
    /\ cur \in Ingresses \cup {None}
    /\ copy \in IngressRecord \cup {None}
    /\ want \in SUBSET AllObjects
    /\ toWrite \in SUBSET want
    /\ toList \in SUBSET UsedKinds
    /\ toDelete \in SUBSET Keys
    /\ pc = "idle" <=> cur = None
    /\ pc = "idle" <=> copy = None
    /\ pc = "idle" => want = {} /\ toList = {} /\ toDelete = {}

LEMMA TypeParts ==
    TypeOK <=> IngressesOK /\ ObjectsOK /\ RestOK /\ CachesOK /\ WorkOK
  BY DEF TypeOK, ClusterTypeOK, IngressesOK, ObjectsOK, RestOK, CachesOK, WorkOK

LEMMA TypePartsNext ==
    ASSUME IngressesOK', ObjectsOK', RestOK', CachesOK', WorkOK'
    PROVE  TypeOK'
  BY DEF TypeOK, ClusterTypeOK, IngressesOK, ObjectsOK, RestOK, CachesOK, WorkOK

\* While the worker is not idle, it works for an Ingress on a version of it.
LEMMA Working ==
    ASSUME WorkOK, pc # "idle"
    PROVE  cur \in Ingresses /\ copy \in IngressRecord
  BY DEF WorkOK

LEMMA SpendType ==
    ASSUME RestOK, NEW kind, Spend(kind)
    PROVE  spent' \in Nat
  BY DEF RestOK, Spend

LEMMA IdleType ==
    ASSUME Idle, queue' \in SUBSET Ingresses
    PROVE  WorkOK'
  BY DEF Idle, WorkOK

LEMMA ReturnType ==
    ASSUME WorkOK, pc # "idle", Finish \/ Abandon
    PROVE  WorkOK'
  <1>1. cur \in Ingresses
    BY Working
  <1>2. queue' \in SUBSET Ingresses
    BY <1>1 DEF WorkOK, Finish, Abandon
  <1> QED
    BY <1>2, IdleType DEF Finish, Abandon

----
LEMMA InitType == Init => TypeOK
  <1> SUFFICES ASSUME Init PROVE TypeOK
    OBVIOUS
  <1> USE DEF Init, ClusterInit
  <1>1. IngressesOK /\ ObjectsOK
    BY DEF IngressesOK, ObjectsOK
  <1>2. RestOK
    BY ClusterAssumption DEF RestOK, Declarations
  <1>3. CachesOK
    BY <1>2 DEF CachesOK, RestOK
  <1>4. WorkOK
    BY DEF WorkOK
  <1> QED
    BY <1>1, <1>2, <1>3, <1>4, TypeParts

LEMMA EnvironmentType ==
    ASSUME TypeOK, Environment, UNCHANGED <<queue, workVars>>
    PROVE  TypeOK'
  <1>0. IngressesOK /\ ObjectsOK /\ RestOK /\ CachesOK /\ WorkOK
    BY TypeParts
  <1>w. WorkOK'
    BY <1>0 DEF WorkOK, workVars
  <1> SUFFICES IngressesOK' /\ ObjectsOK' /\ RestOK' /\ CachesOK'
    BY <1>w, TypePartsNext
  <1>1. ASSUME NEW i \in Ingresses, UserCreates(i)
        PROVE  IngressesOK' /\ ObjectsOK' /\ RestOK' /\ CachesOK'
    <2>1. PICK spec \in Specs :
             PutIngress(i, [uid |-> incarnation[i] + 1, rv |-> 1, spec |-> spec,
                            finalizers |-> {}, deleting |-> FALSE,
                            address |-> NoAddress])
      BY <1>1 DEF UserCreates
    <2>2. [uid |-> incarnation[i] + 1, rv |-> 1, spec |-> spec, finalizers |-> {},
           deleting |-> FALSE, address |-> NoAddress] \in IngressRecord
      BY <1>0, ClusterAssumption DEF RestOK, IngressRecord
    <2>3. IngressesOK'
      BY <1>0, <2>1, <2>2, PutIngressType
    <2> QED
      BY <1>0, <1>1, <2>3
      DEF UserCreates, ObjectsOK, RestOK, CachesOK, cacheVars, lookupVars
  <1>2. ASSUME NEW i \in Ingresses, UserEdits(i)
        PROVE  IngressesOK' /\ ObjectsOK' /\ RestOK' /\ CachesOK'
    <2>1. PICK spec \in Specs :
             PutIngress(i, NextVersion([ingress[i] EXCEPT !.spec = spec]))
      BY <1>2 DEF UserEdits
    <2>2. ingress[i] \in IngressRecord
      BY <1>0, <1>2 DEF IngressesOK, UserEdits
    <2>3. [ingress[i] EXCEPT !.spec = spec] \in IngressRecord
      BY <2>2 DEF IngressRecord
    <2>4. IngressesOK'
      BY <1>0, <2>1, <2>3, NextVersionType, PutIngressType
    <2> QED
      BY <1>0, <1>2, <2>4, SpendType
      DEF UserEdits, ObjectsOK, RestOK, CachesOK, cacheVars, lookupVars
  <1>3. ASSUME NEW i \in Ingresses, UserDeletes(i)
        PROVE  IngressesOK' /\ ObjectsOK' /\ RestOK' /\ CachesOK'
    <2>1. ingress[i] \in IngressRecord
      BY <1>0, <1>3 DEF IngressesOK, UserDeletes
    <2>2. [ingress[i] EXCEPT !.deleting = TRUE] \in IngressRecord
      BY <2>1 DEF IngressRecord
    <2>3. IngressesOK'
      BY <1>0, <1>3, <2>2, NextVersionType, PutIngressType DEF UserDeletes
    <2> QED
      BY <1>0, <1>3, <2>3
      DEF UserDeletes, ObjectsOK, RestOK, CachesOK, cacheVars, lookupVars
  <1>4. ASSUME NEW i \in Ingresses, OtherFinalizerChanges(i)
        PROVE  IngressesOK' /\ ObjectsOK' /\ RestOK' /\ CachesOK'
    <2>1. ingress[i] \in IngressRecord /\ ingress[i] # None
      BY <1>0, <1>4 DEF IngressesOK, OtherFinalizerChanges
    <2>2. PICK f \in OtherFinalizers :
             \/ SetFinalizers(i, ingress[i].finalizers \cup {f})
             \/ SetFinalizers(i, ingress[i].finalizers \ {f})
      BY <1>4 DEF OtherFinalizerChanges
    <2>3. /\ ingress[i].finalizers \cup {f} \in SUBSET Finalizers
          /\ ingress[i].finalizers \ {f} \in SUBSET Finalizers
      BY <2>1 DEF IngressRecord, Finalizers
    <2>4. IngressesOK'
      BY <1>0, <2>1, <2>2, <2>3, SetFinalizersType
    <2> QED
      BY <1>0, <1>4, <2>4, SpendType
      DEF OtherFinalizerChanges, ObjectsOK, RestOK, CachesOK, cacheVars, lookupVars
  <1>5. ASSUME NEW k \in Keys, UserTampers(k)
        PROVE  IngressesOK' /\ ObjectsOK' /\ RestOK' /\ CachesOK'
    <2>1. object[k] # None => [object[k] EXCEPT !.body = None] \in ObjectRecord
      BY <1>0 DEF ObjectsOK, ObjectRecord
    <2>2. [src |-> None, uid |-> 0, body |-> None] \in ObjectRecord
      BY DEF ObjectRecord
    <2>3. ObjectsOK'
      BY <1>0, <1>5, <2>1, <2>2, PutObjectType DEF UserTampers
    <2> QED
      BY <1>0, <1>5, <2>3, SpendType
      DEF UserTampers, IngressesOK, RestOK, CachesOK, cacheVars, lookupVars
  <1>6. ASSUME NEW k \in Keys, GarbageCollects(k)
        PROVE  IngressesOK' /\ ObjectsOK' /\ RestOK' /\ CachesOK'
    <2>1. ObjectsOK'
      BY <1>0, <1>6, PutObjectType DEF GarbageCollects
    <2> QED
      BY <1>0, <1>6, <2>1
      DEF GarbageCollects, IngressesOK, RestOK, CachesOK, cacheVars, lookupVars
  <1>7. CASE GatewayChanges \/ ServiceChanges
    <2>1. ports' \in Declarations
      BY <1>0, <1>7 DEF GatewayChanges, ServiceChanges, RestOK, Declarations
    <2> QED
      BY <1>0, <1>7, <2>1, SpendType
      DEF GatewayChanges, ServiceChanges, IngressesOK, ObjectsOK, RestOK, CachesOK,
          cacheVars, lookupVars, eventVars
  <1> QED
    BY <1>1, <1>2, <1>3, <1>4, <1>5, <1>6, <1>7 DEF Environment

LEMMA BeginType ==
    ASSUME TypeOK, NEW i \in Ingresses, Begin(i)
    PROVE  TypeOK'
  <1>0. IngressesOK /\ ObjectsOK /\ RestOK /\ CachesOK /\ WorkOK
    BY TypeParts
  <1>1. Take(i)
    BY DEF Begin, Ignore, BeginDeletion, Purge, BeginFinalizer, BeginApply, Convert
  <1>2. IngressesOK' /\ ObjectsOK' /\ RestOK' /\ CachesOK' /\ queue' \in SUBSET Ingresses
    BY <1>0, <1>1
    DEF Take, IngressesOK, ObjectsOK, RestOK, CachesOK, WorkOK,
        clusterVars, serverVars, cacheVars, lookupVars, eventVars
  <1>3. CASE Ignore(i)
    <2>1. UNCHANGED <<pc, cur, copy, want, toWrite, toList, toDelete>>
      BY <1>3 DEF Ignore, workVars
    <2>2. WorkOK'
      BY <1>0, <1>2, <2>1 DEF WorkOK
    <2> QED
      BY <1>2, <2>2, TypePartsNext
  <1>4. CASE BeginDeletion(i) \/ BeginFinalizer(i) \/ BeginApply(i)
    <2>1. cachedIngress[i] # None /\ cachedIngress[i] \in IngressRecord
      BY <1>0, <1>4 DEF CachesOK, BeginDeletion, Purge, BeginFinalizer, BeginApply, Convert
    <2>2. /\ cur' = i /\ copy' = cachedIngress[i] /\ toDelete' = {}
          /\ pc' \in {"finalize", "apply", "purge"}
          /\ toList' \in SUBSET UsedKinds
      BY <1>4 DEF Start, BeginDeletion, Purge, BeginFinalizer, BeginApply, Convert
    <2>3. cachedIngress[i].spec \in Specs /\ cachedPorts \in Declarations
      BY <1>0, <2>1 DEF IngressRecord, CachesOK
    <2>4. want' \in SUBSET AllObjects /\ toWrite' \in SUBSET want'
      BY <1>4, <2>3, ConvertedObjects DEF BeginDeletion, Purge, BeginFinalizer, BeginApply, Convert
    <2>5. WorkOK'
      BY <1>2, <2>1, <2>2, <2>4, NoneAssumption DEF WorkOK
    <2> QED
      BY <1>2, <2>5, TypePartsNext
  <1> QED
    BY <1>3, <1>4 DEF Begin


LEMMA ContinueType ==
    ASSUME TypeOK, Continue
    PROVE  TypeOK'
  <1>0. IngressesOK /\ ObjectsOK /\ RestOK /\ CachesOK /\ WorkOK
    BY TypeParts
  <1>1. pc # "idle"
    BY <1>0 DEF WorkOK, Continue, AddFinalizer, WriteObject, ListKind, DeleteObject,
                RemoveFinalizer, UpdateIngressStatus, WriteFails
  <1>2. cur \in Ingresses /\ copy \in IngressRecord
    BY <1>0, <1>1, Working
  <1>3. CASE AddFinalizer
    <2> DEFINE fs == copy.finalizers \cup {FinalizerName}
    <2>1. fs \in SUBSET Finalizers
      BY <1>2 DEF IngressRecord, Finalizers
    <2>2. IngressesOK'
      BY <1>0, <1>2, <1>3, <2>1, SetFinalizersType DEF AddFinalizer, IngressesOK
    <2>3. spent' \in Nat /\ WorkOK'
      BY <1>0, <1>1, <1>3, SpendType, ReturnType DEF AddFinalizer, Answered, RestOK
    <2> QED
      BY <1>0, <1>3, <2>2, <2>3, TypePartsNext
      DEF AddFinalizer, ObjectsOK, RestOK, CachesOK, cacheVars, lookupVars
  <1>4. ASSUME NEW d \in toWrite, WriteObject(d)
        PROVE  TypeOK'
    <2>1. d \in AllObjects
      BY <1>0 DEF WorkOK
    <2>2. copy.uid \in Nat
      BY <1>2 DEF IngressRecord
    <2>3. ObjectsOK'
      BY <1>0, <1>2, <1>4, <2>1, <2>2, ObjectsOfWorker, StoreObjectType
      DEF WriteObject, ObjectsOK
    <2>4. spent' \in Nat
      BY <1>0, <1>4, SpendType DEF WriteObject, Answered, RestOK
    <2>5. WorkOK'
      <3>1. CASE Abandon
        BY <1>0, <1>1, <3>1, ReturnType
      <3>2. CASE /\ toWrite' = toWrite \ {d}
                 /\ UNCHANGED <<queue, pc, cur, copy, want, toList, toDelete>>
        BY <1>0, <3>2 DEF WorkOK
      <3> QED
        BY <1>4, <3>1, <3>2 DEF WriteObject, Answered, RequeueAfter
    <2> QED
      BY <1>0, <1>4, <2>3, <2>4, <2>5, TypePartsNext
      DEF WriteObject, IngressesOK, RestOK, CachesOK, cacheVars, lookupVars
  <1>5. CASE ListKind
    <2>1. toDelete' \in SUBSET Keys
      BY <1>5 DEF ListKind, Unwanted, Owned, Listed
    <2>2. toList' \in SUBSET toList
      BY <1>5 DEF ListKind
    <2>3. WorkOK'
      BY <1>0, <1>1, <1>5, <2>1, <2>2 DEF ListKind, WorkOK
    <2> QED
      BY <1>0, <1>5, <2>3, TypePartsNext
      DEF ListKind, clusterVars, serverVars, cacheVars, lookupVars, eventVars,
          IngressesOK, ObjectsOK, RestOK, CachesOK
  <1>6. ASSUME NEW k \in toDelete, DeleteObject(k)
        PROVE  TypeOK'
    <2>1. k \in Keys
      BY <1>0 DEF WorkOK
    <2>2. ObjectsOK'
      BY <1>0, <1>6, <2>1, StoreObjectType DEF DeleteObject
    <2>3. spent' \in Nat
      BY <1>0, <1>6, SpendType DEF DeleteObject, Answered, RestOK
    <2>4. WorkOK'
      <3>1. CASE Abandon
        BY <1>0, <1>1, <3>1, ReturnType
      <3>2. CASE /\ toDelete' = toDelete \ {k}
                 /\ UNCHANGED <<queue, pc, cur, copy, want, toWrite, toList>>
        BY <1>0, <1>1, <3>2 DEF WorkOK
      <3> QED
        BY <1>6, <3>1, <3>2 DEF DeleteObject, Answered
    <2> QED
      BY <1>0, <1>6, <2>2, <2>3, <2>4, TypePartsNext
      DEF DeleteObject, IngressesOK, RestOK, CachesOK, cacheVars, lookupVars
  <1>7. CASE RemoveFinalizer
    <2> DEFINE fs == copy.finalizers \ {FinalizerName}
    <2>1. fs \in SUBSET Finalizers
      BY <1>2 DEF IngressRecord, Finalizers
    <2>2. IngressesOK'
      BY <1>0, <1>2, <1>7, <2>1, SetFinalizersType DEF RemoveFinalizer, IngressesOK
    <2>3. spent' \in Nat /\ WorkOK'
      BY <1>0, <1>1, <1>7, SpendType, ReturnType DEF RemoveFinalizer, Answered, RestOK
    <2> QED
      BY <1>0, <1>7, <2>2, <2>3, TypePartsNext
      DEF RemoveFinalizer, ObjectsOK, RestOK, CachesOK, cacheVars, lookupVars
  <1>8. CASE UpdateIngressStatus
    <2>1. StatusDue => [copy EXCEPT !.address = cachedGateway] \in IngressRecord
      BY <1>0, <1>2 DEF StatusDue, CachesOK, IngressRecord
    <2>2. IngressesOK'
      BY <1>0, <1>2, <1>8, <2>1, NextVersionType, PutIngressType
      DEF UpdateIngressStatus, IngressesOK
    <2>3. spent' \in Nat
      BY <1>0, <1>8, SpendType DEF UpdateIngressStatus, RestOK
    <2>4. WorkOK'
      BY <1>0, <1>1, <1>8, ReturnType DEF UpdateIngressStatus
    <2> QED
      BY <1>0, <1>8, <2>2, <2>3, <2>4, TypePartsNext
      DEF UpdateIngressStatus, ObjectsOK, RestOK, CachesOK, cacheVars, lookupVars
  <1>9. CASE WriteFails
    <2>1. WorkOK'
      BY <1>0, <1>1, <1>9, ReturnType DEF WriteFails
    <2>2. spent' \in Nat
      BY <1>0, <1>9, SpendType DEF WriteFails
    <2> QED
      BY <1>0, <1>9, <2>1, <2>2, TypePartsNext
      DEF WriteFails, serverVars, cacheVars, lookupVars, eventVars,
          IngressesOK, ObjectsOK, RestOK, CachesOK
  <1> QED
    BY <1>3, <1>4, <1>5, <1>6, <1>7, <1>8, <1>9 DEF Continue

LEMMA OwnersType ==
    ASSUME NEW objects \in SUBSET (ObjectRecord \cup {None})
    PROVE  Owners(objects) \subseteq Ingresses
  BY DEF Owners, ObjectRecord

LEMMA DeliverType ==
    ASSUME TypeOK, Deliver
    PROVE  TypeOK'
  <1>0. IngressesOK /\ ObjectsOK /\ RestOK /\ CachesOK /\ WorkOK
    BY TypeParts
  <1>1. ASSUME NEW i \in Ingresses, DeliverIngress(i)
        PROVE  TypeOK'
    <2>1. ingressEvents[i] \in Seq(IngressRecord \cup {None}) /\ ingressEvents[i] # <<>>
      BY <1>0, <1>1 DEF IngressesOK, DeliverIngress
    <2>2. /\ Head(ingressEvents[i]) \in IngressRecord \cup {None}
          /\ Tail(ingressEvents[i]) \in Seq(IngressRecord \cup {None})
      BY <2>1
    <2>3. IngressesOK' /\ CachesOK'
      BY <1>0, <1>1, <2>2 DEF DeliverIngress, IngressesOK, CachesOK, serverVars, lookupVars
    <2>4. WorkOK'
      BY <1>0, <1>1 DEF DeliverIngress, WorkOK, workVars
    <2> QED
      BY <1>0, <1>1, <2>3, <2>4, TypePartsNext
      DEF DeliverIngress, ObjectsOK, RestOK, serverVars
  <1>2. ASSUME NEW k \in Keys, DeliverObject(k)
        PROVE  TypeOK'
    <2>1. objectEvents[k] \in Seq(ObjectRecord \cup {None}) /\ objectEvents[k] # <<>>
      BY <1>0, <1>2 DEF ObjectsOK, DeliverObject
    <2>2. /\ Head(objectEvents[k]) \in ObjectRecord \cup {None}
          /\ Tail(objectEvents[k]) \in Seq(ObjectRecord \cup {None})
      BY <2>1
    <2>3. ObjectsOK' /\ CachesOK'
      BY <1>0, <1>2, <2>2 DEF DeliverObject, ObjectsOK, CachesOK, serverVars, lookupVars
    <2>4. {cachedObject[k], Head(objectEvents[k])} \in SUBSET (ObjectRecord \cup {None})
      BY <1>0, <2>2 DEF CachesOK
    <2>5. queue' \in SUBSET Ingresses
      BY <1>0, <1>2, <2>4, OwnersType DEF DeliverObject, WorkOK
    <2>6. WorkOK'
      BY <1>0, <1>2, <2>5 DEF DeliverObject, WorkOK, workVars
    <2> QED
      BY <1>0, <1>2, <2>3, <2>6, TypePartsNext
      DEF DeliverObject, IngressesOK, RestOK, serverVars
  <1>3. CASE Resync
    <2>1. {cachedObject[k] : k \in Keys} \in SUBSET (ObjectRecord \cup {None})
      BY <1>0 DEF CachesOK
    <2>2. queue' \in SUBSET Ingresses
      BY <1>0, <1>3, <2>1, OwnersType DEF Resync, WorkOK
    <2>3. WorkOK'
      BY <1>0, <1>3, <2>2 DEF Resync, WorkOK, workVars
    <2> QED
      BY <1>0, <1>3, <2>3, TypePartsNext
      DEF Resync, clusterVars, serverVars, cacheVars, lookupVars, eventVars,
          IngressesOK, ObjectsOK, RestOK, CachesOK
  <1>4. ASSUME DeliverGateway \/ \E svc \in Services : DeliverService(svc)
        PROVE  TypeOK'
    <2>1. cachedGateway' \in Addresses \cup {None}
      BY <1>0, <1>4 DEF DeliverGateway, DeliverService, CachesOK, RestOK
    <2>2. cachedPorts' \in Declarations
      BY <1>0, <1>4
      DEF DeliverGateway, DeliverService, CachesOK, RestOK, Declarations
    <2>3. WorkOK'
      BY <1>0, <1>4 DEF DeliverGateway, DeliverService, WorkOK, workVars
    <2> QED
      BY <1>0, <1>4, <2>1, <2>2, <2>3, TypePartsNext
      DEF DeliverGateway, DeliverService, serverVars, eventVars,
          IngressesOK, ObjectsOK, RestOK, CachesOK
  <1> QED
    BY <1>1, <1>2, <1>3, <1>4 DEF Deliver

LEMMA RestartType ==
    ASSUME TypeOK, Restart
    PROVE  TypeOK'
  <1>0. IngressesOK /\ ObjectsOK /\ RestOK /\ CachesOK /\ WorkOK
    BY TypeParts
  <1>1. {object[k] : k \in Keys} \in SUBSET (ObjectRecord \cup {None})
    BY <1>0 DEF ObjectsOK
  <1>2. WorkOK'
    BY <1>1, OwnersType, IdleType DEF Restart
  <1>3. spent' \in Nat
    BY <1>0, SpendType DEF Restart
  <1>4. IngressesOK' /\ ObjectsOK' /\ CachesOK'
    BY <1>0 DEF Restart, serverVars, IngressesOK, ObjectsOK, RestOK, CachesOK
  <1> QED
    BY <1>0, <1>2, <1>3, <1>4, TypePartsNext DEF Restart, serverVars, RestOK

LEMMA NextType ==
    ASSUME TypeOK, [Next]_vars
    PROVE  TypeOK'
  <1>1. CASE Next
    BY <1>1, BeginType, ContinueType, DeliverType, RestartType, EnvironmentType DEF Next
  <1>2. CASE UNCHANGED vars
    BY <1>2 DEF vars, clusterVars, serverVars, cacheVars, lookupVars, eventVars, workVars,
                TypeOK, ClusterTypeOK
  <1> QED
    BY <1>1, <1>2

\* Every state of the controller and its surroundings is well-formed: the worker
\* only ever works for an Ingress of the cluster, with objects the converter made.
THEOREM TypeCorrect == Spec => []TypeOK
  BY InitType, NextType, PTL DEF Spec
====
