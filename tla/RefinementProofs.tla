---- MODULE RefinementProofs ----
(***************************************************************************)
(* Proof that IngressReconciler implements FinalizerProtocol, for any      *)
(* Ingresses, specs and bounds: each of its steps is one of the protocol   *)
(* under the mapping of FinalizerRefinement, or none at all.               *)
(***************************************************************************)
EXTENDS FinalizerRefinement, FinalizerProofs

made == MadeFor(object)

\* A step of the protocol, or none.
ProtocolStep == [Protocol!Next]_<<Life, incarnation, made>>

LEMMA LiveRecord ==
    ASSUME TypeOK, NEW i \in Ingresses, ingress[i] # None
    PROVE  ingress[i] \in IngressRecord
  BY DEF TypeOK, ClusterTypeOK

LEMMA PutIngressLife ==
    ASSUME TypeOK, NEW i \in Ingresses, NEW r, PutIngress(i, r)
    PROVE  Life' = [Life EXCEPT ![i] = LifeOf(r)]
  <1>1. ingress' = [ingress EXCEPT ![i] = r] /\ ingress \in [Ingresses -> IngressRecord \cup {None}]
    BY DEF PutIngress, TypeOK, ClusterTypeOK
  <1>2. \A j \in Ingresses : LifeOf(ingress'[j]) = IF j = i THEN LifeOf(r) ELSE LifeOf(ingress[j])
    BY <1>1
  <1> QED
    BY <1>2 DEF Life

\* A write that keeps the uid, the deletion mark and our finalizer is no step.
LEMMA SameLife ==
    ASSUME TypeOK, NEW i \in Ingresses, ingress[i] # None,
           NEW r \in IngressRecord, PutIngress(i, r),
           r.uid = ingress[i].uid, r.deleting = ingress[i].deleting,
           FinalizerName \in r.finalizers <=> FinalizerName \in ingress[i].finalizers
    PROVE  UNCHANGED Life
  <1>1. LifeOf(r) = LifeOf(ingress[i])
    BY NoneAssumption DEF LifeOf, StageOf
  <1>2. Life[i] = LifeOf(ingress[i])
    BY DEF Life
  <1>3. Life' = [Life EXCEPT ![i] = Life[i]]
    BY <1>1, <1>2, PutIngressLife
  <1> QED
    BY <1>3 DEF Life

\* What a new list of finalizers makes of a live Ingress.
LEMMA SetFinalizersLife ==
    ASSUME TypeOK, NEW i \in Ingresses, ingress[i] # None,
           NEW fs \in SUBSET Finalizers, SetFinalizers(i, fs)
    PROVE  \/ /\ ingress[i].deleting /\ fs = {}
              /\ Life' = [Life EXCEPT ![i] = LifeOf(None)]
           \/ /\ ~(ingress[i].deleting /\ fs = {})
              /\ Life' = [Life EXCEPT ![i] = LifeOf([ingress[i] EXCEPT !.finalizers = fs])]
  <1> DEFINE r == [ingress[i] EXCEPT !.finalizers = fs]
             y == NextVersion(r)
  <1>1. ingress[i] \in IngressRecord
    BY LiveRecord
  <1>2. /\ r \in IngressRecord /\ r.uid = ingress[i].uid
        /\ r.deleting = ingress[i].deleting /\ r.finalizers = fs
    BY <1>1 DEF IngressRecord
  <1>3. /\ y \in IngressRecord /\ y.uid = r.uid
        /\ y.deleting = r.deleting /\ y.finalizers = fs
    BY <1>2, NextVersionFields
  <1>4. CASE ingress[i].deleting /\ fs = {}
    BY <1>4, PutIngressLife DEF SetFinalizers
  <1>5. CASE ~(ingress[i].deleting /\ fs = {}) /\ fs = ingress[i].finalizers
    <2>1. UNCHANGED ingress
      BY <1>5 DEF SetFinalizers
    <2>2. r = ingress[i]
      BY <1>1, <1>5 DEF IngressRecord
    <2>3. Life' = [Life EXCEPT ![i] = LifeOf(ingress[i])]
      BY <2>1 DEF Life
    <2> QED
      BY <1>5, <2>2, <2>3
  <1>6. CASE ~(ingress[i].deleting /\ fs = {}) /\ fs # ingress[i].finalizers
    <2>1. PutIngress(i, y)
      BY <1>6 DEF SetFinalizers
    <2>2. Life' = [Life EXCEPT ![i] = LifeOf(y)]
      BY <2>1, PutIngressLife
    <2>3. LifeOf(y) = LifeOf(r)
      BY <1>2, <1>3, NoneAssumption DEF LifeOf, StageOf
    <2> QED
      BY <1>6, <2>2, <2>3
  <1> QED
    BY <1>4, <1>5, <1>6

----
\* Objects: what is overwritten or deleted makes nothing; what the worker writes
\* makes a pair for its Ingress.
LEMMA MadeBy ==
    ASSUME TypeOK, NEW k \in Keys, NEW r, object' = [object EXCEPT ![k] = r]
    PROVE  made' \subseteq made \cup (IF r = None THEN {} ELSE {<<r.src, r.uid>>})
  <1>1. ASSUME NEW l \in Keys, object'[l] # None, object'[l].src # None
        PROVE  <<object'[l].src, object'[l].uid>>
                 \in made \cup (IF r = None THEN {} ELSE {<<r.src, r.uid>>})
    <2>1. CASE l = k
      BY <1>1, <2>1 DEF TypeOK, ClusterTypeOK
    <2>2. CASE l # k
      <3>1. object'[l] = object[l]
        BY <2>2 DEF TypeOK, ClusterTypeOK
      <3> QED
        BY <1>1, <3>1 DEF made, MadeFor
    <2> QED
      BY <2>1, <2>2
  <1> QED
    BY <1>1 DEF made, MadeFor

LEMMA MadeAgain ==
    ASSUME TypeOK, NEW k \in Keys, NEW r, object' = [object EXCEPT ![k] = r],
           \/ r = None
           \/ r.src = None
           \/ object[k] # None /\ r.src = object[k].src /\ r.uid = object[k].uid
    PROVE  made' \subseteq made
  <1>1. ASSUME NEW l \in Keys, object'[l] # None, object'[l].src # None
        PROVE  <<object'[l].src, object'[l].uid>> \in made
    <2>1. object'[l] = IF l = k THEN r ELSE object[l]
      BY DEF TypeOK, ClusterTypeOK
    <2>2. object[l] # None /\ object'[l].src = object[l].src /\ object'[l].uid = object[l].uid
      BY <1>1, <2>1
    <2> QED
      BY <1>1, <2>2 DEF made, MadeFor
  <1> QED
    BY <1>1 DEF made, MadeFor

LEMMA RemoveStep ==
    ASSUME UNCHANGED <<ingress, incarnation>>, made' \subseteq made
    PROVE  ProtocolStep
  <1>1. UNCHANGED <<Life, incarnation>>
    BY DEF Life
  <1> QED
    BY <1>1 DEF ProtocolStep, Protocol!Next, Protocol!Remove, made

LEMMA QuietStep ==
    ASSUME UNCHANGED <<ingress, object, incarnation>>
    PROVE  ProtocolStep
  BY DEF ProtocolStep, Life, made

----
\* What users and other controllers do.
LEMMA UserCreatesStep ==
    ASSUME TypeOK, NEW i \in Ingresses, UserCreates(i)
    PROVE  ProtocolStep
  <1>1. PICK spec \in Specs :
          PutIngress(i, [uid |-> incarnation[i] + 1, rv |-> 1, spec |-> spec,
                         finalizers |-> {}, deleting |-> FALSE, address |-> NoAddress])
    BY DEF UserCreates
  <1> DEFINE r == [uid |-> incarnation[i] + 1, rv |-> 1, spec |-> spec,
                   finalizers |-> {}, deleting |-> FALSE, address |-> NoAddress]
  <1>2. r \in IngressRecord
    BY ClusterAssumption DEF IngressRecord, TypeOK, ClusterTypeOK
  <1>3. LifeOf(r) = [stage |-> "open", uid |-> incarnation[i] + 1]
    BY <1>2, NoneAssumption DEF LifeOf, StageOf
  <1>4. Life[i] = Protocol!Absent
    BY DEF UserCreates, Life, LifeOf, Protocol!Absent
  <1>5. Life' = [Life EXCEPT ![i] = [stage |-> "open", uid |-> incarnation[i] + 1]]
    BY <1>1, <1>3, PutIngressLife
  <1>6. /\ incarnation' = [incarnation EXCEPT ![i] = @ + 1]
        /\ UNCHANGED made
    BY DEF UserCreates, made
  <1> QED
    BY <1>4, <1>5, <1>6 DEF ProtocolStep, Protocol!Next, Protocol!Create, made

LEMMA UserEditsStep ==
    ASSUME TypeOK, NEW i \in Ingresses, UserEdits(i)
    PROVE  ProtocolStep
  <1>1. ingress[i] # None /\ ingress[i] \in IngressRecord
    BY LiveRecord DEF UserEdits
  <1>2. PICK spec \in Specs : PutIngress(i, NextVersion([ingress[i] EXCEPT !.spec = spec]))
    BY DEF UserEdits
  <1> DEFINE r == [ingress[i] EXCEPT !.spec = spec]
  <1>3. /\ r \in IngressRecord /\ r.uid = ingress[i].uid
        /\ r.deleting = ingress[i].deleting /\ r.finalizers = ingress[i].finalizers
    BY <1>1 DEF IngressRecord
  <1>4. /\ NextVersion(r) \in IngressRecord /\ NextVersion(r).uid = r.uid
        /\ NextVersion(r).deleting = r.deleting
        /\ NextVersion(r).finalizers = r.finalizers
    BY <1>3, NextVersionFields
  <1> HIDE DEF r
  <1>5. UNCHANGED Life
    BY <1>1, <1>2, <1>3, <1>4, SameLife DEF r
  <1> QED
    BY <1>5 DEF UserEdits, ProtocolStep, made

LEMMA UserDeletesStep ==
    ASSUME TypeOK, NEW i \in Ingresses, UserDeletes(i)
    PROVE  ProtocolStep
  <1>1. ingress[i] # None /\ ingress[i] \in IngressRecord /\ ~ingress[i].deleting
    BY LiveRecord DEF UserDeletes
  <1>2. Life[i] = [stage |-> IF FinalizerName \in ingress[i].finalizers THEN "guarded" ELSE "open",
                   uid |-> ingress[i].uid]
    BY <1>1 DEF Life, LifeOf, StageOf
  <1>3. UNCHANGED <<incarnation, made>>
    BY DEF UserDeletes, made
  <1>4. CASE ingress[i].finalizers = {}
    <2>1. Life' = [Life EXCEPT ![i] = LifeOf(None)]
      BY <1>4, PutIngressLife DEF UserDeletes
    <2>2. Protocol!Goes(i)
      BY <2>1 DEF Protocol!Goes, Protocol!Absent, LifeOf
    <2> QED
      BY <1>2, <1>3, <1>4, <2>2 DEF ProtocolStep, Protocol!Next, Protocol!Delete, made
  <1>5. CASE ingress[i].finalizers # {}
    <2> DEFINE r == [ingress[i] EXCEPT !.deleting = TRUE]
    <2>1. /\ r \in IngressRecord /\ r.uid = ingress[i].uid
          /\ r.deleting /\ r.finalizers = ingress[i].finalizers
      BY <1>1 DEF IngressRecord
    <2>2. /\ NextVersion(r) \in IngressRecord /\ NextVersion(r).uid = r.uid
          /\ NextVersion(r).deleting = r.deleting
          /\ NextVersion(r).finalizers = r.finalizers
      BY <2>1, NextVersionFields
    <2>3. Life' = [Life EXCEPT ![i] = LifeOf(NextVersion(r))]
      BY <1>5, PutIngressLife DEF UserDeletes
    <2>4. LifeOf(NextVersion(r)) =
            [stage |-> IF FinalizerName \in ingress[i].finalizers THEN "closing" ELSE "closed",
             uid |-> ingress[i].uid]
      BY <2>1, <2>2, NoneAssumption DEF LifeOf, StageOf
    <2>5. Protocol!Becomes(i, IF FinalizerName \in ingress[i].finalizers THEN "closing" ELSE "closed")
      <3>1. Life[i].uid = ingress[i].uid
        BY <1>2
      <3> QED
        BY <2>3, <2>4, <3>1 DEF Protocol!Becomes
    <2>6. Protocol!Delete(i)
      BY <1>2, <1>3, <2>5 DEF Protocol!Delete, made
    <2> QED
      BY <2>6 DEF ProtocolStep, Protocol!Next
  <1> QED
    BY <1>4, <1>5

\* A list that has our finalizer if the old one had: no step, unless it is empty
\* and the Ingress, which has gone without ours, goes.
LEMMA KeptListStep ==
    ASSUME TypeOK, NEW i \in Ingresses, ingress[i] # None,
           NEW fs \in SUBSET Finalizers, SetFinalizers(i, fs),
           FinalizerName \in fs <=> FinalizerName \in ingress[i].finalizers,
           UNCHANGED <<incarnation, made>>
    PROVE  ProtocolStep
  <1> DEFINE r == [ingress[i] EXCEPT !.finalizers = fs]
  <1>1. ingress[i] \in IngressRecord
    BY LiveRecord
  <1>2. Life[i] = LifeOf(ingress[i])
    BY DEF Life
  <1>3. CASE ingress[i].deleting /\ fs = {}
    <2>1. Life[i].stage = "closed"
      BY <1>2, <1>3 DEF LifeOf, StageOf
    <2>2. Life' = [Life EXCEPT ![i] = LifeOf(None)]
      BY <1>3, SetFinalizersLife
    <2>3. Protocol!Goes(i)
      BY <2>2 DEF Protocol!Goes, Protocol!Absent, LifeOf
    <2> QED
      BY <2>1, <2>3 DEF ProtocolStep, Protocol!Next, Protocol!Leave, made
  <1>4. CASE ~(ingress[i].deleting /\ fs = {})
    <2>1. Life' = [Life EXCEPT ![i] = LifeOf(r)]
      BY <1>4, SetFinalizersLife
    <2>2. /\ r \in IngressRecord /\ r.uid = ingress[i].uid
          /\ r.deleting = ingress[i].deleting /\ r.finalizers = fs
      BY <1>1 DEF IngressRecord
    <2>3. LifeOf(r) = LifeOf(ingress[i])
      BY <2>2, NoneAssumption DEF LifeOf, StageOf
    <2>4. UNCHANGED Life
      BY <1>2, <2>1, <2>3 DEF Life
    <2> QED
      BY <2>4 DEF ProtocolStep
  <1> QED
    BY <1>3, <1>4

\* The lists that other controllers write have our finalizer if the old one had.
LEMMA OtherFinalizerStep ==
    ASSUME TypeOK, NEW i \in Ingresses, OtherFinalizerChanges(i)
    PROVE  ProtocolStep
  <1>1. ingress[i] # None /\ ingress[i] \in IngressRecord
    BY LiveRecord DEF OtherFinalizerChanges
  <1>2. PICK fs \in SUBSET Finalizers :
           /\ SetFinalizers(i, fs)
           /\ FinalizerName \in fs <=> FinalizerName \in ingress[i].finalizers
    <2>1. PICK f \in OtherFinalizers :
             \/ SetFinalizers(i, ingress[i].finalizers \cup {f})
             \/ SetFinalizers(i, ingress[i].finalizers \ {f})
      BY DEF OtherFinalizerChanges
    <2>2. f # FinalizerName /\ f \in Finalizers /\ ingress[i].finalizers \subseteq Finalizers
      BY <1>1, ClusterAssumption DEF Finalizers, IngressRecord
    <2> QED
      BY <2>1, <2>2
  <1>3. UNCHANGED <<incarnation, made>>
    BY DEF OtherFinalizerChanges, made
  <1> QED
    BY <1>1, <1>2, <1>3, KeptListStep

LEMMA EnvironmentStep ==
    ASSUME TypeOK, Environment
    PROVE  ProtocolStep
  <1>1. ASSUME NEW k \in Keys, UserTampers(k)
        PROVE  ProtocolStep
    <2>1. PICK r : /\ object' = [object EXCEPT ![k] = r]
                   /\ \/ r = None
                      \/ r.src = None
                      \/ object[k] # None /\ r.src = object[k].src /\ r.uid = object[k].uid
      <3>1. object[k] # None => object[k] \in ObjectRecord
        BY DEF TypeOK, ClusterTypeOK
      <3> DEFINE empty == [object[k] EXCEPT !.body = None]
                 foreign == [src |-> None, uid |-> 0, body |-> None]
      <3>2. object[k] # None => empty.src = object[k].src /\ empty.uid = object[k].uid
        BY <3>1 DEF ObjectRecord
      <3>3. foreign.src = None
        OBVIOUS
      <3>4. \/ object' = [object EXCEPT ![k] = None]
            \/ object[k] # None /\ object' = [object EXCEPT ![k] = empty]
            \/ object' = [object EXCEPT ![k] = foreign]
        BY <1>1 DEF UserTampers, PutObject
      <3> HIDE DEF empty, foreign
      <3> QED
        BY <3>2, <3>3, <3>4
    <2>2. made' \subseteq made
      BY <2>1, MadeAgain
    <2> QED
      BY <1>1, <2>2, RemoveStep DEF UserTampers
  <1>2. ASSUME NEW k \in Keys, GarbageCollects(k)
        PROVE  ProtocolStep
    <2>1. object' = [object EXCEPT ![k] = None]
      BY <1>2 DEF GarbageCollects, PutObject
    <2>2. made' \subseteq made
      BY <2>1, MadeAgain
    <2> QED
      BY <1>2, <2>2, RemoveStep DEF GarbageCollects
  <1>3. CASE GatewayChanges \/ ServiceChanges
    BY <1>3, QuietStep DEF GatewayChanges, ServiceChanges
  <1> QED
    BY <1>1, <1>2, <1>3, UserCreatesStep, UserEditsStep, UserDeletesStep, OtherFinalizerStep
    DEF Environment

----
\* What the worker does.
LEMMA AddsFinalizer ==
    ASSUME TypeOK, FinalizerInv, AddFinalizer
    PROVE  ProtocolStep
  <1> DEFINE fs == copy.finalizers \cup {FinalizerName}
  <1>1. pc = "finalize" /\ cur \in Ingresses /\ copy \in IngressRecord
    BY Working, TypeParts DEF AddFinalizer
  <1>2. UNCHANGED <<incarnation, made>>
    BY DEF AddFinalizer, made
  <1>3. CASE UNCHANGED ingress
    BY <1>2, <1>3, RemoveStep
  <1>4. CASE ingress[cur] # None /\ FinalizersAllowed(cur, fs) /\ SetFinalizers(cur, fs)
    <2>1. fs \in SUBSET Finalizers /\ FinalizerName \in fs
      BY <1>1 DEF IngressRecord, Finalizers
    <2>2. CASE FinalizerName \in ingress[cur].finalizers
      BY <1>1, <1>2, <1>4, <2>1, <2>2, KeptListStep
    <2>3. CASE FinalizerName \notin ingress[cur].finalizers
      <3> DEFINE r == [ingress[cur] EXCEPT !.finalizers = fs]
      <3>1. ~ingress[cur].deleting
        BY <1>4, <2>1, <2>3 DEF FinalizersAllowed
      <3>2. ingress[cur] \in IngressRecord
        BY <1>1, <1>4, LiveRecord
      <3>3. Life[cur] = [stage |-> "open", uid |-> ingress[cur].uid]
        BY <1>1, <1>4, <2>3, <3>1 DEF Life, LifeOf, StageOf
      <3>4. Life' = [Life EXCEPT ![cur] = LifeOf(r)]
        BY <1>1, <1>4, <2>1, <3>1, SetFinalizersLife
      <3>5. /\ r \in IngressRecord /\ r.uid = ingress[cur].uid
            /\ ~r.deleting /\ r.finalizers = fs
        BY <2>1, <3>1, <3>2 DEF IngressRecord
      <3>6. LifeOf(r) = [stage |-> "guarded", uid |-> ingress[cur].uid]
        BY <2>1, <3>5, NoneAssumption DEF LifeOf, StageOf
      <3>7. Protocol!Becomes(cur, "guarded")
        <4>1. Life[cur].uid = ingress[cur].uid
          BY <3>3
        <4> QED
          BY <3>4, <3>6, <4>1 DEF Protocol!Becomes
      <3>8. Protocol!Guard(cur)
        BY <1>2, <3>3, <3>7 DEF Protocol!Guard, made
      <3> QED
        BY <1>1, <3>8 DEF ProtocolStep, Protocol!Next, made
    <2> QED
      BY <2>2, <2>3
  <1> QED
    BY <1>3, <1>4 DEF AddFinalizer

LEMMA RemovesFinalizer ==
    ASSUME TypeOK, FinalizerInv, RemoveFinalizer
    PROVE  ProtocolStep
  <1> DEFINE fs == copy.finalizers \ {FinalizerName}
  <1>1. pc = "purge" /\ cur \in Ingresses /\ copy \in IngressRecord
    BY Working, TypeParts DEF RemoveFinalizer
  <1>2. UNCHANGED <<incarnation, made>>
    BY DEF RemoveFinalizer, made
  <1>3. CASE UNCHANGED ingress
    BY <1>2, <1>3, RemoveStep
  <1>4. CASE ingress[cur] # None /\ SetFinalizers(cur, fs)
    <2>1. fs \in SUBSET Finalizers /\ FinalizerName \notin fs
      BY <1>1 DEF IngressRecord
    <2>2. CASE FinalizerName \notin ingress[cur].finalizers
      BY <1>1, <1>2, <1>4, <2>1, <2>2, KeptListStep
    <2>3. CASE FinalizerName \in ingress[cur].finalizers
      <3> DEFINE r == [ingress[cur] EXCEPT !.finalizers = fs]
      <3>1. ingress[cur].deleting
        <4>1. Guarded(copy) /\ Dying(copy)
          BY <1>1 DEF FinalizerInv, CopyFits
        <4>2. Version(cur, 0) = copy /\ Version(cur, Newest(cur)) = ingress[cur]
          BY <1>1 DEF Version, FinalizerInv, VersionsFit, NewestIsLive
        <4>3. 0 \in InPlay(cur) /\ Newest(cur) \in InPlay(cur) /\ 0 <= Newest(cur)
          BY <1>1, InPlayFacts
        <4>4. Guarded(ingress[cur])
          BY <1>4, <2>3 DEF Guarded
        <4>5. Dying(ingress[cur])
          BY <1>1, <4>1, <4>2, <4>3, <4>4 DEF FinalizerInv, VersionsFit, NoneGuardedBehind
        <4> QED
          BY <4>5 DEF Dying
      <3>2. ingress[cur] \in IngressRecord
        BY <1>1, <1>4, LiveRecord
      <3>3. Life[cur] = [stage |-> "closing", uid |-> ingress[cur].uid]
        BY <1>1, <1>4, <2>3, <3>1 DEF Life, LifeOf, StageOf
      <3>4. /\ r \in IngressRecord /\ r.uid = ingress[cur].uid
            /\ r.deleting /\ r.finalizers = fs
        BY <2>1, <3>1, <3>2 DEF IngressRecord
      <3>5. \/ Life' = [Life EXCEPT ![cur] = LifeOf(None)]
            \/ Life' = [Life EXCEPT ![cur] = LifeOf(r)]
        BY <1>1, <1>4, <2>1, SetFinalizersLife
      <3>6. LifeOf(r) = [stage |-> "closed", uid |-> ingress[cur].uid]
        BY <2>1, <3>4, NoneAssumption DEF LifeOf, StageOf
      <3>7. Protocol!Goes(cur) \/ Protocol!Becomes(cur, "closed")
        BY <3>3, <3>5, <3>6
        DEF Protocol!Goes, Protocol!Becomes, Protocol!Absent, LifeOf
      <3>8. Protocol!Release(cur)
        BY <1>2, <3>3, <3>7 DEF Protocol!Release, made
      <3> QED
        BY <1>1, <3>8 DEF ProtocolStep, Protocol!Next, made
    <2> QED
      BY <2>2, <2>3
  <1> QED
    BY <1>3, <1>4 DEF RemoveFinalizer

LEMMA WritesObject ==
    ASSUME TypeOK, FinalizerInv, NEW d \in toWrite, WriteObject(d)
    PROVE  ProtocolStep
  <1>1. pc = "apply" /\ cur \in Ingresses /\ copy \in IngressRecord /\ d.key \in Keys
    <2>1. pc = "apply" /\ d \in AllObjects
      BY TypeParts DEF WriteObject, WorkOK
    <2> QED
      BY <2>1, Working, TypeParts DEF Keys
  <1>2. UNCHANGED <<ingress, incarnation>>
    BY DEF WriteObject
  <1>3. CASE UNCHANGED object
    BY <1>2, <1>3, QuietStep
  <1>4. CASE object' = [object EXCEPT ![d.key] = [src |-> cur, uid |-> copy.uid, body |-> d.body]]
    <2> DEFINE r == [src |-> cur, uid |-> copy.uid, body |-> d.body]
    <2>1. ingress[cur] # None /\ ingress[cur].uid = copy.uid /\ FinalizerName \in ingress[cur].finalizers
      BY <1>1, InvImpliesWrites DEF WritesUnderFinalizer
    <2>2. Life[cur].stage \in {"guarded", "closing"} /\ Life[cur].uid = copy.uid
      BY <1>1, <2>1 DEF Life, LifeOf, StageOf
    <2>3. r.src = cur /\ r.uid = copy.uid
      OBVIOUS
    <2> HIDE DEF r
    <2>4. made' \subseteq made \cup {<<r.src, r.uid>>}
      BY <1>1, <1>4, MadeBy DEF r
    <2>5. UNCHANGED <<Life, incarnation>>
      BY <1>2 DEF Life
    <2>6. Protocol!Make(cur)
      BY <2>2, <2>3, <2>4, <2>5 DEF Protocol!Make, made
    <2> QED
      BY <1>1, <2>6 DEF ProtocolStep, Protocol!Next
  <1> QED
    BY <1>3, <1>4 DEF WriteObject, StoreObject, PutObject

LEMMA UpdatesStatus ==
    ASSUME TypeOK, UpdateIngressStatus
    PROVE  ProtocolStep
  <1>1. cur \in Ingresses /\ copy \in IngressRecord
    BY Working, TypeParts DEF UpdateIngressStatus
  <1>2. UNCHANGED <<object, incarnation>>
    BY DEF UpdateIngressStatus
  <1>3. CASE UNCHANGED ingress
    BY <1>2, <1>3, QuietStep
  <1>4. CASE /\ StatusDue /\ ingress[cur] = copy
             /\ PutIngress(cur, NextVersion([copy EXCEPT !.address = cachedGateway]))
    <2> DEFINE r == [copy EXCEPT !.address = cachedGateway]
    <2>1. cachedGateway \in Addresses
      BY <1>4 DEF StatusDue, TypeOK, ClusterTypeOK
    <2>2. /\ r \in IngressRecord /\ r.uid = copy.uid
          /\ r.deleting = copy.deleting /\ r.finalizers = copy.finalizers
      BY <1>1, <2>1 DEF IngressRecord
    <2>3. /\ NextVersion(r) \in IngressRecord /\ NextVersion(r).uid = r.uid
          /\ NextVersion(r).deleting = r.deleting
          /\ NextVersion(r).finalizers = r.finalizers
      BY <2>2, NextVersionFields
    <2>4. ingress[cur] # None
      BY <1>1, <1>4, NoneAssumption
    <2>5. PutIngress(cur, NextVersion(r))
      BY <1>4
    <2> HIDE DEF r
    <2>6. UNCHANGED Life
      BY <1>1, <1>4, <2>2, <2>3, <2>4, <2>5, SameLife
    <2> QED
      BY <1>2, <2>6 DEF ProtocolStep, made
  <1> QED
    BY <1>3, <1>4 DEF UpdateIngressStatus

LEMMA ContinueStep ==
    ASSUME TypeOK, FinalizerInv, Continue
    PROVE  ProtocolStep
  <1>1. CASE ListKind \/ WriteFails
    BY <1>1, QuietStep DEF ListKind, WriteFails, clusterVars, serverVars
  <1>2. ASSUME NEW k \in toDelete, DeleteObject(k)
        PROVE  ProtocolStep
    <2>1. k \in Keys
      BY DEF TypeOK
    <2>2. UNCHANGED <<ingress, incarnation>>
      BY <1>2 DEF DeleteObject
    <2>3. UNCHANGED object \/ object' = [object EXCEPT ![k] = None]
      BY <1>2 DEF DeleteObject, StoreObject, PutObject
    <2>4. made' \subseteq made
      BY <2>1, <2>3, MadeAgain DEF made
    <2> QED
      BY <2>2, <2>4, RemoveStep
  <1> QED
    BY <1>1, <1>2, AddsFinalizer, RemovesFinalizer, WritesObject, UpdatesStatus DEF Continue

LEMMA OwnStep ==
    ASSUME Deliver \/ Restart \/ (\E i \in Ingresses : Begin(i)) \/ UNCHANGED vars
    PROVE  ProtocolStep
  BY QuietStep
  DEF Deliver, DeliverIngress, DeliverObject, DeliverGateway, DeliverService, Resync,
      Restart, Begin, Ignore, BeginDeletion, Purge, BeginFinalizer, BeginApply, Convert,
      Take, clusterVars, serverVars, vars

LEMMA NextStep ==
    ASSUME TypeOK, FinalizerInv, [Next]_vars
    PROVE  ProtocolStep
  BY EnvironmentStep, ContinueStep, OwnStep DEF Next

LEMMA InitStep == Init => Protocol!Init
  BY DEF Init, ClusterInit, Protocol!Init, Protocol!Absent, Life, LifeOf, MadeFor

\* Whatever the caches show and whichever calls fail, the controller keeps the
\* protocol of the finalizer: it guards an Ingress before it makes anything for
\* it, it takes the finalizer off an Ingress only while that one, and not a later
\* one of its name, is being deleted, and makes nothing for an Ingress that has
\* been released.
THEOREM ProtocolKept == Spec => KeepsProtocol
  <1>1. TypeOK /\ FinalizerInv /\ [Next]_vars => ProtocolStep
    BY NextStep
  <1>2. ProtocolStep => [Protocol!Next]_(Protocol!protocolVars)
    BY DEF ProtocolStep, Protocol!protocolVars, made
  <1> QED
    BY <1>1, <1>2, InitStep, TypeCorrect, VersionsFitTogether, PTL
    DEF Spec, KeepsProtocol, Protocol!Spec
====
