---- MODULE FinalizerProofs ----
(***************************************************************************)
(* Proof that the worker only writes objects under the finalizer           *)
(* (WritesUnderFinalizer), for any Ingresses, specs and bounds.            *)
(*                                                                         *)
(* A step changes the versions in play of an Ingress in one of three ways: *)
(* it takes some away (a delivery, a restart, a worker that is done), it   *)
(* adds one that keeps our finalizer if it was there (everybody but        *)
(* RemoveFinalizer), or it adds one without it (RemoveFinalizer).          *)
(***************************************************************************)
EXTENDS FinalizerInvariant, IngressReconcilerProofs

LEMMA VersionType ==
    ASSUME TypeOK, NEW i \in Ingresses, NEW n \in InPlay(i)
    PROVE  Version(i, n) \in IngressRecord \cup {None}
  <1>1. ingressEvents[i] \in Seq(IngressRecord \cup {None})
    BY DEF TypeOK, ClusterTypeOK
  <1>2. n \in Nat /\ n <= Len(ingressEvents[i]) + 1
    BY <1>1 DEF InPlay, Newest
  <1>3. CASE n = 0
    BY <1>3 DEF Version, TypeOK, ClusterTypeOK
  <1>4. CASE n = 1
    BY <1>4 DEF Version, TypeOK, ClusterTypeOK
  <1>5. CASE n > 1
    <2>1. n - 1 \in 1 .. Len(ingressEvents[i])
      BY <1>1, <1>2, <1>5
    <2>2. ingressEvents[i][n - 1] \in IngressRecord \cup {None}
      BY <1>1, <2>1
    <2> QED
      BY <1>2, <1>5, <2>2 DEF Version
  <1> QED
    BY <1>2, <1>3, <1>4, <1>5

LEMMA InPlayFacts ==
    ASSUME TypeOK, NEW i \in Ingresses
    PROVE  /\ Newest(i) \in Nat /\ Newest(i) >= 1
           /\ InPlay(i) = {n \in Nat : n <= Newest(i)}
  <1>1. ingressEvents[i] \in Seq(IngressRecord \cup {None})
    BY DEF TypeOK, ClusterTypeOK
  <1>2. Len(ingressEvents[i]) \in Nat
    BY <1>1
  <1> QED
    BY <1>2 DEF InPlay, Newest

\* Versions are taken away: every version after the step was one before it, in
\* the same order, and the newest is the same.
LEMMA VersionsTaken ==
    ASSUME TypeOK, TypeOK', NEW i \in Ingresses, VersionsFit(i),
           ingress'[i] = ingress[i], incarnation'[i] = incarnation[i],
           NEW at \in [InPlay(i)' -> InPlay(i)],
           \A n \in InPlay(i)' : Version(i, n)' = Version(i, at[n]),
           \A m, n \in InPlay(i)' : m <= n => at[m] <= at[n],
           at[Newest(i)'] = Newest(i),
           at[1] >= 1
    PROVE  VersionsFit(i)'
  <1>0. /\ Newest(i) \in Nat /\ InPlay(i) = {n \in Nat : n <= Newest(i)}
        /\ Newest(i)' \in Nat /\ Newest(i)' >= 1
        /\ InPlay(i)' = {n \in Nat : n <= Newest(i)'}
    <2>1. Newest(i) \in Nat /\ InPlay(i) = {n \in Nat : n <= Newest(i)}
      BY InPlayFacts
    <2>2. ingressEvents'[i] \in Seq(IngressRecord \cup {None})
      BY DEF TypeOK, ClusterTypeOK
    <2> QED
      BY <2>1, <2>2 DEF InPlay, Newest
  <1>1. /\ 0 \in InPlay(i)' /\ 1 \in InPlay(i)' /\ Newest(i)' \in InPlay(i)'
        /\ 1 \in InPlay(i)
    BY <1>0, InPlayFacts
  <1>2. NewestIsLive(i)'
    BY <1>1 DEF VersionsFit, NewestIsLive
  <1>3. UidsIssued(i)'
    BY DEF VersionsFit, UidsIssued
  <1>4. DyingIsFinal(i)'
    <2> SUFFICES ASSUME NEW m \in InPlay(i)', NEW n \in InPlay(i)', NEW o \in InPlay(i)',
                        m <= n, n <= o,
                        Dying(Version(i, m)'), SameIngress(Version(i, m)', Version(i, o)')
                 PROVE  /\ Dying(Version(i, n)')
                        /\ SameIngress(Version(i, m)', Version(i, n)')
      BY DEF DyingIsFinal, Dying, SameIngress
    <2> QED
      BY DEF VersionsFit, DyingIsFinal
  <1>5. NoneGuardedBehind(i)'
    <2> SUFFICES ASSUME NEW m \in InPlay(i)', NEW n \in InPlay(i)', m <= n,
                        Dying(Version(i, m)'), Guarded(Version(i, m)'),
                        Guarded(Version(i, n)')
                 PROVE  /\ Dying(Version(i, n)')
                        /\ SameIngress(Version(i, m)', Version(i, n)')
      BY DEF NoneGuardedBehind, Dying, SameIngress, Guarded
    <2> QED
      BY DEF VersionsFit, NoneGuardedBehind
  <1>6. GuardedIsLive(i)'
    BY DEF VersionsFit, GuardedIsLive, Guarded, Dying, SameIngress
  <1>7. DyingIsLiveOrSeen(i)'
    <2> SUFFICES ASSUME NEW n \in InPlay(i)', n # 0,
                        Guarded(Version(i, n)'), Dying(Version(i, n)'),
                        ~(Guarded(ingress'[i]) /\ SameIngress(Version(i, n)', ingress'[i]))
                 PROVE  /\ Dying(cachedIngress'[i])
                        /\ SameIngress(Version(i, n)', cachedIngress'[i])
      BY DEF DyingIsLiveOrSeen, DyingIsLive, Guarded, Dying, SameIngress
    <2>1. 1 <= n /\ at[1] <= at[n] /\ at[n] \in InPlay(i) \ {0} /\ at[1] \in InPlay(i)
      BY <1>0, <1>1
    <2>2. Dying(cachedIngress[i]) /\ SameIngress(Version(i, at[n]), cachedIngress[i])
      BY <2>1 DEF VersionsFit, DyingIsLiveOrSeen, DyingIsLive
    <2>3. Version(i, 1) = cachedIngress[i] /\ Version(i, 1)' = cachedIngress'[i]
      BY DEF Version
    <2>4. SameIngress(Version(i, 1), Version(i, at[n]))
      BY <2>2, <2>3 DEF SameIngress
    <2>5. Dying(Version(i, at[1])) /\ SameIngress(Version(i, 1), Version(i, at[1]))
      BY <1>1, <2>1, <2>2, <2>3, <2>4 DEF VersionsFit, DyingIsFinal
    <2> QED
      BY <1>1, <2>3, <2>4, <2>5 DEF SameIngress
  <1> QED
    BY <1>2, <1>3, <1>4, <1>5, <1>6, <1>7 DEF VersionsFit

----
\* What a write of Ingress i does to its versions; the worker keeps its copy or
\* becomes idle.
Added(i, y) ==
    /\ Newest(i)' = Newest(i) + 1
    /\ InPlay(i)' = InPlay(i) \cup {Newest(i)'}
    /\ \A n \in InPlay(i) \ {0} : Version(i, n)' = Version(i, n)
    /\ Version(i, Newest(i))' = y
    /\ Version(i, 0)' \in {Version(i, 0), Version(i, 1)}
    /\ ingress'[i] = y
    /\ cachedIngress'[i] = cachedIngress[i]

LEMMA VersionAdded ==
    ASSUME TypeOK, NEW i \in Ingresses, NEW y \in IngressRecord \cup {None},
           PutIngress(i, y), UNCHANGED cachedIngress,
           UNCHANGED <<cur, copy>> \/ cur' = None
    PROVE  Added(i, y)
  <1> DEFINE events == ingressEvents[i]
  <1>1. /\ events \in Seq(IngressRecord \cup {None})
        /\ ingress \in [Ingresses -> IngressRecord \cup {None}]
        /\ ingressEvents \in [Ingresses -> Seq(IngressRecord \cup {None})]
    BY DEF TypeOK, ClusterTypeOK
  <1>2. ingressEvents'[i] = Append(events, y) /\ ingress'[i] = y
    BY <1>1 DEF PutIngress
  <1>3. /\ Len(events) \in Nat
        /\ Len(ingressEvents'[i]) = Len(events) + 1
        /\ \A n \in 1 .. Len(events) : ingressEvents'[i][n] = events[n]
        /\ ingressEvents'[i][Len(events) + 1] = y
    BY <1>1, <1>2
  <1>4. Newest(i) = Len(events) + 1 /\ Newest(i)' = Len(events) + 2
    BY <1>3 DEF Newest
  <1>5. InPlay(i)' = InPlay(i) \cup {Newest(i)'}
    BY <1>3, <1>4 DEF InPlay
  <1>6. \A n \in InPlay(i) \ {0} : Version(i, n)' = Version(i, n)
    <2> SUFFICES ASSUME NEW n \in InPlay(i), n # 0
                 PROVE  Version(i, n)' = Version(i, n)
      OBVIOUS
    <2>1. CASE n = 1
      BY <2>1 DEF Version
    <2>2. CASE n # 1
      <3>1. n - 1 \in 1 .. Len(events)
        BY <1>3, <1>4, <2>2 DEF InPlay
      <3> QED
        BY <1>3, <2>2, <3>1 DEF Version
    <2> QED
      BY <2>1, <2>2
  <1>7. Version(i, Newest(i))' = y
    <2>1. Newest(i)' \notin {0, 1} /\ Newest(i)' - 1 = Len(events) + 1
      BY <1>3, <1>4
    <2>2. Version(i, Newest(i))' = ingressEvents'[i][Newest(i)' - 1]
      BY <2>1 DEF Version
    <2> QED
      BY <1>3, <2>1, <2>2
  <1>8. Version(i, 0)' \in {Version(i, 0), Version(i, 1)}
    BY NoneAssumption DEF Version
  <1> QED
    BY <1>2, <1>3, <1>4, <1>5, <1>6, <1>7, <1>8 DEF Added

\* Every version after the step is the new one, or was one before it; and the
\* order is kept. (at[n] is its number before the step.)
LEMMA AddedOrder ==
    ASSUME TypeOK, NEW i \in Ingresses, NEW y, Added(i, y)
    PROVE  \E at \in [InPlay(i) -> InPlay(i)] :
              /\ \A n \in InPlay(i) : Version(i, n)' = Version(i, at[n])
              /\ \A m, n \in InPlay(i) : m <= n => at[m] <= at[n]
              /\ \A n \in InPlay(i) \ {0} : at[n] = n
  <1>1. Newest(i) \in Nat /\ Newest(i) >= 1 /\ InPlay(i) = {n \in Nat : n <= Newest(i)}
    BY InPlayFacts
  <1>2. PICK zero \in {0, 1} : Version(i, 0)' = Version(i, zero)
    BY DEF Added
  <1> DEFINE at == [n \in InPlay(i) |-> IF n = 0 THEN zero ELSE n]
  <1>3. at \in [InPlay(i) -> InPlay(i)]
    BY <1>1
  <1>4. \A n \in InPlay(i) : Version(i, n)' = Version(i, at[n])
    BY <1>2 DEF Added
  <1>5. \A m, n \in InPlay(i) : m <= n => at[m] <= at[n]
    <2> SUFFICES ASSUME NEW m \in InPlay(i), NEW n \in InPlay(i), m <= n
                 PROVE  at[m] <= at[n]
      OBVIOUS
    <2>1. m \in Nat /\ n \in Nat
      BY <1>1
    <2>2. at[m] = (IF m = 0 THEN zero ELSE m) /\ at[n] = (IF n = 0 THEN zero ELSE n)
      OBVIOUS
    <2> QED
      BY <2>1, <2>2
  <1>6. \A n \in InPlay(i) \ {0} : at[n] = n
    OBVIOUS
  <1> HIDE DEF at
  <1> QED
    BY <1>3, <1>4, <1>5, <1>6

\* The new version is of the same Ingress, which stays dying if it was; or it is
\* the first of a new one, and without our finalizer.
Succeeds(i, y) ==
    y # None =>
        /\ y.uid <= incarnation'[i]
        /\ \/ /\ SameIngress(ingress[i], y)
              /\ Dying(ingress[i]) => Dying(y)
           \/ y.uid > incarnation[i] /\ ~Guarded(y)

\* What both kinds of added version have in common.
LEMMA AddedCommon ==
    ASSUME TypeOK, TypeOK', NEW i \in Ingresses, VersionsFit(i),
           NEW y \in IngressRecord \cup {None}, Added(i, y), Succeeds(i, y),
           incarnation[i] <= incarnation'[i]
    PROVE  NewestIsLive(i)' /\ UidsIssued(i)' /\ DyingIsFinal(i)'
  <1>1. /\ Newest(i) \in Nat /\ Newest(i) >= 1 /\ InPlay(i) = {n \in Nat : n <= Newest(i)}
        /\ incarnation[i] \in Nat /\ incarnation'[i] \in Nat
    BY InPlayFacts DEF TypeOK, ClusterTypeOK
  <1>2. PICK at \in [InPlay(i) -> InPlay(i)] :
              /\ \A n \in InPlay(i) : Version(i, n)' = Version(i, at[n])
              /\ \A m, n \in InPlay(i) : m <= n => at[m] <= at[n]
              /\ \A n \in InPlay(i) \ {0} : at[n] = n
    BY AddedOrder
  <1>3. \A n \in InPlay(i) : Version(i, n) # None => Version(i, n).uid \in Nat
    BY VersionType DEF IngressRecord
  <1>4. y # None => y.uid \in Nat
    BY DEF IngressRecord
  <1>5. NewestIsLive(i)'
    BY DEF Added, NewestIsLive
  <1>6. UidsIssued(i)'
    <2> SUFFICES ASSUME NEW n \in InPlay(i)', Version(i, n)' # None
                 PROVE  Version(i, n)'.uid <= incarnation'[i]
      BY DEF UidsIssued
    <2>1. CASE n \in InPlay(i)
      <3>1. Version(i, n)'.uid <= incarnation[i]
        BY <1>2, <2>1 DEF VersionsFit, UidsIssued
      <3> QED
        BY <1>1, <1>2, <1>3, <2>1, <3>1
    <2>2. CASE n = Newest(i)'
      BY <2>2 DEF Added, Succeeds
    <2> QED
      BY <2>1, <2>2 DEF Added
  <1>7. DyingIsFinal(i)'
    <2> SUFFICES ASSUME NEW m \in InPlay(i)', NEW n \in InPlay(i)', NEW o \in InPlay(i)',
                        m <= n, n <= o,
                        Dying(Version(i, m)'), SameIngress(Version(i, m)', Version(i, o)')
                 PROVE  /\ Dying(Version(i, n)')
                        /\ SameIngress(Version(i, m)', Version(i, n)')
      BY DEF DyingIsFinal, Dying, SameIngress
    <2>1. CASE o \in InPlay(i)
      <3>1. m \in InPlay(i) /\ n \in InPlay(i)
        BY <1>1, <2>1 DEF Added
      <3> QED
        BY <1>2, <2>1, <3>1 DEF VersionsFit, DyingIsFinal
    <2>2. CASE o = Newest(i)' /\ m \in InPlay(i)
      <3>1. Version(i, o)' = y
        BY <2>2 DEF Added
      <3>2. Version(i, at[m]).uid <= incarnation[i]
        BY <1>2, <2>2 DEF VersionsFit, UidsIssued, Dying
      <3>3. SameIngress(ingress[i], y) /\ (Dying(ingress[i]) => Dying(y))
        BY <1>1, <1>2, <1>3, <1>4, <2>2, <3>1, <3>2 DEF Succeeds, SameIngress
      <3>4. SameIngress(Version(i, at[m]), Version(i, Newest(i)))
        BY <1>2, <2>2, <3>1, <3>3 DEF VersionsFit, NewestIsLive, SameIngress
      <3>5. /\ Newest(i) \in InPlay(i) /\ at[m] \in InPlay(i) /\ at[m] <= Newest(i)
        BY <1>1, <2>2
      <3>6. CASE n \in InPlay(i)
        <4>1. at[n] \in InPlay(i) /\ at[m] <= at[n] /\ at[n] <= Newest(i)
          BY <1>1, <1>2, <2>2, <3>6
        <4> QED
          BY <1>2, <2>2, <3>4, <3>5, <3>6, <4>1 DEF VersionsFit, DyingIsFinal
      <3>7. CASE n = Newest(i)'
        <4>1. Newest(i) <= Newest(i)
          BY <1>1
        <4>2. Dying(Version(i, Newest(i)))
          BY <1>2, <2>2, <3>4, <3>5, <4>1 DEF VersionsFit, DyingIsFinal
        <4> QED
          BY <1>2, <2>2, <3>1, <3>3, <3>7, <4>2 DEF VersionsFit, NewestIsLive
      <3> QED
        BY <3>6, <3>7 DEF Added
    <2>3. CASE o = Newest(i)' /\ m = Newest(i)'
      <3>1. n = m
        BY <1>1, <2>3 DEF Added
      <3> QED
        BY <3>1 DEF SameIngress, Dying
    <2> QED
      BY <2>1, <2>2, <2>3 DEF Added
  <1> QED
    BY <1>5, <1>6, <1>7

\* A version is added that has our finalizer if the one before had it; one that
\* gets it is not added while a deletion under it is past its end.
LEMMA AddedKeeps ==
    ASSUME TypeOK, TypeOK', NEW i \in Ingresses, VersionsFit(i),
           NEW y \in IngressRecord \cup {None}, Added(i, y), Succeeds(i, y),
           incarnation[i] <= incarnation'[i],
           Guarded(ingress[i]) => Guarded(y) /\ SameIngress(ingress[i], y),
           Guarded(y) => \/ Guarded(ingress[i])
                         \/ \A n \in InPlay(i) : DyingIsLive(i, n)
    PROVE  VersionsFit(i)'
  <1>1. /\ Newest(i) \in Nat /\ Newest(i) >= 1 /\ InPlay(i) = {n \in Nat : n <= Newest(i)}
        /\ Newest(i) \in InPlay(i)
    BY InPlayFacts
  <1>2. PICK at \in [InPlay(i) -> InPlay(i)] :
              /\ \A n \in InPlay(i) : Version(i, n)' = Version(i, at[n])
              /\ \A m, n \in InPlay(i) : m <= n => at[m] <= at[n]
              /\ \A n \in InPlay(i) \ {0} : at[n] = n
    BY AddedOrder
  <1>3. Guarded(y) => SameIngress(ingress[i], y) /\ (Dying(ingress[i]) => Dying(y))
    <2>1. \A n \in InPlay(i) : Version(i, n) # None => Version(i, n).uid \in Nat
      BY VersionType DEF IngressRecord
    <2> QED
      BY DEF Succeeds, Guarded
  <1>4. \A n \in InPlay(i) :
           (Guarded(Version(i, n)) /\ Dying(Version(i, n)) /\ Guarded(y))
              => Dying(y) /\ SameIngress(Version(i, n), y)
    <2> SUFFICES ASSUME NEW n \in InPlay(i), Guarded(Version(i, n)),
                        Dying(Version(i, n)), Guarded(y)
                 PROVE  Dying(y) /\ SameIngress(Version(i, n), y)
      OBVIOUS
    <2>1. Guarded(ingress[i])
      BY DEF DyingIsLive
    <2>2. Dying(ingress[i]) /\ SameIngress(Version(i, n), ingress[i])
      BY <1>1, <2>1 DEF VersionsFit, NoneGuardedBehind, NewestIsLive
    <2> QED
      BY <1>3, <2>2 DEF SameIngress
  <1>5. NoneGuardedBehind(i)'
    <2> SUFFICES ASSUME NEW m \in InPlay(i)', NEW n \in InPlay(i)', m <= n,
                        Dying(Version(i, m)'), Guarded(Version(i, m)'),
                        Guarded(Version(i, n)')
                 PROVE  /\ Dying(Version(i, n)')
                        /\ SameIngress(Version(i, m)', Version(i, n)')
      BY DEF NoneGuardedBehind, Dying, SameIngress, Guarded
    <2>1. CASE n \in InPlay(i)
      <3>1. m \in InPlay(i)
        BY <1>1, <2>1 DEF Added
      <3> QED
        BY <1>2, <2>1, <3>1 DEF VersionsFit, NoneGuardedBehind
    <2>2. CASE n = Newest(i)' /\ m \in InPlay(i)
      BY <1>2, <1>4, <2>2 DEF Added
    <2>3. CASE n = Newest(i)' /\ m = Newest(i)'
      BY <2>3 DEF SameIngress, Guarded
    <2> QED
      BY <2>1, <2>2, <2>3 DEF Added
  <1>6. GuardedIsLive(i)'
    <2> SUFFICES ASSUME NEW n \in InPlay(i)', Guarded(Version(i, n)'),
                        ~Dying(Version(i, n)')
                 PROVE  Guarded(ingress'[i]) /\ SameIngress(Version(i, n)', ingress'[i])
      BY DEF GuardedIsLive, Dying, SameIngress, Guarded
    <2>1. CASE n \in InPlay(i)
      <3>1. Guarded(ingress[i]) /\ SameIngress(Version(i, at[n]), ingress[i])
        BY <1>2, <2>1 DEF VersionsFit, GuardedIsLive
      <3> QED
        BY <1>2, <2>1, <3>1 DEF Added, SameIngress
    <2>2. CASE n = Newest(i)'
      BY <2>2 DEF Added, SameIngress, Guarded
    <2> QED
      BY <2>1, <2>2 DEF Added
  <1>7. DyingIsLiveOrSeen(i)'
    <2> SUFFICES ASSUME NEW n \in InPlay(i)', n # 0,
                        Guarded(Version(i, n)'), Dying(Version(i, n)'),
                        ~(Guarded(ingress'[i]) /\ SameIngress(Version(i, n)', ingress'[i]))
                 PROVE  /\ Dying(cachedIngress'[i])
                        /\ SameIngress(Version(i, n)', cachedIngress'[i])
      BY DEF DyingIsLiveOrSeen, DyingIsLive, Guarded, Dying, SameIngress
    <2>1. CASE n \in InPlay(i)
      <3>1. Version(i, n)' = Version(i, n)
        BY <2>1 DEF Added
      <3>2. ~(Guarded(ingress[i]) /\ SameIngress(Version(i, n), ingress[i]))
        BY <3>1 DEF Added, SameIngress
      <3> QED
        BY <2>1, <3>1, <3>2 DEF VersionsFit, DyingIsLiveOrSeen, DyingIsLive, Added
    <2>2. CASE n = Newest(i)'
      BY <2>2 DEF Added, SameIngress, Guarded
    <2> QED
      BY <2>1, <2>2 DEF Added
  <1> QED
    BY <1>5, <1>6, <1>7, AddedCommon DEF VersionsFit

\* A version without our finalizer is added by a worker whose copy is being
\* deleted under it.
LEMMA AddedReleases ==
    ASSUME TypeOK, TypeOK', NEW i \in Ingresses, VersionsFit(i),
           NEW y \in IngressRecord \cup {None}, Added(i, y), Succeeds(i, y),
           incarnation[i] <= incarnation'[i], ~Guarded(y),
           Guarded(Version(i, 0)), Dying(Version(i, 0))
    PROVE  VersionsFit(i)'
  <1>1. /\ Newest(i) \in Nat /\ Newest(i) >= 1 /\ InPlay(i) = {n \in Nat : n <= Newest(i)}
        /\ 0 \in InPlay(i) /\ 1 \in InPlay(i)
    BY InPlayFacts
  <1>2. PICK at \in [InPlay(i) -> InPlay(i)] :
              /\ \A n \in InPlay(i) : Version(i, n)' = Version(i, at[n])
              /\ \A m, n \in InPlay(i) : m <= n => at[m] <= at[n]
              /\ \A n \in InPlay(i) \ {0} : at[n] = n
    BY AddedOrder
  <1>3. ASSUME NEW n \in InPlay(i), Guarded(Version(i, n))
        PROVE  Dying(Version(i, n)) /\ SameIngress(Version(i, 0), Version(i, n))
    BY <1>1, <1>3 DEF VersionsFit, NoneGuardedBehind
  <1>4. NoneGuardedBehind(i)'
    <2> SUFFICES ASSUME NEW m \in InPlay(i)', NEW n \in InPlay(i)', m <= n,
                        Dying(Version(i, m)'), Guarded(Version(i, m)'),
                        Guarded(Version(i, n)')
                 PROVE  /\ Dying(Version(i, n)')
                        /\ SameIngress(Version(i, m)', Version(i, n)')
      BY DEF NoneGuardedBehind, Dying, SameIngress, Guarded
    <2>1. n \in InPlay(i) /\ m \in InPlay(i)
      BY DEF Added
    <2> QED
      BY <1>2, <2>1 DEF VersionsFit, NoneGuardedBehind
  <1>5. GuardedIsLive(i)'
    <2> SUFFICES ASSUME NEW n \in InPlay(i)', Guarded(Version(i, n)')
                 PROVE  Dying(Version(i, n)')
      BY DEF GuardedIsLive, Guarded, Dying, SameIngress
    <2>1. n \in InPlay(i)
      BY DEF Added
    <2> QED
      BY <1>2, <1>3, <2>1
  <1>6. DyingIsLiveOrSeen(i)'
    <2> SUFFICES ASSUME NEW n \in InPlay(i)', n # 0, Guarded(Version(i, n)')
                 PROVE  /\ Dying(cachedIngress'[i])
                        /\ SameIngress(Version(i, n)', cachedIngress'[i])
      BY DEF DyingIsLiveOrSeen, DyingIsLive, Guarded, Dying, SameIngress
    <2>1. n \in InPlay(i) /\ Version(i, n)' = Version(i, n)
      BY DEF Added
    <2>2. SameIngress(Version(i, 0), Version(i, n))
      BY <1>3, <2>1
    <2>3. 0 <= 1 /\ 1 <= n
      BY <1>1, <2>1
    <2>4. Dying(Version(i, 1)) /\ SameIngress(Version(i, 0), Version(i, 1))
      BY <1>1, <2>1, <2>2, <2>3 DEF VersionsFit, DyingIsFinal
    <2>5. Version(i, 1) = cachedIngress'[i]
      BY DEF Version, Added
    <2> QED
      BY <2>1, <2>2, <2>4, <2>5 DEF SameIngress
  <1> QED
    BY <1>4, <1>5, <1>6, AddedCommon DEF VersionsFit

\* An Ingress whose versions stay, but that the worker may start or stop to have
\* a copy of.
LEMMA VersionsStay ==
    ASSUME TypeOK, TypeOK', NEW i \in Ingresses, VersionsFit(i),
           ingress'[i] = ingress[i], incarnation'[i] = incarnation[i],
           cachedIngress'[i] = cachedIngress[i], ingressEvents'[i] = ingressEvents[i],
           Version(i, 0)' \in {Version(i, 0), Version(i, 1)}
    PROVE  VersionsFit(i)'
  <1>1. Newest(i)' = Newest(i) /\ InPlay(i)' = InPlay(i)
    BY DEF Newest, InPlay
  <1>2. /\ Newest(i) \in Nat /\ Newest(i) >= 1 /\ InPlay(i) = {n \in Nat : n <= Newest(i)}
    BY InPlayFacts
  <1>3. PICK zero \in {0, 1} : Version(i, 0)' = Version(i, zero)
    OBVIOUS
  <1> DEFINE at == [n \in InPlay(i) |-> IF n = 0 THEN zero ELSE n]
  <1>4. at \in [InPlay(i)' -> InPlay(i)]
    BY <1>1, <1>2
  <1>5. \A n \in InPlay(i) : n # 0 => Version(i, n)' = Version(i, n)
    BY DEF Version
  <1>6. \A n \in InPlay(i)' : Version(i, n)' = Version(i, at[n])
    BY <1>1, <1>3, <1>5
  <1>7. \A m, n \in InPlay(i)' : m <= n => at[m] <= at[n]
    <2> SUFFICES ASSUME NEW m \in InPlay(i), NEW n \in InPlay(i), m <= n
                 PROVE  at[m] <= at[n]
      BY <1>1
    <2>1. m \in Nat /\ n \in Nat
      BY <1>2
    <2>2. at[m] = (IF m = 0 THEN zero ELSE m) /\ at[n] = (IF n = 0 THEN zero ELSE n)
      OBVIOUS
    <2> QED
      BY <2>1, <2>2
  <1>8. at[Newest(i)'] = Newest(i) /\ at[1] >= 1
    BY <1>1, <1>2
  <1> HIDE DEF at
  <1> QED
    BY <1>4, <1>6, <1>7, <1>8, VersionsTaken

----
\* The worker goes on with its copy, or returns.
WorkerKeeps == UNCHANGED <<pc, cur, copy>> \/ (pc' = "idle" /\ cur' = None)

LEMMA VersionZero ==
    ASSUME TypeOK, WorkerKeeps, UNCHANGED cachedIngress, NEW j \in Ingresses
    PROVE  Version(j, 0)' \in {Version(j, 0), Version(j, 1)}
  BY NoneAssumption DEF WorkerKeeps, Version

\* A step that does not touch any Ingress.
LEMMA StayStep ==
    ASSUME TypeOK, TypeOK', FinalizerInv, WorkerKeeps,
           UNCHANGED <<ingress, ingressEvents, cachedIngress, incarnation>>
    PROVE  FinalizerInv'
  <1>1. ASSUME NEW j \in Ingresses PROVE VersionsFit(j)'
    BY <1>1, VersionZero, VersionsStay DEF FinalizerInv
  <1>2. CopyFits'
    <2>1. CASE pc' = "idle"
      BY <2>1 DEF CopyFits
    <2>2. CASE UNCHANGED <<pc, cur, copy>>
      BY <2>2 DEF FinalizerInv, CopyFits, InPlay, Newest, DyingIsLive, Version,
                  Guarded, Dying, SameIngress
    <2> QED
      BY <2>1, <2>2 DEF WorkerKeeps
  <1> QED
    BY <1>1, <1>2 DEF FinalizerInv

\* The other Ingresses, when one is written.
LEMMA OthersStay ==
    ASSUME TypeOK, TypeOK', FinalizerInv, WorkerKeeps, UNCHANGED cachedIngress,
           NEW i \in Ingresses, NEW y, PutIngress(i, y),
           NEW j \in Ingresses, j # i, incarnation'[j] = incarnation[j]
    PROVE  VersionsFit(j)'
  <1>1. ingress'[j] = ingress[j] /\ ingressEvents'[j] = ingressEvents[j]
    BY DEF PutIngress, TypeOK, ClusterTypeOK
  <1> QED
    BY <1>1, VersionZero, VersionsStay DEF FinalizerInv

\* A write that keeps our finalizer, by anybody.
LEMMA KeepsStep ==
    ASSUME TypeOK, TypeOK', FinalizerInv, WorkerKeeps, UNCHANGED cachedIngress,
           NEW i \in Ingresses, NEW y \in IngressRecord \cup {None}, PutIngress(i, y),
           \A j \in Ingresses \ {i} : incarnation'[j] = incarnation[j],
           incarnation[i] <= incarnation'[i], Succeeds(i, y),
           Guarded(ingress[i]) => Guarded(y) /\ SameIngress(ingress[i], y),
           Guarded(y) => \/ Guarded(ingress[i])
                         \/ \A n \in InPlay(i) : DyingIsLive(i, n)
    PROVE  FinalizerInv'
  <1>1. Added(i, y)
    BY VersionAdded DEF WorkerKeeps
  <1>2. VersionsFit(i)'
    BY <1>1, AddedKeeps DEF FinalizerInv
  <1>3. \A j \in Ingresses : VersionsFit(j)'
    BY <1>2, OthersStay
  <1>4. CopyFits'
    <2>1. CASE pc' = "idle"
      BY <2>1 DEF CopyFits
    <2>2. CASE UNCHANGED <<pc, cur, copy>>
      <3>1. CASE pc = "finalize" /\ cur = i
        <4>1. ~Guarded(copy) /\ \A n \in InPlay(i) : DyingIsLive(i, n)
          BY <3>1 DEF FinalizerInv, CopyFits
        <4>2. Version(i, 0)' = Version(i, 0)
          BY <2>2 DEF Version
        <4>3. ASSUME NEW n \in InPlay(i)' PROVE DyingIsLive(i, n)'
          <5>1. CASE n \in InPlay(i)
            <6>1. Version(i, n)' = Version(i, n)
              BY <4>2, <5>1, <1>1 DEF Added
            <6> QED
              BY <1>1, <4>1, <5>1, <6>1
              DEF Added, DyingIsLive, Guarded, Dying, SameIngress
          <5>2. CASE n = Newest(i)'
            BY <1>1, <5>2 DEF Added, DyingIsLive, Guarded, SameIngress
          <5> QED
            BY <1>1, <5>1, <5>2 DEF Added
        <4> QED
          BY <2>2, <3>1, <4>1, <4>3 DEF CopyFits, Guarded
      <3>2. CASE pc = "finalize" /\ cur # i
        <4>1. cur \in Ingresses
          BY <3>2 DEF TypeOK
        <4>2. ingress'[cur] = ingress[cur] /\ ingressEvents'[cur] = ingressEvents[cur]
          BY <3>2, <4>1 DEF PutIngress, TypeOK, ClusterTypeOK
        <4>3. InPlay(cur)' = InPlay(cur)
          BY <2>2, <4>2 DEF InPlay, Newest
        <4>4. ASSUME NEW n \in InPlay(cur) PROVE Version(cur, n)' = Version(cur, n)
          BY <2>2, <4>2 DEF Version
        <4> QED
          BY <2>2, <3>2, <4>2, <4>3, <4>4
          DEF FinalizerInv, CopyFits, DyingIsLive, Guarded, Dying, SameIngress
      <3>3. CASE pc # "finalize"
        BY <2>2, <3>3 DEF FinalizerInv, CopyFits, Guarded, Dying
      <3> QED
        BY <3>1, <3>2, <3>3
    <2> QED
      BY <2>1, <2>2 DEF WorkerKeeps
  <1> QED
    BY <1>3, <1>4 DEF FinalizerInv

LEMMA LiveFacts ==
    ASSUME TypeOK, FinalizerInv, NEW i \in Ingresses, ingress[i] # None
    PROVE  /\ ingress[i] \in IngressRecord
           /\ ingress[i].uid <= incarnation[i]
           /\ incarnation[i] \in Nat
  <1>1. ingress[i] = Version(i, Newest(i)) /\ Newest(i) \in InPlay(i)
    BY InPlayFacts DEF FinalizerInv, VersionsFit, NewestIsLive
  <1> QED
    BY <1>1 DEF FinalizerInv, VersionsFit, UidsIssued, TypeOK, ClusterTypeOK

\* A write of an Ingress that is there, by anybody but RemoveFinalizer.
LEMMA ChangeStep ==
    ASSUME TypeOK, TypeOK', FinalizerInv, WorkerKeeps,
           UNCHANGED <<cachedIngress, incarnation>>,
           NEW i \in Ingresses, ingress[i] # None,
           NEW y \in IngressRecord, PutIngress(i, y),
           y.uid = ingress[i].uid, ingress[i].deleting => y.deleting,
           Guarded(ingress[i]) => Guarded(y),
           Guarded(y) => \/ Guarded(ingress[i])
                         \/ \A n \in InPlay(i) : DyingIsLive(i, n)
    PROVE  FinalizerInv'
  <1>1. y # None
    BY NoneAssumption
  <1>2. SameIngress(ingress[i], y) /\ (Dying(ingress[i]) => Dying(y))
    BY <1>1 DEF SameIngress, Dying
  <1>3. Succeeds(i, y)
    BY <1>2, LiveFacts DEF Succeeds
  <1>4. incarnation[i] <= incarnation'[i]
    BY LiveFacts
  <1> QED
    BY <1>2, <1>3, <1>4, KeepsStep

\* The last version of an Ingress that did not have our finalizer.
LEMMA GoneStep ==
    ASSUME TypeOK, TypeOK', FinalizerInv, WorkerKeeps,
           UNCHANGED <<cachedIngress, incarnation>>,
           NEW i \in Ingresses, ~Guarded(ingress[i]), PutIngress(i, None)
    PROVE  FinalizerInv'
  <1>1. incarnation[i] \in Nat
    BY DEF TypeOK, ClusterTypeOK
  <1> QED
    BY <1>1, KeepsStep DEF Succeeds, Guarded

LEMMA NextVersionFields ==
    ASSUME NEW r \in IngressRecord
    PROVE  /\ NextVersion(r) \in IngressRecord
           /\ NextVersion(r).uid = r.uid
           /\ NextVersion(r).deleting = r.deleting
           /\ NextVersion(r).finalizers = r.finalizers
  BY DEF NextVersion, IngressRecord

\* The list of finalizers of a live Ingress is replaced by one that has ours if
\* the old one had it.
LEMMA SetFinalizersStep ==
    ASSUME TypeOK, TypeOK', FinalizerInv, WorkerKeeps,
           UNCHANGED <<cachedIngress, incarnation>>,
           NEW i \in Ingresses, ingress[i] # None,
           NEW fs \in SUBSET Finalizers, SetFinalizers(i, fs),
           FinalizerName \in ingress[i].finalizers => FinalizerName \in fs,
           FinalizerName \in fs => \/ FinalizerName \in ingress[i].finalizers
                                   \/ \A n \in InPlay(i) : DyingIsLive(i, n)
    PROVE  FinalizerInv'
  <1>1. ingress[i] \in IngressRecord
    BY LiveFacts
  <1> DEFINE r == [ingress[i] EXCEPT !.finalizers = fs]
             y == NextVersion(r)
  <1>2. /\ r \in IngressRecord /\ r.uid = ingress[i].uid
        /\ r.deleting = ingress[i].deleting /\ r.finalizers = fs
    BY <1>1 DEF IngressRecord
  <1>3. /\ y \in IngressRecord /\ y.uid = r.uid
        /\ y.deleting = r.deleting /\ y.finalizers = fs
    BY <1>2, NextVersionFields
  <1>4. CASE UNCHANGED <<ingress, ingressEvents>>
    BY <1>4, StayStep
  <1>5. CASE fs = {} /\ PutIngress(i, None)
    BY <1>5, GoneStep DEF Guarded
  <1>6. CASE PutIngress(i, y)
    <2>1. Guarded(ingress[i]) <=> FinalizerName \in ingress[i].finalizers
      BY DEF Guarded
    <2>2. Guarded(y) <=> FinalizerName \in fs
      BY <1>3, NoneAssumption DEF Guarded
    <2> HIDE DEF y
    <2> QED
      BY <1>2, <1>3, <1>6, <2>1, <2>2, ChangeStep
  <1> QED
    BY <1>4, <1>5, <1>6 DEF SetFinalizers

LEMMA EnvironmentFinalizer ==
    ASSUME TypeOK, TypeOK', FinalizerInv, Environment, UNCHANGED <<queue, workVars>>
    PROVE  FinalizerInv'
  <1>0. WorkerKeeps
    BY DEF WorkerKeeps, workVars
  <1>1. ASSUME NEW i \in Ingresses, UserCreates(i)
        PROVE  FinalizerInv'
    <2>1. PICK spec \in Specs :
             PutIngress(i, [uid |-> incarnation[i] + 1, rv |-> 1, spec |-> spec,
                            finalizers |-> {}, deleting |-> FALSE,
                            address |-> NoAddress])
      BY <1>1 DEF UserCreates
    <2> DEFINE y == [uid |-> incarnation[i] + 1, rv |-> 1, spec |-> spec,
                     finalizers |-> {}, deleting |-> FALSE, address |-> NoAddress]
    <2>2. incarnation \in [Ingresses -> Nat]
      BY DEF TypeOK, ClusterTypeOK
    <2>3. y \in IngressRecord /\ y.uid = incarnation[i] + 1 /\ y.finalizers = {}
      BY <2>2, ClusterAssumption DEF IngressRecord
    <2>4. incarnation' = [incarnation EXCEPT ![i] = incarnation[i] + 1]
      BY <1>1 DEF UserCreates
    <2>5. ~Guarded(ingress[i]) /\ ~Guarded(y)
      BY <1>1, <2>3 DEF UserCreates, Guarded
    <2> HIDE DEF y
    <2>6. Succeeds(i, y) /\ incarnation[i] <= incarnation'[i]
      BY <2>2, <2>3, <2>4, <2>5 DEF Succeeds
    <2> QED
      BY <1>0, <1>1, <2>1, <2>2, <2>3, <2>4, <2>5, <2>6, KeepsStep
      DEF UserCreates, cacheVars, y
  <1>2. ASSUME NEW i \in Ingresses, UserEdits(i)
        PROVE  FinalizerInv'
    <2>1. PICK spec \in Specs :
             PutIngress(i, NextVersion([ingress[i] EXCEPT !.spec = spec]))
      BY <1>2 DEF UserEdits
    <2> DEFINE r == [ingress[i] EXCEPT !.spec = spec]
               y == NextVersion(r)
    <2>2. ingress[i] \in IngressRecord /\ ingress[i] # None
      BY <1>2, LiveFacts DEF UserEdits
    <2>r. /\ r \in IngressRecord /\ r.uid = ingress[i].uid
          /\ r.deleting = ingress[i].deleting /\ r.finalizers = ingress[i].finalizers
      BY <2>2 DEF IngressRecord
    <2>3. /\ y \in IngressRecord /\ y.uid = ingress[i].uid
          /\ y.deleting = ingress[i].deleting /\ y.finalizers = ingress[i].finalizers
      BY <2>r, NextVersionFields
    <2>4. Guarded(y) <=> Guarded(ingress[i])
      BY <2>2, <2>3, NoneAssumption DEF Guarded
    <2> HIDE DEF y
    <2> QED
      BY <1>0, <1>2, <2>1, <2>2, <2>3, <2>4, ChangeStep DEF UserEdits, cacheVars, y
  <1>3. ASSUME NEW i \in Ingresses, UserDeletes(i)
        PROVE  FinalizerInv'
    <2> DEFINE r == [ingress[i] EXCEPT !.deleting = TRUE]
               y == NextVersion(r)
    <2>1. ingress[i] \in IngressRecord /\ ingress[i] # None
      BY <1>3, LiveFacts DEF UserDeletes
    <2>r. /\ r \in IngressRecord /\ r.uid = ingress[i].uid
          /\ r.deleting /\ r.finalizers = ingress[i].finalizers
      BY <2>1 DEF IngressRecord
    <2>2. /\ y \in IngressRecord /\ y.uid = ingress[i].uid
          /\ y.deleting /\ y.finalizers = ingress[i].finalizers
      BY <2>r, NextVersionFields
    <2>3. Guarded(y) <=> Guarded(ingress[i])
      BY <2>1, <2>2, NoneAssumption DEF Guarded
    <2> HIDE DEF y
    <2>4. CASE ingress[i].finalizers = {} /\ PutIngress(i, None)
      BY <1>0, <1>3, <2>4, GoneStep DEF UserDeletes, cacheVars, Guarded
    <2>5. CASE PutIngress(i, y)
      BY <1>0, <1>3, <2>1, <2>2, <2>3, <2>5, ChangeStep DEF UserDeletes, cacheVars
    <2> QED
      BY <1>3, <2>4, <2>5 DEF UserDeletes, y
  <1>4. ASSUME NEW i \in Ingresses, OtherFinalizerChanges(i)
        PROVE  FinalizerInv'
    <2>1. ingress[i] \in IngressRecord /\ ingress[i] # None
      BY <1>4, LiveFacts DEF OtherFinalizerChanges
    <2>2. PICK f \in OtherFinalizers :
             \/ SetFinalizers(i, ingress[i].finalizers \cup {f})
             \/ SetFinalizers(i, ingress[i].finalizers \ {f})
      BY <1>4 DEF OtherFinalizerChanges
    <2>3. f # FinalizerName /\ f \in Finalizers
      BY ClusterAssumption DEF Finalizers
    <2>4. PICK fs \in {ingress[i].finalizers \cup {f}, ingress[i].finalizers \ {f}} :
             SetFinalizers(i, fs)
      BY <2>2
    <2>5. fs \in SUBSET Finalizers
      BY <2>1, <2>3, <2>4 DEF IngressRecord
    <2>6. FinalizerName \in fs <=> FinalizerName \in ingress[i].finalizers
      BY <2>3, <2>4
    <2> QED
      BY <1>0, <1>4, <2>1, <2>4, <2>5, <2>6, SetFinalizersStep
      DEF OtherFinalizerChanges, cacheVars
  <1>5. ASSUME UNCHANGED <<ingress, ingressEvents, cachedIngress, incarnation>>
        PROVE  FinalizerInv'
    BY <1>0, <1>5, StayStep
  <1> QED
    BY <1>1, <1>2, <1>3, <1>4, <1>5
    DEF Environment, UserTampers, GarbageCollects, GatewayChanges, ServiceChanges,
        cacheVars, eventVars

LEMMA BeginFinalizerInv ==
    ASSUME TypeOK, TypeOK', FinalizerInv, NEW i \in Ingresses, Begin(i)
    PROVE  FinalizerInv'
  <1>1. /\ pc = "idle" /\ cur = None
        /\ UNCHANGED <<ingress, ingressEvents, cachedIngress, incarnation>>
    BY DEF Begin, Ignore, BeginDeletion, Purge, BeginFinalizer, BeginApply, Convert, Take, TypeOK,
           clusterVars, serverVars, cacheVars, eventVars
  <1>2. CASE Ignore(i)
    BY <1>1, <1>2, StayStep DEF Ignore, WorkerKeeps, workVars
  <1>3. CASE BeginDeletion(i) \/ BeginFinalizer(i) \/ BeginApply(i)
    <2>1. cur' = i /\ copy' = cachedIngress[i] /\ cachedIngress[i] # None
      BY <1>3 DEF BeginDeletion, Purge, BeginFinalizer, BeginApply, Convert, Start
    <2>2. ASSUME NEW j \in Ingresses PROVE Version(j, 0)' = Version(j, 0)
      BY <1>1, <2>1, NoneAssumption DEF Version
    <2>3. \A j \in Ingresses : VersionsFit(j)'
      BY <1>1, <2>2, VersionsStay DEF FinalizerInv
    <2>4. CopyFits'
      <3>1. CASE BeginDeletion(i)
        BY <2>1, <3>1 DEF BeginDeletion, Purge, CopyFits, Guarded, Dying
      <3>2. CASE BeginApply(i)
        BY <2>1, <3>2 DEF BeginApply, Convert, CopyFits, Guarded, Dying
      <3>3. CASE BeginFinalizer(i)
        <4>1. ~Guarded(cachedIngress[i]) /\ ~Dying(cachedIngress[i])
          BY <3>3 DEF BeginFinalizer, Guarded, Dying
        <4>2. InPlay(i)' = InPlay(i)
          BY <1>1 DEF InPlay, Newest
        <4>3. ASSUME NEW n \in InPlay(i) PROVE DyingIsLive(i, n)'
          <5>1. Version(i, n)' = Version(i, n)
            BY <1>1, <2>2 DEF Version
          <5>2. Version(i, 0) = cachedIngress[i]
            BY <1>1, NoneAssumption DEF Version
          <5>3. CASE n = 0
            BY <4>1, <5>1, <5>2, <5>3 DEF DyingIsLive, Guarded, Dying, SameIngress
          <5>4. CASE n # 0
            <6>1. DyingIsLive(i, n)
              BY <4>1, <5>4 DEF FinalizerInv, VersionsFit, DyingIsLiveOrSeen
            <6> QED
              BY <1>1, <5>1, <6>1 DEF DyingIsLive, Guarded, Dying, SameIngress
          <5> QED
            BY <5>3, <5>4
        <4> QED
          BY <2>1, <3>3, <4>1, <4>2, <4>3 DEF BeginFinalizer, CopyFits, Guarded
      <3> QED
        BY <1>3, <3>1, <3>2, <3>3
    <2> QED
      BY <2>3, <2>4 DEF FinalizerInv
  <1> QED
    BY <1>2, <1>3 DEF Begin

LEMMA ReturnKeeps ==
    ASSUME Finish \/ Abandon
    PROVE  WorkerKeeps
  BY DEF Finish, Abandon, Idle, WorkerKeeps

\* The write that removes our finalizer.
LEMMA ReleaseStep ==
    ASSUME TypeOK, TypeOK', FinalizerInv, pc' = "idle", cur' = None,
           UNCHANGED <<cachedIngress, incarnation>>,
           NEW i \in Ingresses, NEW y \in IngressRecord \cup {None}, PutIngress(i, y),
           ~Guarded(y), Succeeds(i, y),
           Guarded(Version(i, 0)), Dying(Version(i, 0))
    PROVE  FinalizerInv'
  <1>1. Added(i, y)
    BY VersionAdded
  <1>2. incarnation[i] <= incarnation'[i]
    BY DEF TypeOK, ClusterTypeOK
  <1>3. VersionsFit(i)'
    BY <1>1, <1>2, AddedReleases DEF FinalizerInv
  <1>4. \A j \in Ingresses : VersionsFit(j)'
    BY <1>3, OthersStay DEF WorkerKeeps
  <1>5. CopyFits'
    BY DEF CopyFits
  <1> QED
    BY <1>4, <1>5 DEF FinalizerInv

LEMMA AddFinalizerStep ==
    ASSUME TypeOK, TypeOK', FinalizerInv, AddFinalizer
    PROVE  FinalizerInv'
  <1> DEFINE fs == copy.finalizers \cup {FinalizerName}
  <1>1. pc = "finalize" /\ cur \in Ingresses /\ copy \in IngressRecord
    BY DEF AddFinalizer, TypeOK
  <1>2. fs \in SUBSET Finalizers /\ FinalizerName \in fs
    BY <1>1 DEF IngressRecord, Finalizers
  <1>3. WorkerKeeps /\ UNCHANGED <<cachedIngress, incarnation>>
    BY ReturnKeeps DEF AddFinalizer, Answered, cacheVars
  <1>4. \A n \in InPlay(cur) : DyingIsLive(cur, n)
    BY <1>1 DEF FinalizerInv, CopyFits
  <1>5. CASE ingress[cur] # None /\ SetFinalizers(cur, fs)
    <2> HIDE DEF fs
    <2> QED
      BY <1>1, <1>2, <1>3, <1>4, <1>5, SetFinalizersStep
  <1>6. CASE UNCHANGED <<ingress, ingressEvents>>
    BY <1>3, <1>6, StayStep
  <1> QED
    BY <1>5, <1>6 DEF AddFinalizer

LEMMA RemoveFinalizerStep ==
    ASSUME TypeOK, TypeOK', FinalizerInv, RemoveFinalizer
    PROVE  FinalizerInv'
  <1>1. PICK i \in Ingresses : i = cur
    BY DEF RemoveFinalizer, TypeOK
  <1>2. PICK fs : fs = copy.finalizers \ {FinalizerName}
    OBVIOUS
  <1>3. pc = "purge" /\ copy \in IngressRecord
    BY DEF RemoveFinalizer, TypeOK
  <1>4. fs \in SUBSET Finalizers /\ FinalizerName \notin fs
    BY <1>2, <1>3 DEF IngressRecord
  <1>5. /\ pc' = "idle" /\ cur' = None
        /\ UNCHANGED <<cachedIngress, incarnation>>
    BY DEF RemoveFinalizer, Answered, Finish, Abandon, Idle, cacheVars
  <1>6. Guarded(Version(i, 0)) /\ Dying(Version(i, 0))
    BY <1>1, <1>3 DEF FinalizerInv, CopyFits, Version
  <1>7. CASE UNCHANGED <<ingress, ingressEvents>>
    BY <1>5, <1>7, StayStep DEF WorkerKeeps
  <1>8. CASE ingress[i] # None /\ SetFinalizers(i, fs)
    <2> DEFINE r == [ingress[i] EXCEPT !.finalizers = fs]
               y == NextVersion(r)
    <2>1. /\ ingress[i] \in IngressRecord /\ ingress[i].uid <= incarnation[i]
      BY <1>8, LiveFacts
    <2>2. /\ r \in IngressRecord /\ r.uid = ingress[i].uid
          /\ r.deleting = ingress[i].deleting /\ r.finalizers = fs
      BY <1>4, <2>1 DEF IngressRecord
    <2>3. /\ y \in IngressRecord /\ y.uid = ingress[i].uid
          /\ y.deleting = ingress[i].deleting /\ y.finalizers = fs
      BY <2>2, NextVersionFields
    <2> HIDE DEF r, y
    <2>4. y # None /\ ~Guarded(y) /\ Succeeds(i, y)
      BY <1>4, <1>5, <1>8, <2>1, <2>3, NoneAssumption
      DEF Guarded, Succeeds, SameIngress, Dying
    <2>5. ~Guarded(None) /\ Succeeds(i, None)
      BY DEF Guarded, Succeeds
    <2>6. CASE PutIngress(i, y)
      BY <1>5, <1>6, <2>3, <2>4, <2>6, ReleaseStep
    <2>7. CASE PutIngress(i, None)
      BY <1>5, <1>6, <2>5, <2>7, ReleaseStep
    <2> QED
      BY <1>7, <1>8, <2>6, <2>7 DEF SetFinalizers, r, y
  <1> QED
    BY <1>1, <1>2, <1>7, <1>8 DEF RemoveFinalizer

LEMMA UpdateIngressStatusStep ==
    ASSUME TypeOK, TypeOK', FinalizerInv, UpdateIngressStatus
    PROVE  FinalizerInv'
  <1>1. PICK i \in Ingresses : i = cur
    BY DEF UpdateIngressStatus, TypeOK
  <1>2. WorkerKeeps /\ UNCHANGED <<cachedIngress, incarnation>>
    BY ReturnKeeps DEF UpdateIngressStatus, cacheVars
  <1>3. CASE UNCHANGED <<ingress, ingressEvents>>
    BY <1>2, <1>3, StayStep
  <1>4. CASE /\ StatusDue
             /\ ingress[i] = copy
             /\ PutIngress(i, NextVersion([copy EXCEPT !.address = cachedGateway]))
    <2> DEFINE r == [copy EXCEPT !.address = cachedGateway]
               y == NextVersion(r)
    <2>1. ingress[i] # None /\ copy \in IngressRecord /\ cachedGateway \in Addresses
      BY <1>4 DEF UpdateIngressStatus, StatusDue, TypeOK, ClusterTypeOK
    <2>2. /\ r \in IngressRecord /\ r.uid = copy.uid
          /\ r.deleting = copy.deleting /\ r.finalizers = copy.finalizers
      BY <2>1 DEF IngressRecord
    <2>3. /\ y \in IngressRecord /\ y.uid = copy.uid
          /\ y.deleting = copy.deleting /\ y.finalizers = copy.finalizers
      BY <2>2, NextVersionFields
    <2>4. PutIngress(i, y)
      BY <1>4
    <2> HIDE DEF r, y
    <2>5. Guarded(y) <=> Guarded(ingress[i])
      BY <1>4, <2>1, <2>3, NoneAssumption DEF Guarded
    <2> QED
      BY <1>2, <1>4, <2>1, <2>3, <2>4, <2>5, ChangeStep
  <1> QED
    BY <1>1, <1>3, <1>4 DEF UpdateIngressStatus

LEMMA ContinueFinalizer ==
    ASSUME TypeOK, TypeOK', FinalizerInv, Continue
    PROVE  FinalizerInv'
  <1>1. CASE AddFinalizer
    BY <1>1, AddFinalizerStep
  <1>2. ASSUME NEW d \in toWrite, WriteObject(d)
        PROVE  FinalizerInv'
    BY <1>2, ReturnKeeps, StayStep
    DEF WriteObject, Answered, RequeueAfter, WorkerKeeps, cacheVars
  <1>3. CASE ListKind
    BY <1>3, StayStep
    DEF ListKind, WorkerKeeps, clusterVars, serverVars, cacheVars, eventVars
  <1>4. ASSUME NEW k \in toDelete, DeleteObject(k)
        PROVE  FinalizerInv'
    BY <1>4, ReturnKeeps, StayStep
    DEF DeleteObject, Answered, WorkerKeeps, cacheVars
  <1>5. CASE RemoveFinalizer
    BY <1>5, RemoveFinalizerStep
  <1>6. CASE UpdateIngressStatus
    BY <1>6, UpdateIngressStatusStep
  <1>7. CASE WriteFails
    BY <1>7, ReturnKeeps, StayStep
    DEF WriteFails, serverVars, cacheVars, eventVars
  <1> QED
    BY <1>1, <1>2, <1>3, <1>4, <1>5, <1>6, <1>7 DEF Continue

----
\* A delivery takes away the version in the cache.
LEMMA DeliveredOrder ==
    ASSUME TypeOK, NEW i \in Ingresses, DeliverIngress(i)
    PROVE  \E at \in [InPlay(i)' -> InPlay(i)] :
              /\ \A n \in InPlay(i)' : Version(i, n)' = Version(i, at[n])
              /\ \A m, n \in InPlay(i)' : m <= n => at[m] <= at[n]
              /\ at[Newest(i)'] = Newest(i)
              /\ at[1] >= 1
  <1> DEFINE events == ingressEvents[i]
  <1>1. /\ events \in Seq(IngressRecord \cup {None}) /\ events # <<>>
        /\ ingressEvents \in [Ingresses -> Seq(IngressRecord \cup {None})]
        /\ cachedIngress \in [Ingresses -> IngressRecord \cup {None}]
    BY DEF DeliverIngress, TypeOK, ClusterTypeOK
  <1>2. ingressEvents'[i] = Tail(events) /\ cachedIngress'[i] = events[1]
    BY <1>1 DEF DeliverIngress
  <1>3. UNCHANGED <<cur, copy>>
    BY DEF DeliverIngress, workVars
  <1>4. /\ Len(events) \in Nat /\ Len(events) >= 1
        /\ Len(Tail(events)) = Len(events) - 1
        /\ \A n \in 1 .. Len(events) - 1 : Tail(events)[n] = events[n + 1]
    BY <1>1
  <1>5. Newest(i) = Len(events) + 1 /\ Newest(i)' = Len(events)
    BY <1>2, <1>4 DEF Newest
  <1>6. /\ InPlay(i) = {n \in Nat : n <= Len(events) + 1}
        /\ InPlay(i)' = {n \in Nat : n <= Len(events)}
    BY <1>4, <1>5 DEF InPlay
  <1>7. PICK zero \in {0, 2} : Version(i, 0)' = Version(i, zero)
    <2>1. CASE cur = i
      BY <1>3, <2>1 DEF Version
    <2>2. CASE cur # i
      BY <1>2, <1>3, <2>2 DEF Version
    <2> QED
      BY <2>1, <2>2
  <1>8. ASSUME NEW n \in InPlay(i)', n # 0
        PROVE  Version(i, n)' = Version(i, n + 1)
    <2>1. n \in Nat /\ n >= 1 /\ n <= Len(events)
      BY <1>6, <1>8
    <2>2. Version(i, n + 1) = events[n]
      <3>1. n + 1 # 0 /\ n + 1 # 1 /\ (n + 1) - 1 = n
        BY <2>1
      <3> QED
        BY <3>1 DEF Version
    <2>3. CASE n = 1
      BY <1>2, <2>2, <2>3 DEF Version
    <2>4. CASE n # 1
      <3>1. n - 1 \in 1 .. Len(events) - 1 /\ (n - 1) + 1 = n
        BY <1>4, <2>1, <2>4
      <3>2. Version(i, n)' = ingressEvents'[i][n - 1]
        BY <1>8, <2>4 DEF Version
      <3> QED
        BY <1>2, <1>4, <2>2, <3>1, <3>2
    <2> QED
      BY <2>3, <2>4
  <1> DEFINE at == [n \in InPlay(i)' |-> IF n = 0 THEN zero ELSE n + 1]
  <1> HIDE DEF events
  <1>9. at \in [InPlay(i)' -> InPlay(i)]
    <2> SUFFICES ASSUME NEW n \in InPlay(i)'
                 PROVE  (IF n = 0 THEN zero ELSE n + 1) \in InPlay(i)
      OBVIOUS
    <2> QED
      BY <1>4, <1>6
  <1>10. \A n \in InPlay(i)' : Version(i, n)' = Version(i, at[n])
    BY <1>7, <1>8
  <1>11. \A m, n \in InPlay(i)' : m <= n => at[m] <= at[n]
    <2> SUFFICES ASSUME NEW m \in InPlay(i)', NEW n \in InPlay(i)', m <= n
                 PROVE  at[m] <= at[n]
      OBVIOUS
    <2>1. m \in Nat /\ n \in Nat
      BY <1>6
    <2>2. /\ at[m] = (IF m = 0 THEN zero ELSE m + 1)
          /\ at[n] = (IF n = 0 THEN zero ELSE n + 1)
      OBVIOUS
    <2> QED
      BY <2>1, <2>2
  <1>12. at[Newest(i)'] = Newest(i) /\ at[1] >= 1
    <2>1. Newest(i)' \in InPlay(i)' /\ 1 \in InPlay(i)' /\ Newest(i)' # 0
      BY <1>4, <1>5, <1>6
    <2> QED
      BY <1>5, <2>1
  <1> HIDE DEF at
  <1> QED
    BY <1>9, <1>10, <1>11, <1>12

LEMMA DeliverIngressStep ==
    ASSUME TypeOK, TypeOK', FinalizerInv, NEW i \in Ingresses, DeliverIngress(i)
    PROVE  FinalizerInv'
  <1>1. PICK at \in [InPlay(i)' -> InPlay(i)] :
              /\ \A n \in InPlay(i)' : Version(i, n)' = Version(i, at[n])
              /\ \A m, n \in InPlay(i)' : m <= n => at[m] <= at[n]
              /\ at[Newest(i)'] = Newest(i)
              /\ at[1] >= 1
    BY DeliveredOrder
  <1>2. UNCHANGED <<ingress, incarnation, pc, cur, copy>>
    BY DEF DeliverIngress, serverVars, workVars
  <1>3. VersionsFit(i)'
    BY <1>1, <1>2, VersionsTaken DEF FinalizerInv
  <1>4. ASSUME NEW j \in Ingresses, j # i
        PROVE  /\ ingressEvents'[j] = ingressEvents[j]
               /\ cachedIngress'[j] = cachedIngress[j]
    BY <1>4 DEF DeliverIngress, TypeOK, ClusterTypeOK
  <1>5. ASSUME NEW j \in Ingresses, j # i
        PROVE  VersionsFit(j)'
    <2>1. Version(j, 0)' = Version(j, 0)
      BY <1>2, <1>4, <1>5 DEF Version
    <2> QED
      BY <1>2, <1>4, <1>5, <2>1, VersionsStay DEF FinalizerInv
  <1>6. CopyFits'
    <2>1. CASE pc = "finalize"
      <3>1. PICK j \in Ingresses : j = cur
        BY <2>1 DEF TypeOK
      <3>2. ~Guarded(copy) /\ \A n \in InPlay(j) : DyingIsLive(j, n)
        BY <2>1, <3>1 DEF FinalizerInv, CopyFits
      <3>3. ASSUME NEW n \in InPlay(j)' PROVE DyingIsLive(j, n)'
        <4>1. CASE j = i
          BY <1>1, <1>2, <3>2, <3>3, <4>1 DEF DyingIsLive, Guarded, Dying, SameIngress
        <4>2. CASE j # i
          <5>1. InPlay(j)' = InPlay(j) /\ Version(j, n)' = Version(j, n)
            BY <1>2, <1>4, <4>2 DEF InPlay, Newest, Version
          <5> QED
            BY <1>2, <3>2, <3>3, <5>1 DEF DyingIsLive, Guarded, Dying, SameIngress
        <4> QED
          BY <4>1, <4>2
      <3> QED
        BY <1>2, <2>1, <3>1, <3>2, <3>3 DEF CopyFits, Guarded
    <2>2. CASE pc # "finalize"
      BY <1>2, <2>2 DEF FinalizerInv, CopyFits, Guarded, Dying
    <2> QED
      BY <2>1, <2>2
  <1> QED
    BY <1>3, <1>5, <1>6 DEF FinalizerInv

LEMMA DeliverFinalizer ==
    ASSUME TypeOK, TypeOK', FinalizerInv, Deliver
    PROVE  FinalizerInv'
  <1>1. ASSUME NEW i \in Ingresses, DeliverIngress(i)
        PROVE  FinalizerInv'
    BY <1>1, DeliverIngressStep
  <1>2. ASSUME NEW k \in Keys, DeliverObject(k)
        PROVE  FinalizerInv'
    BY <1>2, StayStep DEF DeliverObject, WorkerKeeps, serverVars, workVars
  <1>3. CASE Resync
    BY <1>3, StayStep
    DEF Resync, WorkerKeeps, clusterVars, serverVars, cacheVars, eventVars, workVars
  <1>4. CASE DeliverGateway \/ \E svc \in Services : DeliverService(svc)
    BY <1>4, StayStep
    DEF DeliverGateway, DeliverService, WorkerKeeps, serverVars, eventVars, workVars
  <1> QED
    BY <1>1, <1>2, <1>3, <1>4 DEF Deliver

\* A restart leaves of each Ingress the newest version.
LEMMA RestartFinalizer ==
    ASSUME TypeOK, TypeOK', FinalizerInv, Restart
    PROVE  FinalizerInv'
  <1>1. /\ UNCHANGED <<ingress, incarnation>> /\ cachedIngress' = ingress
        /\ pc' = "idle" /\ cur' = None
        /\ \A i \in Ingresses : ingressEvents'[i] = <<>>
    BY DEF Restart, Idle, serverVars
  <1>2. ASSUME NEW i \in Ingresses PROVE VersionsFit(i)'
    <2> DEFINE at == [n \in InPlay(i)' |-> Newest(i)]
    <2>1. /\ Newest(i) \in Nat /\ Newest(i) >= 1 /\ Newest(i) \in InPlay(i)
      BY InPlayFacts
    <2>2. Newest(i)' = 1 /\ InPlay(i)' = {0, 1}
      BY <1>1 DEF Newest, InPlay
    <2>3. at \in [InPlay(i)' -> InPlay(i)]
      BY <2>1
    <2>4. \A n \in InPlay(i)' : Version(i, n)' = ingress[i]
      BY <1>1, <2>2, NoneAssumption DEF Version
    <2>5. Version(i, Newest(i)) = ingress[i]
      BY DEF FinalizerInv, VersionsFit, NewestIsLive
    <2>6. \A n \in InPlay(i)' : Version(i, n)' = Version(i, at[n])
      BY <2>4, <2>5
    <2>7. \A m, n \in InPlay(i)' : m <= n => at[m] <= at[n]
      BY <2>1
    <2>8. at[Newest(i)'] = Newest(i) /\ at[1] >= 1
      BY <2>1, <2>2
    <2> HIDE DEF at
    <2> QED
      BY <1>1, <2>3, <2>6, <2>7, <2>8, VersionsTaken DEF FinalizerInv
  <1>3. CopyFits'
    BY <1>1 DEF CopyFits
  <1> QED
    BY <1>2, <1>3 DEF FinalizerInv

LEMMA InitFinalizer == Init => FinalizerInv
  <1> SUFFICES ASSUME Init PROVE FinalizerInv
    OBVIOUS
  <1>1. CopyFits
    BY DEF Init, CopyFits
  <1>2. ASSUME NEW i \in Ingresses PROVE VersionsFit(i)
    <2>1. Newest(i) = 1 /\ InPlay(i) = {0, 1}
      BY DEF Init, ClusterInit, Newest, InPlay
    <2>2. ingress[i] = None /\ \A n \in InPlay(i) : Version(i, n) = None
      BY <2>1, NoneAssumption DEF Init, ClusterInit, Version
    <2> QED
      BY <2>1, <2>2
      DEF VersionsFit, NewestIsLive, UidsIssued, DyingIsFinal, NoneGuardedBehind,
          GuardedIsLive, DyingIsLiveOrSeen, DyingIsLive, Guarded, Dying, SameIngress
  <1> QED
    BY <1>1, <1>2 DEF FinalizerInv

LEMMA NextFinalizer ==
    ASSUME TypeOK, TypeOK', FinalizerInv, [Next]_vars
    PROVE  FinalizerInv'
  <1>1. ASSUME NEW i \in Ingresses, Begin(i)
        PROVE  FinalizerInv'
    BY <1>1, BeginFinalizerInv
  <1>2. CASE Continue
    BY <1>2, ContinueFinalizer
  <1>3. CASE Deliver
    BY <1>3, DeliverFinalizer
  <1>4. CASE Restart
    BY <1>4, RestartFinalizer
  <1>5. CASE Environment /\ UNCHANGED <<queue, workVars>>
    BY <1>5, EnvironmentFinalizer
  <1>6. CASE UNCHANGED vars
    BY <1>6, StayStep
    DEF vars, WorkerKeeps, clusterVars, serverVars, cacheVars, eventVars, workVars
  <1> QED
    BY <1>1, <1>2, <1>3, <1>4, <1>5, <1>6 DEF Next

\* The inductive invariant holds in every state: for each Ingress, its versions
\* between the copy of the worker and the server fit together, and what the
\* worker is doing fits its copy.
THEOREM VersionsFitTogether == Spec => []FinalizerInv
  <1>1. TypeOK /\ FinalizerInv /\ TypeOK' /\ [Next]_vars => FinalizerInv'
    BY NextFinalizer
  <1> QED
    BY <1>1, InitFinalizer, TypeCorrect, PTL DEF Spec

LEMMA InvImpliesWrites ==
    ASSUME TypeOK, FinalizerInv
    PROVE  WritesUnderFinalizer
  <1> SUFFICES ASSUME pc = "apply"
               PROVE  /\ ingress[cur] # None
                      /\ ingress[cur].uid = copy.uid
                      /\ FinalizerName \in ingress[cur].finalizers
    BY DEF WritesUnderFinalizer
  <1>1. cur \in Ingresses /\ 0 \in InPlay(cur)
    BY InPlayFacts DEF TypeOK
  <1>2. Version(cur, 0) = copy
    BY DEF Version
  <1>3. Guarded(copy) /\ ~Dying(copy)
    BY DEF FinalizerInv, CopyFits
  <1> QED
    BY <1>1, <1>2, <1>3
    DEF FinalizerInv, VersionsFit, GuardedIsLive, Guarded, SameIngress

\* Reconcile decides from the cache whether an Ingress has the finalizer, and
\* then writes objects on the server: however far the cache is behind, and
\* whatever users, other controllers, failures and restarts do in between, the
\* Ingress it writes for is there, is the one it read, and has the finalizer, so
\* that its cleanup is still to come.
THEOREM NoWriteAfterCleanup == Spec => []WritesUnderFinalizer
  <1>1. TypeOK /\ FinalizerInv => WritesUnderFinalizer
    BY InvImpliesWrites
  <1> QED
    BY <1>1, TypeCorrect, VersionsFitTogether, PTL
====
