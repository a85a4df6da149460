---- MODULE ConversionProofs ----
(***************************************************************************)
(* Proofs about the conversion, for any Ingress and any duration.          *)
(***************************************************************************)
EXTENDS Converter, Durations, TLAPS

\* A policy is not an HTTPRoute.
LEMMA OnlyHTTPRoutes ==
    ASSUME NEW i, NEW spec, NEW ports,
           NEW d \in ConvertIngressFull(i, spec, ports), d.key.kind = "HTTPRoute"
    PROVE  d \in HTTPRoutes(i, spec, ports)
  BY DEF ConvertIngressFull, BackendTrafficPolicies, ClientTrafficPolicies,
         SecurityPolicies, BackendTLSPolicies, RoutePolicies, Object, Key

\* The backends of an Ingress are of its own namespace, and so are those of its
\* HTTPRoutes: none names another.
LEMMA LocalBackends ==
    ASSUME NEW i, NEW spec, NEW ports,
           NEW d \in HTTPRoutes(i, spec, ports), NEW ref \in d.body.refs
    PROVE  ref.ns = ""
  <1>1. CASE {r.host : r \in spec.rules} = {}
    <2>1. PICK b \in spec.default :
             d = Object(Key(i, "HTTPRoute", i.name), <<>>, {BackendRef(b, ports)})
      BY <1>1 DEF HTTPRoutes
    <2>2. ref = BackendRef(b, ports)
      BY <2>1 DEF Object
    <2> QED
      BY <2>2 DEF BackendRef
  <1>2. CASE {r.host : r \in spec.rules} # {}
    <2>1. PICK h \in {r.host : r \in spec.rules} :
             d = Object(Key(i, "HTTPRoute", RouteName(i, h)), h,
                        UNION {Backends(spec, r, ports) : r \in {q \in spec.rules : q.host = h}})
      BY <1>2 DEF HTTPRoutes
    <2>2. PICK r \in spec.rules : ref \in Backends(spec, r, ports)
      BY <2>1 DEF Object
    <2>3. ref = BackendRef(r, ports)
      BY <2>2 DEF Backends
    <2> QED
      BY <2>3 DEF BackendRef
  <1> QED
    BY <1>1, <1>2

\* reconcileReferenceGrants is called in every pass, and never has anything to do:
\* no Ingress is converted to an HTTPRoute that refers to another namespace.
THEOREM NoGrants ==
    ASSUME NEW i, NEW spec, NEW ports
    PROVE  GrantNamespaces(i, ConvertIngressFull(i, spec, ports)) = {}
  <1> DEFINE objects == ConvertIngressFull(i, spec, ports)
  <1>1. ASSUME NEW ns \in GrantNamespaces(i, objects)
        PROVE  FALSE
    <2>1. PICK d \in objects : d.key.kind = "HTTPRoute" /\ ns \in {ref.ns : ref \in d.body.refs}
      BY <1>1 DEF GrantNamespaces
    <2>2. ns # ""
      BY <1>1 DEF GrantNamespaces
    <2>3. d \in HTTPRoutes(i, spec, ports)
      BY <2>1, OnlyHTTPRoutes
    <2> QED
      BY <2>1, <2>2, <2>3, LocalBackends
  <1> QED
    BY <1>1

----
\* What a unit takes off a duration, and what it leaves.
LEMMA CountAndRest ==
    ASSUME NEW d \in Nat, NEW unit \in Nat \ {0}
    PROVE  /\ Count(d, unit) \in Nat
           /\ Rest(d, unit) \in 0 .. unit - 1
           /\ d = Count(d, unit) * unit + Rest(d, unit)
  <1>1. /\ d \div unit \in Nat
        /\ d % unit \in 0 .. unit - 1
        /\ d = (d \div unit) * unit + (d % unit)
    BY Z3
  <1>2. Quotient(d, unit) = d \div unit
    BY DEF Quotient
  <1>3. Count(d, unit) = d \div unit
    BY <1>1, <1>2 DEF Count
  <1>4. (d \div unit) * unit \in Nat
    BY <1>1
  <1> QED
    BY <1>1, <1>3, <1>4 DEF Rest

LEMMA CountBelow ==
    ASSUME NEW k \in Nat \ {0}, NEW unit \in Nat \ {0}, NEW n \in Nat, NEW rest \in Nat,
           NEW d \in 0 .. k * unit - 1, d = n * unit + rest
    PROVE  n < k
  <1> SUFFICES ASSUME n >= k PROVE FALSE
    OBVIOUS
  <1>1. n * unit >= k * unit /\ n * unit \in Nat /\ k * unit \in Nat
    BY Z3
  <1> QED
    BY <1>1

\* The numbers of a text of formatDuration.
Units == [h : Nat, m : 0 .. 59, s : 0 .. 59, ms : 0 .. 999]

\* formatDuration: a duration that is not negative is kept, up to what is less
\* than a millisecond, however long it is; and each number of its text is less
\* than one of the next larger unit.
THEOREM DurationsSurvive ==
    ASSUME NEW d \in Nat
    PROVE  /\ formatDuration(d) \in Units
           /\ Meaning(formatDuration(d)) <= d
           /\ d < Meaning(formatDuration(d)) + Millisecond
  <1> USE DurationAssumption
  <1> DEFINE dh == AfterHours(d)
             dm == AfterMinutes(d)
             ds == AfterSeconds(d)
             h  == Count(d, Hour)
             m  == Count(dh, Minute)
             s  == Count(dm, Second)
             ms == Count(ds, Millisecond)
  <1>0. /\ Second \in Nat \ {0} /\ Second = 1000 * Millisecond
        /\ Minute \in Nat \ {0} /\ Minute = 60 * Second
        /\ Hour \in Nat \ {0} /\ Hour = 60 * Minute
    BY DEF Second, Minute, Hour
  <1>1. h \in Nat /\ dh \in 0 .. Hour - 1 /\ d = h * Hour + dh
    BY <1>0, CountAndRest DEF AfterHours
  <1>2. m \in Nat /\ dm \in 0 .. Minute - 1 /\ dh = m * Minute + dm
    <2>1. dh \in Nat
      BY <1>0, <1>1
    <2>2. dm = Rest(dh, Minute)
      BY DEF AfterMinutes
    <2> HIDE DEF dh, dm
    <2> QED
      BY <1>0, <2>1, <2>2, CountAndRest
  <1>3. s \in Nat /\ ds \in 0 .. Second - 1 /\ dm = s * Second + ds
    <2>1. dm \in Nat
      BY <1>0, <1>2
    <2>2. ds = Rest(dm, Second)
      BY DEF AfterSeconds
    <2> HIDE DEF dm, ds
    <2> QED
      BY <1>0, <2>1, <2>2, CountAndRest
  <1>4. /\ ms \in Nat /\ Rest(ds, Millisecond) \in 0 .. Millisecond - 1
        /\ ds = ms * Millisecond + Rest(ds, Millisecond)
    <2>1. ds \in Nat
      BY <1>0, <1>3
    <2> HIDE DEF ds
    <2> QED
      BY <2>1, CountAndRest
  <1>5. formatDuration(d) = [h |-> h, m |-> m, s |-> s, ms |-> ms]
    BY DEF formatDuration
  <1>6. Meaning(formatDuration(d)) = h * Hour + m * Minute + s * Second + ms * Millisecond
    BY <1>5 DEF Meaning
  <1> HIDE DEF h, m, s, ms, dh, dm, ds
  <1>7. m < 60
    <2>1. dh \in 0 .. 60 * Minute - 1 /\ dm \in Nat
      BY <1>0, <1>1, <1>2
    <2> QED
      BY <1>0, <1>2, <2>1, CountBelow
  <1>8. s < 60
    <2>1. dm \in 0 .. 60 * Second - 1 /\ ds \in Nat
      BY <1>0, <1>2, <1>3
    <2> QED
      BY <1>0, <1>3, <2>1, CountBelow
  <1>9. ms < 1000
    <2>1. ds \in 0 .. 1000 * Millisecond - 1 /\ Rest(ds, Millisecond) \in Nat
      BY <1>0, <1>3, <1>4
    <2> QED
      BY <1>0, <1>4, <2>1, CountBelow
  <1> QED
    <2>1. formatDuration(d) \in Units
      BY <1>1, <1>2, <1>3, <1>4, <1>5, <1>7, <1>8, <1>9 DEF Units
    <2>2. /\ h * Hour \in Nat /\ m * Minute \in Nat
          /\ s * Second \in Nat /\ ms * Millisecond \in Nat
      BY <1>0, <1>1, <1>2, <1>3, <1>4
    <2>3. d = Meaning(formatDuration(d)) + Rest(ds, Millisecond)
      BY <1>1, <1>2, <1>3, <1>4, <1>6, <2>2
    <2> QED
      BY <1>4, <1>6, <2>1, <2>2, <2>3
====
