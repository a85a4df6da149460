---- MODULE ObjectProofs ----
(***************************************************************************)
(* Proofs about the objects of a pass, for any Ingresses, specs and        *)
(* bounds: as long as nobody else touches them and the names the converter *)
(* makes for one Ingress are distinct, nothing stale goes before all that  *)
(* replaces it is there.                                                   *)
(***************************************************************************)
EXTENDS FinalizerProofs, SequenceTheorems

\* The hosts of an Ingress are different after "." has become "-", too. (It is so
\* of hosts without "-" and "wildcard": see PlainHostsApart.)
HostsApart(spec) ==
    \A r, q \in spec.rules : Sanitize(r.host) = Sanitize(q.host) => r.host = q.host

PlainHost(host) == \A n \in DOMAIN host : host[n] \notin {"-", "wildcard"}

\* The texts that names are put together from.
LEMMA ShortTexts ==
    ASSUME NEW S, NEW a \in S, NEW b \in S
    PROVE  /\ <<a>> \in Seq(S) /\ Len(<<a>>) = 1 /\ <<a>>[1] = a
           /\ <<a, b>> \in Seq(S) /\ Len(<<a, b>>) = 2 /\ <<a, b>>[1] = a
  OBVIOUS

\* The texts of names. (The provers do not know that a literal is in STRING.)
Token == STRING \cup {"-", "wildcard", "backend", "client", "security", "tls"}

LEMMA Texts == Seq(STRING) \subseteq Seq(Token)
  BY SeqMonotonic DEF Token

LEMMA SanitizeType ==
    ASSUME NEW host \in Seq(Token)
    PROVE  /\ Sanitize(host) \in Seq(Token)
           /\ Len(Sanitize(host)) = Len(host)
           /\ DOMAIN Sanitize(host) = DOMAIN host
  <1>1. host \in [1 .. Len(host) -> Token] /\ Len(host) \in Nat /\ DOMAIN host = 1 .. Len(host)
    BY LenProperties
  <1>2. Sanitize(host) \in [1 .. Len(host) -> Token]
    BY <1>1 DEF Sanitize, Token
  <1> QED
    BY <1>1, <1>2, SeqDef

LEMMA SanitizeKeeps ==
    ASSUME NEW g \in Seq(Token), NEW h \in Seq(Token), PlainHost(g), PlainHost(h),
           Sanitize(g) = Sanitize(h)
    PROVE  g = h
  <1>1. Len(g) = Len(h) /\ DOMAIN g = DOMAIN h
    BY SanitizeType
  <1>2. ASSUME NEW n \in DOMAIN g
        PROVE  g[n] = h[n]
    <2>1. Sanitize(g)[n] = Sanitize(h)[n]
      OBVIOUS
    <2>2. g[n] \notin {"-", "wildcard"} /\ h[n] \notin {"-", "wildcard"}
      BY <1>1 DEF PlainHost
    <2> QED
      BY <1>1, <2>1, <2>2 DEF Sanitize
  <1> QED
    BY <1>1, <1>2, LenProperties, SeqEqual

LEMMA PlainHostsApart ==
    ASSUME NEW spec \in IngressSpec, \A r \in spec.rules : PlainHost(r.host)
    PROVE  HostsApart(spec)
  <1>1. \A r \in spec.rules : r.host \in Seq(Token)
    BY Texts DEF IngressSpec
  <1> QED
    BY <1>1, SanitizeKeeps DEF HostsApart

\* generateRouteName: of hosts that stay different, the names are different.
LEMMA RouteNames ==
    ASSUME NEW i \in IngressId, NEW g \in Seq(Token), NEW h \in Seq(Token),
           RouteName(i, g) = RouteName(i, h)
    PROVE  Sanitize(g) = Sanitize(h)
  <1> DEFINE stem == i.name \o <<"-">>
  <1>1. i.name \in Seq(Token) /\ <<"-">> \in Seq(Token) /\ Len(<<"-">>) = 1
    BY Texts, ShortTexts DEF IngressId, Token
  <1>2. stem \in Seq(Token) /\ Len(stem) = Len(i.name) + 1 /\ Len(i.name) \in Nat
    BY <1>1, ConcatProperties, LenProperties
  <1> HIDE DEF stem
  <1>3. ASSUME NEW host \in Seq(Token)
        PROVE  Len(stem \o Sanitize(host)) # Len(i.name)
    <2>1. /\ Sanitize(host) \in Seq(Token)
          /\ Len(Sanitize(host)) \in Nat
      BY SanitizeType, LenProperties
    <2>2. Len(stem \o Sanitize(host)) = Len(stem) + Len(Sanitize(host))
      BY <1>2, <2>1, ConcatProperties
    <2> QED
      BY <1>2, <2>1, <2>2
  <1>4. \A host : RouteName(i, host) = IF host = <<>> THEN i.name ELSE stem \o Sanitize(host)
    BY DEF RouteName, stem
  <1>5. CASE g = <<>> \/ h = <<>>
    BY <1>3, <1>4, <1>5
  <1>6. CASE g # <<>> /\ h # <<>>
    <2>1. stem \o Sanitize(g) = stem \o Sanitize(h)
      BY <1>4, <1>6
    <2> QED
      BY <1>2, <2>1, SanitizeType, ConcatSimplifications
  <1> QED
    BY <1>5, <1>6

\* What the HTTPRoutes of an Ingress look like.
LEMMA RouteShape ==
    ASSUME NEW i \in IngressId, NEW spec \in IngressSpec, NEW declared,
           NEW d \in HTTPRoutes(i, spec, declared)
    PROVE  \E host \in Seq(Token) : d.key = Key(i, "HTTPRoute", RouteName(i, host))
  <1>1. CASE {r.host : r \in spec.rules} = {}
    <2>1. <<>> \in Seq(Token) /\ RouteName(i, <<>>) = i.name
      BY EmptySeq DEF RouteName
    <2>2. d.key = Key(i, "HTTPRoute", i.name)
      BY <1>1 DEF HTTPRoutes, Object
    <2> QED
      BY <2>1, <2>2
  <1>2. CASE {r.host : r \in spec.rules} # {}
    <2>1. {r.host : r \in spec.rules} \subseteq Seq(Token)
      BY Texts DEF IngressSpec
    <2> QED
      BY <1>2, <2>1 DEF HTTPRoutes, Object
  <1> QED
    BY <1>1, <1>2

LEMMA RouteNameType ==
    ASSUME NEW i \in IngressId, NEW host \in Seq(Token)
    PROVE  RouteName(i, host) \in Seq(Token)
  <1>1. /\ i.name \in Seq(Token) /\ <<"-">> \in Seq(Token)
        /\ Sanitize(host) \in Seq(Token)
    BY SanitizeType, Texts, ShortTexts DEF IngressId, Token
  <1>2. i.name \o <<"-">> \in Seq(Token)
    BY <1>1, ConcatProperties
  <1>3. (i.name \o <<"-">>) \o Sanitize(host) \in Seq(Token)
    BY <1>1, <1>2, ConcatProperties
  <1> QED
    BY <1>1, <1>3 DEF RouteName

LEMMA RoutesDistinct ==
    ASSUME NEW i \in IngressId, NEW spec \in IngressSpec, NEW declared,
           HostsApart(spec), \A b, c \in spec.default : b = c,
           NEW d \in HTTPRoutes(i, spec, declared),
           NEW e \in HTTPRoutes(i, spec, declared), d.key = e.key
    PROVE  d = e
  <1>1. CASE {r.host : r \in spec.rules} = {}
    BY <1>1 DEF HTTPRoutes
  <1>2. CASE {r.host : r \in spec.rules} # {}
    <2> DEFINE Made(h) ==
                 Object(Key(i, "HTTPRoute", RouteName(i, h)), h,
                        UNION {Backends(spec, r, declared) :
                                  r \in {q \in spec.rules : q.host = h}})
    <2>1. PICK g \in {r.host : r \in spec.rules}, h \in {r.host : r \in spec.rules} :
             d = Made(g) /\ e = Made(h)
      BY <1>2 DEF HTTPRoutes
    <2>2. g \in Seq(Token) /\ h \in Seq(Token)
      BY Texts DEF IngressSpec
    <2>3. RouteName(i, g) = RouteName(i, h)
      BY <2>1 DEF Object, Key
    <2>4. g = h
      BY <2>2, <2>3, RouteNames DEF HostsApart
    <2> QED
      BY <2>1, <2>4
  <1> QED
    BY <1>1, <1>2

\* A policy has the name of its HTTPRoute and a suffix.
LEMMA PolicyShape ==
    ASSUME NEW i \in IngressId, NEW spec \in IngressSpec, NEW declared, NEW groups,
           NEW kind, NEW suffix \in Token, NEW refs,
           NEW d \in RoutePolicies(i, spec, HTTPRoutes(i, spec, declared), groups,
                                   kind, suffix, refs)
    PROVE  \E host \in Seq(Token) :
               d = Object(Key(i, kind, RouteName(i, host) \o <<"-", suffix>>),
                          RouteName(i, host), refs)
  <1>1. PICK r \in HTTPRoutes(i, spec, declared) :
           d = Object(Key(i, kind, r.key.name \o <<"-", suffix>>), r.key.name, refs)
    BY DEF RoutePolicies
  <1>2. PICK host \in Seq(Token) : r.key = Key(i, "HTTPRoute", RouteName(i, host))
    BY RouteShape
  <1>3. r.key.name = RouteName(i, host)
    BY <1>2 DEF Key
  <1> QED
    BY <1>1, <1>3

LEMMA PoliciesDistinct ==
    ASSUME NEW i \in IngressId, NEW spec \in IngressSpec, NEW declared, NEW groups,
           NEW kind, NEW suffix \in Token, NEW refs,
           NEW d \in RoutePolicies(i, spec, HTTPRoutes(i, spec, declared), groups,
                                   kind, suffix, refs),
           NEW e \in RoutePolicies(i, spec, HTTPRoutes(i, spec, declared), groups,
                                   kind, suffix, refs),
           d.key = e.key
    PROVE  d = e
  <1>1. PICK g \in Seq(Token) :
           d = Object(Key(i, kind, RouteName(i, g) \o <<"-", suffix>>), RouteName(i, g), refs)
    BY PolicyShape
  <1>2. PICK h \in Seq(Token) :
           e = Object(Key(i, kind, RouteName(i, h) \o <<"-", suffix>>), RouteName(i, h), refs)
    BY PolicyShape
  <1>3. RouteName(i, g) \o <<"-", suffix>> = RouteName(i, h) \o <<"-", suffix>>
    BY <1>1, <1>2 DEF Object, Key
  <1>4. <<"-", suffix>> \in Seq(Token)
    BY ShortTexts DEF Token
  <1>5. RouteName(i, g) = RouteName(i, h)
    BY <1>3, <1>4, RouteNameType, ConcatSimplifications
  <1> QED
    BY <1>1, <1>2, <1>5

\* The Services the HTTPRoutes refer to are those of the rules and the default.
LEMMA ServicesType ==
    ASSUME NEW i \in IngressId, NEW spec \in IngressSpec, NEW declared,
           NEW d \in HTTPRoutes(i, spec, declared), NEW ref \in d.body.refs
    PROVE  ref.service \in Seq(Token)
  <1>1. CASE {r.host : r \in spec.rules} = {}
    <2>1. PICK b \in spec.default : ref = BackendRef(b, declared)
      BY <1>1 DEF HTTPRoutes, Object
    <2> QED
      BY <2>1, Texts DEF BackendRef, IngressSpec
  <1>2. CASE {r.host : r \in spec.rules} # {}
    <2>1. PICK h \in {r.host : r \in spec.rules} :
             d = Object(Key(i, "HTTPRoute", RouteName(i, h)), h,
                        UNION {Backends(spec, r, declared) :
                                  r \in {q \in spec.rules : q.host = h}})
      BY <1>2 DEF HTTPRoutes
    <2>2. PICK r \in spec.rules : ref \in Backends(spec, r, declared)
      BY <2>1 DEF Object
    <2>3. ref = BackendRef(r, declared)
      BY <2>2 DEF Backends
    <2> QED
      BY <2>3, Texts DEF BackendRef, IngressSpec
  <1> QED
    BY <1>1, <1>2

LEMMA TLSDistinct ==
    ASSUME NEW i \in IngressId, NEW spec \in IngressSpec, NEW declared,
           NEW d \in BackendTLSPolicies(i, spec, HTTPRoutes(i, spec, declared)),
           NEW e \in BackendTLSPolicies(i, spec, HTTPRoutes(i, spec, declared)),
           d.key = e.key
    PROVE  d = e
  <1> DEFINE referred == UNION {{ref.service : ref \in r.body.refs} :
                                   r \in HTTPRoutes(i, spec, declared)}
             services == (referred \cup {b.service : b \in spec.default}) \ {NoService}
  <1>1. PICK s \in services, t \in services :
           /\ d = Object(Key(i, "BackendTLSPolicy", s \o <<"-", "tls">>), s, {})
           /\ e = Object(Key(i, "BackendTLSPolicy", t \o <<"-", "tls">>), t, {})
    BY DEF BackendTLSPolicies
  <1>2. services \subseteq Seq(Token)
    <2>1. referred \subseteq Seq(Token)
      BY ServicesType
    <2>2. {b.service : b \in spec.default} \subseteq Seq(Token)
      BY Texts DEF IngressSpec
    <2> QED
      BY <2>1, <2>2
  <1>3. s \o <<"-", "tls">> = t \o <<"-", "tls">>
    BY <1>1 DEF Object, Key
  <1>4. <<"-", "tls">> \in Seq(Token)
    BY ShortTexts DEF Token
  <1>5. s = t
    BY <1>2, <1>3, <1>4, ConcatSimplifications
  <1> QED
    BY <1>1, <1>5

\* No two objects of one conversion have the same kind and name.
NamesDistinct ==
    \A i \in Ingresses, spec \in Specs, declared \in Declarations :
        \A d, e \in ConvertIngressFull(i, spec, declared) : d.key = e.key => d = e

\* The kind and the namespace of an HTTPRoute.
LEMMA RouteKeys ==
    ASSUME NEW i, NEW spec, NEW declared, NEW d \in HTTPRoutes(i, spec, declared)
    PROVE  d.key.kind = "HTTPRoute" /\ d.key.ns = i.ns
  <1>1. PICK name, on, refs : d = Object(Key(i, "HTTPRoute", name), on, refs)
    BY DEF HTTPRoutes
  <1>2. d.key = Key(i, "HTTPRoute", name)
    BY <1>1 DEF Object
  <1> QED
    BY <1>2 DEF Key

\* The kinds of the five lists of ConvertIngressFull.
LEMMA KindsOfLists ==
    ASSUME NEW i, NEW spec, NEW declared
    PROVE  LET routes == HTTPRoutes(i, spec, declared)
           IN  /\ \A d \in routes : d.key.kind = "HTTPRoute"
               /\ \A d \in BackendTrafficPolicies(i, spec, routes) :
                      d.key.kind = "BackendTrafficPolicy"
               /\ \A d \in ClientTrafficPolicies(i, spec) : d.key.kind = "ClientTrafficPolicy"
               /\ \A d \in SecurityPolicies(i, spec, routes) : d.key.kind = "SecurityPolicy"
               /\ \A d \in BackendTLSPolicies(i, spec, routes) :
                      d.key.kind = "BackendTLSPolicy"
  <1>1. \A d \in HTTPRoutes(i, spec, declared) : d.key.kind = "HTTPRoute"
    BY RouteKeys
  <1>2. \A groups, kind, suffix, refs :
            \A d \in RoutePolicies(i, spec, HTTPRoutes(i, spec, declared), groups,
                                   kind, suffix, refs) : d.key.kind = kind
    BY DEF RoutePolicies, Object, Key
  <1> QED
    BY <1>1, <1>2 DEF BackendTrafficPolicies, ClientTrafficPolicies, SecurityPolicies,
                      BackendTLSPolicies, Object, Key

LEMMA ConversionDistinct ==
    ASSUME NEW i \in IngressId, NEW spec \in IngressSpec, NEW declared,
           HostsApart(spec), \A b, c \in spec.default : b = c,
           NEW d \in ConvertIngressFull(i, spec, declared),
           NEW e \in ConvertIngressFull(i, spec, declared), d.key = e.key
    PROVE  d = e
  <1> DEFINE routes == HTTPRoutes(i, spec, declared)
  <1>1. CASE d \in routes /\ e \in routes
    BY <1>1, RoutesDistinct
  <1>2. CASE /\ d \in BackendTrafficPolicies(i, spec, routes)
             /\ e \in BackendTrafficPolicies(i, spec, routes)
    BY <1>2, PoliciesDistinct DEF BackendTrafficPolicies, Token
  <1>3. CASE d \in ClientTrafficPolicies(i, spec) /\ e \in ClientTrafficPolicies(i, spec)
    BY <1>3 DEF ClientTrafficPolicies
  <1>4. CASE d \in SecurityPolicies(i, spec, routes) /\ e \in SecurityPolicies(i, spec, routes)
    BY <1>4, PoliciesDistinct DEF SecurityPolicies, Token
  <1>5. CASE d \in BackendTLSPolicies(i, spec, routes) /\ e \in BackendTLSPolicies(i, spec, routes)
    BY <1>5, TLSDistinct
  <1> QED
    BY <1>1, <1>2, <1>3, <1>4, <1>5, KindsOfLists DEF ConvertIngressFull

LEMMA NamesAreDistinct ==
    ASSUME \A spec \in Specs : HostsApart(spec)
    PROVE  NamesDistinct
  BY ConversionDistinct, InputAssumption DEF NamesDistinct

----
Product(d) == [src |-> cur, uid |-> copy.uid, body |-> d.body]

Distinct(objects) == \A d, e \in objects : d.key = e.key => d = e

\* The invariant that is inductive: what the worker has yet to write or to delete
\* is set apart from what it has written.
PassInv ==
    /\ want # {} => pc = "apply"
    /\ Distinct(want)
    /\ \A d \in want \ toWrite : object[d.key] = Product(d)
    /\ toDelete # {} => toWrite = {}
    /\ \A d \in want : d.key \notin toDelete

LEMMA InitPass == Init => PassInv
  BY DEF Init, PassInv, Distinct

LEMMA IdlePass ==
    ASSUME Idle
    PROVE  PassInv'
  BY DEF Idle, PassInv, Distinct

\* A step that leaves the work as it is and the objects of this pass alone.
LEMMA StayPass ==
    ASSUME PassInv, UNCHANGED workVars,
           \A d \in want \ toWrite : object'[d.key] = object[d.key]
    PROVE  PassInv'
  BY DEF PassInv, Distinct, Product, workVars

\* The collector does not take what was made in this pass: its owner is there.
LEMMA CollectorSpares ==
    ASSUME TypeOK, FinalizerInv, PassInv, NEW k \in Keys, GarbageCollects(k),
           NEW d \in want \ toWrite
    PROVE  object'[d.key] = object[d.key]
  <1>1. pc = "apply" /\ object[d.key] = Product(d)
    BY DEF PassInv
  <1>2. ingress[cur] # None /\ ingress[cur].uid = copy.uid
    BY <1>1, InvImpliesWrites DEF WritesUnderFinalizer
  <1>3. d.key # k
    <2> SUFFICES ASSUME d.key = k PROVE FALSE
      OBVIOUS
    <2>1. object[k].src = cur /\ object[k].uid = copy.uid
      BY <1>1 DEF Product
    <2> QED
      BY <1>2, <2>1 DEF GarbageCollects, Orphaned
  <1>4. d.key \in Keys
    BY DEF TypeOK, Keys
  <1> QED
    BY <1>3, <1>4 DEF GarbageCollects, PutObject, TypeOK, ClusterTypeOK

LEMMA EnvironmentPass ==
    ASSUME TypeOK, FinalizerInv, PassInv, "tamper" \notin Disturbances,
           Environment, UNCHANGED workVars
    PROVE  PassInv'
  <1>1. ASSUME NEW k \in Keys, GarbageCollects(k)
        PROVE  PassInv'
    BY <1>1, CollectorSpares, StayPass
  <1>2. CASE UNCHANGED object
    BY <1>2, StayPass
  <1> QED
    BY <1>1, <1>2
    DEF Environment, UserCreates, UserEdits, UserDeletes, OtherFinalizerChanges,
        UserTampers, Spend, GatewayChanges, ServiceChanges

LEMMA BeginPass ==
    ASSUME TypeOK, PassInv, NamesDistinct, NEW i \in Ingresses, Begin(i)
    PROVE  PassInv'
  <1>1. CASE Ignore(i)
    BY <1>1, StayPass DEF Ignore, Take, clusterVars, serverVars
  <1>2. CASE BeginDeletion(i) \/ BeginFinalizer(i)
    BY <1>2 DEF BeginDeletion, Purge, BeginFinalizer, Start, PassInv, Distinct
  <1>3. CASE BeginApply(i)
    <2>1. cachedIngress[i].spec \in Specs /\ cachedPorts \in Declarations
      BY <1>3 DEF BeginApply, Convert, TypeOK, ClusterTypeOK, IngressRecord
    <2>2. /\ want' = ConvertIngressFull(i, cachedIngress[i].spec, cachedPorts)
          /\ toWrite' = want' /\ toDelete' = {} /\ pc' = "apply"
      BY <1>3 DEF BeginApply, Convert, Start
    <2>3. Distinct(want')
      BY <2>1, <2>2 DEF NamesDistinct, Distinct
    <2> QED
      BY <2>2, <2>3 DEF PassInv, Distinct
  <1> QED
    BY <1>1, <1>2, <1>3 DEF Begin

LEMMA WritePass ==
    ASSUME TypeOK, PassInv, NEW d \in toWrite, WriteObject(d)
    PROVE  PassInv'
  <1>1. toDelete = {} /\ d \in want /\ d.key \in Keys
    BY DEF PassInv, TypeOK, Keys
  <1>2. CASE Idle
    BY <1>2, IdlePass
  <1>3. CASE /\ StoreObject(d.key, Product(d))
             /\ toWrite' = toWrite \ {d}
             /\ UNCHANGED <<pc, cur, copy, want, toList, toDelete>>
    <2>1. object'[d.key] = Product(d)
      BY <1>1, <1>3 DEF StoreObject, PutObject, TypeOK, ClusterTypeOK
    <2>2. ASSUME NEW e \in want \ toWrite'
          PROVE  object'[e.key] = Product(e)
      <3>1. CASE e = d
        BY <2>1, <3>1
      <3>2. CASE e # d
        <4>1. e \in want \ toWrite
          BY <1>3, <2>2, <3>2
        <4>2. e.key # d.key /\ object[e.key] = Product(e) /\ e.key \in Keys
          BY <1>1, <3>2, <4>1 DEF PassInv, Distinct, TypeOK, Keys
        <4> QED
          BY <1>1, <1>3, <4>2 DEF StoreObject, PutObject, TypeOK, ClusterTypeOK
      <3> QED
        BY <3>1, <3>2
    <2> QED
      BY <1>1, <1>3, <2>2 DEF PassInv, Distinct, Product
  <1> QED
    BY <1>2, <1>3 DEF WriteObject, Answered, RequeueAfter, Abandon, Product

LEMMA DeletePass ==
    ASSUME TypeOK, PassInv, NEW k \in toDelete, DeleteObject(k)
    PROVE  PassInv'
  <1>1. CASE Idle
    BY <1>1, IdlePass
  <1>2. CASE /\ toDelete' = toDelete \ {k}
             /\ UNCHANGED <<pc, cur, copy, want, toWrite, toList>>
    <2>1. ASSUME NEW d \in want
          PROVE  object'[d.key] = object[d.key]
      <3>1. d.key # k /\ d.key \in Keys /\ k \in Keys
        BY DEF PassInv, TypeOK, Keys
      <3> QED
        BY <3>1 DEF DeleteObject, StoreObject, PutObject, TypeOK, ClusterTypeOK
    <2> QED
      BY <1>2, <2>1 DEF PassInv, Distinct, Product
  <1> QED
    BY <1>1, <1>2 DEF DeleteObject, Answered, Abandon

LEMMA ContinuePass ==
    ASSUME TypeOK, PassInv, Continue
    PROVE  PassInv'
  <1>1. CASE ListKind
    <2>1. /\ toWrite = {} /\ UNCHANGED <<object, pc, cur, copy, want, toWrite>>
          /\ toDelete' = Unwanted(First(toList))
      BY <1>1 DEF ListKind, clusterVars, serverVars
    <2>2. \A d \in want : d.key \notin toDelete'
      BY <2>1 DEF Unwanted, Expected
    <2> QED
      BY <2>1, <2>2 DEF PassInv, Distinct, Product
  <1>2. CASE AddFinalizer \/ RemoveFinalizer \/ UpdateIngressStatus \/ WriteFails
    <2>1. Idle
      BY <1>2 DEF AddFinalizer, RemoveFinalizer, UpdateIngressStatus, WriteFails,
                  Answered, Finish, Abandon
    <2> QED
      BY <2>1, IdlePass
  <1> QED
    BY <1>1, <1>2, WritePass, DeletePass DEF Continue

LEMMA NextPass ==
    ASSUME TypeOK, FinalizerInv, PassInv, NamesDistinct, "tamper" \notin Disturbances,
           [Next]_vars
    PROVE  PassInv'
  <1>1. CASE Deliver \/ UNCHANGED vars
    BY <1>1, StayPass
    DEF Deliver, DeliverIngress, DeliverObject, DeliverGateway, DeliverService, Resync,
        vars, clusterVars, serverVars
  <1>2. CASE Restart
    BY <1>2, IdlePass DEF Restart
  <1> QED
    BY <1>1, <1>2, BeginPass, ContinuePass, EnvironmentPass DEF Next

LEMMA PassImpliesMakeBeforeBreak ==
    ASSUME PassInv
    PROVE  MakeBeforeBreak
  BY DEF PassInv, MakeBeforeBreak, Product

\* However the caches lag, and whatever users, the collector, failures and
\* restarts do meanwhile: while the worker of Reconcile deletes what an Ingress
\* no longer asks for, all it does ask for is on the server.
THEOREM MakesBeforeItBreaks ==
    ASSUME \A spec \in Specs : HostsApart(spec), "tamper" \notin Disturbances
    PROVE  Spec => []MakeBeforeBreak
  <1>1. TypeOK /\ FinalizerInv /\ PassInv /\ [Next]_vars => PassInv'
    BY NextPass, NamesAreDistinct
  <1>2. PassInv => MakeBeforeBreak
    BY PassImpliesMakeBeforeBreak
  <1> QED
    BY <1>1, <1>2, InitPass, TypeCorrect, VersionsFitTogether, PTL DEF Spec

WantDistinct == Distinct(want)

LEMMA NextWant ==
    ASSUME TypeOK, NamesDistinct, WantDistinct, [Next]_vars
    PROVE  WantDistinct'
  <1> USE DEF WantDistinct
  <1>1. CASE want' = want \/ want' = {}
    BY <1>1 DEF Distinct
  <1>2. ASSUME NEW i \in Ingresses, BeginApply(i)
        PROVE  WantDistinct'
    <2>1. cachedIngress[i].spec \in Specs /\ cachedPorts \in Declarations
      BY <1>2 DEF BeginApply, Convert, TypeOK, ClusterTypeOK, IngressRecord
    <2>2. want' = ConvertIngressFull(i, cachedIngress[i].spec, cachedPorts)
      BY <1>2 DEF BeginApply, Convert
    <2> QED
      BY <2>1, <2>2 DEF NamesDistinct, Distinct
  <1>3. CASE Continue
    BY <1>1, <1>3
    DEF Continue, ListKind, AddFinalizer, RemoveFinalizer, UpdateIngressStatus,
        WriteFails, WriteObject, DeleteObject, Answered, RequeueAfter, Finish, Abandon,
        Idle
  <1>4. ASSUME NEW i \in Ingresses, Ignore(i) \/ BeginDeletion(i) \/ BeginFinalizer(i)
        PROVE  WantDistinct'
    BY <1>1, <1>4 DEF Ignore, BeginDeletion, Purge, BeginFinalizer, workVars
  <1>5. CASE Deliver
    BY <1>1, <1>5
    DEF Deliver, DeliverIngress, DeliverObject, DeliverGateway, DeliverService, Resync,
        workVars
  <1>6. CASE Restart
    BY <1>1, <1>6 DEF Restart, Idle
  <1>7. CASE UNCHANGED workVars
    BY <1>1, <1>7 DEF workVars
  <1> QED
    BY <1>2, <1>3, <1>4, <1>5, <1>6, <1>7 DEF Next, Begin, vars

\* generateRouteName: an Ingress whose hosts stay different without their dots gets
\* an HTTPRoute of its own for each, in spite of what happens meanwhile: the run
\* route_names shows the one way in which two can get the same.
THEOREM RoutesHaveOwnNames ==
    ASSUME \A spec \in Specs : HostsApart(spec)
    PROVE  Spec => []RouteNamesUnique
  <1>1. Init => WantDistinct
    BY DEF Init, WantDistinct, Distinct
  <1>2. TypeOK /\ WantDistinct /\ [Next]_vars => WantDistinct'
    BY NextWant, NamesAreDistinct
  <1>3. WantDistinct => RouteNamesUnique
    BY DEF WantDistinct, Distinct, RouteNamesUnique
  <1> QED
    BY <1>1, <1>2, <1>3, TypeCorrect, PTL DEF Spec

----
\* The names of what Ingress i may ever ask for, and that nobody else asks for them.
\* (A BackendTLSPolicy has the name of its Service, so that this is not so of two
\* Ingresses with a Service in common: see CleansUpOnlyUnneeded; nor is it of an
\* Ingress web-a and an Ingress web with the host a.)
KeysOf(i) ==
    {d.key : d \in UNION {ConvertIngressFull(i, spec, declared) :
                             spec \in Specs, declared \in Declarations}}

KeysApart == \A i, j \in Ingresses : i # j => KeysOf(i) \cap KeysOf(j) = {}

\* It is so of Ingresses of one namespace whose names have no dash, if there are no
\* policies that are named after a Service.
NamesApart ==
    \A i, j \in Ingresses :
        (i # j /\ i.ns = j.ns) =>
            /\ \A n \in DOMAIN i.name : i.name[n] # "-"
            /\ \A spec \in Specs : "tls" \notin spec.annotations

\* What follows the name of the Ingress in the name of an object.
Tails == {t \in Seq(Token) : t # <<>> => t[1] = "-"}

LEMMA Associates ==
    \A s, t, u \in Seq(Token) : (s \o t) \o u = s \o (t \o u)
  BY ConcatAssociative

LEMMA TailsAppend ==
    ASSUME NEW s \in Seq(Token), NEW t \in Tails, NEW u \in Tails
    PROVE  /\ t \o u \in Tails
           /\ (s \o t) \o u = s \o (t \o u)
  <1>1. t \in Seq(Token) /\ u \in Seq(Token)
    BY DEF Tails
  <1>2. /\ t \o u \in Seq(Token)
        /\ \A n \in 1 .. Len(t) + Len(u) :
               (t \o u)[n] = IF n <= Len(t) THEN t[n] ELSE u[n - Len(t)]
    BY <1>1, ConcatProperties
  <1>3. CASE t = <<>>
    BY <1>1, <1>3, ConcatEmptySeq, Associates
  <1>4. CASE t # <<>>
    <2>1. 1 \in 1 .. Len(t) + Len(u) /\ 1 <= Len(t)
      BY <1>1, <1>4, LenProperties, EmptySeq
    <2>2. (t \o u)[1] = "-"
      BY <1>2, <1>4, <2>1 DEF Tails
    <2>3. t \o u \in Tails
      BY <1>2, <2>2 DEF Tails
    <2> QED
      BY <1>1, <2>3, Associates
  <1> QED
    BY <1>3, <1>4

LEMMA RouteTail ==
    ASSUME NEW i \in IngressId, NEW host \in Seq(Token)
    PROVE  \E t \in Tails : RouteName(i, host) = i.name \o t
  <1>1. i.name \in Seq(Token) /\ Sanitize(host) \in Seq(Token)
    BY SanitizeType, Texts DEF IngressId
  <1>2. <<>> \in Tails /\ i.name = i.name \o <<>>
    BY <1>1, EmptySeq, ConcatEmptySeq DEF Tails
  <1>3. <<"-">> \in Seq(Token) /\ Len(<<"-">>) = 1 /\ <<"-">>[1] = "-"
    BY ShortTexts DEF Token
  <1> DEFINE t == <<"-">> \o Sanitize(host)
  <1>4. t \in Seq(Token) /\ t[1] = "-"
    BY <1>1, <1>3, ConcatProperties, LenProperties
  <1>5. (i.name \o <<"-">>) \o Sanitize(host) = i.name \o t
    BY <1>1, <1>3, Associates
  <1>6. t \in Tails
    BY <1>4 DEF Tails
  <1> QED
    BY <1>2, <1>5, <1>6 DEF RouteName

LEMMA KeyShape ==
    ASSUME NEW i \in IngressId, NEW spec \in IngressSpec, NEW declared,
           "tls" \notin spec.annotations,
           NEW d \in ConvertIngressFull(i, spec, declared)
    PROVE  d.key.ns = i.ns /\ \E t \in Tails : d.key.name = i.name \o t
  <1> DEFINE routes == HTTPRoutes(i, spec, declared)
  <1>0. i.name \in Seq(Token)
    BY Texts DEF IngressId
  <1>1. CASE d \in routes
    <2>1. PICK host \in Seq(Token) : d.key = Key(i, "HTTPRoute", RouteName(i, host))
      BY <1>1, RouteShape
    <2> QED
      BY <2>1, RouteTail DEF Key
  <1>2. ASSUME NEW groups, NEW kind, NEW suffix \in Token, NEW refs,
               d \in RoutePolicies(i, spec, routes, groups, kind, suffix, refs)
        PROVE  d.key.ns = i.ns /\ \E t \in Tails : d.key.name = i.name \o t
    <2>1. PICK host \in Seq(Token) :
             d = Object(Key(i, kind, RouteName(i, host) \o <<"-", suffix>>),
                        RouteName(i, host), refs)
      BY <1>2, PolicyShape
    <2>2. PICK t \in Tails : RouteName(i, host) = i.name \o t
      BY RouteTail
    <2>3. <<"-", suffix>> \in Tails
      BY ShortTexts DEF Tails, Token
    <2>4. d.key.ns = i.ns /\ d.key.name = (i.name \o t) \o <<"-", suffix>>
      BY <2>1, <2>2 DEF Object, Key
    <2>5. t \o <<"-", suffix>> \in Tails /\ d.key.name = i.name \o (t \o <<"-", suffix>>)
      BY <1>0, <2>3, <2>4, TailsAppend
    <2> QED
      BY <2>4, <2>5
  <1>3. CASE d \in BackendTrafficPolicies(i, spec, routes) \/ d \in SecurityPolicies(i, spec, routes)
    BY <1>2, <1>3 DEF BackendTrafficPolicies, SecurityPolicies, Token
  <1>4. CASE d \in ClientTrafficPolicies(i, spec)
    <2>1. <<"-", "client">> \in Tails
      BY ShortTexts DEF Tails, Token
    <2>2. d.key.ns = i.ns /\ d.key.name = i.name \o <<"-", "client">>
      BY <1>4 DEF ClientTrafficPolicies, Object, Key
    <2> QED
      BY <2>1, <2>2
  <1>5. BackendTLSPolicies(i, spec, routes) = {}
    BY DEF BackendTLSPolicies
  <1> QED
    BY <1>1, <1>3, <1>4, <1>5 DEF ConvertIngressFull

\* Where the first dash is, the name of the Ingress ends.
LEMMA StemsEqual ==
    ASSUME NEW s \in Seq(Token), NEW t \in Seq(Token), NEW u \in Tails, NEW v \in Tails,
           \A n \in DOMAIN s : s[n] # "-", \A n \in DOMAIN t : t[n] # "-",
           s \o u = t \o v
    PROVE  s = t
  <1> DEFINE whole == s \o u
  <1>1. /\ u \in Seq(Token) /\ v \in Seq(Token)
        /\ Len(s) \in Nat /\ Len(t) \in Nat /\ Len(u) \in Nat /\ Len(v) \in Nat
        /\ DOMAIN s = 1 .. Len(s) /\ DOMAIN t = 1 .. Len(t)
    BY LenProperties DEF Tails
  <1>2. /\ Len(whole) = Len(s) + Len(u)
        /\ \A n \in 1 .. Len(s) + Len(u) :
               whole[n] = IF n <= Len(s) THEN s[n] ELSE u[n - Len(s)]
    BY <1>1, ConcatProperties
  <1>3. /\ Len(whole) = Len(t) + Len(v)
        /\ \A n \in 1 .. Len(t) + Len(v) :
               whole[n] = IF n <= Len(t) THEN t[n] ELSE v[n - Len(t)]
    BY <1>1, ConcatProperties
  <1> HIDE DEF whole
  <1>4. /\ Len(u) # 0 => u[1] = "-"
        /\ Len(v) # 0 => v[1] = "-"
    BY <1>1, EmptySeq DEF Tails
  <1>5. ASSUME Len(s) < Len(t) PROVE FALSE
    <2>1. Len(u) # 0 /\ Len(s) + 1 \in 1 .. Len(s) + Len(u) /\ Len(s) + 1 \in DOMAIN t
      BY <1>1, <1>2, <1>3, <1>5
    <2>2. whole[Len(s) + 1] = u[1] /\ whole[Len(s) + 1] = t[Len(s) + 1]
      BY <1>1, <1>2, <1>3, <1>5, <2>1
    <2> QED
      BY <1>4, <2>1, <2>2
  <1>6. ASSUME Len(t) < Len(s) PROVE FALSE
    <2>1. Len(v) # 0 /\ Len(t) + 1 \in 1 .. Len(t) + Len(v) /\ Len(t) + 1 \in DOMAIN s
      BY <1>1, <1>2, <1>3, <1>6
    <2>2. whole[Len(t) + 1] = v[1] /\ whole[Len(t) + 1] = s[Len(t) + 1]
      BY <1>1, <1>2, <1>3, <1>6, <2>1
    <2> QED
      BY <1>4, <2>1, <2>2
  <1>7. Len(s) = Len(t)
    <2>1. Len(s) \in Nat /\ Len(t) \in Nat
      BY <1>1
    <2>2. ~(Len(s) < Len(t)) /\ ~(Len(t) < Len(s))
      BY <1>5, <1>6
    <2> QED
      BY <2>1, <2>2
  <1>8. \A n \in 1 .. Len(s) : s[n] = t[n]
    BY <1>1, <1>2, <1>3, <1>7
  <1> QED
    BY <1>7, <1>8, SeqEqual

LEMMA NamespaceOfKey ==
    ASSUME NEW i, NEW spec, NEW declared, NEW d \in ConvertIngressFull(i, spec, declared)
    PROVE  d.key.ns = i.ns
  <1>1. ASSUME NEW r \in HTTPRoutes(i, spec, declared)
        PROVE  r.key.ns = i.ns
    <2>1. \E name : r.key = Key(i, "HTTPRoute", name)
      BY DEF HTTPRoutes, Object
    <2> QED
      BY <2>1 DEF Key
  <1> QED
    BY <1>1 DEF ConvertIngressFull, BackendTrafficPolicies, ClientTrafficPolicies,
                SecurityPolicies, BackendTLSPolicies, RoutePolicies, Object, Key

LEMMA KeysAreApart ==
    ASSUME NamesApart
    PROVE  KeysApart
  <1> SUFFICES ASSUME NEW i \in Ingresses, NEW j \in Ingresses, i # j,
                      NEW k \in KeysOf(i) \cap KeysOf(j)
               PROVE  FALSE
    BY DEF KeysApart
  <1>1. PICK spec \in Specs, declared \in Declarations :
           k \in {d.key : d \in ConvertIngressFull(i, spec, declared)}
    BY DEF KeysOf
  <1>2. PICK spec2 \in Specs, declared2 \in Declarations :
           k \in {d.key : d \in ConvertIngressFull(j, spec2, declared2)}
    BY DEF KeysOf
  <1>3. i.ns = j.ns
    <2>1. k.ns = i.ns
      BY <1>1, NamespaceOfKey
    <2>2. k.ns = j.ns
      BY <1>2, NamespaceOfKey
    <2> QED
      BY <2>1, <2>2
  <1>4. /\ "tls" \notin spec.annotations /\ "tls" \notin spec2.annotations
        /\ \A n \in DOMAIN i.name : i.name[n] # "-"
        /\ \A n \in DOMAIN j.name : j.name[n] # "-"
    BY <1>3 DEF NamesApart
  <1>5. i \in IngressId /\ j \in IngressId /\ spec \in IngressSpec /\ spec2 \in IngressSpec
    BY InputAssumption
  <1>6. \E t \in Tails : k.name = i.name \o t
    <2>1. PICK d \in ConvertIngressFull(i, spec, declared) : k = d.key
      BY <1>1
    <2> QED
      BY <1>4, <1>5, <2>1, KeyShape
  <1>7. \E t \in Tails : k.name = j.name \o t
    <2>1. PICK d \in ConvertIngressFull(j, spec2, declared2) : k = d.key
      BY <1>2
    <2> QED
      BY <1>4, <1>5, <2>1, KeyShape
  <1>8. i.name = j.name
    BY <1>4, <1>5, <1>6, <1>7, StemsEqual, Texts DEF IngressId
  <1> QED
    BY <1>3, <1>5, <1>8 DEF IngressId

\* An object that names an Ingress as its source has a name of that Ingress, ...
Fits(k, v) == (v # None /\ v.src # None) => k \in KeysOf(v.src)

\* ... on the server, in the cache, and in between; ...
SourcesFit ==
    \A k \in Keys : /\ Fits(k, object[k])
                    /\ Fits(k, cachedObject[k])
                    /\ \A n \in 1 .. Len(objectEvents[k]) : Fits(k, objectEvents[k][n])

\* ... and so the worker makes and deletes what has a name of its Ingress.
WorkFits ==
    /\ \A d \in want : d.key \in KeysOf(cur)
    /\ toDelete \subseteq KeysOf(cur)

SourceInv == SourcesFit /\ WorkFits

LEMMA ConvertedKeys ==
    ASSUME NEW i \in Ingresses, NEW spec \in Specs, NEW declared \in Declarations,
           NEW d \in ConvertIngressFull(i, spec, declared)
    PROVE  d.key \in KeysOf(i)
  BY DEF KeysOf

LEMMA SourcesStay ==
    ASSUME SourcesFit, UNCHANGED <<object, cachedObject, objectEvents>>
    PROVE  SourcesFit'
  BY DEF SourcesFit, Fits

LEMMA WorkStays ==
    ASSUME WorkFits, UNCHANGED workVars
    PROVE  WorkFits'
  BY DEF WorkFits, workVars

LEMMA IdleFits ==
    ASSUME Idle
    PROVE  WorkFits'
  BY DEF Idle, WorkFits

LEMMA PutFits ==
    ASSUME TypeOK, SourcesFit, NEW k \in Keys, NEW r, PutObject(k, r), Fits(k, r),
           UNCHANGED cachedObject
    PROVE  SourcesFit'
  <1> SUFFICES ASSUME NEW l \in Keys
               PROVE  /\ Fits(l, object'[l])
                      /\ Fits(l, cachedObject[l])
                      /\ \A n \in 1 .. Len(objectEvents'[l]) : Fits(l, objectEvents'[l][n])
    BY DEF SourcesFit, Fits
  <1>1. objectEvents[l] \in Seq(ObjectRecord \cup {None})
    BY DEF TypeOK, ClusterTypeOK
  <1>2. CASE l # k
    <2>1. object'[l] = object[l] /\ objectEvents'[l] = objectEvents[l]
      BY <1>2 DEF PutObject, TypeOK, ClusterTypeOK
    <2> QED
      BY <2>1 DEF SourcesFit
  <1>3. CASE l = k
    <2>1. object'[l] = r /\ objectEvents'[l] = Append(objectEvents[l], r)
      BY <1>3 DEF PutObject, TypeOK, ClusterTypeOK
    <2>2. ASSUME NEW n \in 1 .. Len(objectEvents'[l])
          PROVE  Fits(l, objectEvents'[l][n])
      <3>1. \/ objectEvents'[l][n] = r
            \/ n \in 1 .. Len(objectEvents[l]) /\ objectEvents'[l][n] = objectEvents[l][n]
        BY <1>1, <2>1, <2>2
      <3> QED
        BY <1>3, <3>1 DEF SourcesFit
    <2> QED
      BY <1>3, <2>1, <2>2 DEF SourcesFit
  <1> QED
    BY <1>2, <1>3

LEMMA StoreFits ==
    ASSUME TypeOK, SourcesFit, NEW k \in Keys, NEW r, StoreObject(k, r), Fits(k, r),
           UNCHANGED cachedObject
    PROVE  SourcesFit'
  BY PutFits, SourcesStay DEF StoreObject

LEMMA TamperFits ==
    ASSUME TypeOK, SourcesFit, NEW k \in Keys, UserTampers(k)
    PROVE  SourcesFit'
  <1> DEFINE empty   == [object[k] EXCEPT !.body = None]
             foreign == [src |-> None, uid |-> 0, body |-> None]
  <1>1. object[k] # None => /\ object[k] \in ObjectRecord
                            /\ empty.src = object[k].src
                            /\ empty # None
    BY NoneAssumption DEF TypeOK, ClusterTypeOK, ObjectRecord
  <1>2. \/ PutObject(k, None)
        \/ object[k] # None /\ PutObject(k, empty)
        \/ PutObject(k, foreign)
    BY DEF UserTampers
  <1>3. foreign.src = None /\ UNCHANGED cachedObject
    BY DEF UserTampers, cacheVars
  <1> HIDE DEF empty, foreign
  <1>4. Fits(k, None) /\ Fits(k, foreign) /\ (object[k] # None => Fits(k, empty))
    BY <1>1, <1>3 DEF Fits, SourcesFit
  <1> QED
    BY <1>2, <1>3, <1>4, PutFits

LEMMA EnvironmentFits ==
    ASSUME TypeOK, SourcesFit, Environment
    PROVE  SourcesFit'
  <1>1. ASSUME NEW k \in Keys, GarbageCollects(k)
        PROVE  SourcesFit'
    BY <1>1, PutFits DEF GarbageCollects, Fits, cacheVars
  <1>2. CASE UNCHANGED <<object, cachedObject, objectEvents>>
    BY <1>2, SourcesStay
  <1> QED
    BY <1>1, <1>2, TamperFits
    DEF Environment, UserCreates, UserEdits, UserDeletes, OtherFinalizerChanges,
        GatewayChanges, ServiceChanges, cacheVars, eventVars

LEMMA BeginFits ==
    ASSUME TypeOK, SourceInv, NEW i \in Ingresses, Begin(i)
    PROVE  SourceInv'
  <1>1. Take(i)
    BY DEF Begin, Ignore, BeginDeletion, Purge, BeginFinalizer, BeginApply, Convert
  <1>2. SourcesFit'
    BY <1>1, SourcesStay DEF SourceInv, Take, clusterVars, serverVars, cacheVars, eventVars
  <1>3. CASE Ignore(i)
    BY <1>2, <1>3, WorkStays DEF Ignore, SourceInv
  <1>4. CASE BeginDeletion(i) \/ BeginFinalizer(i)
    BY <1>2, <1>4 DEF BeginDeletion, Purge, BeginFinalizer, Start, SourceInv, WorkFits
  <1>5. CASE BeginApply(i)
    <2>1. cachedIngress[i].spec \in Specs /\ cachedPorts \in Declarations
      BY <1>5 DEF BeginApply, Convert, TypeOK, ClusterTypeOK, IngressRecord
    <2>2. /\ want' = ConvertIngressFull(i, cachedIngress[i].spec, cachedPorts)
          /\ cur' = i /\ toDelete' = {}
      BY <1>5 DEF BeginApply, Convert, Start
    <2>3. \A d \in want' : d.key \in KeysOf(cur')
      BY <2>1, <2>2, ConvertedKeys
    <2> QED
      BY <1>2, <2>2, <2>3 DEF SourceInv, WorkFits
  <1> QED
    BY <1>3, <1>4, <1>5 DEF Begin

LEMMA ContinueFits ==
    ASSUME TypeOK, SourceInv, Continue
    PROVE  SourcesFit' /\ WorkFits'
  <1>0. SourcesFit /\ WorkFits
    BY DEF SourceInv
  <1>1. CASE ListKind
    <2>1. /\ UNCHANGED <<object, cachedObject, objectEvents, want, cur>>
          /\ toDelete' = Unwanted(First(toList)) /\ cur \in Ingresses
      BY <1>1, Working, TypeParts DEF ListKind, clusterVars, serverVars, cacheVars, eventVars
    <2>2. ASSUME NEW k \in toDelete'
          PROVE  k \in KeysOf(cur)
      <3>1. k \in Keys /\ cachedObject[k] # None /\ cachedObject[k].src = cur
        BY <2>1 DEF Unwanted, Owned, Listed
      <3> QED
        BY <1>0, <2>1, <3>1, NoneAssumption DEF SourcesFit, Fits
    <2> QED
      BY <1>0, <2>1, <2>2, SourcesStay DEF WorkFits
  <1>2. CASE AddFinalizer \/ RemoveFinalizer \/ UpdateIngressStatus \/ WriteFails
    <2>1. Idle /\ UNCHANGED <<object, cachedObject, objectEvents>>
      BY <1>2 DEF AddFinalizer, RemoveFinalizer, UpdateIngressStatus, WriteFails,
                  Answered, Finish, Abandon, serverVars, cacheVars, eventVars
    <2> QED
      BY <1>0, <2>1, IdleFits, SourcesStay
  <1>3. ASSUME NEW d \in toWrite, WriteObject(d)
        PROVE  SourcesFit' /\ WorkFits'
    <2> DEFINE r == Product(d)
    <2>1. d \in want /\ d.key \in Keys /\ d.key \in KeysOf(cur)
      BY <1>0 DEF WorkFits, TypeOK, Keys
    <2>2. StoreObject(d.key, r) \/ UNCHANGED <<object, objectEvents>>
      BY <1>3 DEF WriteObject, Product
    <2>3. Fits(d.key, r) /\ UNCHANGED cachedObject
      BY <1>3, <2>1 DEF Fits, Product, WriteObject, cacheVars
    <2>4. SourcesFit'
      BY <1>0, <2>1, <2>2, <2>3, StoreFits, SourcesStay
    <2>5. Idle \/ UNCHANGED <<cur, want, toDelete>>
      BY <1>3 DEF WriteObject, Answered, RequeueAfter, Abandon
    <2> QED
      BY <1>0, <2>4, <2>5, IdleFits DEF WorkFits
  <1>4. ASSUME NEW k \in toDelete, DeleteObject(k)
        PROVE  SourcesFit' /\ WorkFits'
    <2>1. k \in Keys /\ StoreObject(k, None) /\ UNCHANGED cachedObject
      BY <1>4 DEF DeleteObject, TypeOK, cacheVars
    <2>2. SourcesFit'
      BY <1>0, <2>1, StoreFits DEF Fits
    <2>3. Idle \/ (UNCHANGED <<cur, want>> /\ toDelete' \subseteq toDelete)
      BY <1>4 DEF DeleteObject, Answered, Abandon
    <2> QED
      BY <1>0, <2>2, <2>3, IdleFits DEF WorkFits
  <1> QED
    BY <1>1, <1>2, <1>3, <1>4 DEF Continue

LEMMA DeliverFits ==
    ASSUME TypeOK, SourcesFit, NEW k \in Keys, DeliverObject(k)
    PROVE  SourcesFit'
  <1> SUFFICES ASSUME NEW l \in Keys
               PROVE  /\ Fits(l, object[l])
                      /\ Fits(l, cachedObject'[l])
                      /\ \A n \in 1 .. Len(objectEvents'[l]) : Fits(l, objectEvents'[l][n])
    BY DEF SourcesFit, Fits, DeliverObject, serverVars
  <1>1. objectEvents[l] \in Seq(ObjectRecord \cup {None})
    BY DEF TypeOK, ClusterTypeOK
  <1>2. CASE l # k
    <2>1. cachedObject'[l] = cachedObject[l] /\ objectEvents'[l] = objectEvents[l]
      BY <1>2 DEF DeliverObject, TypeOK, ClusterTypeOK
    <2> QED
      BY <2>1 DEF SourcesFit
  <1>3. CASE l = k
    <2>1. /\ cachedObject'[l] = Head(objectEvents[l]) /\ objectEvents'[l] = Tail(objectEvents[l])
          /\ objectEvents[l] # <<>>
      BY <1>3 DEF DeliverObject, TypeOK, ClusterTypeOK
    <2>2. cachedObject'[l] = objectEvents[l][1] /\ 1 \in 1 .. Len(objectEvents[l])
      BY <1>1, <2>1
    <2>3. ASSUME NEW n \in 1 .. Len(objectEvents'[l])
          PROVE  /\ objectEvents'[l][n] = objectEvents[l][n + 1]
                 /\ n + 1 \in 1 .. Len(objectEvents[l])
      BY <1>1, <2>1, <2>3
    <2> QED
      BY <2>2, <2>3 DEF SourcesFit
  <1> QED
    BY <1>2, <1>3

LEMMA NextFits ==
    ASSUME TypeOK, SourceInv, [Next]_vars
    PROVE  SourceInv'
  <1>0. SourcesFit /\ WorkFits
    BY DEF SourceInv
  <1> SUFFICES SourcesFit' /\ WorkFits'
    BY DEF SourceInv
  <1>1. ASSUME NEW i \in Ingresses, Begin(i)
        PROVE  SourcesFit' /\ WorkFits'
    BY <1>1, BeginFits DEF SourceInv
  <1>2. CASE Continue
    BY <1>2, ContinueFits
  <1>3. CASE Deliver
    <2>1. UNCHANGED workVars
      BY <1>3 DEF Deliver, DeliverIngress, DeliverObject, DeliverGateway,
                  DeliverService, Resync
    <2>2. ASSUME NEW k \in Keys, DeliverObject(k)
          PROVE  SourcesFit'
      BY <1>0, <2>2, DeliverFits
    <2>3. ASSUME \/ Resync \/ DeliverGateway
                 \/ \E i \in Ingresses : DeliverIngress(i)
                 \/ \E svc \in Services : DeliverService(svc)
          PROVE  SourcesFit'
      BY <1>0, <2>3, SourcesStay
      DEF Resync, DeliverIngress, DeliverGateway, DeliverService, clusterVars,
          serverVars, cacheVars, eventVars
    <2>4. SourcesFit'
      BY <1>3, <2>2, <2>3 DEF Deliver
    <2> QED
      BY <1>0, <2>1, <2>4, WorkStays
  <1>4. CASE Restart
    <2>1. SourcesFit'
      BY <1>0, <1>4 DEF Restart, SourcesFit, Fits, serverVars
    <2> QED
      BY <1>4, <2>1, IdleFits DEF Restart
  <1>5. CASE Environment /\ UNCHANGED <<queue, workVars>>
    BY <1>0, <1>5, EnvironmentFits, WorkStays
  <1>6. CASE UNCHANGED vars
    BY <1>0, <1>6, SourcesStay, WorkStays DEF vars, clusterVars, serverVars, cacheVars, eventVars
  <1> QED
    BY <1>1, <1>2, <1>3, <1>4, <1>5, <1>6 DEF Next

LEMMA InitFits == Init => SourceInv
  <1> SUFFICES ASSUME Init PROVE SourceInv
    OBVIOUS
  <1> QED
    BY DEF Init, ClusterInit, SourceInv, SourcesFit, WorkFits, Fits

\* What an Ingress on the server asks for has names of that Ingress.
LEMMA WantedKeys ==
    ASSUME TypeOK, NEW i \in Ingresses, Served(i), NEW d \in Wanted(i, ports)
    PROVE  d.key \in KeysOf(i)
  BY ConvertedKeys DEF Wanted, Served, TypeOK, ClusterTypeOK, IngressRecord

LEMMA SourceImpliesSpares ==
    ASSUME TypeOK, SourceInv, KeysApart
    PROVE  SparesOthers
  <1> SUFFICES ASSUME NEW k \in toDelete \ toDelete', NEW i \in Ingresses \ {cur},
                      Served(i), NEW d \in Wanted(i, ports), k = d.key
               PROVE  FALSE
    BY DEF SparesOthers
  <1>1. k \in KeysOf(i)
    BY WantedKeys
  <1>2. k \in KeysOf(cur) /\ cur \in Ingresses
    BY DEF SourceInv, WorkFits, TypeOK
  <1> QED
    BY <1>1, <1>2 DEF KeysApart

\* Of Ingresses whose objects have different names, the clean-up and the deletion
\* of one never delete what another asks for, however stale the listing is they
\* delete from, and whatever was written under those names since.
THEOREM SparesOtherIngresses ==
    ASSUME KeysApart
    PROVE  Spec => DeletesOnlyUnneeded
  <1>1. TypeOK /\ SourceInv /\ [Next]_vars => SourceInv'
    BY NextFits
  <1>2. TypeOK /\ SourceInv => [SparesOthers]_vars
    BY SourceImpliesSpares
  <1> QED
    BY <1>1, <1>2, InitFits, TypeCorrect, PTL DEF Spec, DeletesOnlyUnneeded

\* It is so of Ingresses that have names without a dash and no TLS to their Services,
\* or namespaces of their own.
THEOREM SparesPlainIngresses ==
    ASSUME NamesApart
    PROVE  Spec => DeletesOnlyUnneeded
  BY KeysAreApart, SparesOtherIngresses
====
