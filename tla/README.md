# Verification of ingress-gateway-api

The program is a Kubernetes controller. For every Ingress it writes HTTPRoutes
of the Gateway API and policies of Envoy Gateway, keeps them in line with the
Ingress, removes them when the Ingress goes, and copies the address of the
Gateway into the status of the Ingress. This directory holds TLA+ modules of
it, configurations for TLC, and proofs for TLAPS.

## The system

| Component | State | Operations | Modelled in |
|---|---|---|---|
| Reconcile loop (`internal/controller`) | none of its own: the Ingress it read, what it still has to write and delete | `Reconcile`, `handleDeletion`, `reconcile*`, `cleanupStaleResources`, `updateIngressStatus` | `IngressReconciler`; what it promises: `FinalizerProtocol` |
| Event sources and queue (`SetupWithManager`, controller-runtime) | work queue, informer caches | event to name, resync, restart; one process or two | `IngressReconciler`, `Cluster`, `TwoInstances` |
| API server, garbage collector, users, other controllers | Ingresses, objects, Gateway, Services | writes, watch events, collection | `Cluster` (external) |
| Converter (`internal/converter`) | none, pure | `ConvertIngressFull`; `convertPathWithFilters` and below | `Converter`; `RouteRules` |
| Filters | none, pure | `applyFilters` and below | `RouteRules` |
| Policies | none, pure | `generate*`; `buildTimeout`, `buildLoadBalancer`, `buildExtAuth` | `Converter`; `PolicyContent`, partly |
| Service port resolver | none, pure | `ResolvePort` | `Converter` |
| Annotations (`internal/annotations`) | none, pure | `Has*`; `GetDuration`, `formatDuration` | `Converter`; `Durations`, partly |
| ReferenceGrants | none | `reconcileReferenceGrants` | `Converter`: it never has anything to write |
| Configuration, start-up | flags | | the class filter, the start, leader election off |
| Manifests | none | | no |

The parts interact through the API server alone. The one worker takes a name
from its queue, *reads from the informer caches* and *writes to the server*;
each write comes back as a watch event, which moves the cache on and puts a name
in the queue. So the hard behaviours are those of a program whose reads are
stale: a decision taken from an old copy, a listing that lacks what was just
written, an Ingress deleted and created again meanwhile, another process that
does the same a little later; and those of a pass that is a sequence of calls,
each of which can fail, lose its reply, or be the last before a restart. The
conversion is sequential; what is hard about it is that nginx and the Gateway
API say the same thing in different ways. What makes the controller correct:

- it writes objects only for an Ingress whose cleanup is still to come;
- it writes what is new before it deletes what is stale;
- it deletes only what is its own to delete;
- when all is quiet, and eventually, the server holds what the Ingresses ask
  for, no more and no less, no deleted Ingress is held up, and the status shows
  the Gateway's address;
- what it writes makes the Gateway do what nginx does for the Ingress.

`PROJECT.json` lists the places where each can go wrong, under `hazards`.

## The modules

`Converter` - `ConvertIngressFull(i, spec, ports)` is the set of objects that
Ingress `i` asks for. Names are sequences of tokens (`<<"web", "-", "a">>`),
because the properties depend on when two generated names coincide. An object
has a key (kind, namespace, name) and a body (what it is on, and its references
to Services). Annotations are the groups that the `Has*` predicates ask about. A
path is its Service, the number of its port (`NoPort` if it has a name instead), and
whether it matches `/`, since the app-root redirect of such a path takes its
backend away. A named port becomes the number under which the Service declares it
(`ResolvePort`), and an object whose port is not found is not `Valid`.

`Cluster` - the API server and everybody else. Each Ingress and object has a
version on the server, one in the cache, and a queue of versions in between.
`PutIngress` and `PutObject` are the only ways to write. An Ingress has a `uid`,
so that one created later under the same name is another, and an `rv`. The
Gateway and the Services are read through caches, too (`cachedGateway`,
`cachedPorts`), which have some earlier version until they get the one of now;
there is no queue of versions for them, since no event of theirs goes to the
worker and skipping a version is all the same to it. None of this is code of the
repository. Disturbances (edits, tampering, other
controllers, failures, crashes, resyncs) spend from one budget.

`IngressReconciler` - the worker. `Reconcile` is cut where another party can
get in between, at every call to the server:

| Action | Code |
|---|---|
| `Ignore`, `BeginDeletion`, `BeginFinalizer`, `BeginApply` | `Reconcile` to the point where it knows what to do; it reads only the cache |
| `AddFinalizer` | the patch at line 124 and both ways to return |
| `WriteObject` | `reconcileHTTPRoute` and the four functions like it: Get from the cache, then Create or Update |
| `ListKind`, `DeleteObject` | one loop, and one Delete, of `cleanupStaleResources` or of `deleteOwned*` |
| `RemoveFinalizer` | the patch at line 240 |
| `UpdateIngressStatus` | `updateIngressStatus`, and the end of the pass |
| `WriteFails`, second half of `Answered` | a call that fails; one that takes effect but whose reply is lost |
| `DeliverIngress`, `DeliverObject`, `Resync`, `Restart` | the event sources of `SetupWithManager`; the process |
| `DeliverGateway`, `DeliverService` | the caches `updateIngressStatus` and `ResolvePort` read, of which no event reaches the queue |

`Finish` is a return without an error. `Abandon` is a return with an error or a
request to come back: `handleReconcileError` delays a permanent error by five
minutes (`RequeueAfter`) and leaves the others to the back-off of the queue, and
without time both are a name in the queue. HTTPRoutes are written in any order, since the code
iterates over a Go map; the kinds come in the order of the code.

`TwoInstances` - two processes, as during a rollout while leader election is
off (its default). The second is an `INSTANCE` of `IngressReconciler` with caches,
watches, queue and worker of its own; the server is shared, and what the one
changes is announced to the other.

`FinalizerProtocol` - the abstract specification: an Ingress is open, guarded by
the finalizer, closing or closed; objects are made for it only while it is
guarded or closing; the finalizer goes only while it is closing; a name that is
used again is another Ingress. There are no caches, queues, copies or calls in
it. `FinalizerRefinement` maps the states of `IngressReconciler` to it: the stage
is read off the finalizers and the deletion mark on the *server*, what is made
off the owner references of the objects there. `KeepsProtocol` is that
`IngressReconciler` implements it.

`RouteRules`, `Durations`, `PolicyContent` - the conversion of one path and of
the annotations with a value of their own: the match, the filters and the
backend of a rule; durations between the text of an annotation and that of the
Gateway API; timeout, hash key, authorization service. Texts are sequences of
characters where their order or their parts matter, and values otherwise.
`IngressContent` puts them together: its state is what an Ingress says, its step
an edit of one annotation.

A few definitions are marked as mistakes, for mutation. No action uses them;
they stand in for the definition after them to see that a property notices.

`FinalizerInvariant`, `SettlingInvariant`, `*Proofs` - see Proofs. `MCReconciler`, `MCInstances`,
`MCConversion` - values for the constants.

## What TLC checks

| Run | Properties | Instance | Distinct states |
|---|---|---|---|
| `lifecycle` | `TypeOK`, `FinalizerInv`, `WritesUnderFinalizer`, `MakeBeforeBreak`, `QuietImpliesSettled`, `SettlingInv`, `KeepsProtocol` | 1 Ingress created up to 2 times; edits between one host, two others of which one is refused, and another class; 2 of edit, fault, crash | 132,747 |
| `policies` | `QuietImpliesSettled` | all five kinds, 1 edit or act of tampering | 469,314 |
| `pair` | `DeletesOnlyUnneeded` | 2 Ingresses, 1 edit | 258,049 |
| `liveness` | `QuietImpliesSettledButPorts`, `EventuallySettled`, `ResyncSettles`, `ResyncBringsStatus` | 1 life; an edit updates one HTTPRoute and adds one with a named port; which no Service declares at first; 2 of edit, fault, crash, Gateway change, port change (two numbers, or none), resync | 36,993 |
| `instances` | `BothQuietImpliesSettled`, `BothQuietImpliesStatus` | 2 processes, 1 Ingress that has a route or none; 1 edit or change of another finalizer | 443,667 |
| `conversion` | `TypeOK`, `RewriteAsNginx`, `PrefixRewriteOnPrefixMatch`, `DurationKept`, `HashAsNginx`, `AuthPortKept` | 13 paths, 3 path types, 7 annotations, two at once | 57,018 |

`QuietImpliesSettled` is the convergence property in a form that needs no
fairness: in every state where the worker is idle and the queue, the watches and
the garbage collector have nothing to do, the server holds exactly what the
Ingresses ask for. It fails if any reading of a stale cache, any lost or failed
call, any restart or tampering leaves a difference that nothing will bring up
again. `SettlingInv` says the same of the states before: every difference is on
its way to the worker. Where Services change their ports,
`QuietImpliesSettledButPorts` promises the settled state but for the *numbers* of
the ports an Ingress asks for by name: an Ingress that was refused because its
Service did not declare the port is in the queue, and so does not stay refused
when it does. `EventuallySettled` adds that such a state is reached. There is no
resync in it: the watches and the retries do it alone, and the retry of what was
refused, `RequeueAfter`, is all there is when a Service comes to declare a port.
A number that changes is found with the resync only: `ResyncSettles` says that the
numbers, too, come to be those of the Services, and `ResyncBringsStatus` the same of
the Gateway, under a fair resync.

The settled state is promised to Ingresses that are `Served`: of the class of
the controller, and with HTTPRoutes the server takes. A named port that no
Service declares makes an HTTPRoute without a port, which the server
refuses, and one refused HTTPRoute ends the pass for its Ingress. Until then
nothing is deleted: `MakeBeforeBreak` in `lifecycle`, where `OnPart` is refused.

Two processes that know nothing of each other do undo each other's work: the one
that lags writes for an Ingress that the other has released, and the garbage
collector takes that away again. So neither `WritesUnderFinalizer` nor
`KeepsProtocol` is promised to the pair. What does hold is that the
differences do not stay (`BothQuietImpliesSettled`), and that the status is
right although the error of its update is dropped (`BothQuietImpliesStatus`: a
conflict comes from a change that is itself an event; this is for a Gateway that
does not change and updates that do not fail otherwise).

The properties of `conversion` compare with what nginx does for the same
Ingress, which the code sets out to reproduce:

- `RewriteAsNginx`: for the forms of paths and targets that the documentation of
  ingress-nginx gives, every request nginx rewrites matches the rule, keeps the
  backend and reaches it under the same path. Three pieces of code have to agree
  for that: the prefix cut out of the regular expression, the replacement cut
  out of the target, and the way a Gateway joins the two. Of two slashes in a row
  in a target the code makes one (`Cleaning`) and nginx does not: those targets
  are exempt.
- `PrefixRewriteOnPrefixMatch`: a replacement of a prefix is on a match of a
  prefix; a server refuses anything else, and with it the whole pass. Two cases
  in which the code does produce it are exempt: a path of type Exact, and a
  regular expression with the target `/`.
- `DurationKept`: through four units and back, a timeout is one that was asked
  for, to the millisecond.
- `HashAsNginx`: the header of a `$http_` key is the one that nginx means by it.
- `AuthPortKept`: requests are authorized at the port the URL means or at none.

### Bounds

`MaxIncarnations` bounds how often an Ingress is created: two is the least at
which a later Ingress of the same name meets leftovers of an earlier one.
`MaxDisturbances` bounds the sum of the disturbances; the interesting cases are
of one or two (an edit and a crash in the pass that applies it; a conflict and
a restart). The theorems are for all values. One Ingress is enough for what
concerns one Ingress, since passes for different ones share only objects with the
same name; `pair` and `shared_service` have two. `FirstGateways` is what the
Gateway may publish at first: with one value in the safety runs, since it is
a constant there, and none at first in `liveness`, where it appears. So are
`PortNumbers` and `FirstPorts` for the named port: in `liveness` no Service
declares it at first, and two numbers are enough for one to be replaced by the other;
elsewhere no Service changes. In `policies`, where the budget is one, an edit and
an act of tampering do not come together: `QuietMeansSettled` is proved for any
budget. In `pair`, the names of two Ingresses do not collide; if they do,
`shared_service` shows what happens.
`CHECK_DEADLOCK FALSE` is in every configuration of the reconciler because a
system with nothing left to do, and no disturbances left, does stop.

`MaxIngressLag` and `MaxObjectLag` bound how far a cache of two processes is
behind. They are needed since a process that never learns of the end of an
Ingress can go on writing for it: the collector deletes the object, the event
of that queues the name again, and the pass writes it anew, without end. A
lag of two versions of an Ingress (released, gone) and one of an object is what
a wrong decision needs.

In `conversion`, a millisecond is one tick and a word counts 2^24 of them, an
int32 2^17 ports: TLC's integers have 32 bits, and the cases (a multiplication
that overflows, a port that is cut) occur at these sizes as at the real ones.
`DurationsSurvive` is proved for every size. `MaxAnnotations` is two, since no
property relates more than two annotations, and `RewriteAsNginx` only one
besides `use-regex`.

### Fairness

Weak fairness of `Continue` (the worker goes on with a pass: every call returns),
of deliveries, those to the caches of Services and the Gateway among them (watches
are re-established by the client library), and of the garbage collector. Strong fairness of `Begin(i)`, since the queue is served in
turn: a name that is waiting is taken although the worker is busy now and again.
The periodic resync of the informers is not part of the specification's fairness:
it is the antecedent of the two properties that need it. Nothing is assumed of
users, other controllers, failures and restarts, whose number is bounded.

## Findings

Six runs end in a violation of what the repository says of itself.

- `class_change`: `Reconcile` looks at the class before the deletion
  timestamp. An Ingress that changed its class after it got the finalizer is
  never released when it is deleted, and its objects stay meanwhile.
- `route_names`: "generates a unique name for the HTTPRoute", but the hosts
  `a.b` and `a-b` get the same one, and the two overwrite each other.
- `shared_service`: "deletes any owned resources that are no longer needed", but
  a BackendTLSPolicy is named after its Service, two Ingresses share it, and the
  one that wrote it last deletes it from under the other. (The next event of
  the other makes it anew, the deletion itself being an event of the deleting one.)
- `finalizer_patch`: "Conflict adding Ingress finalizer, will retry", but the
  patch has no resource version and cannot meet a conflict: it replaces the list
  and undoes what another controller did to it since the copy was cached.
- `timeouts`: "Use the larger of proxy-read-timeout and proxy-send-timeout", but
  the texts are compared: of 9 and 10 seconds, 9 is taken.
- `app_root`: "redirects requests to "/" to the specified app root", but the
  redirect is put on a rule that matches the *prefix* `/`, so that every request
  is redirected, the one for the app root too, and none has a backend.

Known without a run of their own:

- The log says "Finalizer removed, cleanup complete", yet an object that the
  cache does not have at that moment is left, for the garbage collector.
  `QuietImpliesSettled` holds because of it.
- `extractStaticPrefix` can end in the middle of an element (`/api/v` of
  `/api/v[0-9]+`), which as a prefix match matches none of the requests; it keeps a
  `.`, and a character that a quantifier follows. Three slashes in a target
  leave two.
- The rewrite target `/` replaces the prefix, where nginx replaces the whole path.
- A duration of more than 99,999 hours has more digits than the Gateway API
  takes, one of less than a millisecond becomes `0s` (no timeout), as does one
  that is negative, and seconds beyond 64 bits of nanoseconds become another
  duration.
- A port of 2^32 and more in an auth-url becomes another port. An external URL
  or an address is taken for a Service.
- The Ingress `web-a` without a host and the host `a` of the Ingress `web` get one
  route name; the two Ingresses then do to the HTTPRoute what those of
  `shared_service` do to the policy.
- `enable-cors: "false"` does not turn CORS off while another CORS annotation is
  present; a hash key other than the known ones is taken for a header's name; a
  ClientTrafficPolicy finds the Gateway only in its own namespace.

## Proofs

Every safety invariant and action property that a passing run checks is also a
theorem, for all values of the constants. The proofs are by induction over the
steps of the system, one lemma for each action.

### The type and the finalizer

`IngressReconcilerProofs` proves `TypeCorrect`, `Spec => []TypeOK`.

`FinalizerProofs` proves `NoWriteAfterCleanup`, `Spec => []WritesUnderFinalizer`.
The property relates the oldest version of an Ingress, the copy of the worker,
to the newest, the one on the server, and is not inductive: what a step does
depends on those in between. `FinalizerInvariant` numbers the versions in play
from 0 (the copy) over 1 (the cache) to the newest and states:

- versions of one Ingress are next to each other, and dying is final
  (`DyingIsFinal`);
- behind a version that is dying under the finalizer, the finalizer is found on
  that Ingress only (`NoneGuardedBehind`): this is why the worker cannot be
  writing for the second Ingress while a reconcile of the first still removes
  finalizers by name;
- of a version with the finalizer that is not dying, the Ingress is on the server
  and has it still (`GuardedIsLive`): this is the property, for all versions;
- a version that is dying under the finalizer is of the Ingress on the server, or
  the cache knows of the deletion (`DyingIsLiveOrSeen`): with it, adding the
  finalizer cannot bring back one that was removed (`CopyFits`).

A step then does one of three things to the versions of an Ingress, each a
lemma: it takes some away (`VersionsTaken`: deliveries, restarts, the end of a
pass), it adds one that keeps the finalizer (`AddedKeeps`: everybody else), or
it adds one without it (`AddedReleases`: `RemoveFinalizer`, whose copy is dying
under it). `VersionsFitTogether` is `Spec => []FinalizerInv`.

`RefinementProofs` proves `ProtocolKept`, `Spec => KeepsProtocol`: the initial
states map to the initial state, and each action, in a state where `TypeOK` and
`FinalizerInv` hold, maps to a step of the protocol or leaves the mapped state
alone. The invariant is needed at the two patches (that they meet the Ingress
they were made for) and at `WriteObject` (that it writes for an Ingress that
carries the finalizer).

### Quiet means settled

`SettlingProofs` proves `QuietMeansSettled`, `Spec => []QuietImpliesSettled`, if
no Service changes its ports, and `QuietMeansSettledButPorts`,
`Spec => []QuietImpliesSettledButPorts`, whether one does or not. `QuietImpliesSettled` speaks of states in which nothing is left to do;
to carry it from state to state one has to say what is left to do before. An
Ingress is *due* if it is in the queue, has an event on the way, or if an object
has one and one of the versions the event goes through has that Ingress for its
source. `SettlingInv` (theorem `DifferencesAreDue`, without any hypothesis) is

- `Arriving`: events end with the version on the server, so that caches catch up;
- `LookupsKeep`: the caches of Services and the Gateway show what nobody changes;
- `OthersRest`: an Ingress that is not due and not in the hands of the worker
  has all it asks for and nothing else, with ports as the Services may have
  declared them when a pass looked (`Looked`: as they do now, if they do not change
  them), or has been released;
- `CopyAsked`: what the worker writes or deletes follows from its copy;
- `PassCounts`: as long as the Ingress of the pass is not due again, the copy is
  the Ingress on the server, what the pass has written is there as written, and
  what is not wanted is found or still to be searched for.

The last is where stale reads come in: a pass may decide from an old copy or miss
an object in its listing, but then the version it did not see is still to be
announced, and its announcement makes the Ingress due. Every step of somebody
else either leaves an Ingress and its objects alone or makes it due (`Kept`); the
end of a pass leaves its Ingress at rest, a failure puts it back into the queue.
Nothing is assumed of names: if objects of two Ingresses collide, each write of
the one is an event that the other hears of, because the watch tells of both
versions.

`InstancesProofs` proves the same of two processes (`TwoSettle`). To either
process the other is one more user: each of its writes is a change of the server
that is announced. So `SettlingInv` of the first process survives the steps of the
second, for which the type and the sources of its versions are proved by an
`INSTANCE` of `SettlingProofs` (`Other`); when both are quiet, that of the first is
enough. `TwoShowStatus`, `SpecBoth => []BothQuietImpliesStatus`, needs `StatusInv`,
the same for the address in the status, if the Gateway keeps its address and
an update fails for a conflict only: what made the conflict is an event.

### Objects and names

`ObjectProofs` states its assumptions on the inputs, not on what is made of them:

- `RoutesHaveOwnNames`, `Spec => []RouteNamesUnique`, if hosts that differ still
  do when their dots are dashes (`HostsApart`; so do hosts without `-` and the
  token for `*`, lemma `PlainHostsApart`; `route_names` shows two that do not).
  From it, that the objects of one Ingress have keys of their own
  (`NamesAreDistinct`).
- `MakesBeforeItBreaks`, `Spec => []MakeBeforeBreak`, under the same assumption
  and if nobody tampers. The invariant `PassInv` sets what the worker has yet to
  write or to delete apart from what it has written: that is on the server as it
  was written, none of it is in `toDelete`, and deleting begins when nothing is
  left to write. `FinalizerInv` is needed as well: the owner of what was written
  is on the server, so that the garbage collector leaves it.
- `SparesOtherIngresses`, `Spec => DeletesOnlyUnneeded`, if no two Ingresses ask
  for the same key (`KeysApart`; `shared_service` shows that they may). The
  invariant `SourceInv` is that whatever version of an object is on the server, in
  the cache, on the way, or wanted, its source asks for its key.
  `SparesPlainIngresses` has the assumption on Ingresses (`NamesApart`): two of one
  namespace have names without a dash, and ask for no TLS to their Services. What
  follows the name of an Ingress in a generated name then begins with its first
  dash, so that the names differ as the Ingresses do.

### What is written

`ConversionProofs` proves `NoGrants` (the converter makes no backend of an
HTTPRoute in another namespace, so `reconcileReferenceGrants` has nothing to
write) and `DurationsSurvive` (the text of `formatDuration` stands for the
duration, to the millisecond, in units that are in range).

`ContentProofs` proves the properties of the run `conversion` for any paths,
annotations, requests and word sizes, from `AlwaysWritten` (an annotation is
absent or says one of the things it may):

- `RewritesAsNginx`: the static prefix of a literal and one of the documented
  groups is the literal (`StaticPrefix`), the target without its last group is
  what is before it (`CleansTo`), a literal that ends with one slash and
  the rest of a request are joined by that slash (`JoinedByOne`). `Cleaning` is
  a recursive function; that a function which satisfies its recursion is the one
  the code computes is shown at the least argument at which they would differ
  (`CleaningIs`, `LeastOf`), since the induction theorems of the library are not
  usable here.
- `RewritesMatchedPrefix`, `TimeoutsSurvive`, `AuthorizesAtMeantPort` (a number that
  an int32 does not count becomes negative and is dropped, if it is below
  2^32), `ContentType`; and `HashesAsNginx`, for names of variables without a dash
  (`VariableNames`: nginx has no others).

### Assumptions

`InputAssumption` (Ingresses and specs have the shape of the converter's inputs,
with at most one default backend), `NoneAssumption` (None is no Ingress, version
or object), `ClusterAssumption` (other controllers use other finalizers; the
number of a port is not 0; the bounds are naturals), `ValuesAssumption` and `PathsAssumption` (annotations and
paths have the forms that are compared), `DurationAssumption`, `PortAssumption` and
`LagAssumption` (units, word sizes and lags are positive). TLC evaluates them in
the runs. The hypotheses of single theorems are those named above; `lifecycle`,
`pair`, `instances` and `conversion` have values that satisfy them.

Only model-checked: the liveness properties `EventuallySettled`, `ResyncSettles`
and `ResyncBringsStatus`, which are out of the prover's reach (fairness).

## What is not modelled

- The lists of CORS, the sizes of buffers and bodies, the path and the
  headers of an authorization: texts that are split or copied.
- Labels, the reference to the parent Gateway, the certificates of a
  BackendTLSPolicy: constants.
- Failures of reads: they come from the caches, which do not fail, and the one
  on the way to the status ends the pass like a failed update.
- Time: delays and back-off are a place in the queue.
- Changes of Services between two of the lookups of one conversion: it reads all
  of them at one moment.
- Case: ingress-nginx matches regular expressions whatever the case of a letter; in
  `RewriteAsNginx` the case counts.
- Leader election turned on: it leaves one process, which `IngressReconciler` is.
- Flags, logging, metrics, probes and the manifests: no state of the system.

## Plan

1. Done: the reconciler, its runs, its type and finalizer theorems.
2. Done: the conversion (`RouteRules`, `Durations`, `PolicyContent`), the
   abstract protocol and its refinement, two processes, the theorems on objects.
3. Done: the names of `Converter`, the invariant behind `QuietImpliesSettled`,
   for one process and for two, and the theorems on the content of what is
   written.
4. Left: sizes and lists of annotations, and the configuration file.
