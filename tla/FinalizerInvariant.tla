---- MODULE FinalizerInvariant ----
(***************************************************************************)
(* Why WritesUnderFinalizer holds: an inductive invariant about the        *)
(* versions of an Ingress that are still in play.                          *)
(*                                                                         *)
(* At any moment there are, from the oldest to the newest, the copy of the *)
(* worker, the version in the cache, and the versions the watch has yet to *)
(* deliver; the newest is the one on the server. WritesUnderFinalizer is   *)
(* about the first and the last of them only and is not inductive: what    *)
(* can happen depends on those between.                                    *)
(***************************************************************************)
EXTENDS IngressReconciler

\* Version number 0 is the copy (the cached version, if the worker has no copy),
\* number 1 the cached one, the others are those not yet delivered.
Version(i, n) ==
    CASE n = 0 -> IF cur = i THEN copy ELSE cachedIngress[i]
      [] n = 1 -> cachedIngress[i]
      [] OTHER -> ingressEvents[i][n - 1]

Newest(i) == Len(ingressEvents[i]) + 1
InPlay(i) == 0 .. Newest(i)

Guarded(v)  == v # None /\ FinalizerName \in v.finalizers
Dying(v)    == v # None /\ v.deleting
SameIngress(v, w) == v # None /\ w # None /\ v.uid = w.uid

\* The last version is the one on the server.
NewestIsLive(i) == Version(i, Newest(i)) = ingress[i]

\* An Ingress created later has a higher uid.
UidsIssued(i) ==
    \A n \in InPlay(i) : Version(i, n) # None => Version(i, n).uid <= incarnation[i]

\* Between two versions of one Ingress lie versions of that Ingress, and once
\* it is being deleted it stays so.
DyingIsFinal(i) ==
    \A m, n, o \in InPlay(i) :
        (/\ m <= n /\ n <= o
         /\ Dying(Version(i, m))
         /\ SameIngress(Version(i, m), Version(i, o)))
        => Dying(Version(i, n)) /\ SameIngress(Version(i, m), Version(i, n))

\* After a version that is being deleted under our finalizer, the finalizer is
\* found only on that same Ingress: while it is in play, the worker does not get
\* to guard a later one.
NoneGuardedBehind(i) ==
    \A m, n \in InPlay(i) :
        (/\ m <= n
         /\ Dying(Version(i, m)) /\ Guarded(Version(i, m))
         /\ Guarded(Version(i, n)))
        => Dying(Version(i, n)) /\ SameIngress(Version(i, m), Version(i, n))

\* Of a version that has our finalizer and is not being deleted, however old,
\* the Ingress is on the server, still with our finalizer.
GuardedIsLive(i) ==
    \A n \in InPlay(i) :
        (Guarded(Version(i, n)) /\ ~Dying(Version(i, n)))
        => Guarded(ingress[i]) /\ SameIngress(Version(i, n), ingress[i])

\* A version that is being deleted under our finalizer is of the Ingress on the
\* server, which still has it.
DyingIsLive(i, n) ==
    (Guarded(Version(i, n)) /\ Dying(Version(i, n)))
        => Guarded(ingress[i]) /\ SameIngress(Version(i, n), ingress[i])

\* That is so of every version, cached or not yet delivered, unless the cache
\* already shows the deletion.
DyingIsLiveOrSeen(i) ==
    \A n \in InPlay(i) \ {0} :
        \/ DyingIsLive(i, n)
        \/ Dying(cachedIngress[i]) /\ SameIngress(Version(i, n), cachedIngress[i])

VersionsFit(i) ==
    /\ NewestIsLive(i)
    /\ UidsIssued(i)
    /\ DyingIsFinal(i)
    /\ NoneGuardedBehind(i)
    /\ GuardedIsLive(i)
    /\ DyingIsLiveOrSeen(i)

\* What the worker is doing fits the copy it works from; and it adds the
\* finalizer only while no deletion under it is past its end.
CopyFits ==
    /\ pc = "finalize" => /\ ~Guarded(copy)
                          /\ \A n \in InPlay(cur) : DyingIsLive(cur, n)
    /\ pc = "apply" => Guarded(copy) /\ ~Dying(copy)
    /\ pc = "purge" => Guarded(copy) /\ Dying(copy)

\* The invariant that is inductive.
FinalizerInv == (\A i \in Ingresses : VersionsFit(i)) /\ CopyFits
====
