---- MODULE FinalizerProtocol ----
(***************************************************************************)
(* What the controller promises about an Ingress and its finalizer, with   *)
(* nothing said of caches, queues, copies and calls: objects are made for  *)
(* an Ingress only while it carries the finalizer, and the finalizer is    *)
(* taken off an Ingress only when that is being deleted, once. What was    *)
(* made for an Ingress can only become less after that.                    *)
(***************************************************************************)
EXTENDS Naturals

CONSTANT Ingresses

VARIABLES
    life,       \* for each name: the Ingress of that name now, and how far it is
    issued,     \* for each name: how many Ingresses there have been of that name
    made        \* pairs of a name and a uid for which there are objects

protocolVars == <<life, issued, made>>

\* absent; without our finalizer; with it; being deleted with it; being deleted
\* and without it, for as long as other finalizers last.
Stages == {"absent", "open", "guarded", "closing", "closed"}

Absent == [stage |-> "absent", uid |-> 0]

Init ==
    /\ life = [i \in Ingresses |-> Absent]
    /\ issued = [i \in Ingresses |-> 0]
    /\ made = {}

Create(i) ==
    /\ life[i] = Absent
    /\ issued' = [issued EXCEPT ![i] = @ + 1]
    /\ life' = [life EXCEPT ![i] = [stage |-> "open", uid |-> issued[i] + 1]]
    /\ UNCHANGED made

Goes(i) == life' = [life EXCEPT ![i] = Absent]

Becomes(i, stage) == life' = [life EXCEPT ![i] = [stage |-> stage, uid |-> @.uid]]

Guard(i) ==
    /\ life[i].stage = "open"
    /\ Becomes(i, "guarded")
    /\ UNCHANGED <<issued, made>>

Delete(i) ==
    /\ \/ life[i].stage = "open" /\ (Goes(i) \/ Becomes(i, "closed"))
       \/ life[i].stage = "guarded" /\ Becomes(i, "closing")
    /\ UNCHANGED <<issued, made>>

Release(i) ==
    /\ life[i].stage = "closing"
    /\ Goes(i) \/ Becomes(i, "closed")
    /\ UNCHANGED <<issued, made>>

Leave(i) ==
    /\ life[i].stage = "closed"
    /\ Goes(i)
    /\ UNCHANGED <<issued, made>>

\* An object is made for the Ingress; the one it replaces may have been the last
\* of another.
Make(i) ==
    /\ life[i].stage \in {"guarded", "closing"}
    /\ made' \in SUBSET (made \cup {<<i, life[i].uid>>})
    /\ UNCHANGED <<life, issued>>

Remove ==
    /\ made' \in SUBSET made
    /\ UNCHANGED <<life, issued>>

Next ==
    \/ \E i \in Ingresses :
          Create(i) \/ Guard(i) \/ Delete(i) \/ Release(i) \/ Leave(i) \/ Make(i)
    \/ Remove

Spec == Init /\ [][Next]_protocolVars
====
