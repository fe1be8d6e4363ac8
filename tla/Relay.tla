-------------------------------- MODULE Relay --------------------------------
(***************************************************************************)
(* The restart watcher of the relay sidecar (internal/relay/watch.go,      *)
(* cmd/relay): the runtime drops a request into the control directory and  *)
(* the relay deletes its own Pod, which the StatefulSet replaces.          *)
(*                                                                         *)
(* Pods are numbered in the order the StatefulSet creates them; all of     *)
(* them have the same name.  What a Pod's emptyDirs and its relay process  *)
(* hold is indexed by that number and is lost with the Pod.                *)
(***************************************************************************)
EXTENDS Naturals, FiniteSets

CONSTANTS
  Ids,         \* request ids
  MaxPods,     \* bound on Pods
  MaxWire      \* bound on deletions whose sender no longer waits

ASSUME MaxPodsAssumption == MaxPods \in Nat \ {0}

Pods  == 1..MaxPods
Drops == [id : Ids, valid : BOOLEAN, from : Pods]

VARIABLES
  pod,      \* the Pod that last had the Instance's Pod name
  object,   \* its API object: "running", "terminating" or "gone"
  relays,   \* the Pods whose containers are running
  drops,    \* restart-*.json files in the control directory
  consumed, \* the request ids under consumed/
  acted,    \* the drop whose Pod is deleted and which is not archived yet
  wire,     \* the drops whose deletion is on its way and no longer waited for
  forced,   \* history: a Pod object was removed before its containers stopped
  overdue,  \* history: a deletion arrived that was no longer waited for
  astray    \* history: a request deleted another Pod than the one it is from

life == <<pod, object, relays, forced>>
network == <<wire, overdue>>
vars == <<life, drops, consumed, acted, network, astray>>

(* Types; a Pod whose containers are not running holds nothing. *)
TypeOK ==
  /\ pod \in Pods /\ object \in {"running", "terminating", "gone"}
  /\ relays \subseteq 1..pod /\ forced \in BOOLEAN
  /\ wire \subseteq Drops /\ overdue \in BOOLEAN /\ astray \in BOOLEAN
  /\ \A p \in Pods :
       /\ drops[p] \subseteq Drops /\ consumed[p] \subseteq Ids
       /\ acted[p] \subseteq drops[p]
       /\ p \notin relays => drops[p] = {} /\ consumed[p] = {}

Nothing == [p \in Pods |-> {}]

(* The first Pod has just started. *)
Init ==
  /\ pod = 1 /\ object = "running" /\ relays = {1} /\ forced = FALSE
  /\ drops = Nothing /\ consumed = Nothing /\ acted = Nothing
  /\ wire = {} /\ overdue = FALSE /\ astray = FALSE

-----------------------------------------------------------------------------
(* The restart watcher.  Files are consumed in any order: one written while *)
(* a poll goes on may sort anywhere.                                        *)

(* The runtime drops a request.  The bound leaves a Pod to restart into,    *)
(* and one more that a stray deletion may cost.                             *)
Request(p) ==
  /\ p \in relays /\ p + 2 <= MaxPods
  /\ \E d \in Drops : d.from = p /\ drops' = [drops EXCEPT ![p] = @ \cup {d}]
  /\ UNCHANGED <<life, consumed, acted, network, astray>>

(* The checks of consume: shape, kind, id and runtime identity, and then    *)
(* the marker of an earlier pass.                                           *)
Rejected(p, d) == ~d.valid \/ d.id \in consumed[p]

Reject(p) ==
  /\ p \in relays /\ acted[p] = {}
  /\ \E d \in drops[p] :
       /\ Rejected(p, d)
       /\ drops' = [drops EXCEPT ![p] = @ \ {d}]
  /\ UNCHANGED <<life, consumed, acted, network, astray>>

(* A deletion by name; one of a Pod that is gone is answered NotFound,      *)
(* which consume counts as done.                                            *)
DeletePod(d) ==
  /\ object' = IF object = "running" THEN "terminating" ELSE object
  /\ astray' = (astray \/ (object = "running" /\ d.from # pod))

Delete(p) ==
  /\ p \in relays /\ acted[p] = {}
  /\ \E d \in drops[p] :
       ~Rejected(p, d) /\ DeletePod(d) /\ acted' = [acted EXCEPT ![p] = {d}]
  /\ UNCHANGED <<pod, relays, forced, drops, consumed, network>>

(* Mutant: a failed deletion discards the drop. *)
KeepMutant(p) == drops' = [drops EXCEPT ![p] = {}] /\ UNCHANGED consumed

(* After an error, the server's or a lost answer, the drop stays for the    *)
(* next poll.                                                               *)
Keep(p) == UNCHANGED <<drops, consumed>>

(* The request took effect, was refused or is still on its way: the relay   *)
(* gave up on it, or dies next.                                             *)
DeleteFails(p) ==
  /\ p \in relays /\ acted[p] = {}
  /\ \E d \in drops[p] :
       /\ ~Rejected(p, d)
       /\ \/ DeletePod(d) /\ UNCHANGED wire
          \/ UNCHANGED <<object, astray, wire>>
          \/ /\ Cardinality(wire) < MaxWire /\ wire' = wire \cup {d}
             /\ UNCHANGED <<object, astray>>
  /\ Keep(p)
  /\ UNCHANGED <<pod, relays, forced, acted, overdue>>

(* A deletion that nobody waits for reaches the API server.                 *)
Arrive ==
  /\ \E d \in wire : DeletePod(d) /\ wire' = wire \ {d}
  /\ overdue' = TRUE
  /\ UNCHANGED <<pod, relays, forced, drops, consumed, acted>>

Archive(p) ==
  /\ \E d \in acted[p] :
       /\ drops' = [drops EXCEPT ![p] = @ \ {d}]
       /\ consumed' = [consumed EXCEPT ![p] = @ \cup {d.id}]
  /\ acted' = [acted EXCEPT ![p] = {}]
  /\ UNCHANGED <<life, network, astray>>

ArchiveFails(p) ==
  /\ acted[p] # {}
  /\ acted' = [acted EXCEPT ![p] = {}]
  /\ UNCHANGED <<life, drops, consumed, network, astray>>

-----------------------------------------------------------------------------
(* The Pod.  The emptyDirs of workload.go go with it.                       *)

(* Mutant: the next Pod inherits the volume. *)
FreedMutant(f, p) == [q \in Pods |-> IF q = p THEN {} ELSE IF q = p + 1 THEN f[p] ELSE f[q]]

(* Every process of Pod p ends and its volumes are freed. *)
Freed(f, p) == [f EXCEPT ![p] = {}]

Ended(p) ==
  /\ drops' = Freed(drops, p) /\ consumed' = Freed(consumed, p) /\ acted' = Freed(acted, p)
  /\ UNCHANGED <<network, astray>>

Terminate ==
  /\ object = "terminating"
  /\ object' = "gone" /\ relays' = relays \ {pod}
  /\ Ended(pod)
  /\ UNCHANGED <<pod, forced>>

(* The StatefulSet creates the next Pod once the name is free.              *)
Recreate ==
  /\ object = "gone" /\ pod < MaxPods
  /\ pod' = pod + 1 /\ object' = "running" /\ relays' = relays \cup {pod + 1}
  /\ UNCHANGED <<forced, drops, consumed, acted, network, astray>>

(* A drain or a rollout deletes the Pod. *)
Evict ==
  /\ object = "running" /\ pod + 1 < MaxPods
  /\ object' = "terminating"
  /\ UNCHANGED <<pod, relays, forced, drops, consumed, acted, network, astray>>

(* A forced deletion frees the name while the containers still run. *)
ForceDelete ==
  /\ ~forced /\ object # "gone" /\ pod + 1 < MaxPods
  /\ forced' = TRUE /\ object' = "gone"
  /\ UNCHANGED <<pod, relays, drops, consumed, acted, network, astray>>

Expire(p) ==
  /\ p \in relays /\ (p # pod \/ object = "gone")
  /\ relays' = relays \ {p}
  /\ Ended(p)
  /\ UNCHANGED <<pod, object, forced>>

(* The relay container dies and the kubelet restarts it: the volumes stay.  *)
Crash(p) ==
  /\ p \in relays /\ p = pod /\ object = "running"
  /\ acted' = [acted EXCEPT ![p] = {}]
  /\ UNCHANGED <<life, drops, consumed, network, astray>>

-----------------------------------------------------------------------------
Next ==
  \/ Terminate \/ Recreate \/ Evict \/ ForceDelete \/ Arrive
  \/ \E p \in Pods :
       \/ Request(p) \/ Reject(p) \/ Delete(p) \/ DeleteFails(p)
       \/ Archive(p) \/ ArchiveFails(p) \/ Expire(p) \/ Crash(p)

Spec == Init /\ [][Next]_vars

(* The watcher polls for as long as the relay runs, a deletion that keeps   *)
(* being tried succeeds, and the kubelet and the StatefulSet do their part. *)
Fairness == WF_vars(Terminate \/ Recreate) /\ SF_vars(Delete(pod))

FairSpec == Spec /\ Fairness

-----------------------------------------------------------------------------
(* A restart request costs the Pod it was written in and no other, although *)
(* the relay deletes by name, archives late and repeats itself (consume,    *)
(* watch.go): the name is another Pod's only after a forced deletion, or    *)
(* when the deletion arrives after the relay stopped waiting for it.        *)
OnlyOwnPod == astray => forced \/ overdue

(* At least once: a valid request that no marker covers replaces the Pod it *)
(* was written in, whatever deletions, archivings and relays fail on the    *)
(* way (consume: "keeps the file so the next tick retries").                *)
RequestRestarts ==
  \A p \in Pods :
    (p \in relays /\ \E d \in drops[p] : d.valid /\ d.id \notin consumed[p]) ~> (pod > p)
==============================================================================
