----------------------------- MODULE RelayProofs -----------------------------
(***************************************************************************)
(* A proof, for any set of request ids and any number of Pods, that a      *)
(* restart request costs no Pod but the one it was written in, unless a    *)
(* forced deletion let two Pods of the same name run at once or a deletion *)
(* arrived that its relay no longer waited for.                            *)
(*                                                                         *)
(* OnlyOwnPod is not inductive: the deletion is by name.  It is right      *)
(* because a request never leaves the emptyDir it was written to and       *)
(* because, without a forced deletion, the name is not given to the next   *)
(* Pod while the containers of the last one run.                           *)
(***************************************************************************)
EXTENDS Relay, TLAPS

(* What the volumes and the relays hold, as functions of the Pod. *)
Volumes ==
  /\ drops \in [Pods -> SUBSET Drops]
  /\ consumed \in [Pods -> SUBSET Ids]
  /\ acted \in [Pods -> SUBSET Drops]

(* A request is in the volume of the Pod it was written in. *)
DropsStay == \A p \in Pods : \A d \in drops[p] : d.from = p

(* Without a forced deletion only the Pod that has the name runs. *)
OneRuns == ~forced => relays \subseteq {pod} /\ (object = "gone" => relays = {})

IInv == TypeOK /\ Volumes /\ DropsStay /\ OneRuns /\ OnlyOwnPod
-----------------------------------------------------------------------------
(* The first Pod, with empty volumes, satisfies the invariant. *)
LEMMA InitEstablishes == Init => IInv
<1> SUFFICES ASSUME Init PROVE IInv
  OBVIOUS
<1>1. 1 \in Pods /\ \A p \in Pods : Nothing[p] = {}
  BY MaxPodsAssumption DEF Pods, Nothing
<1>2. TypeOK
  <2>1. relays \subseteq 1..pod /\ pod \in Pods /\ relays = {1}
    BY <1>1 DEF Init
  <2>2. \A p \in Pods : drops[p] = {} /\ consumed[p] = {} /\ acted[p] = {}
    BY <1>1 DEF Init
  <2> QED  BY <2>1, <2>2, ZenonT(30) DEF Init, TypeOK
<1>3. Volumes
  BY DEF Init, Volumes, Nothing
<1> QED  BY <1>1, <1>2, <1>3 DEF Init, IInv, DropsStay, OneRuns, OnlyOwnPod

(* A request is written to the volume of its own Pod. *)
LEMMA RequestKeeps ==
  ASSUME IInv, NEW p \in Pods, Request(p)
  PROVE  IInv'
<1>1. PICK d \in Drops : d.from = p /\ drops' = [drops EXCEPT ![p] = @ \cup {d}]
  BY ZenonT(30) DEF Request
<1>2. \A q \in Pods : drops'[q] = IF q = p THEN drops[p] \cup {d} ELSE drops[q]
  BY <1>1 DEF IInv, Volumes
<1>3. TypeOK'
  BY <1>1, <1>2 DEF IInv, TypeOK, Request, life, network
<1>4. Volumes'
  BY <1>1 DEF IInv, Volumes, Request
<1>5. DropsStay'
  BY <1>1, <1>2 DEF IInv, DropsStay
<1> QED  BY <1>3, <1>4, <1>5 DEF IInv, OneRuns, OnlyOwnPod, Request, life, network

(* A rejected file is removed. *)
LEMMA RejectKeeps ==
  ASSUME IInv, NEW p \in Pods, Reject(p)
  PROVE  IInv'
<1>1. PICK d \in drops[p] : drops' = [drops EXCEPT ![p] = @ \ {d}]
  BY ZenonT(30) DEF Reject
<1>2. \A q \in Pods : drops'[q] = IF q = p THEN drops[p] \ {d} ELSE drops[q]
  BY <1>1 DEF IInv, Volumes
<1>3. TypeOK'
  BY <1>2 DEF IInv, TypeOK, Reject, life, network
<1>4. Volumes'
  BY <1>1 DEF IInv, Volumes, Reject
<1>5. DropsStay'
  BY <1>2 DEF IInv, DropsStay
<1> QED  BY <1>3, <1>4, <1>5 DEF IInv, OneRuns, OnlyOwnPod, Reject, life, network

(* A request of a running Pod goes astray only after a forced deletion.  *)
LEMMA DeletePodStays ==
  ASSUME IInv, NEW p \in Pods, p \in relays, NEW d \in drops[p], DeletePod(d),
         UNCHANGED <<pod, relays, forced, overdue>>
  PROVE  OnlyOwnPod' /\ OneRuns' /\ object' \in {"running", "terminating", "gone"}
                     /\ astray' \in BOOLEAN
<1>1. d.from = p
  BY DEF IInv, DropsStay
<1>2. ~forced => p = pod
  BY DEF IInv, OneRuns
<1>3. OnlyOwnPod'
  BY <1>1, <1>2, ZenonT(30) DEF DeletePod, IInv, OnlyOwnPod
<1>4. OneRuns'
  BY DEF DeletePod, IInv, OneRuns
<1> QED  BY <1>3, <1>4 DEF DeletePod, IInv, TypeOK

(* The deletion of a valid request. *)
LEMMA DeleteKeeps ==
  ASSUME IInv, NEW p \in Pods, Delete(p)
  PROVE  IInv'
<1>1. PICK d \in drops[p] : DeletePod(d) /\ acted' = [acted EXCEPT ![p] = {d}]
  BY ZenonT(30) DEF Delete
<1>2. OnlyOwnPod' /\ OneRuns' /\ object' \in {"running", "terminating", "gone"}
                  /\ astray' \in BOOLEAN
  BY <1>1, DeletePodStays DEF Delete, network
<1>3. \A q \in Pods : acted'[q] = IF q = p THEN {d} ELSE acted[q]
  BY <1>1 DEF IInv, Volumes
<1>4. TypeOK'
  BY <1>2, <1>3 DEF IInv, TypeOK, Delete, network
<1>5. Volumes'
  BY <1>1 DEF IInv, Volumes, Delete
<1> QED  BY <1>2, <1>4, <1>5 DEF IInv, DropsStay, Delete

(* A deletion that fails, or whose answer is lost. *)
LEMMA DeleteFailsKeeps ==
  ASSUME IInv, NEW p \in Pods, DeleteFails(p)
  PROVE  IInv'
<1>1. PICK d \in drops[p] :
        \/ DeletePod(d) /\ UNCHANGED wire
        \/ UNCHANGED <<object, astray>> /\ wire' \in {wire, wire \cup {d}}
  BY ZenonT(30) DEF DeleteFails
<1>2. OnlyOwnPod' /\ OneRuns' /\ object' \in {"running", "terminating", "gone"}
                  /\ astray' \in BOOLEAN
  <2>1. CASE DeletePod(d)
    BY <2>1, DeletePodStays DEF DeleteFails
  <2>2. CASE UNCHANGED <<object, astray>>
    BY <2>2 DEF DeleteFails, IInv, TypeOK, OnlyOwnPod, OneRuns
  <2> QED  BY <1>1, <2>1, <2>2
<1>3. wire' \subseteq Drops
  BY <1>1 DEF IInv, TypeOK
<1>4. TypeOK'
  BY <1>2, <1>3, ZenonT(30) DEF IInv, TypeOK, DeleteFails, Keep
<1> QED  BY <1>2, <1>4 DEF IInv, Volumes, DropsStay, DeleteFails, Keep

(* A deletion that is no longer waited for. *)
LEMMA ArriveKeeps ==
  ASSUME IInv, Arrive
  PROVE  IInv'
<1>1. PICK d \in wire : DeletePod(d) /\ wire' = wire \ {d}
  BY DEF Arrive
<1>2. OneRuns' /\ object' \in {"running", "terminating", "gone"} /\ astray' \in BOOLEAN
  BY <1>1 DEF DeletePod, Arrive, IInv, TypeOK, OneRuns
<1>3. OnlyOwnPod' /\ wire' \subseteq Drops
  BY <1>1 DEF Arrive, OnlyOwnPod, IInv, TypeOK
<1>4. TypeOK'
  BY <1>2, <1>3, ZenonT(30) DEF IInv, TypeOK, Arrive
<1> QED  BY <1>2, <1>3, <1>4 DEF IInv, Volumes, DropsStay, Arrive

(* The archiving of a request whose Pod was deleted. *)
LEMMA ArchiveKeeps ==
  ASSUME IInv, NEW p \in Pods, Archive(p)
  PROVE  IInv'
<1>1. PICK d \in acted[p] : /\ drops' = [drops EXCEPT ![p] = @ \ {d}]
                            /\ consumed' = [consumed EXCEPT ![p] = @ \cup {d.id}]
  BY ZenonT(30) DEF Archive
<1>2. d \in Drops /\ d \in drops[p] /\ d.id \in Ids
  BY <1>1 DEF IInv, TypeOK, Volumes, Drops
<1>3. p \in relays
  BY <1>2 DEF IInv, TypeOK
<1>4. \A q \in Pods :
        /\ drops'[q] = IF q = p THEN drops[p] \ {d} ELSE drops[q]
        /\ consumed'[q] = IF q = p THEN consumed[p] \cup {d.id} ELSE consumed[q]
        /\ acted'[q] = IF q = p THEN {} ELSE acted[q]
  BY <1>1, ZenonT(30) DEF IInv, Volumes, Archive
<1>5. TypeOK'
  BY <1>2, <1>3, <1>4 DEF IInv, TypeOK, Archive, life, network
<1>6. Volumes'
  BY <1>1, <1>2 DEF IInv, Volumes, Archive
<1>7. DropsStay'
  BY <1>4 DEF IInv, DropsStay
<1> QED  BY <1>5, <1>6, <1>7 DEF IInv, OneRuns, OnlyOwnPod, Archive, life, network

(* The relay forgets the deletion: a failed archiving, or a crash. *)
LEMMA ForgetKeeps ==
  ASSUME IInv, NEW p \in Pods, ArchiveFails(p) \/ Crash(p)
  PROVE  IInv'
<1>1. acted' = [acted EXCEPT ![p] = {}] /\ UNCHANGED <<life, drops, consumed, network, astray>>
  BY DEF ArchiveFails, Crash
<1>2. \A q \in Pods : acted'[q] = IF q = p THEN {} ELSE acted[q]
  BY <1>1 DEF IInv, Volumes
<1>3. TypeOK'
  BY <1>1, <1>2 DEF IInv, TypeOK, life, network
<1>4. Volumes'
  BY <1>1 DEF IInv, Volumes
<1> QED  BY <1>1, <1>3, <1>4 DEF IInv, DropsStay, OneRuns, OnlyOwnPod, life, network

(* The containers of a Pod stop and its volumes are freed. *)
LEMMA EndedKeeps ==
  ASSUME IInv, NEW p \in Pods, Ended(p), relays' = relays \ {p}, UNCHANGED <<pod, forced>>,
         object' \in {"running", "terminating", "gone"},
         ~forced /\ object' = "gone" => relays' = {}
  PROVE  IInv'
<1>1. drops' = Freed(drops, p) /\ consumed' = Freed(consumed, p) /\ acted' = Freed(acted, p)
      /\ UNCHANGED <<wire, overdue, astray>>
  BY DEF Ended, network
<1>2. /\ drops' \in [Pods -> SUBSET Drops] /\ acted' \in [Pods -> SUBSET Drops]
      /\ consumed' \in [Pods -> SUBSET Ids]
  BY <1>1 DEF IInv, Volumes, Freed
<1>3. \A q \in Pods :
        /\ drops'[q] = IF q = p THEN {} ELSE drops[q]
        /\ consumed'[q] = IF q = p THEN {} ELSE consumed[q]
        /\ acted'[q] = IF q = p THEN {} ELSE acted[q]
  BY <1>1 DEF IInv, Volumes, Freed
<1>4. TypeOK'
  BY <1>1, <1>3, ZenonT(30) DEF IInv, TypeOK
<1>5. DropsStay'
  BY <1>3 DEF IInv, DropsStay
<1>6. OneRuns' /\ OnlyOwnPod'
  BY <1>1 DEF IInv, OneRuns, OnlyOwnPod
<1> QED  BY <1>2, <1>4, <1>5, <1>6 DEF IInv, Volumes

(* The StatefulSet's next Pod has the name alone unless it was forced. *)
LEMMA RecreateKeeps ==
  ASSUME IInv, Recreate
  PROVE  IInv'
<1>1. pod \in Pods /\ pod + 1 \in Pods /\ pod' = pod + 1
  BY MaxPodsAssumption DEF IInv, TypeOK, Recreate, Pods
<1>2. relays' \subseteq 1..pod'
  BY <1>1 DEF IInv, TypeOK, Recreate, Pods
<1>3. TypeOK'
  BY <1>1, <1>2 DEF IInv, TypeOK, Recreate, network
<1>4. OneRuns'
  BY DEF IInv, OneRuns, Recreate
<1> QED  BY <1>3, <1>4 DEF IInv, Volumes, DropsStay, OnlyOwnPod, Recreate, network

(* Every step keeps the inductive invariant. *)
LEMMA NextKeeps == IInv /\ [Next]_vars => IInv'
<1> SUFFICES ASSUME IInv, [Next]_vars PROVE IInv'
  OBVIOUS
<1>1. CASE Terminate
  <2>1. pod \in Pods /\ object' = "gone"
    BY <1>1 DEF Terminate, IInv, TypeOK
  <2>2. ~forced => relays' = {}
    BY <1>1 DEF Terminate, IInv, OneRuns
  <2> QED  BY <1>1, <2>1, <2>2, EndedKeeps DEF Terminate
<1>2. CASE Recreate
  BY <1>2, RecreateKeeps
<1>3. CASE Evict
  BY <1>3 DEF Evict, network, IInv, TypeOK, Volumes, DropsStay, OneRuns, OnlyOwnPod
<1>4. CASE ForceDelete
  BY <1>4 DEF ForceDelete, network, IInv, TypeOK, Volumes, DropsStay, OneRuns, OnlyOwnPod
<1>5. ASSUME NEW p \in Pods, Expire(p) PROVE IInv'
  <2>1. ~forced /\ object = "gone" => relays = {}
    BY DEF IInv, OneRuns
  <2> QED  BY <1>5, <2>1, EndedKeeps DEF Expire, IInv, TypeOK
<1>6. CASE UNCHANGED vars
  BY <1>6 DEF vars, life, network, IInv, TypeOK, Volumes, DropsStay, OneRuns, OnlyOwnPod
<1> QED
  BY <1>1, <1>2, <1>3, <1>4, <1>5, <1>6, RequestKeeps, RejectKeeps, DeleteKeeps,
     DeleteFailsKeeps, ArriveKeeps, ArchiveKeeps, ForgetKeeps
  DEF Next

(* In every behaviour of the restart watcher the invariant holds.        *)
THEOREM Invariance == Spec => []IInv
BY InitEstablishes, NextKeeps, PTL DEF Spec

(* A restart request deletes the Pod it was written in and no other, as  *)
(* long as no Pod of the Instance was deleted by force and no deletion   *)
(* arrived after its relay had given up on it.                           *)
THEOREM RestartsOnlyOwnPod == Spec => []OnlyOwnPod
<1>1. IInv => OnlyOwnPod
  BY DEF IInv
<1> QED  BY <1>1, Invariance, PTL
=============================================================================
