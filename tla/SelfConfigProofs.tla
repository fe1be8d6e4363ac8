--------------------------- MODULE SelfConfigProofs ---------------------------
(***************************************************************************)
(* A proof, for any keys, protected paths, controllers and bounds, that    *)
(* status.selfConfig is what the config watcher last saw, as long as no    *)
(* patch of the running relay was answered with an error.                  *)
(*                                                                         *)
(* SightingIsRecorded is not inductive: the patch names only the fields in *)
(* which the new observation differs from the watcher's own copy, so the   *)
(* copy has to be what the server holds (CopyIsCurrent).  A failed patch   *)
(* breaks that until the relay is replaced, and nothing else does: no      *)
(* other writer touches selfConfig.                                        *)
(***************************************************************************)
EXTENDS SelfConfig, TLAPS

(* The two halves of the status, each with one kind of writer. *)
Statuses == [selfConfig : SelfConfigStatus, conditions : Conditions]

(* While no patch of this relay has failed, its Instance is the server's. *)
CopyIsCurrent == ~failed => copy = server.selfConfig

IInv ==
  /\ TypeOK /\ server \in Statuses /\ base \in [Controllers -> SUBSET Views]
  /\ CopyIsCurrent /\ SightingIsRecorded
-----------------------------------------------------------------------------
(* An observation is well typed, and has the digest of what was read. *)
LEMMA ObservationIs ==
  ASSUME TypeOK
  PROVE  /\ Observation(config) \in SelfConfigStatus
         /\ Observation(config).digest = {config}
         /\ Observation(config).violation <=>
              \E old \in last, k \in Protected : old[k] # config[k]
<1> DEFINE changed == UNION {changedKeys(old, config) : old \in last}
<1>1. config \in Documents /\ last \subseteq Documents
      /\ copy.revision + 1 \in Nat
  BY DEF TypeOK, SelfConfigStatus
<1>2. changed \cap Protected # {} <=> \E old \in last, k \in Protected : old[k] # config[k]
  BY SelfConfigAssumption DEF changedKeys
<1>3. CASE last = {}
  BY <1>1, <1>3, ZenonT(30) DEF Observation, Unset, SelfConfigStatus
<1>4. CASE last # {}
  <2>1. Observation(config) = [digest |-> {config}, revision |-> copy.revision + 1,
                               violation |-> changed \cap Protected # {}]
    BY <1>4 DEF Observation, currentRevision
  <2>2. (changed \cap Protected # {}) \in BOOLEAN /\ {config} \in SUBSET Documents
    BY <1>1
  <2>3. Observation(config) \in SelfConfigStatus
    BY <1>1, <2>1, <2>2 DEF SelfConfigStatus
  <2>4. Observation(config).digest = {config}
        /\ Observation(config).violation = (changed \cap Protected # {})
    BY <2>1
  <2> QED  BY <1>2, <2>3, <2>4, ZenonT(30)
<1> QED  BY <1>3, <1>4

(* A merge patch against any copy gives a status, and against the server's  *)
(* own value gives the new value.                                           *)
LEMMA MergeIs ==
  ASSUME NEW old \in SelfConfigStatus, NEW from \in SelfConfigStatus,
         NEW new \in SelfConfigStatus
  PROVE  /\ Merge(old, from, new) \in SelfConfigStatus
         /\ from = old => Merge(old, from, new) = new
<1>1. DOMAIN old = {"digest", "revision", "violation"}
  BY DEF SelfConfigStatus
<1>2. Merge(old, from, new) =
        [digest    |-> IF new.digest # from.digest THEN new.digest ELSE old.digest,
         revision  |-> IF new.revision # from.revision THEN new.revision ELSE old.revision,
         violation |-> IF new.violation # from.violation THEN new.violation ELSE old.violation]
  BY <1>1 DEF Merge
<1>3. Merge(old, from, new) \in SelfConfigStatus
  BY <1>2 DEF SelfConfigStatus
<1>4. ASSUME from = old PROVE Merge(old, from, new) = new
  BY <1>2, <1>4 DEF SelfConfigStatus
<1> QED  BY <1>3, <1>4

(* A patch of the watcher leaves a status. *)
LEMMA PatchedIs ==
  ASSUME IInv, NEW obs \in SelfConfigStatus
  PROVE  /\ Patched(obs) \in Statuses
         /\ copy = server.selfConfig => Patched(obs).selfConfig = obs
<1>1. server \in Statuses /\ copy \in SelfConfigStatus /\ server.selfConfig \in SelfConfigStatus
  BY DEF IInv, TypeOK, Statuses
<1>2. Patched(obs).selfConfig = Merge(server.selfConfig, copy, obs)
      /\ Patched(obs) = [server EXCEPT !.selfConfig = Merge(server.selfConfig, copy, obs)]
  BY <1>1 DEF Patched, Statuses
<1> QED  BY <1>1, <1>2, MergeIs DEF Statuses

(* At the start nothing has been seen, and the copy is the server's. *)
LEMMA InitEstablishes == Init => IInv
<1> SUFFICES ASSUME Init PROVE IInv
  OBVIOUS
<1>1. Unset \in SelfConfigStatus
  BY DEF Unset, SelfConfigStatus
<1>2. [c \in Controllers |-> c = "instance"] \in Conditions
  BY DEF Conditions
<1>3. server \in Statuses /\ server.selfConfig = Unset
  BY <1>1, <1>2 DEF Init, Statuses
<1>4. cache \in Views
  BY <1>1, <1>3 DEF Init, View, Views, Statuses, SelfConfigStatus
<1>5. TypeOK
  <2>1. config \in Documents /\ changes \in 0..MaxChanges /\ faults \in 0..MaxFaults
    BY SelfConfigAssumption DEF Init, Documents
  <2>2. \A c \in Controllers : base[c] = {}
    BY DEF Init
  <2> QED  BY <1>1, <1>3, <1>4, <2>1, <2>2, ZenonT(30) DEF Init, TypeOK, Statuses
<1> QED  BY <1>3, <1>5 DEF Init, IInv, CopyIsCurrent, SightingIsRecorded

(* pollOnce and Observe: while no patch has failed, the patch carries the   *)
(* whole observation.                                                       *)
LEMMA ObserveKeeps == IInv /\ Observe => IInv'
<1> SUFFICES ASSUME IInv, Observe PROVE IInv'
  OBVIOUS
<1>1. TypeOK /\ Observation(config) \in SelfConfigStatus
  BY ObservationIs DEF IInv
<1>2. server' = Patched(Observation(config)) /\ copy' = server'.selfConfig
      /\ server' \in Statuses /\ failed' = failed
  BY <1>1, PatchedIs DEF Observe
<1>3. TypeOK'
  BY <1>2 DEF IInv, TypeOK, Observe, Statuses
<1>4. SightingIsRecorded'
  <2>1. ASSUME ~failed PROVE server'.selfConfig = Observation(config)
    BY <1>1, <1>2, <2>1, PatchedIs DEF IInv, CopyIsCurrent
  <2>2. Observation(config).violation \in BOOLEAN /\ last' = {config}
    BY <1>1 DEF SelfConfigStatus, Observe
  <2>3. Observation(config).violation <=> breach'
    BY <1>1, ObservationIs DEF Observe
  <2>4. breach' \in BOOLEAN
    BY DEF Observe
  <2>5. Observation(config).violation = breach'
    BY <2>2, <2>3, <2>4
  <2> QED  BY <1>1, <1>2, <2>1, <2>2, <2>5, ObservationIs DEF SightingIsRecorded
<1> QED  BY <1>2, <1>3, <1>4 DEF IInv, CopyIsCurrent, Observe

(* A patch that is answered with an error. *)
LEMMA ObserveFailsKeeps == IInv /\ ObserveFails => IInv'
<1> SUFFICES ASSUME IInv, ObserveFails PROVE IInv'
  OBVIOUS
<1>1. TypeOK /\ Observation(config) \in SelfConfigStatus
  BY ObservationIs DEF IInv
<1>2. server' \in Statuses /\ news' \in BOOLEAN
  BY <1>1, PatchedIs, ZenonT(30) DEF ObserveFails, IInv, TypeOK
<1>3. faults' \in 0..MaxFaults /\ failed'
  BY <1>1, SelfConfigAssumption DEF ObserveFails, TypeOK
<1>4. TypeOK'
  BY <1>1, <1>2, <1>3 DEF TypeOK, ObserveFails, Statuses
<1> QED  BY <1>2, <1>3, <1>4 DEF IInv, CopyIsCurrent, SightingIsRecorded, ObserveFails

(* A controller's patch leaves status.selfConfig alone. *)
LEMMA SetConditionKeeps ==
  ASSUME IInv, NEW c \in Controllers, SetCondition(c)
  PROVE  IInv'
<1>1. PICK s \in base[c] :
        \/ /\ server' = [server EXCEPT !.conditions = [s.conditions EXCEPT ![c] = Report(c, s)]]
           /\ news' = TRUE
        \/ UNCHANGED <<server, news>>
  BY DEF SetCondition
<1>2. s \in Views /\ Report(c, s) \in BOOLEAN
  BY ZenonT(30) DEF IInv, TypeOK, Report, Projection, Views, Controllers
<1>3. [s.conditions EXCEPT ![c] = Report(c, s)] \in Conditions
  BY <1>2 DEF Views, Conditions
<1>4. server' \in Statuses /\ server'.selfConfig = server.selfConfig /\ news' \in BOOLEAN
  BY <1>1, <1>3, ZenonT(30) DEF IInv, Statuses, TypeOK
<1>5. base' = [base EXCEPT ![c] = {}] /\ base' \in [Controllers -> SUBSET Views]
  BY DEF SetCondition, IInv
<1>6. TypeOK'
  BY <1>4, <1>5 DEF IInv, TypeOK, SetCondition, Statuses, relay
<1> QED  BY <1>4, <1>5, <1>6 DEF IInv, CopyIsCurrent, SightingIsRecorded, SetCondition, relay

(* What the controllers do before they patch, or when a patch fails. *)
LEMMA ControllerKeeps ==
  ASSUME IInv, NEW c \in Controllers, Read(c) \/ SetConditionFails(c)
  PROVE  IInv'
<1>1. UNCHANGED <<relay, server, truth, news, cache>>
  BY DEF Read, SetConditionFails
<1>2. base' \in [Controllers -> SUBSET Views] /\ queue' \subseteq Controllers
      /\ \A d \in Controllers : base'[d] \subseteq Views /\ \A s, t \in base'[d] : s = t
  BY DEF Read, SetConditionFails, IInv, TypeOK
<1> QED  BY <1>1, <1>2 DEF IInv, TypeOK, CopyIsCurrent, SightingIsRecorded, relay

(* Every step keeps the inductive invariant. *)
LEMMA NextKeeps == IInv /\ [Next]_vars => IInv'
<1> SUFFICES ASSUME IInv, [Next]_vars PROVE IInv'
  OBVIOUS
<1> USE DEF relay, manager
<1>1. CASE Edit
  <2>1. config' \in Documents /\ changes' \in 0..MaxChanges
    BY <1>1, SelfConfigAssumption DEF Edit, IInv, TypeOK, Documents
  <2> QED  BY <1>1, <2>1 DEF Edit, IInv, TypeOK, CopyIsCurrent, SightingIsRecorded
<1>2. CASE Restart
  BY <1>2, ZenonT(30) DEF Restart, IInv, TypeOK, CopyIsCurrent, SightingIsRecorded, Statuses
<1>3. CASE Sync
  <2>1. cache' \in Views /\ queue' \subseteq Controllers
    BY <1>3 DEF Sync, View, Views, Woken, IInv, TypeOK, SelfConfigStatus
  <2> QED  BY <1>3, <2>1, ZenonT(30) DEF Sync, IInv, TypeOK, CopyIsCurrent, SightingIsRecorded
<1>4. ASSUME NEW c \in Others, Turn(c) PROVE IInv'
  <2>1. truth' \in [Others -> BOOLEAN] /\ changes' \in 0..MaxChanges
        /\ queue' \subseteq Controllers
    BY <1>4, SelfConfigAssumption DEF Turn, IInv, TypeOK, Controllers
  <2> QED  BY <1>4, <2>1 DEF Turn, IInv, TypeOK, CopyIsCurrent, SightingIsRecorded
<1>5. CASE UNCHANGED vars
  BY <1>5 DEF vars, IInv, TypeOK, CopyIsCurrent, SightingIsRecorded
<1> QED
  BY <1>1, <1>2, <1>3, <1>4, <1>5, ObserveKeeps, ObserveFailsKeeps, SetConditionKeeps,
     ControllerKeeps
  DEF Next

(* In every behaviour of the watcher and the controllers the invariant holds. *)
THEOREM Invariance == Spec => []IInv
BY InitEstablishes, NextKeeps, PTL DEF Spec

(* While no patch of the running relay has failed, status.selfConfig has the *)
(* digest of the watcher's last sighting and says whether a protected key    *)
(* differs from the sighting before, whatever the controllers patch beside   *)
(* it.                                                                       *)
THEOREM SightingsAreRecorded == Spec => []SightingIsRecorded
<1>1. IInv => SightingIsRecorded
  BY DEF IInv
<1> QED  BY <1>1, Invariance, PTL
==============================================================================
