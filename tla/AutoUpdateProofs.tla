--------------------------- MODULE AutoUpdateProofs ---------------------------
(***************************************************************************)
(* Proofs, for any number of releases, any set of them that can become     *)
(* ready, any pins and with or without the backup gate, that a release is  *)
(* not promoted twice in a row (NoRepromotion) and that only a rollback    *)
(* cut short or a workload that falls behind can make another image's      *)
(* readiness confirm a release (ConfirmedUnlessInDoubt).                   *)
(*                                                                         *)
(* Neither is inductive.  The status is decided in one step and written in *)
(* a later one, so the invariant says what a status that waits to be       *)
(* written may be, given the status it will replace (Follows); that the    *)
(* release tried last is the target or the current version (TriedIsKept);  *)
(* and once a window has elapsed, that the release's own Pod is the one    *)
(* that runs or a rollback is half done (Window).                          *)
(***************************************************************************)
EXTENDS AutoUpdate, TLAPS

Writes == [image : SUBSET Images, status : SUBSET UpdateStatus]

(* A status that a reconcile has decided on and not yet written. *)
Follows(s) ==
  /\ s.phase \in {"Updating", "Confirming"} => s.target # 0 /\ s.promoted = s.target
  /\ s.deadline => s.phase = "Confirming"
  /\ s.phase = "Updating" =>
       ~RollingOut /\ s.target # tried
  /\ s.phase = "Confirming" => update.phase = "Updating" /\ s.target = update.target
  /\ s.phase = "Ready" => update.phase = "Confirming" /\ s.current = update.target
  /\ s.phase = "RolledBack" => RollingOut /\ s.target = update.target
  /\ s.phase = "AwaitingBackup" =>
       ~RollingOut /\ s.target = update.target /\ s.current = update.current
  /\ doubt = "none" => s.current \in wasReady \cup {0}

(* A reconcile that patches the image promotes or rolls back. *)
Pending ==
  /\ rollout \in Writes
  /\ \A s \in rollout.status : Follows(s)
  /\ rollout.image # {} => \E s \in rollout.status : s.phase \in {"Updating", "RolledBack"}

(* A window belongs to a rollout; when it is over the release runs, unless  *)
(* a rollback has already replaced it.                                      *)
Window ==
  /\ update.deadline => update.phase = "Confirming"
  /\ elapsed => update.deadline
  /\ elapsed /\ doubt = "none" =>
       /\ render \subseteq {update.target}
       /\ (image = update.target /\ running = update.target) \/ RollbackIsHalfDone

(* Readiness is that of the Pod that runs. *)
ReadinessIsRecorded == ready => running \in wasReady \cup {0}

(* A promotion names its release as the target, which only a confirmation   *)
(* clears: then the release is the current version.                         *)
TriedIsKept ==
  tried # 0 => \/ update.target = tried
               \/ update.current = tried /\ ~RollingOut

IInv ==
  /\ TypeOK /\ Pending /\ Window /\ ReadinessIsRecorded /\ TriedIsKept
  /\ ConfirmedUnlessInDoubt
-----------------------------------------------------------------------------
USE DEF workload, inputs, history

LEMMA ImagesAre == Images \subseteq Nat /\ {0, 1} \subseteq Images
BY AutoUpdateAssumption DEF Images

LEMMA NoWritesIs == NoWrites \in Writes /\ NoWrites.image = {} /\ NoWrites.status = {}
BY DEF NoWrites, Writes

(* A workload that has settled, and no rollout. *)
LEMMA InitEstablishes == Init => IInv
<1> SUFFICES ASSUME Init PROVE IInv
  OBVIOUS
<1>1. /\ update.phase = "Idle" /\ update.current = 0 /\ update.deadline = FALSE
      /\ elapsed = FALSE /\ tried = 0 /\ rollout = NoWrites
      /\ running \in wasReady \cup {0}
  BY DEF Init
<1>2. update \in UpdateStatus
  BY ImagesAre DEF Init, UpdateStatus, Phases
<1>3. spec \in Images /\ latest \in Images
  BY ImagesAre DEF Init
<1>4. TypeOK
  <2>1. wasReady \subseteq Images /\ tried \in Images /\ doubt \in Doubts
    BY <1>1, <1>3, ImagesAre DEF Init, Doubts
  <2> QED  BY <1>1, <1>2, <1>3, <2>1, NoWritesIs, ZenonT(30) DEF Init, TypeOK, Writes
<1>5. Pending /\ Window
  BY <1>1, NoWritesIs DEF Pending, Window
<1>6. TriedIsKept /\ ReadinessIsRecorded /\ ConfirmedUnlessInDoubt
  BY <1>1 DEF TriedIsKept, RollingOut, ReadinessIsRecorded, ConfirmedUnlessInDoubt
<1> QED  BY <1>4, <1>5, <1>6 DEF IInv
-----------------------------------------------------------------------------
(* AutoUpdateReconciler *)

(* A reconcile that decides on a status the current one allows.             *)
LEMMA PlanKeeps ==
  ASSUME IInv, NEW images \in SUBSET Images, NEW status \in UpdateStatus,
         Plan(images, status), Follows(status),
         images # {} => status.phase \in {"Updating", "RolledBack"}
  PROVE  IInv'
<1>1. /\ rollout = NoWrites /\ rollout' = [image |-> images, status |-> {status}]
      /\ UNCHANGED <<inputs, update, elapsed, workload, render, history>>
  BY DEF Plan
<1>2. rollout' \in Writes /\ rollout'.image = images /\ rollout'.status = {status}
  BY <1>1 DEF Writes
<1>3. TypeOK'
  BY <1>1, <1>2 DEF IInv, TypeOK, Writes
<1>4. Follows(status)'
  BY <1>1 DEF Follows, RollingOut
<1>5. Pending'
  BY <1>2, <1>4 DEF Pending
<1>6. ~RollbackIsHalfDone
  BY <1>1, NoWritesIs DEF RollbackIsHalfDone
<1>7. Window'
  BY <1>1, <1>6 DEF IInv, Window
<1> QED
  BY <1>1, <1>3, <1>5, <1>7 DEF IInv, ReadinessIsRecorded, TriedIsKept, RollingOut,
     ConfirmedUnlessInDoubt

LEMMA DisableKeeps == IInv /\ Disable => IInv'
<1> SUFFICES ASSUME IInv, Disable PROVE IInv'
  OBVIOUS
<1> DEFINE s == [phase |-> "Idle", current |-> update.current, target |-> 0,
                 promoted |-> 0, deadline |-> FALSE]
<1>1. s \in UpdateStatus
  BY ImagesAre DEF IInv, TypeOK, UpdateStatus, Phases
<1>2. Follows(s)
  BY DEF IInv, Follows, ConfirmedUnlessInDoubt
<1>3. Plan({}, s)
  BY DEF Disable
<1> QED  BY <1>1, <1>2, <1>3, PlanKeeps

LEMMA StartConfirmingKeeps == IInv /\ StartConfirming => IInv'
<1> SUFFICES ASSUME IInv, StartConfirming PROVE IInv'
  OBVIOUS
<1> DEFINE s == [update EXCEPT !.phase = "Confirming", !.deadline = TRUE]
<1>1. /\ s \in UpdateStatus /\ s.phase = "Confirming" /\ s.target = update.target
      /\ s.promoted = update.promoted /\ s.current = update.current
  BY ZenonT(30) DEF IInv, TypeOK, UpdateStatus, Phases
<1>2. update.phase = "Updating" /\ Plan({}, s)
  BY DEF StartConfirming
<1> HIDE DEF s
<1>3. Follows(s)
  BY <1>1, <1>2 DEF IInv, TypeOK, Follows, ConfirmedUnlessInDoubt
<1> QED  BY <1>1, <1>2, <1>3, PlanKeeps

(* The Pod that is ready is the release's: a rollback that was half done    *)
(* would still have its status to write.                                    *)
LEMMA ConfirmKeeps == IInv /\ Confirm => IInv'
<1> SUFFICES ASSUME IInv, Confirm PROVE IInv'
  OBVIOUS
<1> DEFINE s == [phase |-> "Ready", current |-> update.target, target |-> 0,
                 promoted |-> 0, deadline |-> FALSE]
<1>1. s \in UpdateStatus
  BY ImagesAre DEF IInv, TypeOK, UpdateStatus, Phases
<1>2. Plan({}, s) /\ update.phase = "Confirming" /\ ready /\ elapsed /\ rollout = NoWrites
  BY DEF Confirm, Plan
<1>3. doubt = "none" => update.target \in wasReady \cup {0}
  BY <1>2, NoWritesIs DEF IInv, Window, RollbackIsHalfDone, ReadinessIsRecorded
<1>4. Follows(s)
  BY <1>2, <1>3 DEF Follows
<1> QED  BY <1>1, <1>2, <1>4, PlanKeeps

LEMMA RollBackKeeps == IInv /\ RollBack => IInv'
<1> SUFFICES ASSUME IInv, RollBack PROVE IInv'
  OBVIOUS
<1> DEFINE s == [update EXCEPT !.phase = "RolledBack", !.promoted = 0,
                               !.target = RolledBackTarget, !.deadline = FALSE]
<1>1. /\ s \in UpdateStatus /\ s.phase = "RolledBack" /\ s.target = update.target
      /\ s.current = update.current /\ s.deadline = FALSE
  BY ImagesAre, ZenonT(30) DEF IInv, TypeOK, UpdateStatus, Phases, RolledBackTarget
<1>2. RollingOut /\ Plan({spec}, s) /\ {spec} \in SUBSET Images
  BY DEF RollBack, IInv, TypeOK
<1> HIDE DEF s
<1>3. Follows(s)
  BY <1>1, <1>2 DEF IInv, Follows, ConfirmedUnlessInDoubt
<1> QED  BY <1>1, <1>2, <1>3, PlanKeeps

LEMMA AwaitBackupKeeps == IInv /\ AwaitBackup => IInv'
<1> SUFFICES ASSUME IInv, AwaitBackup PROVE IInv'
  OBVIOUS
<1> DEFINE s == [update EXCEPT !.phase = "AwaitingBackup"]
<1>1. /\ s \in UpdateStatus /\ s.phase = "AwaitingBackup" /\ s.target = update.target
      /\ s.current = update.current /\ s.deadline = update.deadline
  BY DEF IInv, TypeOK, UpdateStatus, Phases
<1>2. ~RollingOut /\ Plan({}, s)
  BY DEF AwaitBackup, Candidate
<1>3. ~update.deadline
  BY <1>2 DEF RollingOut, IInv, Window
<1> HIDE DEF s
<1>4. Follows(s)
  BY <1>1, <1>2, <1>3 DEF IInv, Follows, ConfirmedUnlessInDoubt
<1> QED  BY <1>1, <1>2, <1>4, PlanKeeps

(* The candidate is neither the target nor as old as the current version.   *)
LEMMA PromoteKeeps == IInv /\ Promote => IInv'
<1> SUFFICES ASSUME IInv, Promote PROVE IInv'
  OBVIOUS
<1> DEFINE s == [update EXCEPT !.phase = "Updating", !.target = latest,
                               !.promoted = latest, !.deadline = FALSE]
<1>1. /\ s \in UpdateStatus /\ s.phase = "Updating" /\ s.target = latest
      /\ s.promoted = latest /\ s.current = update.current /\ s.deadline = FALSE
  BY ZenonT(30) DEF IInv, TypeOK, UpdateStatus, Phases
<1>2. /\ ~RollingOut /\ latest # update.target /\ latest > Current
      /\ Plan({latest}, s) /\ {latest} \in SUBSET Images
  BY DEF Promote, Candidate, IInv, TypeOK
<1>3. latest \in Nat /\ Current \in Nat /\ latest # 0 /\ latest # update.current
  <2>1. latest \in Nat /\ spec \in Nat /\ update.current \in Nat
    BY ImagesAre, Zenon DEF IInv, TypeOK, UpdateStatus
  <2> QED  BY <1>2, <2>1 DEF Current
<1>4. latest # tried
  BY <1>2, <1>3 DEF IInv, TriedIsKept
<1> HIDE DEF s
<1>5. Follows(s)
  BY <1>1, <1>2, <1>3, <1>4 DEF IInv, Follows, ConfirmedUnlessInDoubt
<1> QED  BY <1>1, <1>2, <1>5, PlanKeeps

(* patchRuntimeImage: when the window is over it can only be a rollback's.  *)
LEMMA PatchImageKeeps == IInv /\ PatchImage => IInv'
<1> SUFFICES ASSUME IInv, PatchImage PROVE IInv'
  OBVIOUS
<1>1. PICK i \in rollout.image :
        /\ image' = i /\ rollout' = [rollout EXCEPT !.image = {}]
        /\ UNCHANGED <<inputs, update, elapsed, running, ready, wasReady, render, history>>
  BY DEF PatchImage
<1>2. /\ rollout' \in Writes /\ rollout'.image = {} /\ rollout'.status = rollout.status
      /\ i \in Images
  BY <1>1 DEF IInv, Pending, Writes
<1>3. TypeOK'
  BY <1>1, <1>2 DEF IInv, TypeOK, Writes
<1>4. Pending'
  <2>1. ASSUME NEW s \in rollout.status PROVE Follows(s)'
    BY <1>1, <2>1 DEF IInv, Pending, Follows, RollingOut
  <2> QED  BY <1>2, <2>1 DEF Pending
<1>5. Window'
  <2>1. PICK s \in rollout.status : Follows(s) /\ s.phase \in {"Updating", "RolledBack"}
    BY <1>1 DEF IInv, Pending
  <2>2. elapsed => s.phase = "RolledBack"
    BY <2>1 DEF Follows, RollingOut, IInv, Window
  <2>3. elapsed => RollbackIsHalfDone'
    BY <1>2, <2>2 DEF RollbackIsHalfDone
  <2> QED  BY <1>1, <2>3 DEF IInv, Window
<1> QED
  BY <1>1, <1>3, <1>4, <1>5 DEF IInv, ReadinessIsRecorded, TriedIsKept, RollingOut,
     ConfirmedUnlessInDoubt

(* finish *)
LEMMA PatchStatusKeeps == IInv /\ PatchStatus => IInv'
<1> SUFFICES ASSUME IInv, PatchStatus PROVE IInv'
  OBVIOUS
<1>1. PICK s \in rollout.status :
        /\ update' = s /\ elapsed' = (elapsed /\ s.deadline)
        /\ s.phase = "Updating" => tried' = s.target
        /\ s.phase = "Idle" => tried' = 0
        /\ s.phase \notin {"Updating", "Idle"} => tried' = tried
        /\ rollout' = NoWrites
        /\ UNCHANGED <<inputs, workload, render, doubt>>
  BY DEF PatchStatus
<1>2. Follows(s) /\ s \in UpdateStatus /\ update \in UpdateStatus
  BY DEF IInv, Pending, Writes, TypeOK
<1>3. elapsed' = FALSE
  BY <1>1, <1>2, ZenonT(30) DEF IInv, Window, Follows
<1>4. tried' \in Images
  BY <1>1, <1>2, ImagesAre DEF IInv, TypeOK, UpdateStatus
<1>5. TypeOK'
  BY <1>1, <1>2, <1>3, <1>4, NoWritesIs DEF IInv, TypeOK, Writes, Follows
<1>6. Pending' /\ Window'
  BY <1>1, <1>2, <1>3, NoWritesIs DEF Pending, Window, Follows
<1>7. TriedIsKept'
  <2>1. s.phase \in Phases
    BY <1>2 DEF UpdateStatus
  <2>2. CASE s.phase \in {"Updating", "Idle"}
    BY <1>1, <2>2 DEF TriedIsKept
  <2>3. CASE s.phase \in {"Confirming", "RolledBack"}
    BY <1>1, <1>2, <2>3 DEF TriedIsKept, RollingOut, Follows, IInv
  <2>4. CASE s.phase \in {"Ready", "AwaitingBackup"}
    BY <1>1, <1>2, <2>4 DEF TriedIsKept, RollingOut, Follows, IInv
  <2> QED  BY <2>1, <2>2, <2>3, <2>4 DEF Phases
<1>8. ReadinessIsRecorded' /\ ConfirmedUnlessInDoubt'
  BY <1>1, <1>2 DEF IInv, ReadinessIsRecorded, ConfirmedUnlessInDoubt, Follows
<1> QED  BY <1>5, <1>6, <1>7, <1>8 DEF IInv
(* A failure drops what was to be written; a rollback it drops half way is  *)
(* remembered.                                                              *)
LEMMA FailKeeps == IInv /\ Fail => IInv'
<1> SUFFICES ASSUME IInv, Fail PROVE IInv'
  OBVIOUS
<1>1. \/ /\ rollout' = NoWrites /\ render' = render
         /\ RollbackIsHalfDone => doubt' # "none"
      \/ rollout' = rollout /\ render' = {} /\ doubt' = doubt
  BY DEF Fail, Doubt
<1>2. UNCHANGED <<inputs, update, elapsed, workload, tried>>
  BY DEF Fail
<1>3. doubt' \in Doubts /\ (doubt' = "none" => doubt = "none")
  BY DEF Fail, Doubt, Doubts, IInv, TypeOK
<1>4. TypeOK'
  BY <1>1, <1>2, <1>3, NoWritesIs DEF IInv, TypeOK, Writes
<1>5. Pending'
  <2>1. CASE rollout' = NoWrites
    BY <2>1, NoWritesIs DEF Pending
  <2>2. CASE rollout' = rollout /\ doubt' = doubt
    <3>1. ASSUME NEW s \in rollout.status PROVE Follows(s)'
      BY <1>2, <2>2, <3>1 DEF IInv, Pending, Follows, RollingOut
    <3> QED  BY <2>2, <3>1 DEF IInv, Pending
  <2> QED  BY <1>1, <2>1, <2>2
<1>6. Window'
  BY <1>1, <1>2, <1>3 DEF IInv, Window, RollbackIsHalfDone
<1> QED
  BY <1>2, <1>3, <1>4, <1>5, <1>6 DEF IInv, ReadinessIsRecorded, TriedIsKept, RollingOut,
     ConfirmedUnlessInDoubt
-----------------------------------------------------------------------------
(* The Instance controller, the workload and what lies around them *)

(* Steps that leave the auto-update controller and its status alone.        *)
LEMMA PendingStays ==
  ASSUME IInv, UNCHANGED <<update, rollout, tried>>, doubt' = "none" => doubt = "none",
         wasReady \subseteq wasReady'
  PROVE  Pending'
<1>1. ASSUME NEW s \in rollout.status PROVE Follows(s)'
  <2>1. Follows(s)
    BY <1>1 DEF IInv, Pending
  <2> QED  BY <2>1 DEF Follows, RollingOut
<1> QED  BY <1>1 DEF IInv, Pending

(* The Instance controller renders the release while it is rolled out.      *)
LEMMA RenderingKeeps == IInv /\ (RenderWorkload \/ ApplyWorkload) => IInv'
<1> SUFFICES ASSUME IInv, RenderWorkload \/ ApplyWorkload PROVE IInv'
  OBVIOUS
<1>1. UNCHANGED <<inputs, update, elapsed, running, ready, wasReady, rollout, history>>
  BY DEF RenderWorkload, ApplyWorkload
<1>2. \/ render' = {EffectiveRuntimeImage} /\ image' = image
      \/ render' = {} /\ image' \in render
  BY DEF RenderWorkload, ApplyWorkload
<1>3. EffectiveRuntimeImage \in Images
  BY DEF IInv, TypeOK, UpdateStatus, EffectiveRuntimeImage
<1>4. elapsed => EffectiveRuntimeImage = update.target
  BY DEF IInv, TypeOK, Window, EffectiveRuntimeImage
<1>5. TypeOK'
  BY <1>1, <1>2, <1>3 DEF IInv, TypeOK
<1>6. Pending'
  BY <1>1, PendingStays
<1>7. Window'
  BY <1>1, <1>2, <1>4 DEF IInv, Window, RollbackIsHalfDone
<1> QED
  BY <1>1, <1>5, <1>6, <1>7 DEF IInv, ReadinessIsRecorded, TriedIsKept, RollingOut,
     ConfirmedUnlessInDoubt

(* The Pod is replaced by one that is not ready, and becomes ready itself.  *)
LEMMA PodKeeps == IInv /\ (ReplacePod \/ PodReady \/ PodUnready) => IInv'
<1> SUFFICES ASSUME IInv, ReplacePod \/ PodReady \/ PodUnready PROVE IInv'
  OBVIOUS
<1>1. UNCHANGED <<inputs, update, elapsed, image, rollout, render, history>>
  BY DEF ReplacePod, PodReady, PodUnready
<1>2. /\ running' \in {running, image} /\ ready' \in BOOLEAN
      /\ wasReady \subseteq wasReady' /\ wasReady' \subseteq wasReady \cup {running}
      /\ ready' => running' \in wasReady' \cup {0}
  <2>1. ready' \in BOOLEAN
    BY Zenon DEF ReplacePod, PodReady, PodUnready, IInv, TypeOK
  <2> QED  BY <2>1 DEF ReplacePod, PodReady, PodUnready, IInv, ReadinessIsRecorded
<1>3. TypeOK'
  BY <1>1, <1>2 DEF IInv, TypeOK
<1>4. Pending'
  BY <1>1, <1>2, PendingStays
<1>5. Window'
  BY <1>1, <1>2 DEF IInv, Window, RollbackIsHalfDone
<1> QED
  BY <1>1, <1>2, <1>3, <1>4, <1>5 DEF IInv, ReadinessIsRecorded, TriedIsKept, RollingOut,
     ConfirmedUnlessInDoubt

(* Another release to pick, and edits of the spec. *)
LEMMA InputsKeep == IInv /\ (PickVersion \/ Administrate) => IInv'
<1> SUFFICES ASSUME IInv, PickVersion \/ Administrate PROVE IInv'
  OBVIOUS
<1>1. UNCHANGED <<update, elapsed, workload, rollout, render, history>>
  BY DEF PickVersion, Administrate
<1>2. latest' \in Images /\ spec' \in Images
  <2>1. latest' \in Images
    BY Zenon DEF IInv, TypeOK, PickVersion, Administrate
  <2>2. Pins \subseteq Images
    BY AutoUpdateAssumption DEF Images
  <2> QED  BY <2>1, <2>2, Zenon DEF IInv, TypeOK, PickVersion, Administrate
<1>3. enabled' \in BOOLEAN
  BY Zenon DEF IInv, TypeOK, PickVersion, Administrate
<1>4. TypeOK'
  BY <1>1, <1>2, <1>3 DEF IInv, TypeOK
<1>5. Pending'
  BY <1>1, PendingStays
<1> QED
  BY <1>1, <1>4, <1>5 DEF IInv, ReadinessIsRecorded, Window, RollbackIsHalfDone,
     TriedIsKept, RollingOut, ConfirmedUnlessInDoubt

(* When the window is over the release has been rendered and its Pod runs,  *)
(* or the workload is behind.                                               *)
LEMMA WindowElapsesKeeps == IInv /\ WindowElapses => IInv'
<1> SUFFICES ASSUME IInv, WindowElapses PROVE IInv'
  OBVIOUS
<1>1. /\ update.deadline /\ elapsed' = TRUE
      /\ UNCHANGED <<inputs, update, workload, rollout, render, tried>>
  BY DEF WindowElapses
<1>2. /\ doubt' \in Doubts /\ (doubt' = "none" => doubt = "none")
      /\ doubt' = "none" => Followed
  BY DEF WindowElapses, Doubt, Doubts, IInv, TypeOK
<1>3. TypeOK'
  BY <1>1, <1>2 DEF IInv, TypeOK
<1>4. Pending'
  BY <1>1, <1>2, PendingStays
<1>5. Window'
  BY <1>1, <1>2 DEF IInv, Window, RollbackIsHalfDone, Followed
<1> QED
  BY <1>1, <1>2, <1>3, <1>4, <1>5 DEF IInv, ReadinessIsRecorded, TriedIsKept, RollingOut,
     ConfirmedUnlessInDoubt
-----------------------------------------------------------------------------
(* Results *)

LEMMA NextKeeps == IInv /\ [Next]_vars => IInv'
<1> SUFFICES ASSUME IInv, [Next]_vars PROVE IInv'
  OBVIOUS
<1>1. CASE Reconcile
  BY <1>1, DisableKeeps, StartConfirmingKeeps, ConfirmKeeps, RollBackKeeps,
     AwaitBackupKeeps, PromoteKeeps, PatchImageKeeps, PatchStatusKeeps DEF Reconcile
<1>2. CASE Next /\ ~Reconcile
  BY <1>2, FailKeeps, RenderingKeeps, PodKeeps, InputsKeep, WindowElapsesKeeps DEF Next
<1>3. CASE UNCHANGED vars
  <2>1. UNCHANGED <<inputs, update, elapsed, workload, rollout, render, history>>
    BY <1>3 DEF vars
  <2>2. Pending'
    BY <2>1, PendingStays
  <2> QED
    BY <2>1, <2>2 DEF IInv, TypeOK, Window, RollbackIsHalfDone, ReadinessIsRecorded,
       TriedIsKept, RollingOut, ConfirmedUnlessInDoubt
<1> QED  BY <1>1, <1>2, <1>3

(* The inductive invariant holds in every reachable state. *)
THEOREM Invariance == Spec => []IInv
BY InitEstablishes, NextKeeps, PTL DEF Spec

(* advanceRollout confirms a release on the readiness of its own Pod,       *)
(* however promotions, renderings, failures and edits interleave, unless a  *)
(* rollback once patched the image and lost its status write or a window    *)
(* ended before the workload had followed.                                  *)
THEOREM ConfirmationIsTrue == Spec => []ConfirmedUnlessInDoubt
<1>1. IInv => ConfirmedUnlessInDoubt
  BY DEF IInv
<1> QED  BY <1>1, Invariance, PTL

(* Reconcile never promotes the same release twice in a row while updates   *)
(* stay enabled, whatever the registry picks in between.                    *)
THEOREM PromotionsDiffer == Spec => NoRepromotion
<1>1. IInv /\ [Next]_vars => [Promoted => update'.target # tried]_vars
  <2> SUFFICES ASSUME IInv, Next, Promoted PROVE update'.target # tried
    OBVIOUS
  <2>1. PatchStatus
    BY ZenonT(30) DEF Promoted, Next, Reconcile, Disable, StartConfirming, Confirm, RollBack,
       AwaitBackup, Promote, Plan, PatchImage, Fail, RenderWorkload, ApplyWorkload, ReplacePod,
       PodReady, PodUnready, PickVersion, Administrate, WindowElapses
  <2>2. PICK s \in rollout.status : update' = s
    BY <2>1 DEF PatchStatus
  <2> QED  BY <2>2 DEF Promoted, IInv, Pending, Follows
<1> QED  BY <1>1, Invariance, PTL DEF Spec, NoRepromotion
===============================================================================
