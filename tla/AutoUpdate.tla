------------------------------ MODULE AutoUpdate ------------------------------
(***************************************************************************)
(* Managed rollouts of one Instance: the auto-update controller            *)
(* (autoupdate_controller.go) that promotes, confirms and rolls back, and  *)
(* the Instance controller (typeclawinstance_controller.go) that renders   *)
(* the same StatefulSet from what the first one wrote to the status.       *)
(*                                                                         *)
(* An image is the number of its release; 0 is no release: an image with   *)
(* no release tag in the spec, an empty field in the status.  Each write   *)
(* of a controller is an action, and the other one, the workload and the   *)
(* spec's authors may act before it.                                       *)
(***************************************************************************)
EXTENDS Naturals

CONSTANTS
  MaxVersion,          \* bound on releases
  Sound,               \* the releases whose runtime can become ready
  Pins,                \* the releases that authors of the spec may pin
  RequireFreshBackup   \* spec.autoUpdate.requireFreshBackup

ASSUME AutoUpdateAssumption ==
  /\ MaxVersion \in Nat \ {0} /\ Sound \subseteq 0..MaxVersion /\ 0 \in Sound
  /\ Pins \subseteq 1..MaxVersion /\ RequireFreshBackup \in BOOLEAN

VARIABLES
  enabled,   \* spec.autoUpdate.enabled
  spec,      \* the image spec.runtime resolves to
  latest,    \* the release that PickVersion picks on the track
  update,    \* status.update
  elapsed,   \* whether update's confirmation deadline has passed
  image,     \* the runtime image of the StatefulSet
  running,   \* the image of the Pod that exists
  ready,     \* status.readyReplicas > 0
  rollout,   \* the auto-update controller: the writes it has yet to make
  render,    \* the Instance controller: the write it has yet to make
  wasReady,  \* history: the releases that have been ready
  tried,     \* history: the release promoted last since updates were enabled, or 0
  doubt      \* history: the first thing that may let another image's readiness count

workload == <<image, running, ready, wasReady>>
inputs   == <<enabled, spec, latest>>
history  == <<tried, doubt>>
vars == <<inputs, update, elapsed, workload, rollout, render, history>>

Images == 0..MaxVersion
Phases == {"Idle", "AwaitingBackup", "Updating", "Confirming", "Ready", "RolledBack"}

UpdateStatus == [phase : Phases, current : Images, target : Images,
                 promoted : Images, deadline : BOOLEAN]

(* A rollback that patched the image and never wrote its status, or a       *)
(* window that ended before the workload had followed the promotion.        *)
Doubts == {"none", "cutShort", "behind"}

(* What a reconcile still has to write: the image, then the status. *)
NoWrites == [image |-> {}, status |-> {}]

(* Types; and a promotion always names a release. *)
TypeOK ==
  /\ enabled \in BOOLEAN /\ spec \in Images /\ latest \in Images
  /\ update \in UpdateStatus /\ elapsed \in BOOLEAN
  /\ image \in Images /\ running \in Images /\ ready \in BOOLEAN
  /\ rollout.image \subseteq Images /\ rollout.status \subseteq UpdateStatus
  /\ render \subseteq Images
  /\ wasReady \subseteq Images /\ tried \in Images
  /\ doubt \in Doubts
  /\ update.phase \in {"Updating", "Confirming"} =>
       update.target # 0 /\ update.promoted = update.target

(* An Instance whose workload has settled on the image of its spec.         *)
Init ==
  /\ enabled \in BOOLEAN /\ spec \in {0, 1} \cap Sound /\ latest = 1
  /\ update = [phase |-> "Idle", current |-> 0, target |-> 0, promoted |-> 0,
               deadline |-> FALSE]
  /\ elapsed = FALSE
  /\ image = spec /\ running = spec /\ ready = TRUE /\ wasReady = {spec} \ {0}
  /\ rollout = NoWrites /\ render = {}
  /\ tried = 0 /\ doubt = "none"

-----------------------------------------------------------------------------
(* AutoUpdateReconciler.Reconcile, up to its first write.  A reconcile that *)
(* only sets conditions is left out.                                        *)

Plan(images, status) ==
  /\ rollout = NoWrites
  /\ rollout' = [image |-> images, status |-> {status}]
  /\ UNCHANGED <<inputs, update, elapsed, workload, render, history>>

RollingOut == update.phase \in {"Updating", "Confirming"}

(* setIdle: everything but the confirmed version is cleared.                *)
Disable ==
  /\ ~enabled
  /\ Plan({}, [phase |-> "Idle", current |-> update.current, target |-> 0,
               promoted |-> 0, deadline |-> FALSE])

(* advanceRollout, the workload ready and its release not yet observed so:  *)
(* the window opens, once.                                                  *)
StartConfirming ==
  /\ enabled /\ update.phase = "Updating" /\ ready
  /\ Plan({}, [update EXCEPT !.phase = "Confirming", !.deadline = TRUE])

(* advanceRollout, the window over and the workload ready.                  *)
Confirm ==
  /\ enabled /\ update.phase = "Confirming" /\ ready /\ elapsed
  /\ Plan({}, [phase |-> "Ready", current |-> update.target, target |-> 0,
               promoted |-> 0, deadline |-> FALSE])

ForgetTargetMutant == 0

(* The failed release stays the target, so that no poll promotes it again.  *)
RolledBackTarget == update.target

BeforeConfirmingMutant ==
  /\ enabled /\ update.phase = "Updating" /\ ~ready /\ update.deadline /\ elapsed
  /\ Plan({spec}, [update EXCEPT !.phase = "RolledBack", !.promoted = 0,
                                 !.target = RolledBackTarget, !.deadline = FALSE])

(* advanceRollout, the window over and the workload not ready.              *)
RollBack ==
  /\ enabled /\ RollingOut /\ ~ready /\ update.deadline /\ elapsed
  /\ Plan({spec}, [update EXCEPT !.phase = "RolledBack", !.promoted = 0,
                                 !.target = RolledBackTarget, !.deadline = FALSE])

(* The version a candidate has to beat. *)
Current == IF update.current = 0 THEN spec ELSE update.current

(* A poll of the registry finds a candidate worth a rollout.                *)
Candidate ==
  enabled /\ ~RollingOut /\ latest # update.target /\ latest > Current

(* backupGateBlocked.  status.backup is another controller's: a poll finds  *)
(* its last snapshot young enough or not.                                   *)
BackupGateBlocked(fresh) == RequireFreshBackup /\ ~fresh

AwaitBackup ==
  /\ Candidate /\ \E fresh \in BOOLEAN : BackupGateBlocked(fresh)
  /\ Plan({}, [update EXCEPT !.phase = "AwaitingBackup"])

Promote ==
  /\ Candidate /\ \E fresh \in BOOLEAN : ~BackupGateBlocked(fresh)
  /\ Plan({latest}, [update EXCEPT !.phase = "Updating", !.target = latest,
                                   !.promoted = latest, !.deadline = FALSE])

-----------------------------------------------------------------------------
(* Its writes *)

(* patchRuntimeImage *)
PatchImage ==
  \E i \in rollout.image :
    /\ image' = i
    /\ rollout' = [rollout EXCEPT !.image = {}]
    /\ UNCHANGED <<inputs, update, elapsed, running, ready, wasReady, render, history>>

(* finish.  A deadline is written once, and then lies in the future.        *)
PatchStatus ==
  /\ rollout.image = {}
  /\ \E s \in rollout.status :
       /\ update' = s
       /\ elapsed' = (elapsed /\ s.deadline)
       /\ tried' = CASE s.phase = "Updating" -> s.target
                      [] s.phase = "Idle" -> 0
                      [] OTHER -> tried
  /\ rollout' = NoWrites
  /\ UNCHANGED <<inputs, workload, render, doubt>>

(* A rollback has patched the image and not yet written its status.         *)
RollbackIsHalfDone ==
  rollout.image = {} /\ \E s \in rollout.status : s.phase = "RolledBack"

Doubt(reason) == doubt' = IF doubt = "none" THEN reason ELSE doubt

(* A write of one controller fails, or the operator dies under both: the    *)
(* rest is dropped and the next reconcile decides afresh.                   *)
Fail ==
  /\ \/ /\ rollout # NoWrites /\ rollout' = NoWrites
        /\ IF RollbackIsHalfDone THEN Doubt("cutShort") ELSE UNCHANGED doubt
        /\ UNCHANGED render
     \/ render # {} /\ render' = {} /\ UNCHANGED <<rollout, doubt>>
  /\ UNCHANGED <<inputs, update, elapsed, workload, tried>>

-----------------------------------------------------------------------------
(* The Instance controller *)

UpdatingOnlyMutant ==
  IF update.promoted # 0 /\ update.phase = "Updating" THEN update.promoted ELSE spec

EffectiveRuntimeImage ==
  IF update.promoted # 0 /\ update.phase \in {"Updating", "Confirming", "Ready"}
  THEN update.promoted ELSE spec

(* Reconcile reads the Instance ...                                         *)
RenderWorkload ==
  /\ render = {}
  /\ render' = {EffectiveRuntimeImage}
  /\ UNCHANGED <<inputs, update, elapsed, workload, rollout, history>>

(* ... and updates the StatefulSet with what it rendered from it.           *)
ApplyWorkload ==
  /\ \E i \in render : image' = i
  /\ render' = {}
  /\ UNCHANGED <<inputs, update, elapsed, running, ready, wasReady, rollout, history>>

-----------------------------------------------------------------------------
(* The workload, the registry, the administrator and the clock *)

(* The StatefulSet controller replaces a Pod of another image.              *)
ReplacePod ==
  /\ running # image
  /\ running' = image /\ ready' = FALSE
  /\ UNCHANGED <<inputs, update, elapsed, image, wasReady, rollout, render, history>>

(* The Pod crosses the readiness boundary, or falls back over it.           *)
PodReady ==
  /\ ~ready /\ running \in Sound
  /\ ready' = TRUE /\ wasReady' = wasReady \cup ({running} \ {0})
  /\ UNCHANGED <<inputs, update, elapsed, image, running, rollout, render, history>>

PodUnready ==
  /\ ready /\ ready' = FALSE
  /\ UNCHANGED <<inputs, update, elapsed, image, running, wasReady, rollout, render, history>>

(* A release is published or withdrawn, or spec.autoUpdate.track is edited: *)
(* the next poll picks another release, older or newer.  A poll that picks  *)
(* none sets a condition and is like one that picks nothing newer.          *)
PickVersion ==
  /\ latest' \in Images \ {0, latest}
  /\ UNCHANGED <<enabled, spec, update, elapsed, workload, rollout, render, history>>

(* GitOps switches updates on or off, or pins a release.                    *)
Administrate ==
  /\ \/ enabled' = ~enabled /\ UNCHANGED spec
     \/ spec' \in Pins \ {spec} /\ UNCHANGED enabled
  /\ UNCHANGED <<latest, update, elapsed, workload, rollout, render, history>>

(* The release is rendered, and its Pod is the one that exists.             *)
Followed == render \subseteq {update.target} /\ image = update.target /\ running = image

(* The deadline passes, whether or not the workload has followed.           *)
WindowElapses ==
  /\ update.deadline /\ ~elapsed
  /\ elapsed' = TRUE
  /\ IF Followed THEN UNCHANGED doubt ELSE Doubt("behind")
  /\ UNCHANGED <<inputs, update, workload, rollout, render, tried>>

Reconcile ==
  \/ Disable \/ StartConfirming \/ Confirm \/ RollBack \/ AwaitBackup \/ Promote
  \/ PatchImage \/ PatchStatus

Next ==
  \/ Reconcile \/ Fail \/ RenderWorkload \/ ApplyWorkload
  \/ ReplacePod \/ PodReady \/ PodUnready
  \/ PickVersion \/ Administrate \/ WindowElapses

Spec == Init /\ [][Next]_vars

(* Both controllers run, the workload controller runs and the clock does;   *)
(* writes that are tried again and again get through.                       *)
Fairness ==
  /\ WF_vars(Reconcile) /\ SF_vars(PatchImage) /\ SF_vars(PatchStatus)
  /\ WF_vars(RenderWorkload) /\ SF_vars(ApplyWorkload)
  /\ WF_vars(ReplacePod) /\ WF_vars(WindowElapses)

FairSpec == Spec /\ Fairness

-----------------------------------------------------------------------------
(* PatchStatus records a promotion. *)
Promoted == update.phase # "Updating" /\ update'.phase = "Updating"

(* TargetVersion, the one record of a failed attempt, does its work: while  *)
(* updates stay enabled a release is not promoted twice without another one *)
(* in between, through rollbacks, failures, deferrals for a backup, edits   *)
(* of the spec and of the track, and releases that come and go.  A release  *)
(* tried before the last one may come back when the track is edited.        *)
NoRepromotion == [][Promoted => update'.target # tried]_vars

(* The comment in Reconcile on RolledBack: polls do not "loop               *)
(* promote->rollback forever".  Once the spec stays as it is and the        *)
(* registry picks the same release, promotions come to an end.              *)
NoPromoteLoop ==
  <>[][FALSE]_<<enabled, spec, latest>> => <>[][~Promoted]_vars

(* What UpdateStatus says of CurrentVersion, that it was confirmed ready:   *)
(* the readiness advanceRollout reads when it confirms is the release's.    *)
(* Two things can confirm a release that never ran: a rollback that patched *)
(* the image and did not get to write RolledBack, and a window that ends    *)
(* while the old Pod still counts as ready or an older rendering is on its  *)
(* way (Doubts).  No other failure, rendering from an old copy or edit of   *)
(* the spec makes another image's readiness count for it.                   *)
ConfirmedUnlessInDoubt ==
  doubt = "none" => update.current \in wasReady \cup {0}

(* A rollout whose window has opened ends: it is confirmed, rolled back or  *)
(* dropped because updates were disabled.                                   *)
WindowResolves == update.deadline ~> ~update.deadline

(* What UpdateStatus and effective.go say: status.update tracks what        *)
(* actually runs, so that with nothing left to write the workload is at the *)
(* version the status calls confirmed.                                      *)
StatusTracksWorkload ==
  update.phase = "Ready" /\ rollout = NoWrites /\ render = {} => image = update.current

=============================================================================
