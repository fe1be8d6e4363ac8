---------------------------- MODULE BackupRestore ----------------------------
(***************************************************************************)
(* The backup controller (internal/controller/backup_controller.go) with   *)
(* the CronJob, the snapshot Jobs and the restore Jobs it renders          *)
(* (internal/resources/backup.go), beside the runtime whose workspace they *)
(* read and write.                                                         *)
(*                                                                         *)
(* Snapshot Jobs are numbered in the order the CronJob starts them.  An    *)
(* archive is named after the Pod that wrote it: JOB_NAME is the Pod's     *)
(* metadata.name.  A script that the kubelet runs again in its Pod writes  *)
(* the same archive again, and a Pod that takes the place of a lost one    *)
(* writes another.  A restore request names the archive to unpack.  The    *)
(* workspace is the set of those whose files are in it: the runtime, and   *)
(* the archives that were unpacked there.                                  *)
(***************************************************************************)
EXTENDS Naturals, Sequences

CONSTANTS
  Retention,   \* spec.backup.retention
  MaxJobs,     \* bound on snapshot Jobs
  MaxPods,     \* bound on the Pods of a snapshot Job
  MaxEdits     \* bound on what users and other controllers change

(* The CRD has no minimum for the retention: 0 is a value like any other. *)
ASSUME BackupAssumption ==
  /\ Retention \in Nat /\ MaxJobs \in Nat /\ Retention < MaxJobs
  /\ MaxPods \in Nat \ {0} /\ MaxEdits \in Nat

Jobs    == 1..MaxJobs
Runtime == 0
Sources == Jobs \cup {Runtime}

VARIABLES
  instance,   \* the Instance: spec.backup and spec.suspend, the restore annotation, the status
  cache,      \* the Instance in the informer cache
  edits,      \* how often users or other controllers have changed something
  claim,      \* the snapshot PVC: "absent", "bound" or "deleting"
  archives,   \* what is on it, newest first
  cron,       \* the CronJob: whether it exists and is suspended, and its number
  job,        \* the state of each snapshot Job
  pod,        \* the number of the Pod each snapshot Job is at
  owner,      \* the number of the CronJob each snapshot Job belongs to
  restore,    \* the state of the restore Job for each archive
  runs,       \* history: the restore Jobs created for each archive
  runtime,    \* the runtime Pod: "up", "stopping" or "down"
  workspace,  \* whose files are in the public workspace
  mixed,      \* history: a restore and something else have written the workspace
  lossy,      \* history: what may have cost archives
  excuse      \* history: what a restore may have met

vars  == <<instance, cache, edits, lossy, claim, archives, cron, job, pod, owner, restore,
           runs, runtime, workspace, mixed, excuse>>

(* BackupReady by its reason; "None" is a condition that is not there. *)
Reasons == {"None", "ResourceError", "Pending", "Healthy", "Failed",
            "RestoreBlocked", "TargetNotEmpty"}

Instances == [backup : BOOLEAN, suspend : BOOLEAN, request : SUBSET Jobs,
              processed : SUBSET Jobs, latest : SUBSET Jobs, ready : Reasons]
Archives  == [job : Jobs, pod : Nat, whole : BOOLEAN]

JobStates     == {"none", "tar", "prune", "complete", "failed", "removed"}
RestoreStates == {"none", "check", "unpack", "unpacking", "done", "failed"}

(* Types; there is at most one archive per Pod. *)
TypeOK ==
  /\ instance \in Instances /\ cache \in Instances
  /\ edits \in 0..MaxEdits /\ lossy \in BOOLEAN
  /\ claim \in {"absent", "bound", "deleting"}
  /\ archives \in Seq(Archives)
  /\ \A i, k \in DOMAIN archives :
       archives[i].job = archives[k].job /\ archives[i].pod = archives[k].pod => i = k
  /\ cron.number \in Nat /\ cron.exists \in BOOLEAN /\ cron.suspended \in BOOLEAN
  /\ job \in [Jobs -> JobStates] /\ pod \in [Jobs -> 1..MaxPods] /\ owner \in [Jobs -> Nat]
  /\ restore \in [Jobs -> RestoreStates] /\ runs \in [Jobs -> Nat]
  /\ runtime \in {"up", "stopping", "down"} /\ workspace \subseteq Sources
  /\ mixed \in BOOLEAN /\ excuse \in BOOLEAN

(* An Instance with a snapshot for each place of its retention, in service  *)
(* or suspended; whether there is anything in the workspace is open.        *)
Init ==
  /\ \E suspend \in BOOLEAN :
       /\ instance = [backup |-> TRUE, suspend |-> suspend, request |-> {}, processed |-> {},
                      latest |-> {j \in Jobs : j = Retention},
                      ready |-> IF Retention = 0 THEN "Pending" ELSE "Healthy"]
       /\ cron = [exists |-> TRUE, suspended |-> suspend, number |-> 1]
       /\ runtime = IF suspend THEN "down" ELSE "up"
  /\ cache = instance /\ edits = 0 /\ lossy = FALSE
  /\ claim = "bound"
  /\ archives = [i \in 1..Retention |-> [job |-> Retention + 1 - i, pod |-> 1, whole |-> TRUE]]
  /\ pod = [j \in Jobs |-> 1]
  /\ job = [j \in Jobs |-> IF j <= Retention THEN "complete" ELSE "none"]
  /\ owner = [j \in Jobs |-> IF j <= Retention THEN 1 ELSE 0]
  /\ restore = [j \in Jobs |-> "none"] /\ runs = [j \in Jobs |-> 0]
  /\ workspace \in {{}, {Runtime}} /\ mixed = FALSE /\ excuse = FALSE

-----------------------------------------------------------------------------
(* Users, and the Instance controller's scaling of the runtime.             *)

Restoring == {v \in Jobs : restore[v] \in {"check", "unpack", "unpacking"}}

Change ==
  /\ edits < MaxEdits /\ edits' = edits + 1
  /\ UNCHANGED <<cache, claim, archives, cron, job, pod, owner, restore, runs, runtime, mixed>>

SetBackup ==
  /\ Change
  /\ instance' = [instance EXCEPT !.backup = ~@]
  /\ lossy' = TRUE
  /\ UNCHANGED <<workspace, excuse>>

SetSuspend ==
  /\ Change
  /\ instance' = [instance EXCEPT !.suspend = ~@]
  /\ excuse' = (excuse \/ (instance.suspend /\ Restoring # {}))
  /\ UNCHANGED <<workspace, lossy>>

(* A restore is asked for, by the name of the archive that the first Pod of *)
(* a Job writes.                                                            *)
Annotate ==
  /\ Change
  /\ \E j \in Jobs :
       /\ instance.request # {j}
       /\ instance' = [instance EXCEPT !.request = {j}]
  /\ UNCHANGED <<workspace, excuse, lossy>>

(* An administrator empties the workspace of a stopped Instance, perhaps    *)
(* because a restore keeps finding it full.                                 *)
Empty ==
  /\ Change
  /\ runtime = "down" /\ workspace # {} /\ \A v \in Jobs : restore[v] # "unpacking"
  /\ workspace' = {}
  /\ UNCHANGED <<instance, excuse, lossy>>

(* Another controller of the Instance, which read it some time ago, patches *)
(* the conditions: BackupReady is in the array as it was then, when the     *)
(* snapshots had something else to report.                                  *)
PatchConditions ==
  /\ Change
  /\ \E ready \in {"Pending", "Healthy"} \ {instance.ready} :
       instance' = [instance EXCEPT !.ready = ready]
  /\ UNCHANGED <<workspace, excuse, lossy>>

Scale ==
  /\ runtime' = CASE runtime = "up" /\ instance.suspend -> "stopping"
                  [] runtime = "stopping" -> "down"
                  [] runtime = "down" /\ ~instance.suspend -> "up"
                  [] OTHER -> runtime
  /\ runtime' # runtime
  /\ UNCHANGED <<instance, cache, edits, lossy, claim, archives, cron, job, pod, owner, restore,
                 runs, workspace, mixed, excuse>>

Write ==
  /\ runtime # "down"
  /\ workspace' = workspace \cup {Runtime}
  /\ mixed' = (mixed \/ \E v \in Jobs : restore[v] = "unpacking")
  /\ workspace' # workspace \/ mixed' # mixed
  /\ UNCHANGED <<instance, cache, edits, lossy, claim, archives, cron, job, pod, owner, restore,
                 runs, runtime, excuse>>

-----------------------------------------------------------------------------
(* The backup controller.  Get reads the cache.  Nobody else writes         *)
(* status.backup and restoreLastProcessed; the conditions are one array,    *)
(* which every controller of the Instance patches as a whole.               *)

Active(j) == job[j] \in {"tar", "prune"}

(* applySnapshotResources: a claim that is being deleted is left alone. *)
Applied ==
  /\ claim' = IF claim = "absent" THEN "bound" ELSE claim
  /\ cron' = [exists |-> TRUE, suspended |-> cache.suspend,
              number |-> IF cron.exists THEN cron.number ELSE cron.number + 1]

(* observeSnapshots.  Jobs start one at a time, so that the newest is also  *)
(* the last to complete.                                                    *)
Listed    == {j \in Jobs : job[j] \notin {"none", "removed"}}
Succeeded == {j \in Listed : job[j] = "complete"}
Newest(S) == {j \in S : \A k \in S : k <= j}

SnapshotReason ==
  CASE Listed = {}                                       -> "Pending"
    [] \E j \in Newest(Listed) : job[j] = "complete"      -> "Healthy"
    [] \E j \in Newest(Listed) : job[j] = "failed"        -> "Failed"
    [] OTHER                                             -> "Pending"

(* Applying fails, before or after the claim was created; the reconcile     *)
(* goes on to the restore.                                                  *)
ApplyFails ==
  /\ claim' \in {claim, IF claim = "absent" THEN "bound" ELSE claim}
  /\ UNCHANGED cron

(* The status patch, which names what differs from the Instance that was    *)
(* read, fails, or the operator dies before it, or it goes through.         *)
Patch(new) ==
  \/ UNCHANGED instance
  \/ instance' = [f \in DOMAIN instance |-> IF new[f] # cache[f] THEN new[f] ELSE instance[f]]

(* Mutant: only the first request ever is looked at. *)
WantedMutant == IF cache.processed = {} THEN cache.request ELSE {}

(* The request, unless it is the one last processed. *)
Wanted == cache.request \ cache.processed

(* Mutant: spec.suspend is not looked at. *)
RefusesMutant == FALSE

(* processRestore refuses while the spec it read does not say suspend. *)
Refuses == ~cache.suspend

(* Mutant: a healthy snapshot hides the refusal. *)
RestoreReasonMutant(reason) == IF reason = "Healthy" THEN reason
  ELSE IF Wanted # {} /\ ~cache.suspend THEN "RestoreBlocked" ELSE reason

(* What Kubernetes says of a Job that has failed.  The Pods have restart    *)
(* policy OnFailure and the Job no policy for Pod failures, so that it is   *)
(* the number of retries, and never the exit code of the script.            *)
FailedMessage == "backoff limit"

backupJobFailedWithExitCode(v) == restore[v] = "failed" /\ FailedMessage = "exit code 78"

(* BackupReady when the restore has been looked at. *)
RestoreReason(reason) ==
  CASE Wanted # {} /\ ~cache.suspend                               -> "RestoreBlocked"
    [] \E v \in cache.request : backupJobFailedWithExitCode(v)     -> "TargetNotEmpty"
    [] OTHER                                                       -> reason

ReportedBy(applied) == RestoreReason(IF applied THEN SnapshotReason ELSE "ResourceError")

LatestBy(applied) == IF applied THEN Newest(Succeeded) ELSE cache.latest

(* A reconcile that has no restore to dispatch. *)
Apply ==
  /\ cache.backup /\ (Wanted = {} \/ Refuses)
  /\ \E applied \in BOOLEAN :
       /\ IF applied THEN Applied ELSE ApplyFails
       /\ Patch([cache EXCEPT !.latest = LatestBy(applied), !.ready = ReportedBy(applied)])
  /\ UNCHANGED <<cache, edits, lossy, archives, job, pod, owner, restore, runs, runtime,
                 workspace, mixed, excuse>>

(* Mutant: every dispatch creates a Job. *)
RestoreJobNameIsFreeMutant(v) == TRUE

(* The name is the archive's: a repeated request meets its own Job. *)
RestoreJobNameIsFree(v) == restore[v] = "none"

(* What this restore may meet besides an idle workspace. *)
Met ==
  \/ instance.suspend /\ runtime # "down"
  \/ cache.suspend /\ ~instance.suspend
  \/ Restoring # {}

(* A reconcile that dispatches a restore.  Job creation may fail; then the  *)
(* reconcile ends with an error and nothing is recorded.                    *)
CreateRestoreJob(v) ==
  IF RestoreJobNameIsFree(v)
  THEN /\ restore' = [restore EXCEPT ![v] = "check"]
       /\ runs' = [runs EXCEPT ![v] = @ + 1] /\ excuse' = (excuse \/ Met)
  ELSE UNCHANGED <<restore, runs, excuse>>

(* restoreLastProcessed is recorded once the Job is there. *)
Records(created) == created

Dispatch ==
  /\ cache.backup /\ ~Refuses
  /\ \E v \in Wanted, applied, created \in BOOLEAN :
       /\ IF applied THEN Applied ELSE ApplyFails
       /\ IF created THEN CreateRestoreJob(v) ELSE UNCHANGED <<restore, runs, excuse>>
       /\ IF Records(created)
          THEN Patch([cache EXCEPT !.latest = LatestBy(applied), !.ready = ReportedBy(applied),
                                  !.processed = {v}])
          ELSE UNCHANGED instance
  /\ UNCHANGED <<cache, edits, lossy, archives, job, pod, owner, runtime, workspace, mixed>>

(* Backups are off: the claim goes, then the CronJob; an error ends the     *)
(* reconcile between the two.                                               *)
Disable ==
  /\ ~cache.backup
  /\ claim' = IF claim = "bound" THEN "deleting" ELSE claim
  /\ \/ /\ cron' = [cron EXCEPT !.exists = FALSE, !.suspended = FALSE]
        /\ Patch([cache EXCEPT !.latest = {}, !.ready = "None"])
     \/ UNCHANGED <<cron, instance>>
  /\ UNCHANGED <<cache, edits, lossy, archives, job, pod, owner, restore, runs, runtime,
                 workspace, mixed, excuse>>

Sync ==
  /\ cache # instance /\ cache' = instance
  /\ UNCHANGED <<instance, edits, lossy, claim, archives, cron, job, pod, owner, restore, runs,
                 runtime, workspace, mixed, excuse>>

-----------------------------------------------------------------------------
(* The workloads, and Kubernetes behind them.                               *)

(* The CronJob is due; with ForbidConcurrent it waits for its own last Job. *)
Tick(j) ==
  /\ cron.exists /\ ~cron.suspended
  /\ job[j] = "none" /\ \A k \in Jobs : k < j => job[k] # "none"
  /\ \A k \in Jobs : Active(k) => owner[k] # cron.number
  /\ job' = [job EXCEPT ![j] = "tar"] /\ owner' = [owner EXCEPT ![j] = cron.number]
  /\ UNCHANGED <<instance, cache, edits, lossy, claim, archives, cron, pod, restore, runs,
                 runtime, workspace, mixed, excuse>>

(* What is listed when the archive of j's Pod, of which there is one at     *)
(* most, is left out.                                                       *)
Own(j, i) == archives[i].job = j /\ archives[i].pod = pod[j]

Without(j) ==
  IF \E i \in DOMAIN archives : Own(j, i)
  THEN LET p == CHOOSE i \in DOMAIN archives : Own(j, i)
       IN  [i \in 1..(Len(archives) - 1) |-> archives[IF i < p THEN i ELSE i + 1]]
  ELSE archives

(* tar czf "/snapshots/${JOB_NAME}.tar.gz", which makes it the newest. *)
Written(j, all) == <<[job |-> j, pod |-> pod[j], whole |-> all]>> \o Without(j)

(* Mutant: pruning keeps the oldest archives. *)
PrunedMutant == IF Len(archives) < Retention THEN archives
  ELSE SubSeq(archives, Len(archives) - Retention + 1, Len(archives))

(* ls -1t | tail -n +$((RETENTION+1)) | xargs rm *)
Pruned == SubSeq(archives, 1, IF Len(archives) < Retention THEN Len(archives) ELSE Retention)

Workload == UNCHANGED <<instance, cache, edits, claim, cron, owner, runs, runtime, excuse>>

(* The snapshot script, one command a step. *)
Tar(j) ==
  /\ job[j] = "tar" /\ claim # "absent"
  /\ archives' = Written(j, TRUE) /\ job' = [job EXCEPT ![j] = "prune"]
  /\ Workload /\ UNCHANGED <<pod, lossy, restore, workspace, mixed>>

Prune(j) ==
  /\ job[j] = "prune"
  /\ archives' = Pruned /\ job' = [job EXCEPT ![j] = "complete"]
  /\ Workload /\ UNCHANGED <<pod, lossy, restore, workspace, mixed>>

(* What a script that does not get to its end leaves. *)
CutShort(j) == IF job[j] = "tar" THEN {Written(j, FALSE)} ELSE {archives, Pruned}

(* A command fails or the container dies: the kubelet retries the script in *)
(* its Pod, until the Job has failed.                                       *)
JobFails(j) ==
  /\ Active(j) /\ claim # "absent"
  /\ archives' \in CutShort(j)
  /\ \E outcome \in {"tar", "failed"} : job' = [job EXCEPT ![j] = outcome]
  /\ lossy' = (lossy \/ (job[j] = "prune" /\ job'[j] = "tar"))
  /\ Workload /\ UNCHANGED <<pod, restore, workspace, mixed>>

(* The Pod is lost and the Job goes on with another one. *)
ReplacePod(j) ==
  /\ Active(j) /\ claim # "absent" /\ pod[j] < MaxPods
  /\ archives' \in CutShort(j)
  /\ job' = [job EXCEPT ![j] = "tar"] /\ pod' = [pod EXCEPT ![j] = @ + 1]
  /\ Workload /\ UNCHANGED <<lossy, restore, workspace, mixed>>

(* The garbage collector removes Jobs whose CronJob is gone. *)
Collect(j) ==
  /\ j \in Listed /\ (~cron.exists \/ owner[j] # cron.number)
  /\ job' = [job EXCEPT ![j] = "removed"]
  /\ Workload /\ UNCHANGED <<pod, lossy, archives, restore, workspace, mixed>>

(* A claim goes when no Pod uses it. *)
Unbind ==
  /\ claim = "deleting" /\ Restoring = {} /\ \A j \in Jobs : ~Active(j)
  /\ claim' = "absent" /\ archives' = <<>>
  /\ UNCHANGED <<instance, cache, edits, lossy, cron, job, pod, owner, restore, runs, runtime,
                 workspace, mixed, excuse>>

(* The restore script: the check of the target, and then the unpacking.  A  *)
(* target that is not empty ends the script; the kubelet runs it again, and *)
(* the check is still ahead, until the Job has failed.                      *)
Check(v) ==
  /\ restore[v] = "check" /\ claim # "absent"
  /\ restore' = [restore EXCEPT ![v] = IF workspace = {} THEN "unpack" ELSE "failed"]
  /\ Workload /\ UNCHANGED <<pod, lossy, archives, job, workspace, mixed>>

Stored(v, all) == \E i \in DOMAIN archives : archives[i] = [job |-> v, pod |-> 1, whole |-> all]

Unpack(v) ==
  /\ restore[v] = "unpack" /\ (Stored(v, TRUE) \/ Stored(v, FALSE))
  /\ restore' = [restore EXCEPT ![v] = "unpacking"]
  /\ workspace' = workspace \cup {v} /\ mixed' = (mixed \/ workspace # {})
  /\ Workload /\ UNCHANGED <<pod, lossy, archives, job>>

Unpacked(v) ==
  /\ restore[v] = "unpacking" /\ ~Stored(v, FALSE)
  /\ restore' = [restore EXCEPT ![v] = "done"]
  /\ Workload /\ UNCHANGED <<pod, lossy, archives, job, workspace, mixed>>

(* There is no archive, or the unpacking dies half way: the retry starts    *)
(* with the check.                                                          *)
Interrupt(v) ==
  /\ restore[v] = "unpacking" \/ (restore[v] = "unpack" /\ ~Stored(v, TRUE) /\ ~Stored(v, FALSE))
  /\ \E outcome \in {"check", "failed"} : restore' = [restore EXCEPT ![v] = outcome]
  /\ Workload /\ UNCHANGED <<pod, lossy, archives, job, workspace, mixed>>

-----------------------------------------------------------------------------
Next ==
  \/ SetBackup \/ SetSuspend \/ Annotate \/ Empty \/ PatchConditions \/ Scale \/ Write
  \/ Apply \/ Dispatch \/ Disable \/ Sync \/ Unbind
  \/ \E j \in Jobs :
       \/ Tick(j) \/ Tar(j) \/ Prune(j) \/ JobFails(j) \/ ReplacePod(j) \/ Collect(j)
       \/ Check(j) \/ Unpack(j) \/ Unpacked(j) \/ Interrupt(j)

Spec == Init /\ [][Next]_vars

(* The controller is woken by every change of the Instance and of its Jobs  *)
(* and retries what failed; a patch that keeps being sent goes through.     *)
Fairness == WF_vars(Apply \/ Dispatch \/ Disable) /\ WF_vars(Sync)

FairSpec == Spec /\ Fairness

-----------------------------------------------------------------------------
(* At most one restore per request value, whatever is lost between the      *)
(* creation of the Job and the status and however often the annotation     *)
(* comes back (processRestore: "exactly once per value").                   *)
OneRestorePerValue == \A v \in Jobs : runs[v] <= 1

(* A restore and the runtime, or two restores, write into the workspace     *)
(* together only if the runtime had not stopped when the restore was        *)
(* dispatched, if the Instance was resumed, or if another restore was still *)
(* running: spec.suspend and the empty target are all that is checked       *)
(* (processRestore, RestoreJob).                                            *)
RestoreIsAlone == mixed => excuse

(* The snapshot status.backup vouches for can be restored, or one that is   *)
(* newer: whatever Pods were lost half way, and however many archives they  *)
(* left cut short, pruning never removes the last whole one.  It does with  *)
(* a retention of 0, which makes tail -n +1 list the archive that was just  *)
(* written.  The other exceptions are Jobs that outlive the claim when      *)
(* backups are disabled, and a script that is retried in its Pod after it   *)
(* has pruned and overwrites its own archive (observeSnapshots,             *)
(* backupScript).                                                           *)
SnapshotSurvives ==
  Retention > 0 /\ ~lossy =>
    \A j \in instance.latest :
      \E i \in DOMAIN archives : archives[i].whole /\ archives[i].job >= j

(* A request that stays while backups are on and the Instance is suspended  *)
(* is recorded in the end (processRestore, Reconcile).                      *)
RestoreIsProcessed ==
  <>[](instance.request # {} /\ instance.suspend /\ instance.backup)
    => <>[](instance.processed = instance.request)

(* A request that waits for the Instance to be suspended is reported, over  *)
(* whatever the snapshots have to report (the order of observeSnapshots and *)
(* processRestore in Reconcile), and again when another controller has put  *)
(* back the conditions of an older Instance; that ends (SelfConfig,         *)
(* ConditionsSettle).                                                       *)
RefusalIsReported ==
  <>[](instance.request # {} /\ instance.request # instance.processed
         /\ ~instance.suspend /\ instance.backup)
    => <>[](instance.ready = "RestoreBlocked")
==============================================================================
