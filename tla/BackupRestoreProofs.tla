-------------------------- MODULE BackupRestoreProofs --------------------------
(***************************************************************************)
(* Proofs, for any retention and any bounds on Jobs, Pods and edits, of    *)
(* what the backup controller promises about restores and snapshots:       *)
(* OneRestorePerValue, RestoreIsAlone and SnapshotSurvives.                *)
(*                                                                         *)
(* The first needs only that a restore Job keeps its name (RunsAreNamed).  *)
(* The second needs that a restore without an excuse found the Instance    *)
(* suspended and its runtime gone, and still does (RestoresAreQuiet).  The *)
(* third needs the order of the snapshot Jobs (JobsInOrder) and what each  *)
(* step of the script has left on the claim (ArchivesFollow), as long as   *)
(* nothing has happened that may cost archives.                            *)
(***************************************************************************)
EXTENDS BackupRestore, TLAPS

Types ==
  /\ instance \in Instances /\ cache \in Instances
  /\ cron \in [exists : BOOLEAN, suspended : BOOLEAN, number : Nat]
  /\ archives \in Seq(Archives) /\ lossy \in BOOLEAN
  /\ job \in [Jobs -> JobStates] /\ owner \in [Jobs -> Nat] /\ pod \in [Jobs -> Nat]
  /\ restore \in [Jobs -> RestoreStates] /\ runs \in [Jobs -> Nat]
  /\ mixed \in BOOLEAN /\ excuse \in BOOLEAN

(* A restore Job, once created, keeps its name taken. *)
RunsAreNamed == \A v \in Jobs : runs[v] = IF restore[v] = "none" THEN 0 ELSE 1

(* A restore that met nothing but an idle workspace: the Instance stays     *)
(* suspended and the runtime down, it is the only one, and what its check   *)
(* found is still so when it unpacks.                                       *)
RestoresAreQuiet ==
  ~excuse =>
    /\ ~mixed
    /\ \A v \in Restoring :
         /\ instance.suspend /\ runtime = "down"
         /\ restore[v] = "unpack" => workspace = {}
         /\ \A w \in Restoring : w = v

(* One CronJob, which starts its Jobs one after the other. *)
JobsInOrder ==
  ~lossy =>
    /\ instance.backup /\ cache.backup /\ claim = "bound" /\ cron.exists
    /\ \A j \in Listed : owner[j] = cron.number
    /\ \A j, k \in Jobs : k < j /\ job[j] # "none" => job[k] # "none"
    /\ \A j, k \in Jobs : Active(j) /\ j < k => job[k] = "none"

(* A whole archive of Job j or of a later one can be restored. *)
Restorable(j) == \E i \in DOMAIN archives : archives[i].whole /\ archives[i].job >= j

(* What the snapshot script has done so far: only a Pod that wrote its own  *)
(* archive, and therefore the newest, prunes, and no Pod writes over a      *)
(* whole one.                                                               *)
ArchivesFollow ==
  ~lossy /\ Retention > 0 =>
    /\ \A i \in DOMAIN archives :
         job[archives[i].job] # "none" /\ archives[i].pod <= pod[archives[i].job]
    /\ \A i \in DOMAIN archives :
         job[archives[i].job] = "tar" /\ archives[i].pod = pod[archives[i].job]
           => ~archives[i].whole
    /\ \A j \in Jobs : job[j] = "prune" =>
         Len(archives) > 0 /\ archives[1] = [job |-> j, pod |-> pod[j], whole |-> TRUE]
    /\ \A j \in Jobs : job[j] = "complete" => Restorable(j)
    /\ \A j \in instance.latest : job[j] = "complete"

IInv == Types /\ RunsAreNamed /\ RestoresAreQuiet /\ JobsInOrder /\ ArchivesFollow
-----------------------------------------------------------------------------
(* Facts about the operators *)

(* A status patch leaves the spec alone. *)
LEMMA PatchIs ==
  ASSUME instance \in Instances, cache \in Instances, NEW new \in Instances, Patch(new),
         new.backup = cache.backup, new.suspend = cache.suspend
  PROVE  /\ instance' \in Instances
         /\ instance'.backup = instance.backup /\ instance'.suspend = instance.suspend
         /\ \/ instance'.latest = instance.latest
            \/ instance'.latest = new.latest /\ new.latest # cache.latest
<1>1. CASE UNCHANGED instance
  BY <1>1
<1>2. CASE instance' = [f \in DOMAIN instance |-> IF new[f] # cache[f] THEN new[f] ELSE instance[f]]
  <2>1. DOMAIN instance = {"backup", "suspend", "request", "processed", "latest", "ready"}
    BY DEF Instances
  <2> DEFINE Val(f) == IF new[f] # cache[f] THEN new[f] ELSE instance[f]
  <2>2. instance' = [backup |-> Val("backup"), suspend |-> Val("suspend"),
                     request |-> Val("request"), processed |-> Val("processed"),
                     latest |-> Val("latest"), ready |-> Val("ready")]
    BY <1>2, <2>1
  <2> QED  BY <2>2 DEF Instances
<1> QED  BY <1>1, <1>2 DEF Patch

(* Leaving an archive out keeps the others, and nothing else. *)
LEMMA WithoutIs ==
  ASSUME archives \in Seq(Archives), NEW j \in Jobs
  PROVE  /\ Without(j) \in Seq(Archives)
         /\ \A i \in DOMAIN Without(j) : \E k \in DOMAIN archives : Without(j)[i] = archives[k]
         /\ \A k \in DOMAIN archives : ~Own(j, k) =>
              \E i \in DOMAIN Without(j) : Without(j)[i] = archives[k]
<1>1. CASE ~\E i \in DOMAIN archives : Own(j, i)
  BY <1>1 DEF Without
<1>2. CASE \E i \in DOMAIN archives : Own(j, i)
  <2> DEFINE p == CHOOSE i \in DOMAIN archives : Own(j, i)
             n == Len(archives)
  <2>1. p \in DOMAIN archives /\ Own(j, p)
    BY <1>2
  <2>2. Without(j) = [i \in 1..(n - 1) |-> archives[IF i < p THEN i ELSE i + 1]]
    BY <1>2 DEF Without
  <2> HIDE DEF p
  <2>3. n \in Nat /\ DOMAIN archives = 1..n /\ p \in 1..n /\ n - 1 \in Nat
    BY <2>1
  <2>4. \A i \in 1..(n - 1) : (IF i < p THEN i ELSE i + 1) \in 1..n
    BY <2>3
  <2>5. \A i \in 1..(n - 1) : archives[IF i < p THEN i ELSE i + 1] \in Archives
    BY <2>3, <2>4
  <2>6. Without(j) \in Seq(Archives) /\ DOMAIN Without(j) = 1..(n - 1)
    BY <2>2, <2>3, <2>5
  <2>7. ASSUME NEW k \in 1..n, ~Own(j, k)
        PROVE  \E i \in 1..(n - 1) : Without(j)[i] = archives[k]
    <3>1. k # p
      BY <2>1, <2>7, Zenon
    <3>2. CASE k < p
      BY <2>2, <2>3, <3>2
    <3>3. CASE k > p
      <4>1. k - 1 \in 1..(n - 1) /\ ~(k - 1 < p) /\ (k - 1) + 1 = k
        BY <2>3, <3>3
      <4> QED  BY <2>2, <4>1
    <3> QED  BY <2>3, <3>1, <3>2, <3>3
  <2> QED  BY <2>2, <2>3, <2>4, <2>6, <2>7, Zenon
<1> QED  BY <1>1, <1>2

(* An archive names the Job that wrote it. *)
LEMMA ArchiveJobs ==
  Types => \A i \in DOMAIN archives : archives[i].job \in Jobs /\ archives[i].pod \in Nat
<1> SUFFICES ASSUME Types, NEW i \in DOMAIN archives
             PROVE  archives[i].job \in Jobs /\ archives[i].pod \in Nat
  OBVIOUS
<1>1. archives[i] \in Archives
  BY DEF Types
<1> QED  BY <1>1 DEF Archives

(* The archive that was written comes first. *)
LEMMA WrittenIs ==
  ASSUME archives \in Seq(Archives), pod \in [Jobs -> Nat],
         NEW j \in Jobs, NEW all \in BOOLEAN
  PROVE  /\ Written(j, all) \in Seq(Archives)
         /\ Len(Written(j, all)) > 0
         /\ Written(j, all)[1] = [job |-> j, pod |-> pod[j], whole |-> all]
         /\ \A i \in DOMAIN Written(j, all) :
              \/ Written(j, all)[i] = [job |-> j, pod |-> pod[j], whole |-> all]
              \/ \E k \in DOMAIN archives : Written(j, all)[i] = archives[k]
         /\ \A k \in DOMAIN archives : ~Own(j, k) =>
              \E i \in DOMAIN Written(j, all) : Written(j, all)[i] = archives[k]
<1> DEFINE w == Without(j)
           a == [job |-> j, pod |-> pod[j], whole |-> all]
<1>1. a \in Archives
  BY DEF Archives
<1>2. /\ w \in Seq(Archives)
      /\ \A i \in DOMAIN w : \E k \in DOMAIN archives : w[i] = archives[k]
      /\ \A k \in DOMAIN archives : ~Own(j, k) => \E i \in DOMAIN w : w[i] = archives[k]
  BY WithoutIs
<1>3. Written(j, all) = <<a>> \o w
  BY DEF Written
<1> HIDE DEF a, w
<1>4. /\ <<a>> \o w \in Seq(Archives) /\ Len(<<a>> \o w) = 1 + Len(w) /\ (<<a>> \o w)[1] = a
      /\ \A i \in 1..Len(w) : (<<a>> \o w)[i + 1] = w[i]
      /\ Len(w) \in Nat
  BY <1>1, <1>2
<1>5. DOMAIN (<<a>> \o w) = 1..(1 + Len(w)) /\ DOMAIN w = 1..Len(w)
  BY <1>2, <1>4
<1>6. ASSUME NEW i \in DOMAIN (<<a>> \o w), i # 1
      PROVE  \E k \in DOMAIN archives : (<<a>> \o w)[i] = archives[k]
  <2>1. i - 1 \in 1..Len(w) /\ (i - 1) + 1 = i
    BY <1>4, <1>5, <1>6
  <2>2. (<<a>> \o w)[i] = w[i - 1]
    BY <1>4, <2>1
  <2> QED  BY <1>2, <1>5, <2>1, <2>2
<1>7. ASSUME NEW k \in DOMAIN archives, ~Own(j, k)
      PROVE  \E i \in DOMAIN (<<a>> \o w) : (<<a>> \o w)[i] = archives[k]
  <2>1. PICK i \in DOMAIN w : w[i] = archives[k]
    BY <1>2, <1>7
  <2>2. i + 1 \in DOMAIN (<<a>> \o w) /\ (<<a>> \o w)[i + 1] = w[i]
    BY <1>4, <1>5
  <2> QED  BY <2>1, <2>2
<1> DEFINE s == <<a>> \o w
<1>8. /\ s \in Seq(Archives) /\ Len(s) > 0 /\ s[1] = a
      /\ \A i \in DOMAIN s : s[i] = a \/ \E k \in DOMAIN archives : s[i] = archives[k]
      /\ \A k \in DOMAIN archives : ~Own(j, k) => \E i \in DOMAIN s : s[i] = archives[k]
  BY <1>4, <1>6, <1>7
<1>9. Written(j, all) = s
  BY <1>3
<1> HIDE DEF s
<1> QED  BY <1>8, <1>9 DEF a

(* Pruning keeps the first archive, if it keeps any, and adds nothing. *)
LEMMA PrunedIs ==
  ASSUME archives \in Seq(Archives)
  PROVE  /\ Pruned \in Seq(Archives)
         /\ \A i \in DOMAIN Pruned : i \in DOMAIN archives /\ Pruned[i] = archives[i]
         /\ Len(archives) > 0 /\ Retention > 0 => Len(Pruned) > 0 /\ Pruned[1] = archives[1]
<1> DEFINE n == IF Len(archives) < Retention THEN Len(archives) ELSE Retention
<1>1. /\ n \in Nat /\ n <= Len(archives) /\ Len(archives) \in Nat
      /\ Len(archives) > 0 /\ Retention > 0 => n > 0
  BY BackupAssumption
<1>2. Pruned = SubSeq(archives, 1, n)
  BY DEF Pruned
<1> HIDE DEF n
<1>3. /\ SubSeq(archives, 1, n) \in Seq(Archives) /\ Len(SubSeq(archives, 1, n)) = n
      /\ \A i \in 1..n : SubSeq(archives, 1, n)[i] = archives[i]
  BY <1>1
<1>4. DOMAIN Pruned = 1..n /\ DOMAIN archives = 1..Len(archives)
  BY <1>2, <1>3
<1> QED  BY <1>1, <1>2, <1>3, <1>4
(* What a reconcile reports and records. *)
LEMMA ReportIs ==
  ASSUME Types, NEW applied \in BOOLEAN
  PROVE  /\ ReportedBy(applied) \in Reasons /\ LatestBy(applied) \in SUBSET Jobs
         /\ \/ LatestBy(applied) = cache.latest
            \/ \A j \in LatestBy(applied) : job[j] = "complete"
<1>1. SnapshotReason \in Reasons
  BY DEF SnapshotReason, Reasons
<1>2. ReportedBy(applied) \in Reasons
  BY <1>1 DEF ReportedBy, RestoreReason, Reasons
<1>3. cache.latest \in SUBSET Jobs
  BY DEF Types, Instances
<1> QED  BY <1>2, <1>3 DEF LatestBy, Newest, Succeeded, Listed

(* The Instance after a reconcile that is not a cleanup. *)
LEMMA ReconcileIs ==
  ASSUME Types, Apply \/ Dispatch
  PROVE  /\ instance' \in Instances
         /\ instance'.backup = instance.backup /\ instance'.suspend = instance.suspend
         /\ \/ instance'.latest = instance.latest
            \/ \A j \in instance'.latest : job[j] = "complete"
<1>1. CASE UNCHANGED instance
  BY <1>1 DEF Types
<1>2. ASSUME NEW applied \in BOOLEAN, NEW processed \in SUBSET Jobs,
             Patch([cache EXCEPT !.latest = LatestBy(applied), !.ready = ReportedBy(applied),
                                 !.processed = processed])
      PROVE  /\ instance' \in Instances
             /\ instance'.backup = instance.backup /\ instance'.suspend = instance.suspend
             /\ \/ instance'.latest = instance.latest
                \/ \A j \in instance'.latest : job[j] = "complete"
  <2> DEFINE new == [cache EXCEPT !.latest = LatestBy(applied), !.ready = ReportedBy(applied),
                                  !.processed = processed]
  <2>1. /\ new \in Instances /\ new.backup = cache.backup /\ new.suspend = cache.suspend
        /\ new.latest = LatestBy(applied)
    BY ReportIs, Zenon DEF Types, Instances
  <2>2. Patch(new)
    BY <1>2
  <2> HIDE DEF new
  <2> QED  BY <2>1, <2>2, PatchIs, ReportIs, Zenon DEF Types
<1>3. CASE Apply
  <2>1. PICK applied \in BOOLEAN :
          Patch([cache EXCEPT !.latest = LatestBy(applied), !.ready = ReportedBy(applied)])
    BY <1>3, Zenon DEF Apply
  <2>2. cache.processed \in SUBSET Jobs
    BY DEF Types, Instances
  <2>3. [cache EXCEPT !.latest = LatestBy(applied), !.ready = ReportedBy(applied)]
        = [cache EXCEPT !.latest = LatestBy(applied), !.ready = ReportedBy(applied),
                        !.processed = cache.processed]
    BY Zenon DEF Types, Instances
  <2> QED  BY <2>1, <2>2, <2>3, <1>2, Zenon
<1>4. CASE Dispatch
  <2>1. PICK v \in Wanted, applied, created \in BOOLEAN :
          IF Records(created)
          THEN Patch([cache EXCEPT !.latest = LatestBy(applied), !.ready = ReportedBy(applied),
                                  !.processed = {v}])
          ELSE UNCHANGED instance
    BY <1>4, Zenon DEF Dispatch
  <2>2. {v} \in SUBSET Jobs
    BY DEF Wanted, Types, Instances
  <2> QED  BY <2>1, <2>2, <1>1, <1>2, Zenon
<1> QED  BY <1>3, <1>4
-----------------------------------------------------------------------------
(* Init, and what a step that does not concern it leaves of each conjunct *)

LEMMA InitEstablishes == Init => IInv
<1> SUFFICES ASSUME Init PROVE IInv
  OBVIOUS
<1>1. /\ Retention \in Nat /\ \A i \in 1..Retention : Retention + 1 - i \in Jobs
      /\ \A i \in 1..Retention : Retention + 1 - i <= Retention
      /\ Jobs \subseteq Nat /\ MaxPods \in Nat
  BY BackupAssumption DEF Jobs
<1>2. /\ archives = [i \in 1..Retention |-> [job |-> Retention + 1 - i, pod |-> 1, whole |-> TRUE]]
      /\ job = [j \in Jobs |-> IF j <= Retention THEN "complete" ELSE "none"]
      /\ owner = [j \in Jobs |-> IF j <= Retention THEN 1 ELSE 0]
      /\ restore = [j \in Jobs |-> "none"] /\ runs = [j \in Jobs |-> 0]
      /\ pod = [j \in Jobs |-> 1]
      /\ mixed = FALSE /\ excuse = FALSE /\ lossy = FALSE /\ claim = "bound"
  BY DEF Init
<1>3. /\ instance \in Instances /\ cache = instance /\ instance.backup
      /\ instance.latest = {j \in Jobs : j = Retention}
      /\ cron \in [exists : BOOLEAN, suspended : BOOLEAN, number : Nat]
      /\ cron.exists /\ cron.number = 1
  BY <1>1 DEF Init, Instances, Reasons
<1>4. archives \in Seq(Archives) /\ DOMAIN archives = 1..Retention
  BY <1>1, <1>2 DEF Archives
<1>5. Types
  <2>1. job \in [Jobs -> JobStates] /\ owner \in [Jobs -> Nat] /\ pod \in [Jobs -> Nat]
    BY <1>2 DEF JobStates
  <2>2. restore \in [Jobs -> RestoreStates] /\ runs \in [Jobs -> Nat]
    BY <1>2 DEF RestoreStates
  <2> QED  BY <1>2, <1>3, <1>4, <2>1, <2>2, Zenon DEF Types
<1>6. RunsAreNamed /\ RestoresAreQuiet
  BY <1>2 DEF RunsAreNamed, RestoresAreQuiet, Restoring
<1>7. JobsInOrder
  BY <1>1, <1>2, <1>3 DEF JobsInOrder, Listed, Active
<1>8. \A j \in Jobs : job[j] = "complete" => Restorable(j)
  <2> SUFFICES ASSUME NEW j \in Jobs, job[j] = "complete" PROVE Restorable(j)
    OBVIOUS
  <2>1. j <= Retention /\ j \in 1..Retention
    BY <1>2 DEF Jobs
  <2>2. Retention + 1 - j \in 1..Retention /\ Retention + 1 - (Retention + 1 - j) = j
    BY <1>1, <2>1
  <2>3. archives[Retention + 1 - j] = [job |-> j, pod |-> 1, whole |-> TRUE]
    BY <1>2, <2>2, Zenon
  <2>4. j >= j
    BY <1>1
  <2> QED  BY <1>4, <2>2, <2>3, <2>4 DEF Restorable
<1>9. ArchivesFollow
  <2>1. ASSUME NEW i \in DOMAIN archives
        PROVE  /\ job[archives[i].job] = "complete"
               /\ archives[i].pod <= pod[archives[i].job]
    <3>1. archives[i] = [job |-> Retention + 1 - i, pod |-> 1, whole |-> TRUE]
      BY <1>2, <1>4
    <3>2. Retention + 1 - i \in Jobs /\ Retention + 1 - i <= Retention
      BY <1>1, <1>4
    <3>3. job[Retention + 1 - i] = "complete" /\ pod[Retention + 1 - i] = 1
      BY <1>2, <3>2
    <3> QED  BY <3>1, <3>3
  <2>2. /\ \A j \in instance.latest : job[j] = "complete"
        /\ \A j \in Jobs : job[j] # "prune"
    BY <1>1, <1>2, <1>3
  <2> QED  BY <1>8, <2>1, <2>2 DEF ArchivesFollow
<1> QED  BY <1>5, <1>6, <1>7, <1>9 DEF IInv

LEMMA QuietStays ==
  ASSUME RestoresAreQuiet, instance'.suspend = instance.suspend,
         UNCHANGED <<restore, mixed, excuse, workspace, runtime>>
  PROVE  RestoresAreQuiet'
BY DEF RestoresAreQuiet, Restoring

LEMMA SnapshotsStay ==
  ASSUME JobsInOrder, ArchivesFollow, UNCHANGED <<archives, job, pod, owner>>, lossy' = lossy,
         ~lossy => /\ instance'.backup /\ cache'.backup /\ claim' = "bound"
                   /\ cron'.exists /\ cron'.number = cron.number
                   /\ \/ instance'.latest = instance.latest
                      \/ \A j \in instance'.latest : job[j] = "complete"
  PROVE  JobsInOrder' /\ ArchivesFollow'
<1>1. JobsInOrder'
  BY DEF JobsInOrder, Listed, Active
<1>2. ArchivesFollow'
  BY Zenon DEF ArchivesFollow, Restorable
<1> QED  BY <1>1, <1>2
-----------------------------------------------------------------------------
(* Users, and the runtime *)

LEMMA SetBackupKeeps == IInv /\ SetBackup => IInv'
<1> SUFFICES ASSUME IInv, SetBackup PROVE IInv'
  OBVIOUS
<1>1. /\ instance' \in Instances /\ instance'.suspend = instance.suspend /\ lossy' = TRUE
      /\ UNCHANGED <<cache, archives, cron, job, pod, owner, restore, runs, runtime, workspace,
                     mixed, excuse>>
  BY Zenon DEF SetBackup, Change, IInv, Types, Instances
<1>2. Types'
  BY <1>1 DEF IInv, Types
<1>3. RestoresAreQuiet'
  BY <1>1, QuietStays DEF IInv
<1> QED
  BY <1>1, <1>2, <1>3 DEF IInv, RunsAreNamed, JobsInOrder, ArchivesFollow

(* Resuming during a restore is an excuse. *)
LEMMA SetSuspendKeeps == IInv /\ SetSuspend => IInv'
<1> SUFFICES ASSUME IInv, SetSuspend PROVE IInv'
  OBVIOUS
<1>1. /\ instance' \in Instances /\ instance'.suspend = ~instance.suspend
      /\ instance'.backup = instance.backup /\ instance'.latest = instance.latest
      /\ excuse' \in BOOLEAN /\ (~excuse' => ~excuse /\ (~instance.suspend \/ Restoring = {}))
      /\ UNCHANGED <<cache, lossy, claim, archives, cron, job, pod, owner, restore, runs, runtime,
                     workspace, mixed>>
  BY Zenon DEF SetSuspend, Change, IInv, Types, Instances
<1>2. Types'
  BY <1>1 DEF IInv, Types
<1>3. RestoresAreQuiet'
  BY <1>1, Zenon DEF IInv, RestoresAreQuiet, Restoring
<1>4. JobsInOrder' /\ ArchivesFollow'
  BY <1>1, SnapshotsStay DEF IInv, JobsInOrder
<1> QED  BY <1>1, <1>2, <1>3, <1>4 DEF IInv, RunsAreNamed

LEMMA AnnotateKeeps == IInv /\ Annotate => IInv'
<1> SUFFICES ASSUME IInv, Annotate PROVE IInv'
  OBVIOUS
<1>1. PICK j \in Jobs : instance' = [instance EXCEPT !.request = {j}]
  BY DEF Annotate
<1>2. {j} \in SUBSET Jobs
  OBVIOUS
<1>3. /\ instance' \in Instances /\ instance'.suspend = instance.suspend
      /\ instance'.backup = instance.backup /\ instance'.latest = instance.latest
  BY <1>1, <1>2, Zenon DEF IInv, Types, Instances
<1>4. UNCHANGED <<cache, lossy, claim, archives, cron, job, pod, owner, restore, runs, runtime,
                  workspace, mixed, excuse>>
  BY DEF Annotate, Change
<1>5. Types'
  BY <1>3, <1>4 DEF IInv, Types
<1>6. RestoresAreQuiet'
  BY <1>3, <1>4, QuietStays, Zenon DEF IInv
<1>7. JobsInOrder' /\ ArchivesFollow'
  BY <1>3, <1>4, SnapshotsStay DEF IInv, JobsInOrder
<1> QED  BY <1>4, <1>5, <1>6, <1>7 DEF IInv, RunsAreNamed

(* BackupReady is put back, which is no concern of restores or snapshots. *)
LEMMA PatchConditionsKeeps == IInv /\ PatchConditions => IInv'
<1> SUFFICES ASSUME IInv, PatchConditions PROVE IInv'
  OBVIOUS
<1>1. PICK ready \in {"Pending", "Healthy"} : instance' = [instance EXCEPT !.ready = ready]
  BY DEF PatchConditions
<1>2. ready \in Reasons
  BY DEF Reasons
<1>3. /\ instance' \in Instances /\ instance'.suspend = instance.suspend
      /\ instance'.backup = instance.backup /\ instance'.latest = instance.latest
  BY <1>1, <1>2, Zenon DEF IInv, Types, Instances
<1>4. UNCHANGED <<cache, lossy, claim, archives, cron, job, pod, owner, restore, runs, runtime,
                  workspace, mixed, excuse>>
  BY DEF PatchConditions, Change
<1>5. Types'
  BY <1>3, <1>4 DEF IInv, Types
<1>6. RestoresAreQuiet'
  BY <1>3, <1>4, QuietStays, Zenon DEF IInv
<1>7. JobsInOrder' /\ ArchivesFollow'
  BY <1>3, <1>4, SnapshotsStay DEF IInv, JobsInOrder
<1> QED  BY <1>4, <1>5, <1>6, <1>7 DEF IInv, RunsAreNamed

(* The workspace is emptied while nothing is unpacked, the runtime is down  *)
(* while the Instance is suspended, and writes only when it is not.         *)
LEMMA WorkspaceKeeps == IInv /\ (Empty \/ Scale \/ Write) => IInv'
<1> SUFFICES ASSUME IInv, Empty \/ Scale \/ Write PROVE IInv'
  OBVIOUS
<1>1. UNCHANGED <<instance, cache, lossy, claim, archives, cron, job, pod, owner, restore, runs,
                  excuse>>
  BY DEF Empty, Change, Scale, Write
<1>2. Types'
  BY <1>1, Zenon DEF IInv, Types, Empty, Change, Scale, Write
<1>3. RestoresAreQuiet'
  <2>1. CASE Empty
    BY <2>1 DEF Empty, Change, IInv, RestoresAreQuiet, Restoring
  <2>2. CASE Scale
    BY <2>2 DEF Scale, IInv, RestoresAreQuiet, Restoring
  <2>3. CASE Write
    BY <2>3, Zenon DEF Write, IInv, RestoresAreQuiet, Restoring
  <2> QED  BY <2>1, <2>2, <2>3
<1>4. JobsInOrder' /\ ArchivesFollow'
  BY <1>1, SnapshotsStay DEF IInv, JobsInOrder
<1> QED  BY <1>1, <1>2, <1>3, <1>4 DEF IInv, RunsAreNamed
-----------------------------------------------------------------------------
(* The backup controller *)

(* The claim and the CronJob, while backups stay on. *)
LEMMA AppliedIs ==
  ASSUME IInv, Applied \/ ApplyFails
  PROVE  /\ cron' \in [exists : BOOLEAN, suspended : BOOLEAN, number : Nat]
         /\ ~lossy => claim' = "bound" /\ cron'.exists /\ cron'.number = cron.number
<1>1. cache.suspend \in BOOLEAN /\ cron \in [exists : BOOLEAN, suspended : BOOLEAN, number : Nat]
  BY DEF IInv, Types, Instances
<1>2. CASE Applied
  BY <1>1, <1>2 DEF Applied, IInv, JobsInOrder
<1>3. CASE ApplyFails
  BY <1>1, <1>3 DEF ApplyFails, IInv, JobsInOrder
<1> QED  BY <1>2, <1>3

LEMMA ApplyKeeps == IInv /\ Apply => IInv'
<1> SUFFICES ASSUME IInv, Apply PROVE IInv'
  OBVIOUS
<1>1. /\ Applied \/ ApplyFails
      /\ UNCHANGED <<cache, lossy, archives, job, pod, owner, restore, runs, runtime, workspace,
                     mixed, excuse>>
  BY DEF Apply
<1>2. /\ instance' \in Instances
      /\ instance'.backup = instance.backup /\ instance'.suspend = instance.suspend
      /\ \/ instance'.latest = instance.latest
         \/ \A j \in instance'.latest : job[j] = "complete"
  BY ReconcileIs DEF IInv
<1>3. Types'
  BY <1>1, <1>2, AppliedIs DEF IInv, Types
<1>4. RestoresAreQuiet'
  BY <1>1, <1>2, QuietStays, Zenon DEF IInv
<1>5. JobsInOrder' /\ ArchivesFollow'
  BY <1>1, <1>2, AppliedIs, SnapshotsStay DEF IInv, JobsInOrder
<1> QED  BY <1>1, <1>3, <1>4, <1>5 DEF IInv, RunsAreNamed

(* A restore Job is created where there was none; without an excuse the     *)
(* Instance is suspended, its runtime down and no other restore under way.  *)
LEMMA DispatchKeeps == IInv /\ Dispatch => IInv'
<1> SUFFICES ASSUME IInv, Dispatch PROVE IInv'
  OBVIOUS
<1>1. PICK v \in Wanted : CreateRestoreJob(v) \/ UNCHANGED <<restore, runs, excuse>>
  BY DEF Dispatch
<1>2. /\ Applied \/ ApplyFails
      /\ cache.suspend
      /\ UNCHANGED <<cache, lossy, archives, job, pod, owner, runtime, workspace, mixed>>
  BY DEF Dispatch, Refuses
<1>3. /\ instance' \in Instances
      /\ instance'.backup = instance.backup /\ instance'.suspend = instance.suspend
      /\ \/ instance'.latest = instance.latest
         \/ \A j \in instance'.latest : job[j] = "complete"
  BY ReconcileIs, Zenon DEF IInv
<1>4. JobsInOrder' /\ ArchivesFollow'
  BY <1>2, <1>3, AppliedIs, SnapshotsStay DEF IInv, JobsInOrder
<1>5. CASE UNCHANGED <<restore, runs, excuse>>
  <2>1. Types'
    BY <1>2, <1>3, <1>5, AppliedIs DEF IInv, Types
  <2>2. RestoresAreQuiet'
    BY <1>2, <1>3, <1>5, QuietStays DEF IInv
  <2> QED  BY <1>4, <1>5, <2>1, <2>2, Zenon DEF IInv, RunsAreNamed
<1>6. CASE /\ restore[v] = "none" /\ restore' = [restore EXCEPT ![v] = "check"]
           /\ runs' = [runs EXCEPT ![v] = @ + 1] /\ excuse' = (excuse \/ Met)
  <2>1. v \in Jobs
    BY DEF Wanted, IInv, Types, Instances
  <2>2. /\ restore' \in [Jobs -> RestoreStates] /\ runs' \in [Jobs -> Nat]
        /\ restore'[v] = "check" /\ runs'[v] = 1
        /\ \A w \in Jobs : w # v => restore'[w] = restore[w] /\ runs'[w] = runs[w]
    BY <1>6, <2>1 DEF IInv, Types, RunsAreNamed, RestoreStates
  <2>3. Types'
    BY <1>2, <1>3, <1>6, <2>2, AppliedIs, Zenon DEF IInv, Types, Met
  <2>4. RunsAreNamed'
    BY <2>2 DEF IInv, RunsAreNamed
  <2>5. ASSUME ~excuse' PROVE ~excuse /\ Restoring = {} /\ instance.suspend /\ runtime = "down"
    BY <1>2, <1>6, <2>5, Zenon DEF Met
  <2>6. ~excuse' => Restoring' = {v}
    BY <2>1, <2>2, <2>5, Zenon DEF Restoring
  <2>7. RestoresAreQuiet'
    BY <1>2, <1>3, <2>2, <2>5, <2>6, Zenon DEF IInv, RestoresAreQuiet
  <2> QED  BY <1>4, <2>3, <2>4, <2>7 DEF IInv
<1> QED  BY <1>1, <1>5, <1>6 DEF CreateRestoreJob, RestoreJobNameIsFree

(* Backups are off, which is something that may cost archives. *)
LEMMA DisableKeeps == IInv /\ Disable => IInv'
<1> SUFFICES ASSUME IInv, Disable PROVE IInv'
  OBVIOUS
<1>1. /\ ~cache.backup
      /\ UNCHANGED <<cache, lossy, archives, job, pod, owner, restore, runs, runtime, workspace,
                     mixed, excuse>>
  BY DEF Disable
<1>2. lossy
  BY <1>1 DEF IInv, JobsInOrder, Types
<1>3. cron' \in [exists : BOOLEAN, suspended : BOOLEAN, number : Nat]
  BY Zenon DEF Disable, IInv, Types
<1>4. instance' \in Instances /\ instance'.suspend = instance.suspend
  <2> DEFINE new == [cache EXCEPT !.latest = {}, !.ready = "None"]
  <2>1. new \in Instances /\ new.backup = cache.backup /\ new.suspend = cache.suspend
    BY Zenon DEF IInv, Types, Instances, Reasons
  <2>2. Patch(new) \/ UNCHANGED instance
    BY DEF Disable
  <2> HIDE DEF new
  <2> QED  BY <2>1, <2>2, PatchIs DEF IInv, Types
<1>5. Types'
  BY <1>1, <1>3, <1>4 DEF IInv, Types
<1>6. RestoresAreQuiet'
  BY <1>1, <1>4, QuietStays DEF IInv
<1> QED
  BY <1>1, <1>2, <1>5, <1>6 DEF IInv, RunsAreNamed, JobsInOrder, ArchivesFollow

LEMMA SyncKeeps == IInv /\ Sync => IInv'
<1> SUFFICES ASSUME IInv, Sync PROVE IInv'
  OBVIOUS
<1>1. /\ cache' = instance
      /\ UNCHANGED <<instance, lossy, claim, archives, cron, job, pod, owner, restore, runs,
                     runtime, workspace, mixed, excuse>>
  BY DEF Sync
<1>2. Types'
  BY <1>1 DEF IInv, Types
<1>3. RestoresAreQuiet'
  BY <1>1, QuietStays, Zenon DEF IInv
<1>4. JobsInOrder' /\ ArchivesFollow'
  BY <1>1, SnapshotsStay, Zenon DEF IInv, JobsInOrder
<1> QED  BY <1>1, <1>2, <1>3, <1>4 DEF IInv, RunsAreNamed

LEMMA UnbindKeeps == IInv /\ Unbind => IInv'
<1> SUFFICES ASSUME IInv, Unbind PROVE IInv'
  OBVIOUS
<1>1. /\ claim = "deleting" /\ archives' = <<>>
      /\ UNCHANGED <<instance, cache, lossy, cron, job, pod, owner, restore, runs, runtime,
                     workspace, mixed, excuse>>
  BY DEF Unbind
<1>2. lossy
  BY <1>1 DEF IInv, JobsInOrder, Types
<1>3. Types'
  BY <1>1 DEF IInv, Types
<1>4. RestoresAreQuiet'
  BY <1>1, QuietStays, Zenon DEF IInv
<1> QED
  BY <1>1, <1>2, <1>3, <1>4 DEF IInv, RunsAreNamed, JobsInOrder, ArchivesFollow
-----------------------------------------------------------------------------
(* Snapshot Jobs *)

(* A step of a snapshot Job concerns no restore. *)
LEMMA SnapshotJobKeeps ==
  ASSUME IInv, job' \in [Jobs -> JobStates], owner' \in [Jobs -> Nat], pod' \in [Jobs -> Nat],
         archives' \in Seq(Archives), lossy' \in BOOLEAN, JobsInOrder', ArchivesFollow',
         UNCHANGED <<instance, cache, cron, restore, runs, runtime, workspace, mixed, excuse>>
  PROVE  IInv'
<1>1. Types'
  BY DEF IInv, Types
<1>2. RestoresAreQuiet'
  BY QuietStays DEF IInv
<1> QED  BY <1>1, <1>2 DEF IInv, RunsAreNamed

(* A Job that is active goes on, or ends: it is the newest. *)
LEMMA JobMoves ==
  ASSUME IInv, NEW j \in Jobs, Active(j), NEW state \in {"tar", "prune", "complete", "failed"},
         job' = [job EXCEPT ![j] = state], UNCHANGED <<instance, cache, claim, cron, owner>>,
         ~lossy' => ~lossy
  PROVE  /\ job' \in [Jobs -> JobStates] /\ job'[j] = state
         /\ \A k \in Jobs : k # j => job'[k] = job[k]
         /\ ~lossy => \A k \in Jobs : k > j => job[k] = "none"
         /\ JobsInOrder'
<1>1. /\ job' \in [Jobs -> JobStates] /\ job'[j] = state
      /\ \A k \in Jobs : k # j => job'[k] = job[k]
  BY DEF IInv, Types, JobStates
<1>2. \A k \in Jobs : job'[k] # "none" <=> job[k] # "none"
  BY <1>1 DEF Active
<1>3. \A k \in Jobs : Active(k)' => Active(k)
  BY <1>1 DEF Active
<1>4. Listed' \subseteq Listed
  BY <1>1 DEF Listed, Active
<1>5. ~lossy => \A k \in Jobs : k > j => job[k] = "none"
  BY DEF IInv, JobsInOrder, Jobs
<1>6. JobsInOrder'
  BY <1>2, <1>3, <1>4, Zenon DEF IInv, JobsInOrder
<1> QED  BY <1>1, <1>5, <1>6

(* The CronJob starts the next Job when the last one has ended. *)
LEMMA TickKeeps == ASSUME IInv, NEW j \in Jobs, Tick(j) PROVE IInv'
<1>1. /\ cron.exists /\ job[j] = "none" /\ \A k \in Jobs : k < j => job[k] # "none"
      /\ \A k \in Jobs : Active(k) => owner[k] # cron.number
      /\ job' = [job EXCEPT ![j] = "tar"] /\ owner' = [owner EXCEPT ![j] = cron.number]
      /\ UNCHANGED <<instance, cache, lossy, claim, archives, cron, pod, restore, runs, runtime,
                     workspace, mixed, excuse>>
  BY DEF Tick
<1>2. /\ job' \in [Jobs -> JobStates] /\ owner' \in [Jobs -> Nat]
      /\ job'[j] = "tar" /\ owner'[j] = cron.number
      /\ \A k \in Jobs : k # j => job'[k] = job[k] /\ owner'[k] = owner[k]
  BY <1>1, Zenon DEF IInv, Types, JobStates
<1>3. JobsInOrder'
  <2> SUFFICES ASSUME ~lossy PROVE JobsInOrder'
    BY <1>1, Zenon DEF JobsInOrder
  <2>1. \A k \in Jobs : ~Active(k)
    BY <1>1 DEF IInv, JobsInOrder, Listed, Active
  <2>2. \A k \in Listed' : owner'[k] = cron.number
    BY <1>2, Zenon DEF IInv, JobsInOrder, Listed
  <2>3. \A i, k \in Jobs : k < i /\ job'[i] # "none" => job'[k] # "none"
    BY <1>1, <1>2 DEF IInv, JobsInOrder
  <2>4. \A k \in Jobs : Active(k)' => k = j
    BY <1>2, <2>1, Zenon DEF Active
  <2>5. \A k \in Jobs : j < k => job'[k] = "none"
    BY <1>1, <1>2 DEF IInv, JobsInOrder, Jobs
  <2> QED  BY <1>1, <2>2, <2>3, <2>4, <2>5 DEF IInv, JobsInOrder
<1>4. ArchivesFollow'
  <2> SUFFICES ASSUME ~lossy, Retention > 0 PROVE ArchivesFollow'
    BY <1>1, Zenon DEF ArchivesFollow
  <2>1. \A i \in DOMAIN archives : archives[i].job \in Jobs /\ archives[i].job # j
    BY <1>1, ArchiveJobs DEF IInv, ArchivesFollow
  <2>2. instance.latest \subseteq Jobs /\ j \notin instance.latest
    BY <1>1, Zenon DEF IInv, Types, Instances, ArchivesFollow
  <2> QED  BY <1>1, <1>2, <2>1, <2>2 DEF IInv, ArchivesFollow, Restorable
<1> QED  BY <1>1, <1>2, <1>3, <1>4, SnapshotJobKeeps DEF IInv, Types

(* tar writes the archive of its Pod, whole or not, in the place of one     *)
(* that was not whole; the Job is then at its next state, and if that is    *)
(* tar again, in this Pod or in another one, the archive is not whole.      *)
LEMMA WritingFollows ==
  ASSUME IInv, NEW j \in Jobs, job[j] = "tar", NEW all \in BOOLEAN,
         NEW state \in {"tar", "prune", "failed"}, state = "prune" <=> all,
         archives' = Written(j, all), job' = [job EXCEPT ![j] = state], lossy' = lossy,
         pod' = pod \/ (state = "tar" /\ pod' = [pod EXCEPT ![j] = @ + 1]),
         UNCHANGED <<instance, cache, claim, cron, owner>>
  PROVE  archives' \in Seq(Archives) /\ ArchivesFollow'
<1> DEFINE a == [job |-> j, pod |-> pod[j], whole |-> all]
<1>1. /\ archives' \in Seq(Archives)
      /\ Len(archives') > 0 /\ archives'[1] = a
      /\ \A i \in DOMAIN archives' :
           archives'[i] = a \/ \E k \in DOMAIN archives : archives'[i] = archives[k]
      /\ \A k \in DOMAIN archives : ~Own(j, k) =>
           \E i \in DOMAIN archives' : archives'[i] = archives[k]
  BY WrittenIs DEF IInv, Types
<1>2. /\ job' \in [Jobs -> JobStates] /\ job'[j] = state
      /\ \A k \in Jobs : k # j => job'[k] = job[k]
      /\ ~lossy => \A k \in Jobs : k > j => job[k] = "none"
  BY JobMoves, Zenon DEF Active
<1>3. /\ \A k \in Jobs : pod[k] \in Nat /\ pod'[k] \in Nat /\ pod[k] <= pod'[k]
      /\ \A k \in Jobs : k # j => pod'[k] = pod[k]
      /\ state # "tar" => pod'[j] = pod[j]
  <2>1. pod \in [Jobs -> Nat]
    BY DEF IInv, Types
  <2>2. CASE pod' = pod
    BY <2>1, <2>2
  <2>3. CASE state = "tar" /\ pod' = [pod EXCEPT ![j] = @ + 1]
    BY <2>1, <2>3
  <2> QED  BY <2>2, <2>3
<1> SUFFICES ASSUME ~lossy, Retention > 0 PROVE ArchivesFollow'
  BY <1>1, Zenon DEF ArchivesFollow
<1>4. \A i \in DOMAIN archives :
        /\ archives[i].job \in Jobs /\ archives[i].pod \in Nat
        /\ job[archives[i].job] # "none" /\ archives[i].pod <= pod[archives[i].job]
        /\ job[archives[i].job] = "tar" /\ archives[i].pod = pod[archives[i].job]
             => ~archives[i].whole
  BY ArchiveJobs DEF IInv, ArchivesFollow
<1>5. a.job = j /\ a.pod = pod[j] /\ a.whole = all
  OBVIOUS
<1> HIDE DEF a
<1>6. ASSUME NEW i \in DOMAIN archives'
      PROVE  /\ job'[archives'[i].job] # "none" /\ archives'[i].pod <= pod'[archives'[i].job]
             /\ job'[archives'[i].job] = "tar" /\ archives'[i].pod = pod'[archives'[i].job]
                  => ~archives'[i].whole
  <2>1. CASE archives'[i] = a
    BY <1>2, <1>3, <1>5, <2>1
  <2>2. ASSUME NEW k \in DOMAIN archives, archives'[i] = archives[k]
        PROVE  /\ job'[archives[k].job] # "none" /\ archives[k].pod <= pod'[archives[k].job]
               /\ job'[archives[k].job] = "tar" /\ archives[k].pod = pod'[archives[k].job]
                    => ~archives[k].whole
    BY <1>2, <1>3, <1>4
  <2> QED  BY <1>1, <2>1, <2>2
<1>7. ASSUME NEW k \in Jobs, job'[k] = "prune"
      PROVE  Len(archives') > 0 /\ archives'[1] = [job |-> k, pod |-> pod'[k], whole |-> TRUE]
  <2>1. k = j
    <3>1. CASE k < j
      BY <1>2, <1>7, <3>1, Zenon DEF IInv, JobsInOrder, Active
    <3>2. CASE k > j
      BY <1>2, <1>7, <3>2, Zenon
    <3> QED  BY <3>1, <3>2 DEF Jobs
  <2>2. all = TRUE /\ pod'[j] = pod[j]
    BY <1>2, <1>3, <1>7, <2>1
  <2> QED  BY <1>1, <2>1, <2>2, Zenon DEF a
<1>8. ASSUME NEW k \in Jobs, job'[k] = "complete" PROVE Restorable(k)'
  <2>1. job[k] = "complete"
    BY <1>2, <1>8, Zenon
  <2>2. PICK i \in DOMAIN archives : archives[i].whole /\ archives[i].job >= k
    BY <2>1, Zenon DEF IInv, ArchivesFollow, Restorable
  <2>3. ~Own(j, i)
    BY <1>4, <2>2, Zenon DEF Own
  <2> QED  BY <1>1, <2>2, <2>3 DEF Restorable
<1>9. \A k \in instance'.latest : job'[k] = "complete"
  BY <1>2, Zenon DEF IInv, ArchivesFollow, Types, Instances
<1> QED  BY <1>6, <1>7, <1>8, <1>9, Zenon DEF ArchivesFollow

(* Pruning, by the Pod whose archive is the newest and whole.  Another Pod  *)
(* may have to start over.                                                  *)
LEMMA PruningFollows ==
  ASSUME IInv, NEW j \in Jobs, job[j] = "prune", NEW state \in {"tar", "complete", "failed"},
         archives' \in {archives, Pruned}, job' = [job EXCEPT ![j] = state], lossy' = lossy,
         IF state = "tar" THEN pod' = [pod EXCEPT ![j] = @ + 1] ELSE pod' = pod,
         UNCHANGED <<instance, cache, claim, cron, owner>>
  PROVE  archives' \in Seq(Archives) /\ ArchivesFollow'
<1>1. /\ archives' \in Seq(Archives)
      /\ \A i \in DOMAIN archives' : i \in DOMAIN archives /\ archives'[i] = archives[i]
      /\ Len(archives) > 0 /\ Retention > 0 => Len(archives') > 0 /\ archives'[1] = archives[1]
  BY PrunedIs DEF IInv, Types
<1>2. /\ job' \in [Jobs -> JobStates] /\ job'[j] = state
      /\ \A k \in Jobs : k # j => job'[k] = job[k]
      /\ ~lossy => \A k \in Jobs : k > j => job[k] = "none"
  BY JobMoves, Zenon DEF Active
<1>3. /\ \A k \in Jobs : pod[k] \in Nat /\ pod'[k] \in Nat /\ pod[k] <= pod'[k]
      /\ \A k \in Jobs : k # j => pod'[k] = pod[k]
      /\ state = "tar" => pod'[j] = pod[j] + 1
  <2>1. pod \in [Jobs -> Nat]
    BY DEF IInv, Types
  <2>2. CASE state = "tar"
    <3>1. pod' = [pod EXCEPT ![j] = @ + 1]
      BY <2>2
    <3> QED  BY <2>1, <3>1
  <2>3. CASE state # "tar"
    <3>1. pod' = pod
      BY <2>3
    <3> QED  BY <2>1, <2>3, <3>1
  <2> QED  BY <2>2, <2>3
<1> SUFFICES ASSUME ~lossy, Retention > 0 PROVE ArchivesFollow'
  BY <1>1, Zenon DEF ArchivesFollow
<1>4. \A i \in DOMAIN archives :
        /\ archives[i].job \in Jobs /\ archives[i].pod \in Nat
        /\ job[archives[i].job] # "none" /\ archives[i].pod <= pod[archives[i].job]
        /\ job[archives[i].job] = "tar" /\ archives[i].pod = pod[archives[i].job]
             => ~archives[i].whole
  BY ArchiveJobs DEF IInv, ArchivesFollow
<1>5. ASSUME NEW i \in DOMAIN archives
      PROVE  /\ job'[archives[i].job] # "none" /\ archives[i].pod <= pod'[archives[i].job]
             /\ job'[archives[i].job] = "tar" /\ archives[i].pod = pod'[archives[i].job]
                  => ~archives[i].whole
  BY <1>2, <1>3, <1>4
<1>6. \A k \in Jobs : job'[k] # "prune"
  <2> SUFFICES ASSUME NEW k \in Jobs, job'[k] = "prune" PROVE FALSE
    BY Zenon
  <2>1. CASE k < j
    BY <1>2, <2>1, Zenon DEF IInv, JobsInOrder, Active
  <2>2. CASE k >= j
    BY <1>2, <2>2 DEF Jobs
  <2> QED  BY <2>1, <2>2 DEF Jobs
<1>7. \A k \in Jobs : job'[k] = "complete" => Restorable(k)'
  <2> SUFFICES ASSUME NEW k \in Jobs, job'[k] = "complete" PROVE Restorable(k)'
    OBVIOUS
  <2>1. k <= j
    BY <1>2 DEF Jobs
  <2>2. Len(archives') > 0 /\ archives'[1] = [job |-> j, pod |-> pod[j], whole |-> TRUE]
    BY <1>1, Zenon DEF IInv, ArchivesFollow
  <2>3. 1 \in DOMAIN archives' /\ archives'[1].whole /\ archives'[1].job >= k
    BY <1>1, <2>1, <2>2 DEF Jobs
  <2> QED  BY <2>3 DEF Restorable
<1>8. \A k \in instance'.latest : job'[k] = "complete"
  BY <1>2, Zenon DEF IInv, ArchivesFollow, Types, Instances
<1>9. \A i \in DOMAIN archives' :
        /\ job'[archives'[i].job] # "none" /\ archives'[i].pod <= pod'[archives'[i].job]
        /\ job'[archives'[i].job] = "tar" /\ archives'[i].pod = pod'[archives'[i].job]
             => ~archives'[i].whole
  BY <1>1, <1>5, Zenon
<1> QED  BY <1>6, <1>7, <1>8, <1>9, Zenon DEF ArchivesFollow

LEMMA TarKeeps == ASSUME IInv, NEW j \in Jobs, Tar(j) PROVE IInv'
<1>1. /\ job[j] = "tar" /\ archives' = Written(j, TRUE) /\ job' = [job EXCEPT ![j] = "prune"]
      /\ UNCHANGED <<instance, cache, claim, cron, pod, owner, runs, runtime, excuse, lossy,
                     restore, workspace, mixed>>
  BY DEF Tar, Workload
<1>2. archives' \in Seq(Archives) /\ ArchivesFollow'
  BY <1>1, WritingFollows, Zenon
<1>3. job' \in [Jobs -> JobStates] /\ JobsInOrder'
  BY <1>1, JobMoves, Zenon DEF Active
<1> QED  BY <1>1, <1>2, <1>3, SnapshotJobKeeps, Zenon DEF IInv, Types

LEMMA PruneKeeps == ASSUME IInv, NEW j \in Jobs, Prune(j) PROVE IInv'
<1>1. /\ job[j] = "prune" /\ archives' = Pruned /\ job' = [job EXCEPT ![j] = "complete"]
      /\ UNCHANGED <<instance, cache, claim, cron, pod, owner, runs, runtime, excuse, lossy,
                     restore, workspace, mixed>>
  BY DEF Prune, Workload
<1>2. archives' \in Seq(Archives) /\ ArchivesFollow'
  BY <1>1, PruningFollows, Zenon
<1>3. job' \in [Jobs -> JobStates] /\ JobsInOrder'
  BY <1>1, JobMoves, Zenon DEF Active
<1> QED  BY <1>1, <1>2, <1>3, SnapshotJobKeeps DEF IInv, Types

(* A retry of tar leaves the other archives alone; a retry after pruning is *)
(* what may cost archives.                                                  *)
LEMMA JobFailsKeeps == ASSUME IInv, NEW j \in Jobs, JobFails(j) PROVE IInv'
<1>1. PICK state \in {"tar", "failed"} : job' = [job EXCEPT ![j] = state]
  BY Zenon DEF JobFails
<1>2. /\ Active(j)
      /\ archives' \in IF job[j] = "tar" THEN {Written(j, FALSE)} ELSE {archives, Pruned}
      /\ pod' = pod
      /\ lossy' = (lossy \/ (job[j] = "prune" /\ job'[j] = "tar"))
      /\ UNCHANGED <<instance, cache, claim, cron, owner, runs, runtime, excuse, restore,
                     workspace, mixed>>
  BY Zenon DEF JobFails, CutShort, Workload
<1>3. lossy' \in BOOLEAN /\ (~lossy' => ~lossy)
  BY <1>2 DEF IInv, Types
<1>4. job' \in [Jobs -> JobStates] /\ job'[j] = state /\ JobsInOrder'
  BY <1>1, <1>2, <1>3, JobMoves, Zenon
<1>5. archives' \in Seq(Archives) /\ ArchivesFollow'
  <2>1. CASE job[j] = "tar"
    <3>1. lossy' = lossy
      BY <1>2, <2>1 DEF IInv, Types
    <3> QED  BY <1>1, <1>2, <2>1, <3>1, WritingFollows, Zenon
  <2>2. CASE job[j] = "prune" /\ state = "failed"
    <3>1. lossy' = lossy
      BY <1>2, <1>4, <2>2, Zenon DEF IInv, Types
    <3> QED  BY <1>1, <1>2, <2>2, <3>1, PruningFollows, Zenon
  <2>3. CASE job[j] = "prune" /\ state = "tar"
    <3>1. lossy'
      BY <1>2, <1>4, <2>3, Zenon
    <3>2. archives' \in Seq(Archives)
      BY <1>2, <2>3, PrunedIs, Zenon DEF IInv, Types
    <3> QED  BY <3>1, <3>2 DEF ArchivesFollow
  <2> QED  BY <1>1, <1>2, <2>1, <2>2, <2>3 DEF Active
<1> QED  BY <1>2, <1>3, <1>4, <1>5, SnapshotJobKeeps DEF IInv, Types

(* Another Pod leaves the archive of the lost one alone. *)
LEMMA ReplacePodKeeps == ASSUME IInv, NEW j \in Jobs, ReplacePod(j) PROVE IInv'
<1>1. /\ Active(j) /\ job' = [job EXCEPT ![j] = "tar"] /\ pod' = [pod EXCEPT ![j] = @ + 1]
      /\ archives' \in IF job[j] = "tar" THEN {Written(j, FALSE)} ELSE {archives, Pruned}
      /\ UNCHANGED <<instance, cache, claim, cron, owner, runs, runtime, excuse, lossy, restore,
                     workspace, mixed>>
  BY Zenon DEF ReplacePod, CutShort, Workload
<1>2. job' \in [Jobs -> JobStates] /\ JobsInOrder'
  BY <1>1, JobMoves, Zenon
<1>3. pod' \in [Jobs -> Nat]
  BY <1>1 DEF IInv, Types
<1>4. archives' \in Seq(Archives) /\ ArchivesFollow'
  <2>1. CASE job[j] = "tar"
    BY <1>1, <2>1, WritingFollows, Zenon
  <2>2. CASE job[j] = "prune"
    BY <1>1, <2>2, PruningFollows, Zenon
  <2> QED  BY <1>1, <2>1, <2>2 DEF Active
<1> QED  BY <1>1, <1>2, <1>3, <1>4, SnapshotJobKeeps, Zenon DEF IInv, Types

(* Only Jobs of a CronJob that is gone are collected. *)
LEMMA CollectKeeps == ASSUME IInv, NEW j \in Jobs, Collect(j) PROVE IInv'
<1>1. /\ j \in Listed /\ (~cron.exists \/ owner[j] # cron.number)
      /\ job' = [job EXCEPT ![j] = "removed"]
      /\ UNCHANGED <<instance, cache, claim, cron, pod, owner, runs, runtime, excuse, lossy,
                     archives, restore, workspace, mixed>>
  BY Zenon DEF Collect, Workload
<1>2. lossy
  BY <1>1 DEF IInv, JobsInOrder, Types
<1>3. job' \in [Jobs -> JobStates]
  BY <1>1, Zenon DEF IInv, Types, JobStates
<1>4. JobsInOrder' /\ ArchivesFollow'
  BY <1>1, <1>2, Zenon DEF JobsInOrder, ArchivesFollow
<1> QED  BY <1>1, <1>3, <1>4, SnapshotJobKeeps, Zenon DEF IInv, Types
-----------------------------------------------------------------------------
(* Restore Jobs *)

(* A step of a restore Job concerns no snapshot. *)
LEMMA RestoreJobKeeps ==
  ASSUME IInv, NEW v \in Jobs, restore[v] # "none", NEW state \in RestoreStates \ {"none"},
         restore' = [restore EXCEPT ![v] = state], mixed' \in BOOLEAN, RestoresAreQuiet',
         UNCHANGED <<instance, cache, lossy, claim, archives, cron, job, pod, owner, runs, excuse>>
  PROVE  IInv'
<1>1. /\ restore' \in [Jobs -> RestoreStates] /\ restore'[v] # "none"
      /\ \A w \in Jobs : w # v => restore'[w] = restore[w]
  BY Zenon DEF IInv, Types
<1>2. Types'
  BY <1>1, Zenon DEF IInv, Types
<1>3. RunsAreNamed'
  BY <1>1, Zenon DEF IInv, RunsAreNamed
<1>4. JobsInOrder' /\ ArchivesFollow'
  BY SnapshotsStay DEF IInv, JobsInOrder
<1> QED  BY <1>2, <1>3, <1>4, Zenon DEF IInv

LEMMA CheckKeeps == ASSUME IInv, NEW v \in Jobs, Check(v) PROVE IInv'
<1>1. PICK state \in {"unpack", "failed"} :
        /\ restore[v] = "check" /\ restore' = [restore EXCEPT ![v] = state]
        /\ state = "unpack" => workspace = {}
        /\ UNCHANGED <<instance, cache, claim, cron, pod, owner, runs, runtime, excuse, lossy,
                       archives, job, workspace, mixed>>
  BY Zenon DEF Check, Workload
<1>2. /\ restore'[v] = state /\ v \in Restoring
      /\ \A w \in Jobs : w # v => restore'[w] = restore[w]
  BY <1>1, Zenon DEF IInv, Types, Restoring
<1>3. RestoresAreQuiet'
  BY <1>1, <1>2 DEF IInv, RestoresAreQuiet, Restoring
<1> QED  BY <1>1, <1>3, RestoreJobKeeps, Zenon DEF RestoreStates, IInv, Types

(* What the check found still holds when a restore without an excuse        *)
(* unpacks.                                                                 *)
LEMMA UnpackKeeps == ASSUME IInv, NEW v \in Jobs, Unpack(v) PROVE IInv'
<1>1. /\ restore[v] = "unpack" /\ restore' = [restore EXCEPT ![v] = "unpacking"]
      /\ mixed' = (mixed \/ workspace # {})
      /\ UNCHANGED <<instance, cache, claim, cron, pod, owner, runs, runtime, excuse, lossy,
                     archives, job>>
  BY Zenon DEF Unpack, Workload
<1>2. /\ restore'[v] = "unpacking" /\ v \in Restoring
      /\ \A w \in Jobs : w # v => restore'[w] = restore[w]
  BY <1>1 DEF IInv, Types, Restoring
<1>3. mixed' \in BOOLEAN /\ (mixed' => mixed \/ workspace # {})
  BY <1>1, Zenon
<1>4. RestoresAreQuiet'
  BY <1>1, <1>2, <1>3 DEF IInv, RestoresAreQuiet, Restoring
<1> QED  BY <1>1, <1>3, <1>4, RestoreJobKeeps, Zenon DEF RestoreStates

LEMMA UnpackingKeeps == ASSUME IInv, NEW v \in Jobs, Unpacked(v) \/ Interrupt(v) PROVE IInv'
<1>1. PICK state \in {"done", "check", "failed"} :
        /\ restore[v] \in {"unpack", "unpacking"} /\ restore' = [restore EXCEPT ![v] = state]
        /\ UNCHANGED <<instance, cache, claim, cron, pod, owner, runs, runtime, excuse, lossy,
                       archives, job, workspace, mixed>>
  BY Zenon DEF Unpacked, Interrupt, Workload
<1>2. /\ restore'[v] = state /\ v \in Restoring
      /\ \A w \in Jobs : w # v => restore'[w] = restore[w]
  BY <1>1, Zenon DEF IInv, Types, Restoring
<1>3. RestoresAreQuiet'
  BY <1>1, <1>2 DEF IInv, RestoresAreQuiet, Restoring
<1> QED  BY <1>1, <1>3, RestoreJobKeeps, Zenon DEF RestoreStates, IInv, Types
-----------------------------------------------------------------------------
(* Results *)

LEMMA NextKeeps == IInv /\ [Next]_vars => IInv'
<1> SUFFICES ASSUME IInv, [Next]_vars PROVE IInv'
  OBVIOUS
<1>1. CASE SetBackup \/ SetSuspend \/ Annotate \/ Empty \/ PatchConditions \/ Scale \/ Write
  BY <1>1, SetBackupKeeps, SetSuspendKeeps, AnnotateKeeps, PatchConditionsKeeps, WorkspaceKeeps
<1>2. CASE Apply \/ Dispatch \/ Disable \/ Sync \/ Unbind
  BY <1>2, ApplyKeeps, DispatchKeeps, DisableKeeps, SyncKeeps, UnbindKeeps
<1>3. CASE \E j \in Jobs : Tick(j) \/ Tar(j) \/ Prune(j) \/ JobFails(j)
                       \/ ReplacePod(j) \/ Collect(j)
  BY <1>3, TickKeeps, TarKeeps, PruneKeeps, JobFailsKeeps, ReplacePodKeeps, CollectKeeps
<1>4. CASE \E j \in Jobs : Check(j) \/ Unpack(j) \/ Unpacked(j) \/ Interrupt(j)
  BY <1>4, CheckKeeps, UnpackKeeps, UnpackingKeeps, Zenon
<1>5. CASE UNCHANGED vars
  <2>1. UNCHANGED <<instance, cache, lossy, claim, archives, cron, job, pod, owner, restore, runs,
                    runtime, workspace, mixed, excuse>>
    BY <1>5, Zenon DEF vars
  <2>2. JobsInOrder' /\ ArchivesFollow'
    BY <2>1, SnapshotsStay, Zenon DEF IInv, JobsInOrder
  <2> QED  BY <2>1, <2>2, SnapshotJobKeeps, Zenon DEF IInv, Types
<1> QED  BY <1>1, <1>2, <1>3, <1>4, <1>5 DEF Next

(* The inductive invariant holds in every reachable state. *)
THEOREM Invariance == Spec => []IInv
BY InitEstablishes, NextKeeps, PTL DEF Spec

(* processRestore creates at most one restore Job for a value, however many *)
(* reconciles dispatch it and however often the annotation returns to it.   *)
THEOREM RestoresHappenOnce == Spec => []OneRestorePerValue
<1>1. IInv => OneRestorePerValue
  BY DEF IInv, RunsAreNamed, OneRestorePerValue
<1> QED  BY <1>1, Invariance, PTL

(* A restore that found the Instance suspended, its runtime gone and no     *)
(* other restore writes the workspace alone until it ends.                  *)
THEOREM RestoresAreAlone == Spec => []RestoreIsAlone
<1>1. IInv => RestoreIsAlone
  BY Zenon DEF IInv, RestoresAreQuiet, RestoreIsAlone
<1> QED  BY <1>1, Invariance, PTL

(* For any retention but 0, and however many Pods a Job goes through, the   *)
(* snapshot in status.backup or a newer one can be restored, unless backups *)
(* were switched or a script was retried in its Pod after it pruned.        *)
THEOREM SnapshotsSurvive == Spec => []SnapshotSurvives
<1>1. IInv => SnapshotSurvives
  BY DEF IInv, Types, Instances, ArchivesFollow, Restorable, SnapshotSurvives
<1> QED  BY <1>1, Invariance, PTL
================================================================================
