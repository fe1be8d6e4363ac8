# TLA+ specifications of the TypeClaw operator

These modules model the parts of `typeclaw-operator` in which several actors
share state: the Desktop Gateway's input control, the path of an agent's action
to the desktop, the computer-use plugin's tools, the life of a credential
ticket, managed runtime rollouts, snapshots and restores, the Personal Desktop
controller, and the two watchers of the relay sidecar. TLC checks them on small
instances. TLAPS proves every safety property that a passing run checks, and the
refinement of the input control registry, for every instance.

## The system

| Part | State | Operations that change it | Interacts with |
|---|---|---|---|
| Input control registry (`desktopgateway/control.go`) | active controller, generation, reservation, quarantine, power operation, drain flag | acquire, takeover, agent lease and its expiry, release, begin/finish power, revokeAll | VNC relay, agent endpoints, power, shutdown |
| VNC relay (`vnc.go`) | one goroutine per console request | acquire around a relay | registry |
| Agent proxy (`gateway.go`) | one handler per call | lease check, touch, forward, answer, screenshot | registry, guest, plugin |
| Power (`power.go`, `kubevirt*.go`) | a virtual machine's run state | dispatch, poll, classify the outcome | registry, KubeVirt |
| Guest Desktop Agent (`desktop_agent.py`) | one lock, the desktop | validate and apply a batch | agent proxy |
| Computer-use plugin (`index.ts`) | local lease, observations, a serial executor | acquire, observe, act, launch, power, release, dispose | Gateway |
| Credential controller, broker, Runner | `CredentialRequest`, Job, NetworkPolicy | store, claim, consume, create, observe, revoke | API server, GitHub |
| Auto-update controller | `status.update`, the StatefulSet's image | promote, confirm, roll back | Instance controller, registry, workload |
| Instance controller | StatefulSet and its companions, conditions | render and apply | all Instance controllers |
| Backup controller | CronJob, snapshot and restore Jobs, `status.backup` | apply, observe snapshots, restore | workload, auto-update gate |
| Personal Desktop controller | desktop objects, finalizer, tokens | converge, degrade, clean up | KubeVirt, CDI, guest, runtime |
| Restart relay, self-configuration relay | drop files; last digest and revision | delete the Pod, archive; report a change | runtime, API server |
| Network policy controller | one policy, one condition | render and apply | shared conditions |

The remaining code renders Kubernetes objects, reads configuration, draws a page
or is generated. It has no state of its own. `PROJECT.json` lists every part.

What makes it hard:

- the registry unlocks in the middle of a takeover, of an expiry and of a release;
- three processes time out on each other while a batch is being applied;
- the plugin's tools interleave at every await, and a request whose sender gave
  up may still arrive;
- controllers read caches that lag, patch without versions and die between writes;
- two controllers write one StatefulSet, five write one array of conditions;
- a consumed ticket must never run twice although every call may be ambiguous;
- a restore, a snapshot and the runtime share one workspace;
- a desktop's disk outlives the objects that hold the token its guest knows.

`PROJECT.json` lists these hazards at their lines, with the properties aimed at
them.

## Modules

| Module | Models | Run as |
|---|---|---|
| `InputLease` | what the registry promises: one holder, explicit handover, quarantine, shutdown | a property of `InputControl` |
| `InputControl` | `control.go` and the goroutines that hold its leases | itself |
| `InputControlProofs` | the theorems about it and about `AgentInput` | proved |
| `AgentInput` | one tool call through plugin, Gateway and guest, with all of `InputControl` beside it | `MCAgentInput` |
| `DesktopTools` | the plugin's tools, its local lease and its frames, against the Gateway's handlers | itself |
| `DesktopToolsProofs` | the theorems about it | proved |
| `CredentialRequest` | one ticket: broker, operator with its cache, Runner, GitHub | itself |
| `CredentialRequestProofs` | the theorems about it | proved |
| `AutoUpdate` | one Instance's rollouts: two controllers, the workload, the registry, the spec | itself |
| `AutoUpdateProofs` | the theorems about it | proved |
| `BackupRestore` | one Instance's snapshots and restores: controller, CronJob, Jobs, runtime | itself |
| `BackupRestoreProofs` | the theorems about it | proved |
| `PersonalDesktop` | one desktop: the controller call by call, KubeVirt, CDI, guest, Gateway Pod, edits | itself |
| `PersonalDesktopProofs` | the theorems about it | proved |
| `Relay` | the restart watcher in its Pods, and the StatefulSet that replaces them | itself |
| `RelayProofs` | the theorems about it | proved |
| `SelfConfig` | the config watcher and the controllers that write the same status | itself |
| `SelfConfigProofs` | the theorem about it | proved |

A definition whose name ends in `Mutant` is a plausible mistake in the
definition after it. It is used by no specification. Each property has one that
breaks it.

### InputControl

One process and one desktop. Every critical section of the registry's mutex is
one action, and code that unlocks and locks again takes several: `acquire` with
takeover is `AcquireTakeover`, `TakeoverWake`, `TakeoverResolve`;
`releaseAgentOwner` is `ReleaseAgentRead`, `ReleaseAgentWrite`; `expireLoop` is
`ExpireDecide`, `ExpireRelease`. A controller is named by its generation and
0 is nil. Attributes of controllers (human, cancelled, done, fresh) are sets of
generations. A refused call changes nothing and has no action. `lastPower` is
history: what the finished operations say of the desktop.

`release` closes the `done` channel after its unlock. Only a waiter reads the
channel and it may always run later, so the close is part of the release.

### AgentInput

`Admit`, `Touch`, `Forward` and `Relay` follow `handleAgentAction` and
`proxyGuestAgent`, with the registry free to change hands between them. The
guest takes one request at a time, validates the whole batch and applies it
action by action. Any of the three may stop waiting for, or lose, another. A
payload is only whether it validates.

### DesktopTools

A tool is two pieces: a synchronous prologue (`CallAcquire`, `CallInput`,
`CallStop`, ...), which may reserve, close or quarantine the local lease at once,
and an operation that waits its turn in the serial executor (`queue`). A running
operation sends one request (`Begin*`, `Send`) and waits; the Gateway's handler
(`Process`) and the answer (`Hear*`) are steps of their own, so that prologues,
humans, expiries, a Gateway restart and a replaced VM fall in between. `Abort` and
`Lose` end the wait; the request then joins `late` and may still be handled, but
for an observation, which changes nothing. The `session.end` hook is two steps
(`SessionEnd`, `ReleaseEnded`): it awaits the deletion of the session's frames
before it looks at the lease, and the session may acquire one in between. A
screenshot takes two steps (`Capture`, `writeScreenshotResponse`), because the
handler reads the generation after the frame. The status that an operation reads
first is read in the step that sends the request.

The Gateway is the plugin's view of it: boot ID, generation, owner and power
quarantine. A power dispatch ends accepted, refused, unknown or lost, and the VM
follows; it has stopped before the next request is handled. The Gateway answers
an acquisition with a grant, a 409 or a 503, so the plugin's cleanup after an
acquisition of unknown outcome has no step.

### CredentialRequest

Each write of `Reconcile` is an action, the finalizer (`Claim`) and the owner
reference (`Bind`) included, and `Abandon` may end the reconcile before any of
them: a crash, a failed call, a conflict. `Update` carries a version and conflicts;
`Patch` carries none. The name and the spec digest that `Reconcile` compares cannot
differ: the broker derives the name from the ticket, and the spec is immutable. `seen` and `seenJob` are the
informer's copies; with `Lag` a reconcile may start from old ones, which `behind`
records. Deleting a Job without a propagation policy does not delete its Pod, so
a Runner goes on after its Job is gone. A Job is removed 300 s after it finished,
which is as long as a ticket lives, so the model lets it go only after the ticket
expired. There is one operator: what a second one during an upgrade could read is
covered by old copies, but the steps of two do not alternate.

### AutoUpdate

A decision of the auto-update controller, its image patch and its status patch
are three actions. The Instance controller reads (`RenderWorkload`) and then
writes (`ApplyWorkload`). Images are release numbers, and 0 stands for an image
without a release tag. `PickVersion` changes the release that a poll picks, up or
down: one is published or withdrawn, or the track is edited. A poll finds the last
snapshot fresh or not (`BackupGateBlocked`). `Fail` may drop what is left to write
at any time. Both controllers read the current object. The window may end at any
time after it opened, also before the workload has followed the promotion.

### BackupRestore

A reconcile of the backup controller is one of `Apply` (nothing to restore, or
refused), `Dispatch` (a restore Job is created) and `Disable`. Applying the
objects, creating the Job and patching the status may each fail. The reconcile
reads the Instance from a cache; nobody else writes `status.backup` and
`restoreLastProcessed`, but every controller patches the whole array of conditions,
and `PatchConditions` puts an older one back. The snapshot script is `Tar` and
`Prune`. `JobFails` retries it in its Pod or gives up, after any of its commands;
`ReplacePod` retries it in another Pod. Archives are a sequence, newest first, each
whole or cut short and named after the Pod that wrote it, so that a retry in the
same Pod overwrites its archive and one in another Pod adds one. The restore script
is `Check`, `Unpack`, `Unpacked`; its retry starts with the check again. The
workspace is the set of those whose files are in it. A restore whose target is not
empty fails with the message Kubernetes writes for a Job that used up its retries.
An old Pod that still writes beside its replacement is not modelled.

### PersonalDesktop

A reconcile is the sequence of calls it has left to make: `Reconcile`,
`convergeDesktop`, `applyDesktop` and `desktopCleanup` compute it from the
Instance that was read, and each call is a step. Between two calls administrators
edit the block, KubeVirt's discovery comes and goes, CDI fills the disk, the
guest boots and the Gateway's Pod starts. `Fails` ends a call with an error and
`Restart` the whole reconcile. `Update` of the finalizer carries a version and
conflicts. Objects are pairs of a kind and a namespace, so that a desktop in a
namespace of its own is a different object. Tokens are numbers: the guest keeps
the one of its first boot, the Gateway presents the one it started with. The
Gateway has three kinds of object: what grants access to it, what its Pod mounts,
and the Deployment with its NetworkPolicy. Each stands for several calls of the
same fate. Garbage collection removes what `ownDesktopObject` owns.

A deletion only marks an object. The virtual machine and the disk then stay in
`fading`, where an apply finds them and creates nothing, until `Vanish` takes the
machine and after it the disk; the Pod of a deleted Deployment serves until it is
stopped. Other objects go at once. An Instance of the same name is created only
when all of this is over. A failed call had no effect. One that took effect while
its answer was lost is, for the objects, a call that succeeds before the next one
fails; the phase that is reported meanwhile may differ.

### Relay

Pods have one name and are numbered in order. Each has its own control directory
(an emptyDir), and its relay. `Delete` is the deletion by name and `Archive` the
rename that follows; a crash, a failed rename or the end of the Pod may come in
between. A deletion that failed took effect, was refused, or is still on its way
and arrives later (`Arrive`). A forced deletion frees the name while the old
containers run.

### SelfConfig

The watcher's `Observe` patches `status.selfConfig` from its own copy, which a
failed patch leaves changed (`ObserveFails`). Controllers read a shared cache
(`Read`) and patch (`SetCondition`) later; a merge patch names the fields that
differ from what was read, and the array of conditions is one field. Every
change of the Instance wakes every controller. The protected paths are constant:
the watcher reads them when it starts.

## Runs

| Run | Shows | Distinct states |
|---|---|---|
| `input_control` | `HolderIsActive`, `QuarantineExact`, `ReservationIsWaiter`, `ImplementsLease`, `TakeoverResolves`, `IdleAgentExpires`, `DrainReleases` | 41,676 |
| `agent_input_answers` | `AnswersAreTrue` | 762,882 |
| `desktop_tools` | `AgentLeaseIsTracked`, `InputIsFresh`, `OneBatchPerFrame`, `LeaseIsNotTaken`, `CallsReturn` | 1,078,228 |
| `credential_tickets` | `RunnerIsTracked`, `SucceededIsTrue`, `LossIsExplained`, `NoReplayFromCurrentReads`, `OutcomeIsFinal` | 6,880,924 |
| `credential_settles` | `EveryRequestSettles` | 159,588 |
| `auto_update_rollouts` | `ConfirmedUnlessInDoubt`, `NoRepromotion`, `NoPromoteLoop`, `WindowResolves` | 183,468 |
| `backup_jobs` | `OneRestorePerValue`, `RestoreIsAlone`, `SnapshotSurvives`, `RestoreIsProcessed`, `RefusalIsReported` | 493,399 |
| `personal_desktop` | `FinalizerGuardsObjects`, `GatewayHoldsGuestToken`, `DiskOutlivesDesktop`, `RuntimeCanStart`, `DesktopConverges`, `DeletionFinishes` | 656,192 |
| `relay_restarts` | `OnlyOwnPod`, `RequestRestarts` | 181,083 |
| `self_config_status` | `SightingIsRecorded`, `ConfigIsSighted`, `ConditionsSettle` | 42,192 |

`TypeOK` documents the state of every module (`CallTypeOK` that of a call). It is
a conjunct of the proved invariant of `InputControl`, `AgentInput`, `Relay`,
`CredentialRequest`, `AutoUpdate` and `SelfConfig`. It takes no place in a run: it
is an invariant of the same configurations and can be added to any of them.
`QuarantineExcludesControl`, `NoGrantAfterDrain` and `ExplicitHandover` are
proved and not run: on the instance of `input_control`, `ImplementsLease` and
`HolderIsActive` fail whenever a mistake breaks one of them that we tried.

Two runs are expected to fail. Each is a finding in `PROJECT.json` with the
sentence of the repository it refutes.

| Run | What happens |
|---|---|
| `auto_update_tracks` | a confirmed release is replaced by the spec's image, and stays current in the status |
| `personal_desktop_removed_block` | the block of a desktop in another namespace is removed; the cleanup looks in the Instance's namespace, deletes nothing and drops the finalizer |

### Exceptions the properties carry

Several properties hold but for a cause that the code admits. A history variable
records the cause, and the property shows that there is no other: the theorems
say so for any bounds. Without its exception TLC finds each of them violated.

- `NoReplayFromCurrentReads` (`behind`): `Create` fails ambiguously, and a
  reconcile that begins from an old copy consumes the ticket a second time.
- `LossIsExplained` (`Withdrawn`, `behind`): the ticket expires, its Instance goes,
  its Secret is replaced or its approval is a refusal while the Runner works, and it
  is Denied; or GitHub's response is lost, and it is Failed. An issue was created
  each time, and ADR 0002 (line 23) would have UnknownOutcome. A policy that no
  longer allows the operation is not among the causes.
- `ConfirmedUnlessInDoubt` (`doubt`): a rollback is cut short after the image
  is patched, and the old image's readiness confirms the failed release; or the
  window ends while the old Pod still counts as ready or an older rendering is on
  its way.
- `NoRepromotion`: `TargetVersion` remembers the last release that was tried, and
  the property is about that one. An earlier failure may be tried again after the
  track was edited; `NoPromoteLoop` says that this ends when the edits do.
- `AgentLeaseIsTracked` (`untracked`): the answer to an acquire is lost, or a
  second acquire fails and drops the lease of the first; the Gateway then keeps a
  lease the plugin does not know, until it expires.
- `InputIsFresh` (`untracked`): an acquire that was given up is granted while a
  frame is captured, and the frame carries the new generation
  (`gateway.go:337`). The property is about the moment a batch is sent and the
  moment the Gateway takes it while the plugin waits. A batch the guest is applying
  goes on after a human takes over (`gateway.go:424`), and one whose answer is lost or
  no longer awaited may be applied later (`index.ts:1466`); its frame is spent
  (`OneBatchPerFrame`).
- `SightingIsRecorded`, `ConfigIsSighted` (`failed`): `Observe` changes the
  watcher's Instance before it patches. After a failed patch the retry's patch
  is computed against the changed copy and omits the digest and the violation. A
  restarted relay starts from the server again, and the exception ends with it.
- `RestoreIsAlone` (`excuse`): a restore is dispatched while the runtime is still
  stopping, from a cache that still says suspended, beside another restore, or the
  Instance is resumed under it.
- `SnapshotSurvives` (`lossy`): backups were disabled, a script that had pruned
  is retried in its Pod and overwrites its own archive, or the retention is 0, which
  the CRD admits and with which the script removes the archive it has just written.
- `FinalizerGuardsObjects` (`stranded`): a cleanup while discovery does not serve
  KubeVirt leaves the virtual machine, and a cleanup after the block was removed
  looks in the wrong namespace.
- `GatewayHoldsGuestToken` (`tokenless`): a deletion under the Delete policy takes
  the token Secret of a disk that it leaves, because the disk is adopted, KubeVirt is
  away, or the policy or the block is withdrawn during the deletion. A deletion that
  retains the disk retains the tokens and is no exception.
- `OnlyOwnPod` (`forced`, `overdue`): after a forced deletion the old Pod's relay
  deletes its successor; and a deletion the relay no longer waits for arrives when
  the name is the successor's.

Some more disagreements need no interleaving to be seen and have no run. A
rollback goes to the image of the spec (`autoupdate_controller.go:269`), where
the doc of `ConfirmationDeadline` says the previously confirmed version. The
backup gate (`autoupdate_controller.go:292`) holds with backup disabled, where
the doc of `RequireFreshBackup` says it is ignored. An archive is named after the
Pod (`metadata.name` in `resources/backup.go:84`), where the comment above it and
`status.backup.latestSnapshot` name the Job. `backupJobFailedWithExitCode` looks for
the exit code in the message of the Job's condition, where Kubernetes does not put it
for Pods that restart on failure, so that `TargetNotEmpty` is never reported.

### Bounds

- `input_control`: two console requests (a takeover and a rival), one agent
  release, two power calls and two leases: an incumbent and its successor, so that
  a late release by the first meets the second. No symmetry, because of liveness.
  The theorems cover any number of each.
- `agent_input_answers`: two calls of two actions (the middle of a batch exists),
  one console request and two leases (the agent's and the human's). Calls are
  interchangeable.
- `desktop_tools`: two sessions, four tool calls (acquire, observe, act and one that
  interferes), two of them in the executor at a time, and one handover, expiry,
  restart or loss.
- `credential_*`: one change by an administrator (a policy, a Secret, the Instance);
  an approval is not counted. `credential_tickets` has two Runners, so that a replay
  is visible. `credential_settles` has one Runner and current reads: liveness over
  more is out of reach in reasonable time.
- `auto_update_*`: two releases, of which the first can become ready and the second
  cannot; a ready Pod may also fail again, so either may be rolled back and both
  may be tried in turn. The spec may pin the first. Edits of the spec and of the
  track are not bounded.
- `backup_jobs`: a retention of one, its archive present, one more Job (so that
  pruning removes one) of two Pods (so that one may be lost half way), and two
  changes by users or other controllers: suspend and request, or request and request
  again. The theorems have any retention, number of Jobs and Pods.
- `personal_desktop`: two edits, deletions, outages, failures or restarts, such as
  disable and enable or delete and fail, from any combination of namespace,
  adoption and policy. Recreation is not counted.
- `relay_restarts`: two request ids and four Pods: the first, its replacement, and
  one each for a stray deletion and for an eviction; one deletion on its way that
  nobody waits for.
- `self_config_status`: a protected and a free key, one controller beside the
  Instance's, two changes, one failed patch. Restarts are not bounded.

Deadlock is not checked where leases, calls, tickets, Pods or events are bounded
and the system may come to rest. It is checked in `auto_update_*`, `backup_jobs`
and `self_config_status`.

### Fairness

- `InputControl`: runnable goroutines run, timers fire, and a console request ends
  once its lease is cancelled (`relayVNC` closes both sockets). No client has to
  call anything.
- `DesktopTools`: every operation runs under a deadline (`withDeadlineSignal`), and
  the Gateway handles what reaches it. No human, no session and no network is fair.
- `CredentialRequest`: events and requeues bring back an unfinished request,
  informers catch up, and the clock runs. A call retried for ever succeeds in
  the end (strong fairness, because `Abandon` may interrupt each try).
- `AutoUpdate`: both controllers and the StatefulSet controller run, retried writes
  succeed and the clock runs. The Pod need never become ready, and nobody has to
  stop editing: `NoPromoteLoop` is about behaviours in which they do.
- `BackupRestore`: events and errors bring the controller back, and its cache
  follows. No Job, schedule or user is fair.
- `PersonalDesktop`: the informer, the worker, garbage collection, KubeVirt, CDI and
  the kubelet make progress. Failures and restarts are bounded, so weak fairness is
  enough.
- `Relay`: kubelet and StatefulSet do their part, and the relay of the present Pod
  polls; a deletion tried for ever succeeds (strong fairness, because each try may
  fail). Nothing else has to happen.
- `SelfConfig`: some relay lives long enough for a poll (strong fairness, because
  it may restart for ever), the cache follows, controllers work off their queue, and
  a patch tried for ever succeeds.

## Proofs

`InputControlProofs` proves, for any sets of requests, releasers and power calls
and any bound on leases (assumed only to be a natural number):

| Theorem | States |
|---|---|
| `TypeCorrectness` | `TypeOK` |
| `MutualExclusion` | `HolderIsActive` |
| `QuarantineHolds` | `QuarantineExcludesControl` |
| `QuarantineIsExact` | `QuarantineExact` |
| `ReservationsAreWaiters` | `ReservationIsWaiter` |
| `DrainingGrantsNothing` | `NoGrantAfterDrain` |
| `HandoverIsExplicit` | `ExplicitHandover` |
| `Implementation` | `ImplementsLease` |

They rest on `Invariance`, `Spec => []IInv`. The properties are not inductive
on their own. `HolderIsActive` needs that a late expiry or agent release never has a
human's controller in its hand (`AgentOnly`) and that the lease of a holder is a
human one (`HoldersAreHuman`). `QuarantineExact` needs that `priorBlocked`
remembers the cause of the quarantine it found (`PriorRemembers`).
`NoGrantAfterDrain` needs that a shutdown leaves no reservation
(`NoReservationWhenDraining`). One lemma per action shows that the action keeps
`IInv`. The refinement is proved step by step under `Holder`, which maps the
active generation to nobody, human or agent.

The same module proves `AnswersHold` (`AnswersAreTrue`) of `AgentInput`, for any
calls and any positive batch size, from `CallInvariance`: the guest knows nothing of a call that was not forwarded
(`NotForwarded`) and applies nothing before it has validated everything
(`ValidatedFirst`). `CallsKeepRegistry` shows that the composition is a behaviour of
`InputControl`, so that the theorems above hold while calls are under way.

Each of the other modules has its own `Invariance`. One lemma per action, or per
group of actions that change the same variables, shows that it is kept; TLC has
checked the invariant on the run's instance first.

| Module | Theorem | States | For any |
|---|---|---|---|
| `RelayProofs` | `RestartsOnlyOwnPod` | `OnlyOwnPod` | request ids, positive number of Pods, deletions on their way |
| `DesktopToolsProofs` | `AgentLeasesAreTracked` | `AgentLeaseIsTracked` | sessions, calls, queue, events |
| | `InputStaysFresh` | `InputIsFresh` | |
| | `FramesAreSpentOnce` | `OneBatchPerFrame` | |
| | `LeasesAreNotTaken` | `LeaseIsNotTaken` | |
| `CredentialRequestProofs` | `RunnersAreTracked` | `RunnerIsTracked` | Runners, changes, with or without lag |
| | `SuccessIsTrue` | `SucceededIsTrue` | |
| | `LossesAreExplained` | `LossIsExplained` | |
| | `OneRunner` | `NoReplayFromCurrentReads` | |
| | `OutcomesAreFinal` | `OutcomeIsFinal` | |
| `AutoUpdateProofs` | `ConfirmationIsTrue` | `ConfirmedUnlessInDoubt` | positive number of releases, sets of good and of pinned ones, with or without the gate |
| | `PromotionsDiffer` | `NoRepromotion` | |
| `BackupRestoreProofs` | `RestoresHappenOnce` | `OneRestorePerValue` | retention, Jobs, Pods, edits |
| | `RestoresAreAlone` | `RestoreIsAlone` | |
| | `SnapshotsSurvive` | `SnapshotSurvives` | |
| `PersonalDesktopProofs` | `FinalizerGuards` | `FinalizerGuardsObjects` | edits, deletions, outages, failures, restarts |
| | `GatewayMatchesGuest` | `GatewayHoldsGuestToken` | |
| | `DisksOutliveDesktops` | `DiskOutlivesDesktop` | |
| `SelfConfigProofs` | `SightingsAreRecorded` | `SightingIsRecorded` | keys, protected paths, controllers, changes |

What the invariants add, and why the properties need it:

- `Relay`: a drop lies in the directory of the Pod that wrote it (`DropsStay`), and
  without a forced deletion only the Pod that has the name runs (`OneRuns`). A drop
  in a running Pod is then one of the Pod that the name denotes.
- `DesktopTools`: the properties need what the waiting operation may have heard (`Waits`, `LeaseIsHeard`), that an operation which
  names a lease belongs to its session (`LeasesAreNamed`), that operations and frames
  are numbered in the order of the executor (`FramesAreOrdered`), and that a frame
  which carries the lease's generation was captured under the lease
  (`FramesAreTrusted`).
- `CredentialRequest`: every outcome, written or decided, has its cause
  (`Outcomes`); a Runner's message proves what it did (`RunnersReport`); a Job is
  created only for a consumed ticket (`ConsumedFirst`); and a reconcile that began
  from the current request still agrees with it about the ticket (`CopyIsCurrent`),
  because nobody else consumes a ticket or writes a phase.
- `AutoUpdate`: a status is decided in one step and written in a later one. `Pending`
  says what a status that waits may be, given the one it replaces. `Window` says that
  after a window the release's own Pod runs or a rollback is half done.
  `FailedAreOld` orders the failed releases below the next target.
- `BackupRestore`: a restore Job keeps its name taken (`RunsAreNamed`). A restore
  without an excuse found an idle workspace, and it stays idle (`RestoresAreQuiet`).
  Snapshot Jobs run one after the other (`JobsInOrder`), and only a Job whose own
  archive is whole and the newest prunes (`ArchivesFollow`).
- `PersonalDesktop`: a reconcile's remaining calls are part of its state, so the
  invariant says what they may be and in which order (`Plans`), and that a cleanup
  underway still holds a deletion for every object that it has to remove
  (`Covered`). `Copies` says how far the cached and the read Instance may lag: a copy
  that asks for no desktop is older than an Instance that asks for one, so the
  versioned update that drops the finalizer cannot succeed beside a reconcile that
  builds. `Finalized` says that whoever builds knows of a finalizer that is there.
  `Placed` ties the tokens and the disk to their objects, marked ones included.
  `OneToken` says that all tokens are equal, and that when the Secret is gone first
  the Instance is on its way out and nobody can issue another until the disk and the
  Pod that still hold it have gone (`Spent`).
- `SelfConfig`: the watcher's copy is what the server holds until a patch fails
  (`CopyIsCurrent`), since a patch names only the fields that differ from the copy.

Lemmas state what the operators do once: the head and tail of the executor's queue
and of a reconcile's calls, concatenated plans, a fresh identifier by counting, a
status patch, an archive that is written or pruned.

A leaf that names `Zenon` needs no arithmetic. In the long modules the prover's SMT
translation of a large invariant can exceed its own time limit, and such a leaf goes
to Zenon directly. `tlapm` needs about ten minutes each for `DesktopToolsProofs` and
`PersonalDesktopProofs` from nothing, and at most two for each other module.

Only model-checked: the liveness properties (`TakeoverResolves`, `IdleAgentExpires`,
`DrainReleases`, `CallsReturn`, `EveryRequestSettles`, `NoPromoteLoop`,
`WindowResolves`, `RestoreIsProcessed`, `RefusalIsReported`, `RuntimeCanStart`, `DesktopConverges`,
`DeletionFinishes`, `RequestRestarts`, `ConfigIsSighted`, `ConditionsSettle`), because
fairness and `ENABLED` are out of the prover's reach; and the type invariants of
`DesktopTools`, `BackupRestore` and `PersonalDesktop`, of which the proofs use the
parts they need.

## Not modelled

- Rendered objects (`internal/desktop/*`, `internal/resources/*`) beyond the names,
  namespaces, volumes, tokens and policies above; authentication and configuration
  of the Gateway; the console page; generated code; program entry points. They hold
  no state between steps.
- The screenshot transformation is a function of pixels. Version comparison, registry
  paging and the decoding of documents are functions of strings. Bytes, pixels
  and wording are left out everywhere.
- `DesktopTools`: the drain timeout of `onDispose`, commands of a channel without a
  session, the list of windows, and the console's own screenshots.
- `PersonalDesktop`: a change of `spec.namespace` or of the adopted disk while the
  desktop exists; the Windows password. A disk that was disabled under the Delete
  policy has no finalizer and stays when the Instance is deleted; no property
  says otherwise.
- `BackupRestore`: a restore that names an archive of a replacement Pod, and a Pod
  that is still writing when its replacement starts.
- `Relay`: an old Pod that lingers beside its replacement without a forced deletion.
- `SelfConfig`: a change of the protected paths while a relay runs, and an
  observation file that does not decode, which a poll skips.
- The Instance controller's Services and relay RBAC, and the Network policy, are
  rendered from one object and applied again at every reconcile.
