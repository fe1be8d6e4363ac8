-------------------------- MODULE CredentialRequest --------------------------
(***************************************************************************)
(* One credential ticket from the broker to its outcome: the request the   *)
(* broker stores (credential/broker.go), the operator that turns it into a *)
(* Restricted Credential Runner Job (credential_controller.go) and the     *)
(* Runner that performs the one external effect (credential-runner).       *)
(*                                                                         *)
(* Every write the operator makes to the API server is one action; it may  *)
(* crash, or fail and start over, between any two.  It reads the request   *)
(* and the Job from its informer cache.  The name and the spec digest that *)
(* Reconcile compares cannot differ: the broker derives the name from the  *)
(* ticket's digest, and the API server refuses a change of the spec.       *)
(***************************************************************************)
EXTENDS Naturals

CONSTANTS
  Lag,         \* whether a reconcile may start from a cache that is behind
  MaxChanges,  \* bound on what an administrator changes under one ticket
  MaxRunners   \* bound on Runner Jobs

ASSUME CredentialAssumption ==
  Lag \in BOOLEAN /\ MaxChanges \in Nat /\ MaxRunners \in Nat \ {0}

VARIABLES
  request,   \* the CredentialRequest in the API server
  job,       \* its Runner Job in the API server
  seen,      \* the operator's cached copy of the request
  seenJob,   \* the operator's cached copy of the Job
  netpol,    \* whether the Runner's NetworkPolicy exists
  at,        \* where Reconcile is
  obj,       \* the copy of the request Reconcile works on
  pod,       \* pod[r]: where the process of the r-th Runner is
  message,   \* message[r]: the termination message it left
  world,     \* what the administrator and the clock decide
  changes,   \* how often the administrator has changed it
  runners,   \* history: Runner Jobs created
  behind,    \* history: whether a reconcile has begun from a copy that was behind
  issues     \* history: the Runners that created an issue on GitHub

operator == <<at, obj>>
cluster  == <<request, job, netpol>>
runner   == <<pod, message, issues>>
history  == <<runners, behind>>
vars == <<cluster, seen, seenJob, operator, runner, world, changes, history>>

Pending == {"", "Pending", "PendingApproval", "TicketConsumed", "Running"}
Terminal == {"Succeeded", "Failed", "Denied", "UnknownOutcome"}

Requests == [exists : BOOLEAN, deleting : BOOLEAN, finalizer : BOOLEAN, owned : BOOLEAN,
             phase : Pending \cup Terminal, consumed : BOOLEAN]

Jobs == {"none", "active", "succeeded", "failed"}

(* instance: the Instance the request names exists and is the one that owns *)
(* it; policy: what AuthorizePolicy says; binding: the policy's Secret      *)
(* reference equals the request's; secret: the Secret's metadata.           *)
Worlds == [instance : BOOLEAN, expired : BOOLEAN,
           policy : {"PreAuthorized", "Confirm", "Deny"}, binding : BOOLEAN,
           approval : {"none", "Approve", "Deny"},
           secret : {"bound", "rotated", "unreadable"}]

Steps == {"idle", "claim", "bind", "decide", "police", "observe", "consume", "create",
          "adopt", "kill", "revoke", "revoked", "cleanup", "unclaim",
          "Pending", "PendingApproval", "Running"} \cup Terminal

Runners == 1..MaxRunners

(* Types; an issue is posted by a Runner at most once. *)
TypeOK ==
  /\ request \in Requests /\ seen \in Requests /\ obj \in Requests
  /\ job \in Jobs /\ seenJob \in Jobs
  /\ netpol \in BOOLEAN /\ at \in Steps
  /\ pod \in [Runners -> {"none", "pending", "running", "posted", "ended"}]
  /\ message \in [Runners -> {"none", "result", "error"}]
  /\ world \in Worlds /\ changes \in 0..MaxChanges
  /\ runners \in 0..MaxRunners /\ behind \in BOOLEAN /\ issues \subseteq 1..runners

(* No copy: what Reconcile works on when it is not running. *)
NoRequest == [exists |-> FALSE, deleting |-> FALSE, finalizer |-> FALSE,
              owned |-> FALSE, phase |-> "", consumed |-> FALSE]

(* Broker.handleNew: a policy that allows the operation, a fresh ticket.    *)
Init ==
  /\ request = [NoRequest EXCEPT !.exists = TRUE]
  /\ seen = request /\ obj = NoRequest
  /\ job = "none" /\ seenJob = "none" /\ netpol = FALSE
  /\ at = "idle"
  /\ pod = [r \in Runners |-> "none"] /\ message = [r \in Runners |-> "none"]
  /\ \E policy \in {"PreAuthorized", "Confirm"} :
       world = [instance |-> TRUE, expired |-> FALSE, policy |-> policy,
                binding |-> TRUE, approval |-> "none", secret |-> "bound"]
  /\ changes = 0 /\ runners = 0 /\ behind = FALSE /\ issues = {}

-----------------------------------------------------------------------------
(* Reconcile: reads *)

NotTerminalMutant(phase) == phase \in Terminal \ {"UnknownOutcome"}

IsTerminal(phase) == phase \in Terminal

(* Reconcile goes on with a copy of the request, or returns. *)
GoTo(step, copy) ==
  /\ at' = step
  /\ obj' = IF step = "idle" THEN NoRequest ELSE copy

(* The request is read and the first branches are taken. *)
Begin ==
  /\ at = "idle" /\ seen.exists
  /\ behind' = (behind \/ seen # request \/ seenJob # job)
  /\ behind' => Lag
  /\ GoTo(IF seen.deleting
          THEN IF seen.consumed /\ ~IsTerminal(seen.phase) THEN "revoke" ELSE "cleanup"
          ELSE IF IsTerminal(seen.phase) THEN "cleanup"
          ELSE IF seen.finalizer THEN "decide" ELSE "claim", seen)
  /\ UNCHANGED <<cluster, seen, seenJob, runner, world, changes, runners>>

AlwaysDeniedMutant == "Denied"

(* What to do about a ticket that may no longer be used: a consumed one     *)
(* loses its Job and its outcome is unknown, a fresh one is denied.         *)
Invalidate == IF obj.consumed THEN "kill" ELSE "Denied"

UntimedMutant == world.instance

(* Checked first, whether or not a Runner is at work.                       *)
TicketStands == world.instance /\ ~world.expired

(* The checks of Reconcile in their order, down to the next write.          *)
Verdict ==
  IF world.instance /\ ~obj.owned THEN "bind"
  ELSE IF ~TicketStands THEN "Denied"
  ELSE IF world.policy = "Deny" \/ ~world.binding THEN Invalidate
  ELSE IF world.policy = "Confirm" /\ world.approval = "none" THEN "PendingApproval"
  ELSE IF world.policy = "Confirm" /\ world.approval = "Deny" THEN "Denied"
  ELSE IF world.secret = "rotated" THEN "Denied"
  ELSE IF world.secret = "unreadable" THEN IF obj.consumed THEN "kill" ELSE "Pending"
  ELSE "police"

Decide ==
  /\ at = "decide"
  /\ at' = Verdict
  /\ UNCHANGED <<cluster, seen, seenJob, obj, runner, world, changes, history>>

(* runnerResult: the termination message of a Pod of this request that has  *)
(* ended decides, unless it is empty or no such Pod can be found.           *)
RunnerResult ==
  {IF message[r] = "error" THEN "Failed" ELSE "Succeeded" :
     r \in {q \in 1..runners : pod[q] = "ended" /\ message[q] # "none"}} \cup {"kill"}

(* A Job that failed or is gone says nothing of what its Runner did.        *)
LostRunner == "kill"

(* observeRunner *)
Observe ==
  /\ at = "observe"
  /\ \/ seenJob = "succeeded" /\ \E step \in RunnerResult : GoTo(step, obj)
     \/ seenJob \in {"failed", "none"} /\ GoTo(LostRunner, obj)
     \/ /\ seenJob = "active"
        /\ GoTo(IF obj.phase = "Running" THEN "idle" ELSE "Running", obj)
  /\ UNCHANGED <<cluster, seen, seenJob, runner, world, changes, history>>

-----------------------------------------------------------------------------
(* Reconcile: writes *)

(* Update carries the resource version Reconcile read: a conflict when the  *)
(* request has changed since.                                               *)
Update(new) ==
  /\ obj = request
  /\ request' = [new EXCEPT !.exists = ~(new.deleting /\ ~new.finalizer)]

(* Patch sends the fields that differ from the copy and carries no version, *)
(* so it is never refused.                                                  *)
PatchPhase(phase) ==
  /\ request.exists
  /\ request' = [request EXCEPT !.phase = IF obj.phase = phase THEN @ ELSE phase]

(* The finalizer. *)
Claim ==
  /\ at = "claim"
  /\ Update([request EXCEPT !.finalizer = TRUE])
  /\ GoTo("decide", request')
  /\ UNCHANGED <<job, netpol, seen, seenJob, runner, world, changes, history>>

(* bindRequest: the Instance becomes the owner, and the checks go on. *)
Bind ==
  /\ at = "bind"
  /\ Update([request EXCEPT !.owned = TRUE])
  /\ GoTo("decide", request')
  /\ UNCHANGED <<job, netpol, seen, seenJob, runner, world, changes, history>>

(* ensureRunnerNetworkPolicy, before the Runner is looked at or created;    *)
(* then the Job is looked up, before the ticket is consumed.                *)
Police ==
  /\ at = "police"
  /\ netpol' = TRUE
  /\ at' = IF obj.consumed THEN "observe"
           ELSE IF seenJob = "none" THEN "consume" ELSE "adopt"
  /\ UNCHANGED <<request, job, seen, seenJob, obj, runner, world, changes, history>>

ForgetfulMutant(phase) == [request EXCEPT !.phase = phase]

(* The status consumeTicket writes, Runner name included.                   *)
Consumed(phase) == [request EXCEPT !.phase = phase, !.consumed = TRUE]

(* consumeTicket: the ticket is spent before anything uses it.              *)
Consume ==
  /\ at \in {"consume", "adopt"} /\ request.exists
  /\ request' = Consumed("TicketConsumed")
  /\ GoTo(IF at = "consume" THEN "create" ELSE "idle", request')
  /\ UNCHANGED <<job, netpol, seen, seenJob, runner, world, changes, history>>

(* Create the Job.  A Job that exists is left alone.  A call that fails may *)
(* have created it; either way the outcome is no longer known.              *)
CreateJob ==
  /\ at = "create"
  /\ \/ /\ job = "none" /\ runners < MaxRunners
        /\ job' = "active" /\ runners' = runners + 1
        /\ pod' = [pod EXCEPT ![runners + 1] = "pending"]
        /\ \E step \in {"idle", "kill"} : GoTo(step, obj)
     \/ /\ \E step \in IF job = "none" THEN {"kill"} ELSE {"idle", "kill"} : GoTo(step, obj)
        /\ UNCHANGED <<job, pod, runners>>
  /\ UNCHANGED <<request, netpol, seen, seenJob, message, issues, world, changes, behind>>

(* unknownOutcome and revokeAndRemoveFinalizer: the Job is deleted, and the *)
(* phase is written after that.  The Job's Pod is not deleted with it.      *)
DeleteJob ==
  /\ at \in {"kill", "revoke"}
  /\ job' = "none"
  /\ at' = IF at = "kill" THEN "UnknownOutcome" ELSE "revoked"
  /\ UNCHANGED <<request, netpol, seen, seenJob, obj, runner, world, changes, history>>

(* setStatus with the phase that was decided ends the reconcile; a deletion *)
(* goes on with its cleanup.                                                *)
WriteStatus ==
  /\ \/ /\ at \in Terminal \cup {"Pending", "PendingApproval", "Running"}
        /\ PatchPhase(at) /\ GoTo("idle", request')
     \/ at = "revoked" /\ PatchPhase("UnknownOutcome") /\ GoTo("cleanup", request')
  /\ UNCHANGED <<job, netpol, seen, seenJob, runner, world, changes, history>>

(* cleanupRunnerNetworkPolicy *)
Cleanup ==
  /\ at = "cleanup"
  /\ netpol' = FALSE
  /\ GoTo(IF obj.finalizer THEN "unclaim" ELSE "idle", obj)
  /\ UNCHANGED <<request, job, seen, seenJob, runner, world, changes, history>>

(* removeFinalizer *)
Unclaim ==
  /\ at = "unclaim"
  /\ Update([request EXCEPT !.finalizer = FALSE])
  /\ GoTo("idle", request')
  /\ UNCHANGED <<job, netpol, seen, seenJob, runner, world, changes, history>>

(* A read or a write fails, conflicts, or the operator dies: Reconcile will *)
(* start again from the beginning.                                          *)
Abandon ==
  /\ at # "idle"
  /\ GoTo("idle", obj)
  /\ UNCHANGED <<cluster, seen, seenJob, runner, world, changes, history>>

-----------------------------------------------------------------------------
(* Everything else *)

(* The informers catch up, each on its own. *)
Sync ==
  /\ \/ seen # request /\ seen' = request /\ UNCHANGED seenJob
     \/ seenJob # job /\ seenJob' = job /\ UNCHANGED seen
  /\ UNCHANGED <<cluster, operator, runner, world, changes, history>>

(* The Pod of Runner r starts; its Job may be gone by then. *)
PodStarts(r) ==
  /\ pod[r] = "pending" /\ pod' = [pod EXCEPT ![r] = "running"]
  /\ UNCHANGED <<cluster, seen, seenJob, operator, message, issues, world, changes, history>>

(* GitHubClient.CreateIssue: GitHub carries the POST out. *)
PostIssue(r) ==
  /\ pod[r] = "running" /\ pod' = [pod EXCEPT ![r] = "posted"]
  /\ issues' = issues \cup {r}
  /\ UNCHANGED <<cluster, seen, seenJob, operator, message, world, changes, history>>

(* Only the Job that exists follows its Pod. *)
JobFollows(r, outcome) == job' = IF job = "active" /\ r = runners THEN outcome ELSE job

ErrorIsResultMutant(r) == {"result", "error"}

(* What CreateIssue can return: without the POST an error; after it the     *)
(* issue, or an error when the response is lost, late or unreadable.        *)
CreateIssueReturns(r) == IF pod[r] = "posted" THEN {"result", "error"} ELSE {"error"}

(* run writes the result, or the error code, and exits 0. *)
RunnerWrites(r) ==
  /\ pod[r] \in {"running", "posted"}
  /\ \E m \in CreateIssueReturns(r) : message' = [message EXCEPT ![r] = m]
  /\ pod' = [pod EXCEPT ![r] = "ended"]
  /\ JobFollows(r, "succeeded")
  /\ UNCHANGED <<request, netpol, seen, seenJob, operator, issues, world, changes, history>>

(* The Pod is killed, evicted or past its deadline: the Job fails, and has  *)
(* no second Pod (backoffLimit 0, restartPolicy Never).                     *)
RunnerDies(r) ==
  /\ pod[r] \in {"pending", "running", "posted"}
  /\ pod' = [pod EXCEPT ![r] = "ended"]
  /\ JobFollows(r, "failed")
  /\ UNCHANGED <<request, netpol, seen, seenJob, operator, message, issues, world, changes, history>>

(* ttlSecondsAfterFinished, which is as long as a ticket lives. *)
JobExpires ==
  /\ world.expired /\ job \in {"succeeded", "failed"}
  /\ job' = "none"
  /\ UNCHANGED <<request, netpol, seen, seenJob, operator, runner, world, changes, history>>

(* What a request that is gone owned is collected. *)
GarbageCollect ==
  /\ ~request.exists /\ (job # "none" \/ netpol)
  /\ job' = "none" /\ netpol' = FALSE
  /\ UNCHANGED <<request, seen, seenJob, operator, runner, world, changes, history>>

(* A policy that asks for it gets a CredentialApproval, which is immutable. *)
Approve ==
  /\ world.policy = "Confirm" /\ world.approval = "none"
  /\ \E d \in {"Approve", "Deny"} : world' = [world EXCEPT !.approval = d]
  /\ UNCHANGED <<cluster, seen, seenJob, operator, runner, changes, history>>

(* Administrators change what the ticket depends on. *)
Administrate ==
  /\ changes < MaxChanges
  /\ changes' = changes + 1
  /\ \/ world' = [world EXCEPT !.instance = FALSE]
     \/ \E p \in {"PreAuthorized", "Confirm", "Deny"} : world' = [world EXCEPT !.policy = p]
     \/ world' = [world EXCEPT !.binding = FALSE]
     \/ \E s \in {"bound", "rotated", "unreadable"} :
          world.secret # "rotated" /\ world' = [world EXCEPT !.secret = s]
  /\ world' # world
  /\ UNCHANGED <<cluster, seen, seenJob, operator, runner, history>>

(* TicketTTL passes. *)
Expire ==
  /\ ~world.expired
  /\ world' = [world EXCEPT !.expired = TRUE]
  /\ UNCHANGED <<cluster, seen, seenJob, operator, runner, changes, history>>

(* The request is deleted, by hand or with the Instance that owns it: at    *)
(* once, or when its finalizer is gone.                                     *)
DeleteRequest ==
  /\ request.exists /\ ~request.deleting
  /\ request' = [request EXCEPT !.deleting = TRUE, !.exists = request.finalizer]
  /\ UNCHANGED <<job, netpol, seen, seenJob, operator, runner, world, changes, history>>

Reconcile ==
  \/ Begin \/ Decide \/ Observe \/ Claim \/ Bind \/ Police \/ Consume \/ CreateJob
  \/ DeleteJob \/ WriteStatus \/ Cleanup \/ Unclaim \/ Abandon

Next ==
  \/ Reconcile \/ Sync
  \/ \E r \in Runners : PodStarts(r) \/ PostIssue(r) \/ RunnerWrites(r) \/ RunnerDies(r)
  \/ JobExpires \/ GarbageCollect \/ Approve \/ Administrate \/ Expire \/ DeleteRequest

Spec == Init /\ [][Next]_vars

(* Events and requeues bring every unfinished request back, the informers   *)
(* catch up, the clock runs, and a call that is tried again and again goes  *)
(* through in the end.                                                      *)
Fairness ==
  /\ WF_vars(Reconcile) /\ WF_vars(Sync) /\ WF_vars(Expire)
  /\ SF_vars(Decide) /\ SF_vars(DeleteJob \/ Cleanup)
  /\ SF_vars(Claim \/ Bind \/ WriteStatus \/ Unclaim)

FairSpec == Spec /\ Fairness

-----------------------------------------------------------------------------
(* Properties *)

(* The ticket of a request is consumed before a Runner exists for it, and   *)
(* stays consumed: no crash between consumeTicket and Create, no retry and  *)
(* no stale read leaves a Runner that the request does not know of.         *)
RunnerIsTracked == runners > 0 => (request.consumed \/ ~request.exists)

(* The broker tells the consumer Succeeded only of an issue that exists,    *)
(* whatever Pod observeRunner took the result from.                         *)
SucceededIsTrue == request.phase = "Succeeded" => issues # {}

(* One ticket has one Runner: neither a retry, nor a crash after Create,    *)
(* nor a Job that failed, was deleted or expired, brings a second one.  The *)
(* one way to it is a reconcile that begins from a copy older than the      *)
(* controller's own writes.                                                 *)
NoReplayFromCurrentReads == ~behind => runners <= 1

(* A terminal phase is the outcome: no step of a controller whose reads     *)
(* were current writes another one.                                         *)
OutcomeIsFinal ==
  [][~behind /\ request.phase \in Terminal => request'.phase = request.phase]_vars

(* What denies a ticket whose Runner is at work (Reconcile): its time is up, *)
(* its Instance is gone, its Secret was replaced or its approval is a        *)
(* refusal.                                                                  *)
Withdrawn ==
  world.expired \/ ~world.instance \/ world.secret = "rotated" \/ world.approval = "Deny"

(* An issue that exists is reported as anything but Succeeded or             *)
(* UnknownOutcome in two cases only.  Failed: a Runner reported an error, as *)
(* CreateIssue does when it loses the response.  Denied: the ticket was      *)
(* withdrawn, or a reconcile began from an old copy.  A Runner that was      *)
(* killed, a Job or a message that is gone, a policy that no longer allows   *)
(* the operation or names another Secret, and a Secret that cannot be read   *)
(* never make an issue that exists Failed or Denied (unknownOutcome).  ADR   *)
(* 0002, by which every lost result becomes UnknownOutcome, is wider.        *)
LossIsExplained ==
  issues # {} =>
    /\ request.phase = "Failed" => \E r \in 1..runners : message[r] = "error"
    /\ request.phase = "Denied" => Withdrawn \/ behind

(* Every request comes to an outcome and loses its finalizer, or is gone;   *)
(* a request that is deleted half way is never held back for good.          *)
EveryRequestSettles ==
  request.exists ~> (~request.exists
                     \/ (request.phase \in Terminal /\ ~request.finalizer))

=============================================================================
