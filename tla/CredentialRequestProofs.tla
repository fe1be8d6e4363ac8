----------------------- MODULE CredentialRequestProofs -----------------------
(***************************************************************************)
(* Proofs, for any bounds on Runners and on an administrator's changes,    *)
(* and with or without a cache that lags, of what a credential ticket      *)
(* promises: its Runner is tracked, its outcome is true, explained and     *)
(* final, and it has no second Runner unless a reconcile began from a copy *)
(* that was behind.                                                        *)
(*                                                                         *)
(* The inductive invariant says where each outcome comes from (Outcomes),  *)
(* what a Runner's message proves (RunnersReport), and that a reconcile    *)
(* which began from the current request still works on a copy that agrees  *)
(* with it about the ticket (CopyIsCurrent).                               *)
(***************************************************************************)
EXTENDS CredentialRequest, TLAPS

(* A Pod belongs to a Runner that was created; one that posted, or reported *)
(* a result, created its issue; a message is left only at the end.          *)
RunnersReport ==
  \A r \in Runners :
    /\ pod[r] # "none" => r \in 1..runners
    /\ pod[r] = "posted" \/ message[r] = "result" => r \in issues
    /\ message[r] # "none" => pod[r] = "ended"

(* What an outcome, written or about to be written, rests on. *)
Justified(outcome) ==
  /\ outcome = "Succeeded" => issues # {}
  /\ outcome = "Failed" => \E r \in 1..runners : message[r] = "error"
  /\ outcome = "Denied" => Withdrawn \/ behind \/ runners = 0

Outcomes == Justified(at) /\ Justified(request.phase)

(* A Job is created only for a ticket that is consumed, and nothing takes   *)
(* the consumption back.                                                    *)
ConsumedFirst == at = "create" \/ runners > 0 => request.consumed

(* A reconcile that began from the current request: only it consumes the    *)
(* ticket or writes a phase, so its copy stays right about both.            *)
CopyIsCurrent ==
  ~behind =>
    /\ at # "idle" => obj.consumed = request.consumed
    /\ at = "consume" => ~obj.consumed
    /\ at = "create" => runners = 0
    /\ at \notin {"idle", "cleanup", "unclaim"} => request.phase \notin Terminal

IInv ==
  /\ TypeOK /\ RunnersReport /\ Outcomes /\ ConsumedFirst
  /\ RunnerIsTracked /\ CopyIsCurrent /\ NoReplayFromCurrentReads
-----------------------------------------------------------------------------
USE DEF operator, cluster, runner, history

(* The empty copy is a request of its type. *)
LEMMA NoRequestIs == NoRequest \in Requests
BY DEF NoRequest, Requests, Pending

(* The Runners that were created are among those the bound allows. *)
LEMMA CreatedAreRunners == IInv => 1..runners \subseteq Runners
BY CredentialAssumption DEF IInv, TypeOK, Runners

(* A stored request, with no Runner. *)
LEMMA InitEstablishes == Init => IInv
<1> SUFFICES ASSUME Init PROVE IInv
  OBVIOUS
<1>1. request \in Requests /\ request.phase = "" /\ seen = request /\ obj \in Requests
  BY NoRequestIs DEF Init, NoRequest, Requests, Pending
<1>2. world \in Worlds
  BY DEF Init, Worlds
<1>3. TypeOK
  <2>1. changes \in 0..MaxChanges /\ runners \in 0..MaxRunners
    BY CredentialAssumption DEF Init
  <2>2. job \in Jobs /\ at \in Steps
    BY DEF Init, Jobs, Steps
  <2> QED  BY <1>1, <1>2, <2>1, <2>2 DEF Init, TypeOK
<1>4. \A r \in Runners : pod[r] = "none" /\ message[r] = "none"
  BY DEF Init
<1>6. at = "idle" /\ runners = 0
  BY DEF Init
<1>7. RunnersReport
  BY <1>4 DEF RunnersReport
<1>8. Outcomes
  BY <1>1, <1>6 DEF Outcomes, Justified
<1>9. ConsumedFirst /\ RunnerIsTracked /\ CopyIsCurrent /\ NoReplayFromCurrentReads
  BY <1>6 DEF ConsumedFirst, RunnerIsTracked, CopyIsCurrent, NoReplayFromCurrentReads
<1> QED  BY <1>3, <1>7, <1>8, <1>9 DEF IInv
-----------------------------------------------------------------------------
(* Reconcile: reads *)

(* The first branches: a reconcile that begins from the current request      *)
(* turns to anything but the cleanup only when it has no outcome.            *)
LEMMA BeginKeeps == IInv /\ Begin => IInv'
<1> SUFFICES ASSUME IInv, Begin PROVE IInv'
  OBVIOUS
<1>1. /\ at' \in {"revoke", "cleanup", "decide", "claim"} /\ obj' = seen /\ seen.exists
      /\ UNCHANGED <<cluster, seen, seenJob, runner, world, changes, runners>>
      /\ behind' \in BOOLEAN /\ (~behind' => ~behind /\ seen = request)
      /\ at' # "cleanup" => seen.phase \notin Terminal
  BY ZenonT(30) DEF Begin, GoTo, IsTerminal, IInv, TypeOK
<1>2. TypeOK'
  BY <1>1 DEF IInv, TypeOK, Steps
<1>3. CopyIsCurrent' /\ NoReplayFromCurrentReads'
  BY <1>1 DEF IInv, CopyIsCurrent, NoReplayFromCurrentReads
<1> QED
  BY <1>1, <1>2, <1>3 DEF IInv, RunnersReport, Outcomes, Justified, Withdrawn,
     ConsumedFirst, RunnerIsTracked

(* The checks: a ticket that has a Runner is denied only if it was          *)
(* withdrawn, unless the copy is behind and hides the Runner.               *)
LEMMA DecideKeeps == IInv /\ Decide => IInv'
<1> SUFFICES ASSUME IInv, Decide PROVE IInv'
  OBVIOUS
<1>1. /\ at = "decide"
      /\ at' \in {"bind", "Denied", "kill", "PendingApproval", "Pending", "police"}
      /\ UNCHANGED <<cluster, seen, seenJob, obj, runner, world, changes, history>>
  BY DEF Decide, Verdict, Invalidate
<1>2. at' = "Denied" => Withdrawn \/ behind \/ runners = 0
  <2>1. at' = "Denied" => Withdrawn \/ ~obj.consumed
    BY DEF Decide, Verdict, Invalidate, TicketStands, Withdrawn
  <2>2. ~obj.consumed /\ ~behind => runners = 0
    <3>1. ~behind => obj.consumed = request.consumed
      BY <1>1 DEF IInv, CopyIsCurrent
    <3> QED  BY <3>1 DEF IInv, ConsumedFirst, TypeOK
  <2> QED  BY <2>1, <2>2
<1>3. TypeOK'
  BY <1>1 DEF IInv, TypeOK, Steps, Terminal
<1>4. CopyIsCurrent' /\ NoReplayFromCurrentReads'
  BY <1>1 DEF IInv, CopyIsCurrent, NoReplayFromCurrentReads, Decide
<1>5. Outcomes'
  BY <1>1, <1>2 DEF IInv, Outcomes, Justified, Withdrawn
<1> QED
  BY <1>1, <1>3, <1>4, <1>5 DEF IInv, RunnersReport, ConsumedFirst, RunnerIsTracked, Decide

(* observeRunner: a result is the message of a Runner that ended. *)
LEMMA ObserveKeeps == IInv /\ Observe => IInv'
<1> SUFFICES ASSUME IInv, Observe PROVE IInv'
  OBVIOUS
<1>1. /\ at' \in {"Succeeded", "Failed", "kill", "idle", "Running"}
      /\ obj' \in {obj, NoRequest} /\ (at' # "idle" => obj' = obj)
      /\ UNCHANGED <<cluster, seen, seenJob, runner, world, changes, history>>
  BY DEF Observe, GoTo, RunnerResult, LostRunner
<1>2. Justified(at')
  <2>1. ASSUME at' \in {"Succeeded", "Failed"}
        PROVE  \E r \in 1..runners : /\ message[r] # "none" /\ pod[r] = "ended"
                                     /\ at' = IF message[r] = "error" THEN "Failed" ELSE "Succeeded"
    BY <2>1 DEF Observe, GoTo, RunnerResult, LostRunner
  <2> QED  BY <1>1, <2>1, CreatedAreRunners DEF Justified, IInv, RunnersReport, TypeOK
<1>3. TypeOK'
  BY <1>1, NoRequestIs DEF IInv, TypeOK, Steps, Terminal
<1>4. CopyIsCurrent' /\ NoReplayFromCurrentReads'
  BY <1>1 DEF IInv, CopyIsCurrent, NoReplayFromCurrentReads, Observe
<1> QED
  BY <1>1, <1>2, <1>3, <1>4 DEF IInv, RunnersReport, Outcomes, Justified, Withdrawn,
     ConsumedFirst, RunnerIsTracked, Observe

(* The reconcile ends early. *)
LEMMA AbandonKeeps == IInv /\ Abandon => IInv'
<1> SUFFICES ASSUME IInv, Abandon PROVE IInv'
  OBVIOUS
<1>1. /\ at' = "idle" /\ obj' = NoRequest
      /\ UNCHANGED <<cluster, seen, seenJob, runner, world, changes, history>>
  BY DEF Abandon, GoTo
<1>2. TypeOK'
  BY <1>1, NoRequestIs DEF IInv, TypeOK, Steps
<1> QED
  BY <1>1, <1>2 DEF IInv, RunnersReport, Outcomes, Justified, Withdrawn,
     ConsumedFirst, RunnerIsTracked, CopyIsCurrent, NoReplayFromCurrentReads
-----------------------------------------------------------------------------
(* Reconcile: writes *)

(* Update leaves the ticket and the phase alone, and brings nothing back.   *)
LEMMA UpdateIs ==
  ASSUME NEW new \in Requests, Update(new),
         new.phase = request.phase, new.consumed = request.consumed
  PROVE  /\ request' \in Requests
         /\ request'.phase = request.phase /\ request'.consumed = request.consumed
BY ZenonT(30) DEF Update, Requests

(* The finalizer and the owner reference. *)
LEMMA ClaimKeeps == IInv /\ (Claim \/ Bind) => IInv'
<1> SUFFICES ASSUME IInv, Claim \/ Bind PROVE IInv'
  OBVIOUS
<1>1. PICK new \in Requests :
        /\ Update(new) /\ new.phase = request.phase /\ new.consumed = request.consumed
        /\ at \in {"claim", "bind"} /\ at' = "decide" /\ obj' = request'
        /\ UNCHANGED <<job, netpol, seen, seenJob, runner, world, changes, history>>
  <2>1. request \in Requests
    BY DEF IInv, TypeOK
  <2>2. CASE Claim
    <3>1. [request EXCEPT !.finalizer = TRUE] \in Requests
      BY <2>1 DEF Requests
    <3> QED  BY <2>1, <2>2, <3>1 DEF Claim, GoTo, Requests
  <2>3. CASE Bind
    <3>1. [request EXCEPT !.owned = TRUE] \in Requests
      BY <2>1 DEF Requests
    <3> QED  BY <2>1, <2>3, <3>1 DEF Bind, GoTo, Requests
  <2> QED  BY <2>2, <2>3
<1>2. /\ request' \in Requests
      /\ request'.phase = request.phase /\ request'.consumed = request.consumed
  BY <1>1, UpdateIs, ZenonT(30)
<1>3. TypeOK'
  BY <1>1, <1>2 DEF IInv, TypeOK, Steps
<1> QED
  BY <1>1, <1>2, <1>3 DEF IInv, RunnersReport, Outcomes, Justified, Withdrawn,
     ConsumedFirst, RunnerIsTracked, CopyIsCurrent, NoReplayFromCurrentReads

(* removeFinalizer *)
LEMMA UnclaimKeeps == IInv /\ Unclaim => IInv'
<1> SUFFICES ASSUME IInv, Unclaim PROVE IInv'
  OBVIOUS
<1>1. PICK new \in Requests :
        /\ Update(new) /\ new.phase = request.phase /\ new.consumed = request.consumed
        /\ at = "unclaim" /\ at' = "idle" /\ obj' = NoRequest
        /\ UNCHANGED <<job, netpol, seen, seenJob, runner, world, changes, history>>
  <2>1. request \in Requests
    BY DEF IInv, TypeOK
  <2>2. [request EXCEPT !.finalizer = FALSE] \in Requests
    BY <2>1 DEF Requests
  <2> QED  BY <2>1, <2>2 DEF Unclaim, GoTo, Requests
<1>2. /\ request' \in Requests
      /\ request'.phase = request.phase /\ request'.consumed = request.consumed
  BY <1>1, UpdateIs, ZenonT(30)
<1>3. TypeOK'
  BY <1>1, <1>2, NoRequestIs DEF IInv, TypeOK, Steps
<1> QED
  BY <1>1, <1>2, <1>3 DEF IInv, RunnersReport, Outcomes, Justified, Withdrawn,
     ConsumedFirst, RunnerIsTracked, CopyIsCurrent, NoReplayFromCurrentReads

(* The policy is written, and the Job looked up. *)
LEMMA PoliceKeeps == IInv /\ Police => IInv'
<1> SUFFICES ASSUME IInv, Police PROVE IInv'
  OBVIOUS
<1>1. /\ at = "police" /\ at' \in {"observe", "consume", "adopt"} /\ netpol' = TRUE
      /\ at' = "consume" => ~obj.consumed
      /\ UNCHANGED <<request, job, seen, seenJob, obj, runner, world, changes, history>>
  BY DEF Police
<1>2. TypeOK'
  BY <1>1 DEF IInv, TypeOK, Steps
<1> QED
  BY <1>1, <1>2 DEF IInv, RunnersReport, Outcomes, Justified, Withdrawn,
     ConsumedFirst, RunnerIsTracked, CopyIsCurrent, NoReplayFromCurrentReads

(* consumeTicket: a ticket that was not consumed has had no Runner.         *)
LEMMA ConsumeKeeps == IInv /\ Consume => IInv'
<1> SUFFICES ASSUME IInv, Consume PROVE IInv'
  OBVIOUS
<1>1. /\ at \in {"consume", "adopt"} /\ request.exists
      /\ request' = [request EXCEPT !.phase = "TicketConsumed", !.consumed = TRUE]
      /\ \/ at = "consume" /\ at' = "create" /\ obj' = request'
         \/ at = "adopt" /\ at' = "idle" /\ obj' = NoRequest
      /\ UNCHANGED <<job, netpol, seen, seenJob, runner, world, changes, history>>
  BY DEF Consume, GoTo, Consumed
<1>2. /\ request' \in Requests /\ request'.exists /\ request'.consumed
      /\ request'.phase = "TicketConsumed" /\ "TicketConsumed" \notin Terminal
  BY <1>1 DEF IInv, TypeOK, Requests, Pending, Terminal
<1>3. TypeOK'
  BY <1>1, <1>2, NoRequestIs DEF IInv, TypeOK, Steps
<1>4. CopyIsCurrent'
  <2>1. ASSUME ~behind, at = "consume" PROVE runners = 0
    BY <1>1, <2>1 DEF IInv, CopyIsCurrent, RunnerIsTracked, TypeOK, Requests
  <2> QED  BY <1>1, <1>2, <2>1, ZenonT(30) DEF CopyIsCurrent
<1> QED
  BY <1>1, <1>2, <1>3, <1>4, ZenonT(30) DEF IInv, RunnersReport, Outcomes, Justified, Withdrawn,
     ConsumedFirst, RunnerIsTracked, NoReplayFromCurrentReads

(* The Job: only a consumed ticket gets here, and from current reads it is  *)
(* the first.                                                               *)
LEMMA CreateJobKeeps == IInv /\ CreateJob => IInv'
<1> SUFFICES ASSUME IInv, CreateJob PROVE IInv'
  OBVIOUS
<1>1. /\ at = "create" /\ at' \in {"idle", "kill"} /\ (at' # "idle" => obj' = obj)
      /\ obj' \in {obj, NoRequest}
      /\ UNCHANGED <<request, netpol, seen, seenJob, message, issues, world, changes, behind>>
  BY DEF CreateJob, GoTo
<1>2. CASE UNCHANGED <<job, pod, runners>>
  <2>1. TypeOK'
    BY <1>1, <1>2, NoRequestIs DEF IInv, TypeOK, Steps
  <2> QED
    BY <1>1, <1>2, <2>1 DEF IInv, RunnersReport, Outcomes, Justified, Withdrawn,
       ConsumedFirst, RunnerIsTracked, CopyIsCurrent, NoReplayFromCurrentReads
<1>3. CASE /\ runners < MaxRunners /\ job' = "active" /\ runners' = runners + 1
           /\ pod' = [pod EXCEPT ![runners + 1] = "pending"]
  <2>1. runners \in Nat /\ runners' \in 0..MaxRunners /\ runners' \in Runners
    BY <1>3, CredentialAssumption DEF IInv, TypeOK, Runners
  <2>2. 1..runners \subseteq 1..runners' /\ runners' \in 1..runners'
    BY <1>3, <2>1
  <2>3. /\ pod' \in [Runners -> {"none", "pending", "running", "posted", "ended"}]
        /\ \A r \in Runners : pod'[r] = IF r = runners' THEN "pending" ELSE pod[r]
    BY <1>3, <2>1 DEF IInv, TypeOK
  <2>4. message[runners'] = "none"
    <3>1. runners' \notin 1..runners
      BY <1>3, <2>1
    <3> QED  BY <2>1, <3>1 DEF IInv, RunnersReport
  <2>5. TypeOK'
    BY <1>1, <1>3, <2>1, <2>2, <2>3, NoRequestIs DEF IInv, TypeOK, Steps, Jobs
  <2>6. RunnersReport'
    BY <1>1, <2>2, <2>3, <2>4 DEF IInv, RunnersReport
  <2>7. Outcomes'
    <3>1. request.phase = "Denied" => behind
      BY <1>1 DEF IInv, CopyIsCurrent, Terminal
    <3> QED  BY <1>1, <2>2, <3>1 DEF IInv, Outcomes, Justified
  <2>8. CopyIsCurrent' /\ NoReplayFromCurrentReads'
    BY <1>1, <1>3 DEF IInv, CopyIsCurrent, NoReplayFromCurrentReads
  <2> QED
    BY <1>1, <2>5, <2>6, <2>7, <2>8 DEF IInv, ConsumedFirst, RunnerIsTracked
<1> QED  BY <1>2, <1>3 DEF CreateJob

(* The Job is deleted before the outcome is written. *)
LEMMA DeleteJobKeeps == IInv /\ DeleteJob => IInv'
<1> SUFFICES ASSUME IInv, DeleteJob PROVE IInv'
  OBVIOUS
<1>1. /\ at \in {"kill", "revoke"} /\ at' \in {"UnknownOutcome", "revoked"} /\ job' = "none"
      /\ UNCHANGED <<request, netpol, seen, seenJob, obj, runner, world, changes, history>>
  BY DEF DeleteJob
<1>2. TypeOK'
  BY <1>1 DEF IInv, TypeOK, Steps, Terminal, Jobs
<1> QED
  BY <1>1, <1>2 DEF IInv, RunnersReport, Outcomes, Justified, Withdrawn,
     ConsumedFirst, RunnerIsTracked, CopyIsCurrent, NoReplayFromCurrentReads

(* setStatus: the phase that was decided, or the one already there. *)
LEMMA WriteStatusKeeps == IInv /\ WriteStatus => IInv'
<1> SUFFICES ASSUME IInv, WriteStatus PROVE IInv'
  OBVIOUS
<1>1. PICK phase \in Terminal \cup {"Pending", "PendingApproval", "Running"} :
        /\ PatchPhase(phase) /\ (phase = at \/ phase = "UnknownOutcome")
        /\ \/ at' = "idle" /\ obj' = NoRequest
           \/ at' = "cleanup" /\ obj' = request'
        /\ UNCHANGED <<job, netpol, seen, seenJob, runner, world, changes, history>>
  BY DEF WriteStatus, GoTo, Terminal
<1>2. /\ request' \in Requests /\ request'.exists /\ request.exists
      /\ request'.consumed = request.consumed /\ request'.phase \in {request.phase, phase}
  BY <1>1 DEF PatchPhase, IInv, TypeOK, Requests, Pending
<1>3. TypeOK'
  BY <1>1, <1>2, NoRequestIs DEF IInv, TypeOK, Steps
<1>4. Outcomes'
  BY <1>1, <1>2 DEF IInv, Outcomes, Justified, Withdrawn
<1> QED
  BY <1>1, <1>2, <1>3, <1>4 DEF IInv, RunnersReport,
     ConsumedFirst, RunnerIsTracked, CopyIsCurrent, NoReplayFromCurrentReads

(* The policy is removed. *)
LEMMA CleanupKeeps == IInv /\ Cleanup => IInv'
<1> SUFFICES ASSUME IInv, Cleanup PROVE IInv'
  OBVIOUS
<1>1. /\ at' \in {"unclaim", "idle"} /\ obj' \in {obj, NoRequest} /\ (at' # "idle" => obj' = obj)
      /\ at = "cleanup" /\ netpol' = FALSE
      /\ UNCHANGED <<request, job, seen, seenJob, runner, world, changes, history>>
  BY DEF Cleanup, GoTo
<1>2. TypeOK'
  BY <1>1, NoRequestIs, ZenonT(30) DEF IInv, TypeOK, Steps
<1> QED
  BY <1>1, <1>2 DEF IInv, RunnersReport, Outcomes, Justified, Withdrawn,
     ConsumedFirst, RunnerIsTracked, CopyIsCurrent, NoReplayFromCurrentReads
-----------------------------------------------------------------------------
(* Everything else *)

(* Steps that change only the copies, the Job or the policy. *)
LEMMA CopiesKeep ==
  ASSUME IInv, UNCHANGED <<request, operator, runner, world, changes, history>>,
         seen' \in Requests, job' \in Jobs, seenJob' \in Jobs, netpol' \in BOOLEAN
  PROVE  IInv'
<1>1. TypeOK'
  BY DEF IInv, TypeOK
<1> QED
  BY <1>1 DEF IInv, RunnersReport, Outcomes, Justified, Withdrawn,
     ConsumedFirst, RunnerIsTracked, CopyIsCurrent, NoReplayFromCurrentReads

LEMMA ClusterKeeps == IInv /\ (Sync \/ JobExpires \/ GarbageCollect) => IInv'
<1> SUFFICES ASSUME IInv, Sync \/ JobExpires \/ GarbageCollect PROVE IInv'
  OBVIOUS
<1>1. /\ seen' \in {seen, request} /\ seenJob' \in {seenJob, job} /\ job' \in {job, "none"}
      /\ netpol' = netpol \/ netpol' = FALSE
      /\ UNCHANGED <<request, operator, runner, world, changes, history>>
  BY DEF Sync, JobExpires, GarbageCollect
<1>2. /\ seen' \in Requests /\ job' \in Jobs /\ seenJob' \in Jobs /\ netpol' \in BOOLEAN
  BY <1>1, ZenonT(30) DEF IInv, TypeOK, Jobs
<1> QED  BY <1>1, <1>2, CopiesKeep

(* What a Runner does: it posts before it reports, and reports once. *)
LEMMA RunnerKeeps ==
  ASSUME IInv, NEW r \in Runners,
         PodStarts(r) \/ PostIssue(r) \/ RunnerWrites(r) \/ RunnerDies(r)
  PROVE  IInv'
<1>1. /\ UNCHANGED <<request, netpol, seen, seenJob, operator, world, changes, history>>
      /\ pod[r] \in {"pending", "running", "posted"} /\ issues \subseteq issues'
      /\ \E p \in {"running", "posted", "ended"} : pod' = [pod EXCEPT ![r] = p]
      /\ \/ message' = message
         \/ /\ \E m \in {"result", "error"} : message' = [message EXCEPT ![r] = m]
            /\ pod' = [pod EXCEPT ![r] = "ended"]
  BY DEF PodStarts, PostIssue, RunnerWrites, RunnerDies, CreateIssueReturns
<1>2. r \in 1..runners /\ message[r] = "none"
  BY <1>1 DEF IInv, RunnersReport, TypeOK
<1>3. issues' \subseteq 1..runners
  BY <1>2, ZenonT(30) DEF IInv, TypeOK, PodStarts, PostIssue, RunnerWrites, RunnerDies
<1>4. job' \in Jobs
  BY DEF IInv, TypeOK, Jobs, PodStarts, PostIssue, RunnerWrites, RunnerDies, JobFollows
<1>5. /\ pod' \in [Runners -> {"none", "pending", "running", "posted", "ended"}]
      /\ message' \in [Runners -> {"none", "result", "error"}]
      /\ \A q \in Runners : q # r => pod'[q] = pod[q] /\ message'[q] = message[q]
  BY <1>1 DEF IInv, TypeOK
<1>6. TypeOK'
  BY <1>1, <1>3, <1>4, <1>5 DEF IInv, TypeOK
<1>7. RunnersReport'
  <2>1. /\ pod'[r] = "posted" => r \in issues'
        /\ message'[r] = "result" => r \in issues'
        /\ message'[r] # "none" => pod'[r] = "ended"
    BY <1>2 DEF IInv, TypeOK, RunnersReport, PodStarts, PostIssue, RunnerWrites,
       RunnerDies, CreateIssueReturns
  <2> QED  BY <1>1, <1>2, <1>5, <2>1 DEF IInv, RunnersReport
<1>8. Outcomes'
  <2>1. issues # {} => issues' # {}
    BY <1>1
  <2>2. \A q \in 1..runners : message[q] = "error" => message'[q] = "error"
    BY <1>2, <1>5, CreatedAreRunners
  <2> QED  BY <1>1, <2>1, <2>2 DEF IInv, Outcomes, Justified, Withdrawn
<1> QED
  BY <1>1, <1>6, <1>7, <1>8 DEF IInv, ConsumedFirst, RunnerIsTracked,
     CopyIsCurrent, NoReplayFromCurrentReads

(* Administrators and the clock: what was withdrawn stays so. *)
LEMMA WorldKeeps == IInv /\ (Approve \/ Administrate \/ Expire) => IInv'
<1> SUFFICES ASSUME IInv, Approve \/ Administrate \/ Expire PROVE IInv'
  OBVIOUS
<1>1. UNCHANGED <<cluster, seen, seenJob, operator, runner, history>>
  BY DEF Approve, Administrate, Expire
<1>2. world' \in Worlds /\ (Withdrawn => Withdrawn')
  <2>1. world \in Worlds
    BY DEF IInv, TypeOK
  <2>2. CASE Approve
    BY <2>1, <2>2 DEF Approve, Worlds, Withdrawn
  <2>3. CASE Administrate
    BY <2>1, <2>3 DEF Administrate, Worlds, Withdrawn
  <2>4. CASE Expire
    BY <2>1, <2>4 DEF Expire, Worlds, Withdrawn
  <2> QED  BY <2>2, <2>3, <2>4
<1>3. changes' \in 0..MaxChanges
  BY CredentialAssumption DEF IInv, TypeOK, Approve, Administrate, Expire
<1>4. TypeOK'
  BY <1>1, <1>2, <1>3 DEF IInv, TypeOK
<1>5. Outcomes'
  BY <1>1, <1>2 DEF IInv, Outcomes, Justified
<1> QED
  BY <1>1, <1>4, <1>5 DEF IInv, RunnersReport,
     ConsumedFirst, RunnerIsTracked, CopyIsCurrent, NoReplayFromCurrentReads

(* The consumer deletes the request. *)
LEMMA DeleteRequestKeeps == IInv /\ DeleteRequest => IInv'
<1> SUFFICES ASSUME IInv, DeleteRequest PROVE IInv'
  OBVIOUS
<1>1. UNCHANGED <<job, netpol, seen, seenJob, operator, runner, world, changes, history>>
  BY DEF DeleteRequest
<1>2. /\ request' \in Requests /\ request'.phase = request.phase /\ request.exists
      /\ request'.consumed = request.consumed
  BY ZenonT(30) DEF DeleteRequest, IInv, TypeOK, Requests
<1>3. TypeOK'
  BY <1>1, <1>2 DEF IInv, TypeOK
<1> QED
  BY <1>1, <1>2, <1>3 DEF IInv, RunnersReport, Outcomes, Justified, Withdrawn,
     ConsumedFirst, RunnerIsTracked, CopyIsCurrent, NoReplayFromCurrentReads
-----------------------------------------------------------------------------
(* Results *)

LEMMA NextKeeps == IInv /\ [Next]_vars => IInv'
<1> SUFFICES ASSUME IInv, [Next]_vars PROVE IInv'
  OBVIOUS
<1>1. CASE Reconcile
  BY <1>1, BeginKeeps, DecideKeeps, ObserveKeeps, ClaimKeeps, PoliceKeeps, ConsumeKeeps,
     CreateJobKeeps, DeleteJobKeeps, WriteStatusKeeps, CleanupKeeps, UnclaimKeeps,
     AbandonKeeps DEF Reconcile
<1>2. CASE Sync \/ JobExpires \/ GarbageCollect
  BY <1>2, ClusterKeeps
<1>3. CASE \E r \in Runners : PodStarts(r) \/ PostIssue(r) \/ RunnerWrites(r) \/ RunnerDies(r)
  BY <1>3, RunnerKeeps
<1>4. CASE Approve \/ Administrate \/ Expire \/ DeleteRequest
  BY <1>4, WorldKeeps, DeleteRequestKeeps
<1>5. CASE UNCHANGED vars
  <2>1. UNCHANGED <<request, job, netpol, seen, seenJob, operator, runner, world, changes, history>>
    BY <1>5 DEF vars
  <2> QED  BY <2>1, CopiesKeep DEF IInv, TypeOK
<1> QED  BY <1>1, <1>2, <1>3, <1>4, <1>5 DEF Next

(* The inductive invariant holds in every reachable state. *)
THEOREM Invariance == Spec => []IInv
BY InitEstablishes, NextKeeps, PTL DEF Spec

(* consumeTicket comes before Create and is never undone: whatever crashes, *)
(* fails or is read late, a request with a Runner has its ticket consumed.  *)
THEOREM RunnersAreTracked == Spec => []RunnerIsTracked
<1>1. IInv => RunnerIsTracked
  BY DEF IInv
<1> QED  BY <1>1, Invariance, PTL

(* setStatus writes Succeeded only for a Runner that reported a result, and *)
(* that Runner created an issue.                                            *)
THEOREM SuccessIsTrue == Spec => []SucceededIsTrue
<1>1. IInv => SucceededIsTrue
  BY DEF IInv, Outcomes, Justified, SucceededIsTrue
<1> QED  BY <1>1, Invariance, PTL

(* An issue that exists is reported Failed only if a Runner reported an     *)
(* error, and Denied only if the ticket was withdrawn or a reconcile began  *)
(* from an old copy: the checks that find a consumed ticket unusable write  *)
(* UnknownOutcome.                                                          *)
THEOREM LossesAreExplained == Spec => []LossIsExplained
<1>1. IInv => LossIsExplained
  <2>1. ASSUME IInv, NEW i \in issues PROVE runners # 0
    BY <2>1 DEF IInv, TypeOK
  <2> QED  BY <2>1, Zenon DEF IInv, Outcomes, Justified, LossIsExplained
<1> QED  BY <1>1, Invariance, PTL

(* As long as every reconcile begins from current reads, a ticket has one   *)
(* Runner.                                                                  *)
THEOREM OneRunner == Spec => []NoReplayFromCurrentReads
<1>1. IInv => NoReplayFromCurrentReads
  BY DEF IInv
<1> QED  BY <1>1, Invariance, PTL

(* As long as every reconcile begins from current reads, a terminal phase   *)
(* is never replaced: only consumeTicket and setStatus write the phase, and *)
(* neither is reached from a request that has an outcome.                   *)
THEOREM OutcomesAreFinal == Spec => OutcomeIsFinal
<1>1. IInv /\ [Next]_vars => [~behind /\ request.phase \in Terminal => request'.phase = request.phase]_vars
  <2> SUFFICES ASSUME IInv, Next, ~behind, request.phase \in Terminal
               PROVE  request'.phase = request.phase
    OBVIOUS
  <2>1. at \in {"idle", "cleanup", "unclaim"}
    BY DEF IInv, CopyIsCurrent
  <2>2. request' = request \/ DeleteRequest
        \/ Update([request EXCEPT !.finalizer = FALSE])
    BY <2>1, ZenonT(30) DEF Next, Reconcile, Begin, Decide, Observe, Claim, Police, Consume, CreateJob,
       DeleteJob, WriteStatus, Cleanup, Unclaim, Abandon, Sync, PodStarts, PostIssue,
       RunnerWrites, RunnerDies, JobExpires, GarbageCollect, Approve, Administrate, Expire,
       Terminal, Bind
  <2> QED  BY <2>2, ZenonT(30) DEF DeleteRequest, Update, IInv, TypeOK, Requests
<1> QED  BY <1>1, Invariance, PTL DEF Spec, OutcomeIsFinal
==============================================================================
