----------------------------- MODULE DesktopTools -----------------------------
(***************************************************************************)
(* The computer-use plugin's tools (extensions/personal-desktop-computer-  *)
(* use/index.ts) against the Desktop Gateway's handlers.                   *)
(*                                                                         *)
(* Every tool has a synchronous prologue, which may reserve, close or      *)
(* quarantine the plugin's local lease, and an operation that waits its    *)
(* turn in the serialized executor.  A running operation sends a request   *)
(* to the Gateway and waits; meanwhile other tools run their prologues,    *)
(* humans take and release control, and the request or its answer can be   *)
(* lost.  A request whose sender gave up can still reach the Gateway.      *)
(*                                                                         *)
(* The Gateway is the plugin's view of it: who holds input, the control    *)
(* generation, the power quarantine and the boot ID.  InputControl has the *)
(* registry behind it, AgentInput the life of one input request.  The      *)
(* status that an operation reads before it sends a request is read in the *)
(* step that sends it; what changes in between is what changes before the  *)
(* Gateway handles the request.                                            *)
(***************************************************************************)
EXTENDS Integers, Sequences, FiniteSets

CONSTANTS
    Sessions,       \* TypeClaw sessions
    MaxCalls,       \* tool calls, session ends and disposals
    MaxQueue,       \* operations in the executor at a time
    MaxEvents       \* handovers, expiries, restarts, lost requests

ASSUME BoundsAssumption == {MaxCalls, MaxQueue, MaxEvents} \subseteq Nat

VARIABLES
    local,      \* localControl: the lease the plugin holds, if any
    obs,        \* the frame that each session observed last, if any
    uncertain,  \* powerUncertain
    disposing,  \* the plugin is being disposed
    ended,      \* the sessions that ended
    ending,     \* those of them whose session.end hook awaits frame deletions
    queue,      \* the operations of the executor, the running one first
    at,         \* the request that the running operation waits for
    reply,      \* what became of that request
    answer,     \* the frame or the grant that the Gateway answers with, if any
    late,       \* requests whose sender gave up
    gw,         \* the Gateway: boot, generation, owner, blocked
    vmi,        \* the UID of the running VMI, 0 when there is none
    vmis,       \* how many VMIs there have been
    calls,      \* how many tools were called
    events,     \* how much of MaxEvents was used
    untracked,  \* history: an acquisition was given up
    spent       \* history: the frames that a batch was sent for

plugin == <<local, obs, uncertain, disposing, ended, ending>>
executor == <<queue, at, reply, answer>>
desktop == <<gw, vmi, vmis>>
history == <<untracked, spent>>
vars == <<plugin, executor, late, desktop, calls, events, history>>

Kinds == {"acquire", "observe", "act", "launch", "release", "recover", "stop", "start", "end",
          "dispose"}
Requests == {"acquire", "observe", "act", "launch", "release", "stop", "start"}
Leases ==
    [id: 1..(MaxCalls + 1), session: Sessions, closing: BOOLEAN, orphaned: BOOLEAN, dead: BOOLEAN,
     established: BOOLEAN, boot: Nat, gen: Nat]
Frames == [id: 0..MaxCalls, boot: Nat, vmi: Nat, gen: Nat, taken: Nat]

Init ==
    /\ local = {}
    /\ obs = [s \in Sessions |-> {}]
    /\ uncertain = FALSE
    /\ disposing = FALSE
    /\ ended = {}
    /\ ending = {}
    /\ queue = <<>>
    /\ at = "idle"
    /\ reply = "none"
    /\ answer = {}
    /\ late = {}
    /\ gw = [boot |-> 1, gen |-> 0, owner |-> "none", blocked |-> FALSE]
    /\ vmi = 1
    /\ vmis = 1
    /\ calls = 0
    /\ events = 0
    /\ untracked = FALSE
    /\ spent = {}

Event == events < MaxEvents /\ events' = events + 1

-----------------------------------------------------------------------------
(* The prologues.  A tool that throws in its prologue changes nothing.     *)

Held(id) == \E l \in local : l.id = id

FreshId == CHOOSE n \in 1..(MaxCalls + 1) :
               ~Held(n) /\ \A i \in DOMAIN queue : queue[i].lease # n

(* Mutant: any session passes for the owner.                               *)
OwnerMutant(s) == \E l \in local : ~l.closing

Owner(s) == \E l \in local : l.session = s /\ ~l.closing

Enqueue(kind, s, lease) ==
    /\ calls < MaxCalls
    /\ Len(queue) < MaxQueue
    /\ calls' = calls + 1
    /\ queue' = Append(queue, [id |-> calls', kind |-> kind, session |-> s, lease |-> lease,
                               frame |-> IF kind = "act" THEN obs[s] ELSE {}])
    /\ UNCHANGED <<at, reply, answer, late, desktop, events, history>>

Call(kind, s, lease) ==
    /\ s \notin ended
    /\ ~disposing
    /\ Enqueue(kind, s, lease)

Close(lease) == {[l EXCEPT !.closing = TRUE] : l \in lease}

(* reserveLocalControl *)
CallAcquire(s) ==
    /\ ~uncertain
    /\ local = {} \/ Owner(s)
    /\ local' = IF local # {} THEN local
                ELSE {[id |-> FreshId, session |-> s, closing |-> FALSE, orphaned |-> FALSE,
                       dead |-> FALSE, established |-> FALSE, boot |-> 0, gen |-> 0]}
    /\ \E l \in local' : Call("acquire", s, l.id)
    /\ UNCHANGED <<obs, uncertain, disposing, ended, ending>>

CallObserve(s) == Call("observe", s, 0) /\ UNCHANGED plugin

(* requireLocalControl, for the frame the model was shown last.            *)
CallInput(s) ==
    /\ ~uncertain
    /\ Owner(s)
    /\ \E l \in local, kind \in {"act", "launch"} : Call(kind, s, l.id)
    /\ UNCHANGED plugin

(* An orphaned lease is recovered by whoever asks; another one is closed   *)
(* by its own session.                                                     *)
CallRelease(s) ==
    /\ \E l \in local :
        \/ /\ l.orphaned
           /\ Call("recover", s, l.id)
           /\ UNCHANGED local
        \/ /\ Owner(s)
           /\ Call("release", s, l.id)
           /\ local' = Close(local)
    /\ UNCHANGED <<obs, uncertain, disposing, ended, ending>>

CallStop(s) ==
    /\ ~uncertain
    /\ \/ local = {} /\ Call("stop", s, 0)
       \/ Owner(s) /\ \E l \in local : Call("stop", s, l.id)
    /\ local' = Close(local)
    /\ UNCHANGED <<obs, uncertain, disposing, ended, ending>>

CallStart(s) ==
    /\ \/ local = {} /\ Call("start", s, 0)
       \/ Owner(s) /\ \E l \in local : Call("start", s, l.id)
    /\ UNCHANGED plugin

NoFrames == [s \in Sessions |-> {}]

(* session.end drops the observation of the session and awaits the deletion *)
(* of its frame files ...                                                   *)
SessionEnd(s) ==
    /\ s \notin ended
    /\ calls < MaxCalls
    /\ ended' = ended \cup {s}
    /\ ending' = ending \cup {s}
    /\ obs' = [obs EXCEPT ![s] = {}]
    /\ UNCHANGED <<local, uncertain, disposing, executor, late, desktop, calls, events, history>>

(* ... then quarantines the lease that the session holds by now, if any, and *)
(* releases it.                                                             *)
ReleaseEnded(s) ==
    /\ s \in ending
    /\ ending' = ending \ {s}
    /\ \/ /\ \E l \in local : l.session = s /\ Enqueue("end", s, l.id)
          /\ local' = {[l EXCEPT !.closing = TRUE, !.orphaned = TRUE, !.dead = TRUE] : l \in local}
          /\ obs' = NoFrames
       \/ /\ ~\E l \in local : l.session = s
          /\ UNCHANGED <<local, obs, executor, late, desktop, calls, events, history>>
    /\ UNCHANGED <<uncertain, disposing, ended>>

(* onDispose lets the executor drain before it releases.                   *)
Dispose ==
    /\ disposing' = TRUE
    /\ local' = {[l EXCEPT !.closing = TRUE, !.dead = TRUE] : l \in local}
    /\ \E s \in Sessions : Call("dispose", s, 0)
    /\ UNCHANGED <<obs, uncertain, ended, ending>>

-----------------------------------------------------------------------------
(* The executor.                                                           *)

op == Head(queue)

Mine == {l \in local : l.id = op.lease}

(* The running operation returns; the next one may begin.                  *)
Return ==
    /\ queue' = Tail(queue)
    /\ at' = "idle"
    /\ reply' = "none"
    /\ answer' = {}

Send(request) ==
    /\ at' = request
    /\ reply' = "pending"
    /\ UNCHANGED <<queue, answer>>

(* assertCurrentLease, and the abort signals of the lease.                 *)
Current ==
    CASE op.kind \in {"observe", "dispose"} -> TRUE
      [] op.kind \in {"recover", "end"} -> \E l \in Mine : l.orphaned
      [] op.kind \in {"stop", "start"} /\ op.lease = 0 ->
            at # "idle" \/ (local = {} /\ ~disposing)
      [] op.kind \in {"stop", "release"} /\ op.lease # 0 ->
            \E l \in Mine : l.closing /\ ~l.dead /\ ~l.orphaned
      [] OTHER -> \E l \in Mine : ~l.closing /\ ~l.dead

Quarantine(lease) == {[l EXCEPT !.closing = TRUE, !.orphaned = TRUE] : l \in lease}

(* Mutant: a failed release forgets the lease.                             *)
RenewedMutant == local \ Mine

(* renewLocalControlAfterFailedClose *)
Renewed ==
    IF disposing \/ \E l \in Mine : l.dead THEN local
    ELSE (local \ Mine)
         \cup {[l EXCEPT !.id = FreshId, !.closing = FALSE, !.orphaned = FALSE] : l \in Mine}

(* What a failed operation leaves of the local lease.                      *)
AfterFailure ==
    CASE op.kind = "acquire" -> {l \in local : l.id # op.lease \/ l.closing}
      [] op.kind = "release" -> Renewed
      [] op.kind = "stop" /\ at # "stop" -> Renewed
      [] op.kind = "stop" /\ at = "stop" -> local \ Mine
      [] op.kind = "dispose" -> {}
      [] OTHER -> local

Throw ==
    /\ local' = AfterFailure
    /\ Return

(* Mutant: the VMI UID is not compared.                                    *)
observationIsFreshMutant(frame) ==
    \E f \in frame :
        /\ frame = obs[op.session]
        /\ f.boot = gw.boot
        /\ f.gen = gw.gen

observationIsFresh(frame) ==
    \E f \in frame :
        /\ frame = obs[op.session]
        /\ f.boot = gw.boot
        /\ vmi # 0 /\ f.vmi = vmi
        /\ f.gen = gw.gen

(* ensureControl on the status it reads.                                   *)
BeginAcquire ==
    LET established == \E l \in Mine : l.established
        match == \E l \in Mine : l.boot = gw.boot /\ l.gen = gw.gen
    IN
    \/ /\ uncertain \/ gw.blocked \/ gw.owner = "human"
       /\ Throw
       /\ untracked' = (untracked \/ established)
       /\ UNCHANGED obs
    \/ /\ ~uncertain /\ ~gw.blocked /\ gw.owner = "agent"
       /\ ~established \/ ~match
       /\ local' = Quarantine(local)
       /\ obs' = NoFrames
       /\ Return
       /\ UNCHANGED untracked
    \/ /\ ~uncertain /\ ~gw.blocked /\ gw.owner = "agent"
       /\ established /\ match
       /\ obs' = NoFrames
       /\ Return
       /\ UNCHANGED <<local, untracked>>
    \/ /\ ~uncertain /\ ~gw.blocked /\ gw.owner = "none"
       /\ obs' = NoFrames
       /\ Send("acquire")
       /\ UNCHANGED <<local, untracked>>

(* requireExistingControl *)
ControlExists == ~uncertain /\ ~gw.blocked /\ gw.owner = "agent"

BeginInput ==
    \/ /\ ~ControlExists
       /\ Throw
       /\ UNCHANGED obs
    \/ /\ ControlExists
       /\ op.kind = "act" /\ ~observationIsFresh(op.frame)
       /\ obs' = NoFrames
       /\ Throw
    \/ /\ ControlExists
       /\ op.kind = "launch" \/ observationIsFresh(op.frame)
       /\ Send(op.kind)
       /\ UNCHANGED <<local, obs>>

Begin ==
    /\ queue # <<>>
    /\ at = "idle"
    /\ Current
    /\ \/ op.kind = "acquire" /\ BeginAcquire
       \/ op.kind \in {"act", "launch"} /\ BeginInput /\ UNCHANGED untracked
       \/ op.kind = "stop" /\ uncertain /\ Throw /\ UNCHANGED <<obs, untracked>>
       \/ op.kind \in {"observe", "start"} /\ Send(op.kind) /\ UNCHANGED <<local, obs, untracked>>
       \/ /\ op.kind \in {"release", "recover", "end", "dispose", "stop"}
          /\ op.kind = "stop" => ~uncertain
          /\ Send("release")
          /\ obs' = IF op.kind = "dispose" THEN NoFrames ELSE obs
          /\ UNCHANGED <<local, untracked>>
    /\ spent' = spent \cup {f.id : f \in IF at' = "act" THEN op.frame ELSE {}}
    /\ UNCHANGED <<uncertain, disposing, ended, ending, late, desktop, calls, events>>

(* A lost power request leaves the plugin uncertain.                       *)
UncertainAfterLoss == uncertain \/ at \in {"stop", "start"}

(* The request on the wire, and its answer, when the operation gives up.   *)
LeaveBehind ==
    IF reply = "pending" /\ at # "observe" THEN late' \in {late, late \cup {at}}
    ELSE UNCHANGED late

(* invalidateAllObservations, after a request that may have had an effect. *)
ForgetFrames ==
    CASE at \in {"act", "launch", "acquire", "stop", "start"} -> obs' = NoFrames
      [] at = "release" /\ op.kind \in {"release", "recover"} /\ reply = "ok" ->
            obs' \in {obs, NoFrames}
      [] OTHER -> UNCHANGED obs

(* The lease was closed, quarantined or disposed of under the operation.   *)
Abort ==
    /\ queue # <<>>
    /\ ~Current
    /\ Throw
    /\ ForgetFrames
    /\ uncertain' = UncertainAfterLoss
    /\ LeaveBehind
    /\ untracked' = (untracked \/ at = "acquire")
    /\ UNCHANGED <<disposing, ended, ending, desktop, calls, events, spent>>

(* The status request, the request or its answer is lost, or times out.    *)
Lose ==
    /\ IF reply = "lost" THEN UNCHANGED events ELSE Event
    /\ queue # <<>>
    /\ Current
    /\ at # "idle" \/ op.kind \in {"acquire", "act", "launch"}
    /\ Throw
    /\ ForgetFrames
    /\ uncertain' = UncertainAfterLoss
    /\ LeaveBehind
    /\ untracked' = (\/ untracked
                     \/ at = "acquire"
                     \/ op.kind = "dispose"
                     \/ op.kind = "acquire" /\ \E l \in Mine : l.established)
    /\ UNCHANGED <<disposing, ended, ending, desktop, calls, spent>>

(* The Gateway answered.                                                   *)
Granted(l, a) == [l EXCEPT !.established = TRUE, !.boot = a.boot, !.gen = a.gen]

Established == {IF l.id = op.lease THEN Granted(l, a) ELSE l : l \in local, a \in answer}

(* ensureControl also cleans up after an UnknownOutcome body; the Gateway   *)
(* answers an acquisition with a grant, a 409 or a 503 and never with one.  *)
HearAcquire ==
    /\ local' = IF reply = "ok" THEN Established ELSE AfterFailure
    /\ obs' = NoFrames
    /\ Return
    /\ UNCHANGED uncertain

HearObserve ==
    /\ obs' = IF reply = "ok" THEN [obs EXCEPT ![op.session] = answer] ELSE obs
    /\ Return
    /\ UNCHANGED <<local, uncertain>>

(* Mutant: the frame stays valid after the batch.                          *)
HearInputMutant ==
    /\ Return
    /\ UNCHANGED <<local, obs, uncertain>>

HearInput ==
    /\ obs' = NoFrames
    /\ Return
    /\ UNCHANGED <<local, uncertain>>

(* waitForAgentRelease, or waitForControlRelease before a stop.            *)
Released ==
    /\ gw.owner # "agent"
    /\ op.kind = "stop" => gw.owner = "none"

(* Mutant: the wait for the release has no deadline.                       *)
HearReleaseMutant ==
    \/ /\ reply = "ok" /\ Released /\ op.kind # "stop"
       /\ local' = IF op.kind = "dispose" THEN {} ELSE local \ Mine
       /\ obs' = NoFrames
       /\ Return
    \/ /\ reply = "ok" /\ Released /\ op.kind = "stop"
       /\ Send("stop")
       /\ UNCHANGED <<local, obs>>
    \/ /\ reply = "refused"
       /\ UNCHANGED obs
       /\ Throw

HearRelease ==
    \/ /\ reply = "ok" /\ Released /\ op.kind # "stop"
       /\ local' = IF op.kind = "dispose" THEN {} ELSE local \ Mine
       /\ obs' = IF op.kind = "end" THEN obs ELSE NoFrames
       /\ Return
    \/ /\ reply = "ok" /\ Released /\ op.kind = "stop"
       /\ Send("stop")
       /\ UNCHANGED <<local, obs>>
    \/ /\ reply = "refused" \/ ~Released
       /\ obs' = IF reply = "ok" /\ op.kind \in {"release", "recover"} THEN NoFrames ELSE obs
       /\ Throw

HearPower ==
    /\ local' = local \ (IF op.kind = "stop" THEN Mine ELSE {})
    /\ obs' = NoFrames
    /\ uncertain' = CASE reply = "unknown" -> TRUE
                      [] reply = "ok" /\ at = "start" -> FALSE
                      [] OTHER -> uncertain
    /\ Return

Hear ==
    /\ queue # <<>>
    /\ Current
    /\ reply \in {"ok", "refused", "unknown"}
    /\ \/ at = "acquire" /\ HearAcquire
       \/ at = "observe" /\ HearObserve
       \/ at \in {"act", "launch"} /\ HearInput
       \/ at = "release" /\ HearRelease /\ UNCHANGED uncertain
       \/ at \in {"stop", "start"} /\ HearPower
    /\ UNCHANGED <<disposing, ended, ending, late, desktop, calls, events, history>>

-----------------------------------------------------------------------------
(* The Gateway.                                                            *)

acquireAgent(outcome) ==
    \/ /\ outcome = "refused"
       /\ gw.blocked \/ gw.owner # "none"
       /\ UNCHANGED desktop
    \/ /\ outcome = "ok"
       /\ ~gw.blocked /\ gw.owner = "none"
       /\ gw' = [gw EXCEPT !.owner = "agent", !.gen = @ + 1]
       /\ UNCHANGED <<vmi, vmis>>

handleControlRelease(outcome) ==
    \/ /\ outcome = "refused"
       /\ gw.owner = "human"
       /\ UNCHANGED desktop
    \/ /\ outcome = "ok"
       /\ gw.owner # "human"
       /\ gw' = [gw EXCEPT !.owner = "none"]
       /\ UNCHANGED <<vmi, vmis>>

handleAgentAction(outcome) ==
    /\ outcome = IF gw.owner = "agent" THEN "ok" ELSE "refused"
    /\ UNCHANGED desktop

(* The VM after a power action that ran.                                   *)
Powered(action) ==
    IF action = "stop" THEN vmi' = 0 /\ UNCHANGED vmis
    ELSE IF vmi # 0 THEN UNCHANGED <<vmi, vmis>>
    ELSE vmi' = vmis + 1 /\ vmis' = vmis + 1

(* A rejection proves that the action did not run; an unknown outcome      *)
(* leaves open whether it did.                                             *)
dispatchPower(action, outcome) ==
    \/ outcome \in {"ok", "unknown"} /\ Powered(action)
    \/ outcome \in {"refused", "unknown"} /\ UNCHANGED <<vmi, vmis>>

(* beginPower, the dispatch and finishPower.                               *)
handlePower(action, outcome) ==
    LET admitted == gw.owner = "none" /\ (gw.blocked => action = "start") IN
    \/ /\ ~admitted
       /\ outcome = "refused"
       /\ UNCHANGED desktop
    \/ /\ admitted
       /\ dispatchPower(action, outcome)
       /\ gw' = CASE outcome = "refused" -> gw
                   [] outcome = "ok" -> [gw EXCEPT !.blocked = (action = "stop")]
                   [] outcome = "unknown" -> [gw EXCEPT !.blocked = TRUE]

Handle(request, outcome) ==
    \/ request = "acquire" /\ acquireAgent(outcome)
    \/ request = "release" /\ handleControlRelease(outcome)
    \/ request \in {"act", "launch"} /\ handleAgentAction(outcome)
    \/ request \in {"stop", "start"} /\ handlePower(request, outcome)

Process ==
    /\ reply = "pending"
    /\ \E outcome \in {"ok", "refused", "unknown"} :
        /\ Handle(at, outcome)
        /\ reply' = outcome
    /\ answer' = IF at = "acquire" /\ reply' = "ok"
                 THEN {[id |-> op.id, boot |-> gw.boot, vmi |-> vmi, gen |-> gw'.gen, taken |-> gw'.gen]}
                 ELSE {}
    /\ UNCHANGED <<plugin, queue, at, late, calls, events, history>>

ProcessLate ==
    /\ \E request \in late, outcome \in {"ok", "refused", "unknown"} :
        /\ Handle(request, outcome)
        /\ late' = late \ {request}
    /\ UNCHANGED <<plugin, executor, calls, events, history>>

(* handleAgentScreenshot reads the VMI and captures the frame;             *)
(* writeScreenshotResponse reads the generation when it answers.           *)
Capture ==
    /\ at = "observe" /\ reply = "pending" /\ answer = {}
    /\ \/ /\ vmi = 0
          /\ reply' = "refused"
          /\ UNCHANGED answer
       \/ /\ vmi # 0
          /\ answer' = {[id |-> op.id, boot |-> gw.boot, vmi |-> vmi, gen |-> 0, taken |-> gw.gen]}
          /\ UNCHANGED reply
    /\ UNCHANGED <<plugin, queue, at, late, desktop, calls, events, history>>

writeScreenshotResponse ==
    /\ at = "observe" /\ reply = "pending" /\ answer # {}
    /\ answer' = {[a EXCEPT !.gen = gw.gen] : a \in answer}
    /\ reply' = "ok"
    /\ UNCHANGED <<plugin, queue, at, late, desktop, calls, events, history>>

(* Humans, the lease's TTL, the Gateway's Pod and the cluster.             *)
HumanAcquire ==
    /\ Event
    /\ ~gw.blocked /\ gw.owner # "human"
    /\ gw' = [gw EXCEPT !.owner = "human", !.gen = @ + 1]
    /\ UNCHANGED <<plugin, executor, late, vmi, vmis, calls, history>>

HumanRelease ==
    /\ gw.owner = "human"
    /\ gw' = [gw EXCEPT !.owner = "none"]
    /\ UNCHANGED <<plugin, executor, late, vmi, vmis, calls, events, history>>

HumanPower ==
    /\ Event
    /\ \E action \in {"stop", "start"} : handlePower(action, "ok")
    /\ UNCHANGED <<plugin, executor, late, calls, history>>

Expire ==
    /\ Event
    /\ gw.owner = "agent"
    /\ gw' = [gw EXCEPT !.owner = "none"]
    /\ UNCHANGED <<plugin, executor, late, vmi, vmis, calls, history>>

RestartGateway ==
    /\ Event
    /\ gw' = [boot |-> gw.boot + 1, gen |-> 0, owner |-> "none", blocked |-> FALSE]
    /\ reply' = IF reply = "pending" THEN "lost" ELSE reply
    /\ UNCHANGED <<plugin, queue, at, answer, late, vmi, vmis, calls, history>>

(* The VMI is replaced without the Gateway.                                *)
ReplaceVM ==
    /\ Event
    /\ vmi # 0
    /\ vmi' = vmis + 1
    /\ vmis' = vmis + 1
    /\ UNCHANGED <<plugin, executor, late, gw, calls, history>>

-----------------------------------------------------------------------------
Prologue ==
    \/ Dispose
    \/ \E s \in Sessions :
        \/ CallAcquire(s)
        \/ CallObserve(s)
        \/ CallInput(s)
        \/ CallRelease(s)
        \/ CallStop(s)
        \/ CallStart(s)
        \/ SessionEnd(s)
        \/ ReleaseEnded(s)

Next ==
    \/ Prologue
    \/ Begin
    \/ Abort
    \/ Lose
    \/ Hear
    \/ Process
    \/ ProcessLate
    \/ Capture
    \/ writeScreenshotResponse
    \/ HumanAcquire
    \/ HumanRelease
    \/ HumanPower
    \/ Expire
    \/ RestartGateway
    \/ ReplaceVM

Spec == Init /\ [][Next]_vars

(* Every operation runs under a deadline, and the Gateway answers.         *)
Fairness ==
    /\ WF_vars(Begin)
    /\ WF_vars(Abort)
    /\ WF_vars(Hear)
    /\ WF_vars(Process)
    /\ WF_vars(Capture)
    /\ WF_vars(writeScreenshotResponse)
    /\ WF_vars(reply = "lost" /\ Lose)

FairSpec == Spec /\ Fairness

-----------------------------------------------------------------------------
(* Types; one local lease, one frame per session; a request is pending     *)
(* exactly while an operation waits for it.                                *)
TypeOK ==
    /\ local \subseteq Leases
    /\ Cardinality(local) <= 1
    /\ \A s \in Sessions : obs[s] \subseteq Frames /\ Cardinality(obs[s]) <= 1
    /\ at \in Requests \cup {"idle"}
    /\ reply \in {"none", "pending", "ok", "refused", "unknown", "lost"}
    /\ (at = "idle") = (reply = "none")
    /\ \A i \in DOMAIN queue : queue[i].kind \in Kinds
    /\ late \subseteq Requests
    /\ gw.owner \in {"none", "agent", "human"}
    /\ vmi \in 0..vmis
    /\ {uncertain, disposing, untracked, gw.blocked} \subseteq BOOLEAN

(* ensureControl and desktop_acquire account for every agent lease of the  *)
(* Gateway: it is the one the local lease was established with, or the     *)
(* grant that the running acquisition has yet to hear of, unless an        *)
(* acquisition was given up or dropped the lease of an earlier one.        *)
AgentLeaseIsTracked ==
    gw.owner = "agent" /\ ~untracked =>
        \/ \E l \in local : l.established /\ l.boot = gw.boot /\ l.gen = gw.gen
        \/ at = "acquire" /\ reply = "ok" /\ \E a \in answer : a.gen = gw.gen

(* A batch that desktop_act sends, and that the Gateway takes while the    *)
(* plugin waits, was chosen on a frame captured under the same lease of    *)
(* the same Gateway, on the VMI that runs when it is sent: nobody else had *)
(* input in between, unless an acquisition that was given up reached the   *)
(* Gateway while the frame was being captured.                             *)
InputIsFresh ==
    [][~untracked =>
        /\ at = "idle" /\ at' = "act" =>
            \E f \in op.frame : f.vmi = vmi /\ f.taken = gw.gen /\ f.boot = gw.boot
        /\ at = "act" /\ reply = "pending" /\ reply' = "ok" =>
            \E f \in op.frame : f.taken = gw.gen /\ f.boot = gw.boot]_vars

(* One frame unlocks one batch: desktop_act spends the observation whether *)
(* its request is answered, refused, lost or aborted, also when two calls  *)
(* present the same observationId.                                         *)
OneBatchPerFrame ==
    [][at = "idle" /\ at' = "act" => \A f \in op.frame : f.id \notin spent]_vars

(* The lease of a session is closed or dropped by a call of that session,  *)
(* by its session.end hook or by the plugin's disposal; another session    *)
(* can do no more than recover a lease that is already orphaned.           *)
LeaseIsNotTaken ==
    [][\A l \in local :
        ~(\E k \in local' : k.session = l.session /\ (k.closing => l.closing))
        => \/ l.orphaned
           \/ disposing'
           \/ queue # <<>> /\ op.session = l.session
           \/ queue' # <<>> /\ queue'[Len(queue')].session = l.session]_vars

(* No tool call waits for ever: the executor runs dry.                     *)
CallsReturn == []<>(queue = <<>>)
=============================================================================
