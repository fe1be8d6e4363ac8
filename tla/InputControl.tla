---------------------------- MODULE InputControl ----------------------------
(***************************************************************************)
(* The control registry of the Desktop Gateway: one process, one desktop,  *)
(* one Input Controller.  Source: internal/desktopgateway/control.go, with *)
(* the callers whose goroutines hold what it grants (vnc.go, power.go,     *)
(* gateway.go, server.go).                                                 *)
(*                                                                         *)
(* Every critical section of the registry's mutex is one action.  A caller *)
(* that unlocks and locks again (a takeover, releaseAgentOwner, the expire *)
(* loop) takes several, and everything else may run in between.            *)
(*                                                                         *)
(* A granted *controller is named by its generation, and 0 is nil: the     *)
(* sets below hold the generations whose controller has the attribute.     *)
(* Calls that are refused change nothing and are left out.                 *)
(***************************************************************************)
EXTENDS Integers, FiniteSets

CONSTANTS
  Sessions,      \* console requests that may run handleVNC
  Releasers,     \* agent requests that may run handleControlRelease
  PowerCalls,    \* requests that may run handlePower
  MaxGeneration  \* bound on the leases granted in one life of the process

ASSUME MaxGenerationAssumption == MaxGeneration \in Nat

VARIABLES
  active,         \* r.active: generation of the current controller, 0 for nil
  generation,     \* r.generations
  blocked,        \* r.controlBlocked
  draining,       \* r.draining
  takeovers,      \* r.takeovers: {} or the session that holds the reservation
  powerOps,       \* r.powerOps: {} or the call that owns the operation
  human,          \* controllers with actor = human; the others are the agent's
  cancelled,      \* controllers whose ctx is done
  done,           \* controllers whose done channel is closed
  fresh,          \* agent controllers touched within the last ttl
  looping,        \* agent controllers whose expireLoop is in its select
  expiring,       \* agent controllers whose expireLoop has left it to release
  sessionAt,      \* where each console request is
  sessionLease,   \* the controller it waits for or holds
  gone,           \* console requests whose context is done
  releasing,      \* the controller each releaser has read, 0 when idle
  opAction,       \* operation.action of each power call
  opPrior,        \* operation.priorBlocked of each power call
  lastPower,      \* history: what the finished power operations established
  shutdown        \* where revokeAll is

leaseVars   == <<human, cancelled, done, fresh, looping, expiring>>
sessionVars == <<sessionAt, sessionLease, gone>>
powerVars   == <<powerOps, opAction, opPrior, lastPower>>
vars == <<active, generation, blocked, draining, takeovers, leaseVars,
          sessionVars, releasing, powerVars, shutdown>>

SessionAt == {"idle", "waiting", "signalled", "failed", "holding"}

(* What is known of the desktop once no power operation is running. *)
LastPower == {"usable", "stopped", "unknown"}

Granted == 1..generation

(* Types; and no controller is referred to that has not been granted, nil   *)
(* included: every access to *controller in control.go is of a real one.    *)
TypeOK ==
  /\ generation \in Nat /\ active \in 0..generation
  /\ blocked \in BOOLEAN /\ draining \in BOOLEAN
  /\ takeovers \subseteq Sessions /\ powerOps \subseteq PowerCalls
  /\ human \subseteq Granted /\ cancelled \subseteq Granted /\ done \subseteq Granted
  /\ fresh \subseteq Granted /\ looping \subseteq Granted /\ expiring \subseteq Granted
  /\ sessionAt \in [Sessions -> SessionAt]
  /\ sessionLease \in [Sessions -> 0..generation]
  /\ gone \subseteq Sessions
  /\ releasing \in [Releasers -> 0..generation]
  /\ opAction \in [PowerCalls -> {"start", "stop"}]
  /\ opPrior \in [PowerCalls -> BOOLEAN]
  /\ lastPower \in LastPower
  /\ shutdown \in {"serving", "revoking", "drained"}

(* newControlRegistry: nothing held, nothing blocked. *)
Init ==
  /\ active = 0 /\ generation = 0
  /\ blocked = FALSE /\ draining = FALSE
  /\ takeovers = {} /\ powerOps = {}
  /\ human = {} /\ cancelled = {} /\ done = {}
  /\ fresh = {} /\ looping = {} /\ expiring = {}
  /\ sessionAt = [s \in Sessions |-> "idle"]
  /\ sessionLease = [s \in Sessions |-> 0]
  /\ gone = {}
  /\ releasing = [r \in Releasers |-> 0]
  /\ opAction = [p \in PowerCalls |-> "start"]
  /\ opPrior = [p \in PowerCalls |-> FALSE]
  /\ lastPower = "usable"
  /\ shutdown = "serving"

-----------------------------------------------------------------------------
(* Who holds the desktop, who may have it *)

HumanActive == active # 0 /\ active \in human

(* The tests of touchAgent and releaseAgentOwner for an agent's lease. *)
AgentActive == active # 0 /\ active \notin human

(* acquire and acquireAgent grant at once only a desktop that is served,    *)
(* not quarantined, not reserved and not held.                              *)
Free == ~draining /\ ~blocked /\ takeovers = {} /\ active = 0

SecondTakeoverMutant == ~draining /\ ~blocked /\ AgentActive

(* When acquire starts a takeover for the human that asks for it: only from *)
(* the agent, and one at a time.                                            *)
CanTakeOver == ~draining /\ ~blocked /\ takeovers = {} /\ AgentActive

(* The refusals of beginPower. *)
PowerAdmitted(action) ==
  /\ ~draining /\ active = 0 /\ takeovers = {} /\ powerOps = {}
  /\ blocked => action = "start"

-----------------------------------------------------------------------------
(* Granting and releasing *)

(* grantLocked: the next generation becomes the active controller. *)
grantLocked ==
  /\ generation' = generation + 1
  /\ active' = generation + 1

ReleaseWhateverMutant(g) ==
  /\ active' = 0
  /\ done' = done \cup {g}

(* release removes the controller only if it is still the active one, then  *)
(* closes its done channel.  The close comes after the unlock; only waiters *)
(* read it and a waiter may always run later, so the two are one step.      *)
release(g) ==
  /\ active' = IF active = g THEN 0 ELSE active
  /\ done' = done \cup {g}

-----------------------------------------------------------------------------
(* The human side: handleVNC around acquire *)

(* acquire when nobody holds the desktop.  *)
AcquireFree(s) ==
  /\ sessionAt[s] = "idle"
  /\ Free
  /\ generation < MaxGeneration
  /\ grantLocked
  /\ human' = human \cup {generation'}
  /\ sessionAt' = [sessionAt EXCEPT ![s] = "holding"]
  /\ sessionLease' = [sessionLease EXCEPT ![s] = generation']
  /\ UNCHANGED <<blocked, draining, takeovers, cancelled, done, fresh, looping,
                 expiring, gone, releasing, powerVars, shutdown>>

(* acquire with takeover=1 against an agent: reserve the desktop, cancel    *)
(* the incumbent, unlock and wait.                                          *)
AcquireTakeover(s) ==
  /\ sessionAt[s] = "idle"
  /\ CanTakeOver
  /\ generation < MaxGeneration
  /\ takeovers' = {s}
  /\ cancelled' = cancelled \cup {active}
  /\ sessionAt' = [sessionAt EXCEPT ![s] = "waiting"]
  /\ sessionLease' = [sessionLease EXCEPT ![s] = active]
  /\ UNCHANGED <<active, generation, blocked, draining, human, done, fresh,
                 looping, expiring, gone, releasing, powerVars, shutdown>>

WaitsForRequestMutant(s) == IF s \in gone THEN {"failed"} ELSE {}

(* The cases of the select that are ready: the incumbent's done channel is  *)
(* closed; or the three second timer fires or the request's context is      *)
(* done, which may win even when the channel is already closed.             *)
WakeReasons(s) ==
  {"failed"} \cup IF sessionLease[s] \in done THEN {"signalled"} ELSE {}

TakeoverWake(s) ==
  /\ sessionAt[s] = "waiting"
  /\ \E reason \in WakeReasons(s) :
       sessionAt' = [sessionAt EXCEPT ![s] = reason]
  /\ UNCHANGED <<active, generation, blocked, draining, takeovers, leaseVars,
                 sessionLease, gone, releasing, powerVars, shutdown>>

WakeIgnoresReservationMutant(s) == sessionAt[s] = "signalled" /\ s \notin gone

(* Whether the waiter, locked again, is granted the desktop. *)
TakeoverWins(s) ==
  /\ s \in takeovers
  /\ sessionAt[s] = "signalled" /\ s \notin gone
  /\ ~blocked /\ active = 0

(* acquire after the wait: a reservation that is gone is left alone, every  *)
(* other failure deletes it, and only a clean wake is granted.              *)
TakeoverResolve(s) ==
  /\ sessionAt[s] \in {"signalled", "failed"}
  /\ takeovers' = takeovers \ {s}
  /\ IF TakeoverWins(s)
     THEN /\ grantLocked
          /\ human' = human \cup {generation'}
          /\ sessionAt' = [sessionAt EXCEPT ![s] = "holding"]
          /\ sessionLease' = [sessionLease EXCEPT ![s] = generation']
          /\ UNCHANGED gone
     ELSE /\ sessionAt' = [sessionAt EXCEPT ![s] = "idle"]
          /\ sessionLease' = [sessionLease EXCEPT ![s] = 0]
          /\ gone' = gone \ {s}
          /\ UNCHANGED <<active, generation, human>>
  /\ UNCHANGED <<blocked, draining, cancelled, done, fresh, looping, expiring,
                 releasing, powerVars, shutdown>>

(* The browser goes away: the request's context is done, and with it the    *)
(* context of a lease derived from it.                                      *)
Disconnect(s) ==
  /\ sessionAt[s] # "idle" /\ s \notin gone
  /\ gone' = gone \cup {s}
  /\ cancelled' = IF sessionAt[s] = "holding"
                  THEN cancelled \cup {sessionLease[s]} ELSE cancelled
  /\ UNCHANGED <<active, generation, blocked, draining, takeovers, human, done,
                 fresh, looping, expiring, sessionAt, sessionLease, releasing,
                 powerVars, shutdown>>

(* handleVNC returns, because the dial, the upgrade or either direction of  *)
(* the relay failed or the lease's context is done; the deferred release    *)
(* runs and the request is over.                                            *)
EndSession(s) ==
  /\ sessionAt[s] = "holding"
  /\ release(sessionLease[s])
  /\ sessionAt' = [sessionAt EXCEPT ![s] = "idle"]
  /\ sessionLease' = [sessionLease EXCEPT ![s] = 0]
  /\ gone' = gone \ {s}
  /\ UNCHANGED <<generation, blocked, draining, takeovers, human, cancelled,
                 fresh, looping, expiring, releasing, powerVars, shutdown>>

-----------------------------------------------------------------------------
(* The agent side: leases taken over HTTP *)

(* acquireAgent: the lease is anchored to no request; its expireLoop starts.*)
AcquireAgent ==
  /\ Free
  /\ generation < MaxGeneration
  /\ grantLocked
  /\ fresh' = fresh \cup {generation'}
  /\ looping' = looping \cup {generation'}
  /\ UNCHANGED <<blocked, draining, takeovers, human, cancelled, done, expiring,
                 sessionVars, releasing, powerVars, shutdown>>

(* touchAgent: an agent call refreshes the lease that is current. *)
TouchAgent ==
  /\ AgentActive
  /\ fresh' = fresh \cup {active}
  /\ UNCHANGED <<active, generation, blocked, draining, takeovers, human,
                 cancelled, done, looping, expiring, sessionVars, releasing,
                 powerVars, shutdown>>

(* The clock: ttl has passed since the last touch of controller g.          *)
IdlePastTTL(g) ==
  /\ g \in fresh
  /\ fresh' = fresh \ {g}
  /\ UNCHANGED <<active, generation, blocked, draining, takeovers, human,
                 cancelled, done, looping, expiring, sessionVars, releasing,
                 powerVars, shutdown>>

LoopIgnoresTTLMutant(g) == g \in cancelled

(* What ends expireLoop: the lease's context, or a tick that finds it idle. *)
LoopEnds(g) == g \in cancelled \/ g \notin fresh

(* No lock is held from the decision to the release, so a touch may come in *)
(* between.                                                                 *)
ExpireDecide(g) ==
  /\ g \in looping
  /\ LoopEnds(g)
  /\ looping' = looping \ {g}
  /\ expiring' = expiring \cup {g}
  /\ UNCHANGED <<active, generation, blocked, draining, takeovers, human,
                 cancelled, done, fresh, sessionVars, releasing, powerVars,
                 shutdown>>

ExpireRelease(g) ==
  /\ g \in expiring
  /\ release(g)
  /\ expiring' = expiring \ {g}
  /\ UNCHANGED <<generation, blocked, draining, takeovers, human, cancelled,
                 fresh, looping, sessionVars, releasing, powerVars, shutdown>>

(* releaseAgentOwner reads the current controller under the lock ...        *)
ReleaseAgentRead(r) ==
  /\ releasing[r] = 0
  /\ AgentActive
  /\ releasing' = [releasing EXCEPT ![r] = active]
  /\ UNCHANGED <<active, generation, blocked, draining, takeovers, leaseVars,
                 sessionVars, powerVars, shutdown>>

(* ... and releases it under another.                                       *)
ReleaseAgentWrite(r) ==
  /\ releasing[r] # 0
  /\ release(releasing[r])
  /\ releasing' = [releasing EXCEPT ![r] = 0]
  /\ UNCHANGED <<generation, blocked, draining, takeovers, human, cancelled,
                 fresh, looping, expiring, sessionVars, powerVars, shutdown>>

-----------------------------------------------------------------------------
(* Power *)

(* beginPower: reserve the desktop for one operation, quarantine control.   *)
BeginPower(p, action) ==
  /\ PowerAdmitted(action)
  /\ powerOps' = {p}
  /\ opAction' = [opAction EXCEPT ![p] = action]
  /\ opPrior' = [opPrior EXCEPT ![p] = blocked]
  /\ blocked' = TRUE
  /\ UNCHANGED <<active, generation, draining, takeovers, leaseVars, sessionVars,
                 releasing, lastPower, shutdown>>

RejectedUnblocksMutant(p, outcome) ==
  draining \/ outcome = "Unknown" \/ (outcome = "Succeeded" /\ opAction[p] = "stop")

(* The quarantine finishPower leaves behind. *)
BlockedAfter(p, outcome) ==
  CASE draining              -> TRUE
    [] ~draining /\ outcome = "Succeeded" -> opAction[p] = "stop"
    [] ~draining /\ outcome = "Unknown"   -> TRUE
    [] ~draining /\ outcome = "Rejected"  -> opPrior[p]

(* finishPower, by the call that owns the operation. *)
FinishPower(p, outcome) ==
  /\ p \in powerOps
  /\ powerOps' = {}
  /\ blocked' = BlockedAfter(p, outcome)
  /\ lastPower' = CASE outcome = "Succeeded" ->
                         IF opAction[p] = "start" THEN "usable" ELSE "stopped"
                    [] outcome = "Unknown"   -> "unknown"
                    [] outcome = "Rejected"  -> lastPower
  /\ UNCHANGED <<active, generation, draining, takeovers, leaseVars, sessionVars,
                 releasing, opAction, opPrior, shutdown>>

-----------------------------------------------------------------------------
(* Shutdown *)

NothingRevokedMutant == {}

(* The controllers revokeAll cancels. *)
Revoked == {active} \ {0}

(* revokeAll, its critical section. *)
RevokeAll ==
  /\ ~draining
  /\ draining' = TRUE
  /\ blocked' = (blocked \/ active # 0 \/ takeovers # {} \/ powerOps # {})
  /\ takeovers' = {}
  /\ cancelled' = cancelled \cup Revoked
  /\ shutdown' = "revoking"
  /\ UNCHANGED <<active, generation, human, done, fresh, looping, expiring,
                 sessionVars, releasing, powerVars>>

(* revokeAll returns: the controller it cancelled is released, or its own   *)
(* context timed out first.                                                 *)
RevokeAllReturns ==
  /\ shutdown = "revoking"
  /\ shutdown' = "drained"
  /\ UNCHANGED <<active, generation, blocked, draining, takeovers, leaseVars,
                 sessionVars, releasing, powerVars>>

Outcomes == {"Succeeded", "Rejected", "Unknown"}

Next ==
  \/ \E s \in Sessions :
       \/ AcquireFree(s) \/ AcquireTakeover(s)
       \/ TakeoverWake(s) \/ TakeoverResolve(s)
       \/ Disconnect(s) \/ EndSession(s)
  \/ AcquireAgent \/ TouchAgent
  \/ \E g \in 1..MaxGeneration :
       IdlePastTTL(g) \/ ExpireDecide(g) \/ ExpireRelease(g)
  \/ \E r \in Releasers : ReleaseAgentRead(r) \/ ReleaseAgentWrite(r)
  \/ \E p \in PowerCalls :
       \/ \E action \in {"start", "stop"} : BeginPower(p, action)
       \/ \E outcome \in Outcomes : FinishPower(p, outcome)
  \/ RevokeAll \/ RevokeAllReturns

Spec == Init /\ [][Next]_vars

(* Goroutines that are runnable run, timers fire and the clock advances.  A *)
(* console request ends by itself only once its lease is cancelled: relayVNC*)
(* then closes both sockets.  Nothing makes a client call.                  *)
Fairness ==
  /\ \A s \in Sessions :
       /\ WF_vars(TakeoverWake(s))
       /\ WF_vars(TakeoverResolve(s))
       /\ WF_vars(sessionLease[s] \in cancelled /\ EndSession(s))
  /\ \A g \in 1..MaxGeneration :
       WF_vars(IdlePastTTL(g)) /\ WF_vars(ExpireDecide(g)) /\ WF_vars(ExpireRelease(g))
  /\ \A r \in Releasers : WF_vars(ReleaseAgentWrite(r))
  /\ WF_vars(RevokeAllReturns)

FairSpec == Spec /\ Fairness

-----------------------------------------------------------------------------
(* Safety *)

(* A console request that believes it holds input is the active controller, *)
(* whatever expiries, agent releases and takeovers ran since: release       *)
(* compares controllers, so nobody else can take its lease away.  Two       *)
(* holders, or a holder beside an agent lease, are then impossible.         *)
HolderIsActive ==
  \A s \in Sessions : sessionAt[s] = "holding" => active = sessionLease[s]

(* The quarantine: while a power operation is in flight, or its outcome     *)
(* left control blocked, nobody holds input and no takeover is under way,   *)
(* except for the leases a shutdown is still revoking.                      *)
QuarantineExcludesControl ==
  /\ powerOps # {} => blocked /\ active = 0 /\ takeovers = {}
  /\ blocked /\ ~draining => active = 0 /\ takeovers = {}

(* The quarantine has a cause and a cause keeps it: between operations      *)
(* control is blocked exactly when the operations that ran leave the        *)
(* desktop stopped or in an unknown state.  A rejected operation neither    *)
(* adds a quarantine nor clears the one it found (finishPower).             *)
QuarantineExact ==
  powerOps = {} /\ ~draining => (blocked <=> lastPower # "usable")

(* The reservation belongs to a request that is in its takeover and, short  *)
(* of a shutdown, every request in a takeover has it: nobody slips into the *)
(* drain window and no reservation outlives its request and bars the rest.  *)
ReservationIsWaiter ==
  LET InTakeover == {s \in Sessions : sessionAt[s] \in {"waiting", "signalled", "failed"}}
  IN  /\ takeovers \subseteq InTakeover
      /\ ~draining => InTakeover \subseteq takeovers
      /\ \A s, t \in takeovers : s = t

(* After revokeAll no lease is granted, not even to a takeover that was     *)
(* waiting when the shutdown began.                                         *)
NoGrantAfterDrain == [][draining => generation' = generation]_vars

(* Input never passes from one controller to the next in one step, a        *)
(* generation is never reused and a human's lease ends only with the        *)
(* request that holds it: no expiry, agent release or takeover ends it.     *)
ExplicitHandover ==
  [][/\ active # 0 /\ active' # active => active' = 0
     /\ active' # active /\ active' # 0 => active' > generation
     /\ HumanActive /\ active' # active =>
          \E s \in Sessions : sessionLease[s] = active /\ sessionAt'[s] = "idle"
    ]_vars

-----------------------------------------------------------------------------
(* Liveness *)

(* A takeover resolves one way or the other: acquire never hangs. *)
TakeoverResolves ==
  \A s \in Sessions : sessionAt[s] = "waiting" ~> sessionAt[s] \in {"idle", "holding"}

(* An agent that stops calling loses the lease: either it touches for ever, *)
(* or input is free of it again and again (expireLoop).                     *)
IdleAgentExpires ==
  []<><<TouchAgent>>_vars \/ []<>~AgentActive

(* Shutdown ends every lease that was live when it began. *)
DrainReleases == draining ~> active = 0 /\ shutdown = "drained"

-----------------------------------------------------------------------------
(* Refinement *)

Holder ==
  IF active = 0 THEN "nobody" ELSE IF active \in human THEN "human" ELSE "agent"

Lease == INSTANCE InputLease WITH
  holder <- Holder, term <- generation, quarantine <- blocked, closed <- draining

(* The registry keeps the promise of InputLease: every step of every        *)
(* goroutine is a grant to a free desktop, an end, a quarantine, its        *)
(* lifting, the shutdown, or invisible.                                     *)
ImplementsLease == Lease!Spec

=============================================================================
