------------------------- MODULE InputControlProofs -------------------------
(***************************************************************************)
(* Proofs, for any sets of callers and any bound on the leases, that the   *)
(* control registry of the Desktop Gateway keeps its invariants and        *)
(* implements InputLease, alone and beside any number of agent calls, and  *)
(* that what the Gateway answers those calls is true of the desktop.       *)
(*                                                                         *)
(* The inductive invariant adds to the checked properties what the code    *)
(* takes for granted: a goroutine that releases on the agent's behalf      *)
(* never has a human's controller in its hand, one console request at most *)
(* holds input, priorBlocked remembers whether there is a quarantine, and  *)
(* a shutdown leaves no reservation.                                       *)
(***************************************************************************)
EXTENDS AgentInput, TLAPS

(* Expiry and agent release only ever concern the agent's controllers. *)
AgentOnly ==
  /\ looping \cap human = {} /\ expiring \cap human = {}
  /\ \A r \in Releasers : releasing[r] \notin human

(* A console request that holds input holds a human controller, alone. *)
HoldersAreHuman ==
  /\ \A s \in Sessions : sessionAt[s] = "holding" => sessionLease[s] \in human
  /\ \A s, t \in Sessions :
       sessionAt[s] = "holding" /\ sessionAt[t] = "holding" => s = t

(* The one running operation remembers the quarantine it found. *)
PriorRemembers ==
  /\ \A p, q \in powerOps : p = q
  /\ ~draining => \A p \in powerOps : opPrior[p] <=> lastPower # "usable"

NoReservationWhenDraining == draining => takeovers = {}

IInv ==
  /\ TypeOK /\ AgentOnly /\ HolderIsActive /\ HoldersAreHuman
  /\ QuarantineExcludesControl /\ QuarantineExact /\ PriorRemembers
  /\ ReservationIsWaiter /\ NoReservationWhenDraining
-----------------------------------------------------------------------------
(* The inductive step, one action at a time. *)

USE DEF leaseVars, sessionVars, powerVars

(* release keeps the active controller and the closed channels well typed. *)
LEMMA ReleaseTypes ==
  ASSUME IInv, NEW g \in Granted, release(g)
  PROVE  active' \in 0..generation /\ done' \subseteq Granted
<1>1. generation \in Nat /\ active \in 0..generation /\ done \subseteq Granted
  BY DEF IInv, TypeOK
<1>2. 0 \in 0..generation
  BY <1>1
<1>3. active' \in {0, active} /\ done' = done \cup {g}
  BY DEF release
<1> QED  BY <1>1, <1>2, <1>3

(* IInv is kept by AcquireFree: acquire on a free desktop. *)
LEMMA AcquireFreeKeeps ==
  ASSUME NEW s \in Sessions, IInv, AcquireFree(s)
  PROVE  IInv'
<1>1. TypeOK'
  BY DEF IInv, TypeOK, SessionAt, LastPower, Granted, AcquireFree, Free,
         grantLocked
<1>2. AgentOnly'
  BY DEF IInv, TypeOK, AgentOnly, Granted, AcquireFree, Free, grantLocked
<1>3. (HolderIsActive /\ HoldersAreHuman)'
  BY DEF IInv, TypeOK, AgentOnly, Granted, HolderIsActive, HoldersAreHuman,
         AcquireFree, Free, grantLocked
<1>4. (QuarantineExcludesControl /\ QuarantineExact /\ PriorRemembers)'
  BY DEF IInv, TypeOK, LastPower, QuarantineExcludesControl,
         QuarantineExact, PriorRemembers, AcquireFree, Free, grantLocked
<1>5. (ReservationIsWaiter /\ NoReservationWhenDraining)'
  BY DEF IInv, TypeOK, ReservationIsWaiter, NoReservationWhenDraining,
         AcquireFree, Free, grantLocked
<1> QED  BY <1>1, <1>2, <1>3, <1>4, <1>5 DEF IInv

(* IInv is kept by AcquireTakeover: acquire, up to the unlock of a takeover. *)
LEMMA AcquireTakeoverKeeps ==
  ASSUME NEW s \in Sessions, IInv, AcquireTakeover(s)
  PROVE  IInv'
BY DEF IInv, TypeOK, SessionAt, LastPower, Granted, AgentOnly,
       HolderIsActive, HoldersAreHuman, QuarantineExcludesControl,
       QuarantineExact, PriorRemembers, ReservationIsWaiter,
       NoReservationWhenDraining, AcquireTakeover, CanTakeOver, AgentActive

(* IInv is kept by TakeoverWake: acquire, the wait ends. *)
LEMMA TakeoverWakeKeeps ==
  ASSUME NEW s \in Sessions, IInv, TakeoverWake(s)
  PROVE  IInv'
BY DEF IInv, TypeOK, SessionAt, LastPower, Granted, AgentOnly,
       HolderIsActive, HoldersAreHuman, QuarantineExcludesControl,
       QuarantineExact, PriorRemembers, ReservationIsWaiter,
       NoReservationWhenDraining, TakeoverWake, WakeReasons

(* IInv is kept by TakeoverResolve: acquire, after the wait.  The winner    *)
(* finds the desktop free, so no other request holds it; a loser changes    *)
(* nothing but its own place and its reservation.                           *)
LEMMA TakeoverResolveKeeps ==
  ASSUME NEW s \in Sessions, IInv, TakeoverResolve(s)
  PROVE  IInv'
<1> USE DEF IInv
<1>1. /\ sessionAt[s] \in {"signalled", "failed"}
      /\ takeovers' = takeovers \ {s}
      /\ UNCHANGED <<blocked, draining, cancelled, done, fresh, looping, expiring,
                     releasing, powerOps, opAction, opPrior, lastPower, shutdown>>
  BY DEF TakeoverResolve
<1>2. CASE TakeoverWins(s)
  <2>1. /\ generation' = generation + 1 /\ active' = generation + 1
        /\ human' = human \cup {generation + 1}
        /\ sessionAt' = [sessionAt EXCEPT ![s] = "holding"]
        /\ sessionLease' = [sessionLease EXCEPT ![s] = generation + 1]
        /\ gone' = gone
    BY <1>2 DEF TakeoverResolve, grantLocked
  <2>2. s \in takeovers /\ ~blocked /\ active = 0
    BY <1>2 DEF TakeoverWins
  <2>3. TypeOK'
    BY <1>1, <2>1, <2>2 DEF TypeOK, SessionAt, LastPower, Granted
  <2>4. AgentOnly'
    BY <1>1, <2>1, <2>2 DEF TypeOK, AgentOnly, Granted
  <2>5. (HolderIsActive /\ HoldersAreHuman)'
    BY <1>1, <2>1, <2>2 DEF TypeOK, Granted, HolderIsActive, HoldersAreHuman
  <2>6. (QuarantineExcludesControl /\ QuarantineExact /\ PriorRemembers)'
    BY <1>1, <2>1, <2>2 DEF TypeOK, QuarantineExcludesControl,
           QuarantineExact, PriorRemembers
  <2>7. (ReservationIsWaiter /\ NoReservationWhenDraining)'
    BY <1>1, <2>1, <2>2 DEF TypeOK, ReservationIsWaiter, NoReservationWhenDraining
  <2> QED  BY <2>3, <2>4, <2>5, <2>6, <2>7
<1>3. CASE ~TakeoverWins(s)
  <2>1. /\ sessionAt' = [sessionAt EXCEPT ![s] = "idle"]
        /\ sessionLease' = [sessionLease EXCEPT ![s] = 0]
        /\ gone' = gone \ {s}
        /\ UNCHANGED <<active, generation, human>>
    BY <1>3 DEF TakeoverResolve
  <2>3. TypeOK'
    BY <1>1, <2>1 DEF TypeOK, SessionAt, LastPower, Granted
  <2>4. AgentOnly'
    BY <1>1, <2>1 DEF TypeOK, AgentOnly, Granted
  <2>5. (HolderIsActive /\ HoldersAreHuman)'
    BY <1>1, <2>1 DEF TypeOK, Granted, HolderIsActive, HoldersAreHuman
  <2>6. (QuarantineExcludesControl /\ QuarantineExact /\ PriorRemembers)'
    BY <1>1, <2>1 DEF TypeOK, QuarantineExcludesControl,
           QuarantineExact, PriorRemembers
  <2>7. (ReservationIsWaiter /\ NoReservationWhenDraining)'
    BY <1>1, <2>1 DEF TypeOK, ReservationIsWaiter, NoReservationWhenDraining
  <2> QED  BY <2>3, <2>4, <2>5, <2>6, <2>7
<1> QED  BY <1>2, <1>3

(* IInv is kept by Disconnect: The console request's context is done. *)
LEMMA DisconnectKeeps ==
  ASSUME NEW s \in Sessions, IInv, Disconnect(s)
  PROVE  IInv'
BY ZenonT(30) DEF IInv, TypeOK, SessionAt, LastPower, Granted, AgentOnly,
       HolderIsActive, HoldersAreHuman, QuarantineExcludesControl,
       QuarantineExact, PriorRemembers, ReservationIsWaiter,
       NoReservationWhenDraining, Disconnect

(* IInv is kept by EndSession: handleVNC returns. *)
LEMMA EndSessionKeeps ==
  ASSUME NEW s \in Sessions, IInv, EndSession(s)
  PROVE  IInv'
<1>1. TypeOK'
  <2>1. sessionLease[s] \in Granted
    BY DEF IInv, TypeOK, HoldersAreHuman, Granted, EndSession
  <2>2. active' \in 0..generation /\ done' \subseteq Granted
    BY <2>1, ReleaseTypes DEF EndSession
  <2>3. sessionLease' \in [Sessions -> 0..generation]
    BY DEF IInv, TypeOK, EndSession
  <2> QED
    BY <2>2, <2>3 DEF IInv, TypeOK, SessionAt, LastPower, Granted,
                      EndSession
<1>2. AgentOnly'
  BY DEF IInv, TypeOK, AgentOnly, Granted, EndSession, release
<1>3. (HolderIsActive /\ HoldersAreHuman)'
  BY DEF IInv, TypeOK, AgentOnly, Granted, HolderIsActive, HoldersAreHuman,
         EndSession, release
<1>4. (QuarantineExcludesControl /\ QuarantineExact /\ PriorRemembers)'
  BY DEF IInv, TypeOK, LastPower, QuarantineExcludesControl,
         QuarantineExact, PriorRemembers, EndSession, release
<1>5. (ReservationIsWaiter /\ NoReservationWhenDraining)'
  BY DEF IInv, TypeOK, ReservationIsWaiter, NoReservationWhenDraining,
         EndSession, release
<1> QED  BY <1>1, <1>2, <1>3, <1>4, <1>5 DEF IInv

(* IInv is kept by AcquireAgent: acquireAgent. *)
LEMMA AcquireAgentKeeps ==
  ASSUME IInv, AcquireAgent
  PROVE  IInv'
<1>1. TypeOK'
  BY DEF IInv, TypeOK, SessionAt, LastPower, Granted, AcquireAgent, Free,
         grantLocked
<1>2. AgentOnly'
  BY DEF IInv, TypeOK, AgentOnly, Granted, AcquireAgent, Free, grantLocked
<1>3. (HolderIsActive /\ HoldersAreHuman)'
  BY DEF IInv, TypeOK, AgentOnly, Granted, HolderIsActive, HoldersAreHuman,
         AcquireAgent, Free, grantLocked
<1>4. (QuarantineExcludesControl /\ QuarantineExact /\ PriorRemembers)'
  BY DEF IInv, TypeOK, LastPower, QuarantineExcludesControl,
         QuarantineExact, PriorRemembers, AcquireAgent, Free, grantLocked
<1>5. (ReservationIsWaiter /\ NoReservationWhenDraining)'
  BY Zenon DEF IInv, TypeOK, ReservationIsWaiter, NoReservationWhenDraining,
         AcquireAgent, Free, grantLocked
<1> QED  BY <1>1, <1>2, <1>3, <1>4, <1>5 DEF IInv

(* IInv is kept by TouchAgent: touchAgent. *)
LEMMA TouchAgentKeeps ==
  ASSUME IInv, TouchAgent
  PROVE  IInv'
BY DEF IInv, TypeOK, SessionAt, LastPower, Granted, AgentOnly,
       HolderIsActive, HoldersAreHuman, QuarantineExcludesControl,
       QuarantineExact, PriorRemembers, ReservationIsWaiter,
       NoReservationWhenDraining, TouchAgent, AgentActive

(* IInv is kept by IdlePastTTL: A lease's ttl passes. *)
LEMMA IdlePastTTLKeeps ==
  ASSUME NEW g \in 1..MaxGeneration, IInv, IdlePastTTL(g)
  PROVE  IInv'
BY Zenon DEF IInv, TypeOK, SessionAt, LastPower, Granted, AgentOnly,
       HolderIsActive, HoldersAreHuman, QuarantineExcludesControl,
       QuarantineExact, PriorRemembers, ReservationIsWaiter,
       NoReservationWhenDraining, IdlePastTTL

(* IInv is kept by ExpireDecide: expireLoop leaves its select. *)
LEMMA ExpireDecideKeeps ==
  ASSUME NEW g \in 1..MaxGeneration, IInv, ExpireDecide(g)
  PROVE  IInv'
BY DEF IInv, TypeOK, SessionAt, LastPower, Granted, AgentOnly,
       HolderIsActive, HoldersAreHuman, QuarantineExcludesControl,
       QuarantineExact, PriorRemembers, ReservationIsWaiter,
       NoReservationWhenDraining, ExpireDecide

(* IInv is kept by ExpireRelease: expireLoop releases. *)
LEMMA ExpireReleaseKeeps ==
  ASSUME NEW g \in 1..MaxGeneration, IInv, ExpireRelease(g)
  PROVE  IInv'
<1>1. TypeOK'
  BY DEF IInv, TypeOK, SessionAt, LastPower, Granted, ExpireRelease, release
<1>2. AgentOnly'
  BY DEF IInv, TypeOK, AgentOnly, Granted, ExpireRelease, release
<1>3. (HolderIsActive /\ HoldersAreHuman)'
  BY DEF IInv, TypeOK, AgentOnly, Granted, HolderIsActive, HoldersAreHuman,
         ExpireRelease, release
<1>4. (QuarantineExcludesControl /\ QuarantineExact /\ PriorRemembers)'
  BY DEF IInv, TypeOK, LastPower, QuarantineExcludesControl,
         QuarantineExact, PriorRemembers, ExpireRelease, release
<1>5. (ReservationIsWaiter /\ NoReservationWhenDraining)'
  BY Zenon DEF IInv, TypeOK, ReservationIsWaiter, NoReservationWhenDraining,
         ExpireRelease, release
<1> QED  BY <1>1, <1>2, <1>3, <1>4, <1>5 DEF IInv

(* IInv is kept by ReleaseAgentRead: releaseAgentOwner, first lock. *)
LEMMA ReleaseAgentReadKeeps ==
  ASSUME NEW r \in Releasers, IInv, ReleaseAgentRead(r)
  PROVE  IInv'
BY DEF IInv, TypeOK, SessionAt, LastPower, Granted, AgentOnly,
       HolderIsActive, HoldersAreHuman, QuarantineExcludesControl,
       QuarantineExact, PriorRemembers, ReservationIsWaiter,
       NoReservationWhenDraining, ReleaseAgentRead, AgentActive

(* IInv is kept by ReleaseAgentWrite: releaseAgentOwner, second lock. *)
LEMMA ReleaseAgentWriteKeeps ==
  ASSUME NEW r \in Releasers, IInv, ReleaseAgentWrite(r)
  PROVE  IInv'
<1>1. TypeOK'
  <2>1. releasing[r] \in Granted
    BY DEF IInv, TypeOK, Granted, ReleaseAgentWrite
  <2>2. active' \in 0..generation /\ done' \subseteq Granted
    BY <2>1, ReleaseTypes DEF ReleaseAgentWrite
  <2>3. releasing' \in [Releasers -> 0..generation]
    BY DEF IInv, TypeOK, ReleaseAgentWrite
  <2> QED
    BY <2>2, <2>3 DEF IInv, TypeOK, SessionAt, LastPower, Granted,
                      ReleaseAgentWrite
<1>2. AgentOnly'
  BY DEF IInv, TypeOK, AgentOnly, Granted, ReleaseAgentWrite, release
<1>3. (HolderIsActive /\ HoldersAreHuman)'
  BY DEF IInv, TypeOK, AgentOnly, Granted, HolderIsActive, HoldersAreHuman,
         ReleaseAgentWrite, release
<1>4. (QuarantineExcludesControl /\ QuarantineExact /\ PriorRemembers)'
  BY Zenon DEF IInv, TypeOK, LastPower, QuarantineExcludesControl,
         QuarantineExact, PriorRemembers, ReleaseAgentWrite, release
<1>5. (ReservationIsWaiter /\ NoReservationWhenDraining)'
  BY DEF IInv, TypeOK, ReservationIsWaiter, NoReservationWhenDraining,
         ReleaseAgentWrite, release
<1> QED  BY <1>1, <1>2, <1>3, <1>4, <1>5 DEF IInv

(* IInv is kept by BeginPower: beginPower. *)
LEMMA BeginPowerKeeps ==
  ASSUME NEW p \in PowerCalls, NEW a \in {"start", "stop"}, IInv, BeginPower(p, a)
  PROVE  IInv'
<1>1. TypeOK'
  BY DEF IInv, TypeOK, SessionAt, LastPower, Granted, BeginPower,
         PowerAdmitted
<1>2. AgentOnly'
  BY DEF IInv, TypeOK, AgentOnly, Granted, BeginPower, PowerAdmitted
<1>3. (HolderIsActive /\ HoldersAreHuman)'
  BY DEF IInv, TypeOK, AgentOnly, Granted, HolderIsActive, HoldersAreHuman,
         BeginPower, PowerAdmitted
<1>4. (QuarantineExcludesControl /\ QuarantineExact /\ PriorRemembers)'
  BY DEF IInv, TypeOK, LastPower, QuarantineExcludesControl,
         QuarantineExact, PriorRemembers, BeginPower, PowerAdmitted
<1>5. (ReservationIsWaiter /\ NoReservationWhenDraining)'
  BY DEF IInv, TypeOK, ReservationIsWaiter, NoReservationWhenDraining,
         BeginPower, PowerAdmitted
<1> QED  BY <1>1, <1>2, <1>3, <1>4, <1>5 DEF IInv

(* IInv is kept by FinishPower: finishPower. *)
LEMMA FinishPowerKeeps ==
  ASSUME NEW p \in PowerCalls, NEW o \in Outcomes, IInv, FinishPower(p, o)
  PROVE  IInv'
<1>1. TypeOK'
  BY Zenon DEF IInv, TypeOK, SessionAt, LastPower, Granted, FinishPower,
         BlockedAfter, Outcomes
<1>2. AgentOnly'
  BY DEF IInv, TypeOK, AgentOnly, Granted, FinishPower, BlockedAfter,
         Outcomes
<1>3. (HolderIsActive /\ HoldersAreHuman)'
  BY DEF IInv, TypeOK, AgentOnly, Granted, HolderIsActive, HoldersAreHuman,
         FinishPower, BlockedAfter, Outcomes
<1>4. (QuarantineExcludesControl /\ QuarantineExact /\ PriorRemembers)'
  BY DEF IInv, TypeOK, LastPower, QuarantineExcludesControl,
         QuarantineExact, PriorRemembers, FinishPower, BlockedAfter,
         Outcomes
<1>5. (ReservationIsWaiter /\ NoReservationWhenDraining)'
  BY DEF IInv, TypeOK, ReservationIsWaiter, NoReservationWhenDraining,
         FinishPower, BlockedAfter, Outcomes
<1> QED  BY <1>1, <1>2, <1>3, <1>4, <1>5 DEF IInv

(* IInv is kept by RevokeAll: revokeAll, its critical section. *)
LEMMA RevokeAllKeeps ==
  ASSUME IInv, RevokeAll
  PROVE  IInv'
<1>1. TypeOK'
  BY DEF IInv, TypeOK, SessionAt, LastPower, Granted, RevokeAll, Revoked
<1>2. AgentOnly'
  BY DEF IInv, TypeOK, AgentOnly, Granted, RevokeAll, Revoked
<1>3. (HolderIsActive /\ HoldersAreHuman)'
  BY Zenon DEF IInv, TypeOK, AgentOnly, Granted, HolderIsActive, HoldersAreHuman,
         RevokeAll, Revoked
<1>4. (QuarantineExcludesControl /\ QuarantineExact /\ PriorRemembers)'
  BY Zenon DEF IInv, TypeOK, LastPower, QuarantineExcludesControl,
         QuarantineExact, PriorRemembers, RevokeAll, Revoked
<1>5. (ReservationIsWaiter /\ NoReservationWhenDraining)'
  BY Zenon DEF IInv, TypeOK, ReservationIsWaiter, NoReservationWhenDraining,
         RevokeAll, Revoked
<1> QED  BY <1>1, <1>2, <1>3, <1>4, <1>5 DEF IInv

(* IInv is kept by RevokeAllReturns: revokeAll returns. *)
LEMMA RevokeAllReturnsKeeps ==
  ASSUME IInv, RevokeAllReturns
  PROVE  IInv'
BY DEF IInv, TypeOK, SessionAt, LastPower, Granted, AgentOnly,
       HolderIsActive, HoldersAreHuman, QuarantineExcludesControl,
       QuarantineExact, PriorRemembers, ReservationIsWaiter,
       NoReservationWhenDraining, RevokeAllReturns

(* IInv holds initially. *)
LEMMA InitEstablishes == Init => IInv
<1> SUFFICES ASSUME Init PROVE IInv
  OBVIOUS
<1>1. TypeOK
  <2>1. generation = 0 /\ 0..generation = {0} /\ Granted = {}
    BY DEF Init, Granted
  <2>2. /\ sessionLease \in [Sessions -> 0..generation]
        /\ releasing \in [Releasers -> 0..generation]
    BY <2>1 DEF Init
  <2>3. sessionAt \in [Sessions -> SessionAt]
    BY DEF Init, SessionAt
  <2>4. /\ opAction \in [PowerCalls -> {"start", "stop"}]
        /\ opPrior \in [PowerCalls -> BOOLEAN]
    BY DEF Init
  <2>5. generation \in Nat /\ active \in 0..generation
    BY DEF Init
  <2> QED  BY <2>2, <2>3, <2>4, <2>5, Zenon DEF Init, TypeOK, LastPower
<1>2. AgentOnly
  BY DEF Init, AgentOnly
<1>3. HolderIsActive /\ HoldersAreHuman
  BY DEF Init, HolderIsActive, HoldersAreHuman
<1>4. QuarantineExcludesControl /\ QuarantineExact /\ PriorRemembers
  BY DEF Init, QuarantineExcludesControl, QuarantineExact, PriorRemembers
<1>5. ReservationIsWaiter /\ NoReservationWhenDraining
  BY Zenon DEF Init, ReservationIsWaiter, NoReservationWhenDraining
<1> QED  BY <1>1, <1>2, <1>3, <1>4, <1>5 DEF IInv

(* IInv is kept by a step that changes nothing. *)
LEMMA StutterKeeps == IInv /\ UNCHANGED vars => IInv'
BY DEF vars, IInv, TypeOK, SessionAt,
       LastPower, Granted, AgentOnly, HolderIsActive, HoldersAreHuman,
       QuarantineExcludesControl, QuarantineExact, PriorRemembers,
       ReservationIsWaiter, NoReservationWhenDraining

(* IInv is inductive: every critical section of the registry keeps it. *)
LEMMA NextKeeps == IInv /\ [Next]_vars => IInv'
<1> SUFFICES ASSUME IInv, [Next]_vars PROVE IInv'
  OBVIOUS
<1>1. CASE UNCHANGED vars
  BY <1>1, StutterKeeps
<1>2. ASSUME NEW s \in Sessions,
             \/ AcquireFree(s) \/ AcquireTakeover(s)
             \/ TakeoverWake(s) \/ TakeoverResolve(s)
             \/ Disconnect(s) \/ EndSession(s)
      PROVE  IInv'
  BY <1>2, AcquireFreeKeeps, AcquireTakeoverKeeps, TakeoverWakeKeeps, TakeoverResolveKeeps, DisconnectKeeps, EndSessionKeeps
<1>3. CASE AcquireAgent \/ TouchAgent
  BY <1>3, AcquireAgentKeeps, TouchAgentKeeps
<1>4. ASSUME NEW g \in 1..MaxGeneration,
             IdlePastTTL(g) \/ ExpireDecide(g) \/ ExpireRelease(g)
      PROVE  IInv'
  BY <1>4, IdlePastTTLKeeps, ExpireDecideKeeps, ExpireReleaseKeeps
<1>5. ASSUME NEW r \in Releasers, ReleaseAgentRead(r) \/ ReleaseAgentWrite(r)
      PROVE  IInv'
  BY <1>5, ReleaseAgentReadKeeps, ReleaseAgentWriteKeeps
<1>6. ASSUME NEW p \in PowerCalls, NEW a \in {"start", "stop"}, BeginPower(p, a)
      PROVE  IInv'
  BY <1>6, BeginPowerKeeps
<1>7. ASSUME NEW p \in PowerCalls, NEW o \in Outcomes, FinishPower(p, o)
      PROVE  IInv'
  BY <1>7, FinishPowerKeeps
<1>8. CASE RevokeAll \/ RevokeAllReturns
  BY <1>8, RevokeAllKeeps, RevokeAllReturnsKeeps
<1> QED
  BY <1>1, <1>2, <1>3, <1>4, <1>5, <1>6, <1>7, <1>8 DEF Next

(* The inductive invariant holds of every reachable state of the registry. *)
THEOREM Invariance == Spec => []IInv
BY InitEstablishes, NextKeeps, PTL DEF Spec

-----------------------------------------------------------------------------
(* What follows *)

(* Every reachable state of the registry is well typed. *)
THEOREM TypeCorrectness == Spec => []TypeOK
<1>1. IInv => TypeOK
  BY DEF IInv
<1> QED  BY <1>1, Invariance, PTL

(* Mutual exclusion of input (release compares controllers): whoever holds  *)
(* a console request's lease is the one active controller.                  *)
THEOREM MutualExclusion == Spec => []HolderIsActive
<1>1. IInv => HolderIsActive
  BY DEF IInv
<1> QED  BY <1>1, Invariance, PTL

(* beginPower and finishPower: no lease and no takeover coexist with a      *)
(* power operation or with the quarantine it left.                          *)
THEOREM QuarantineHolds == Spec => []QuarantineExcludesControl
<1>1. IInv => QuarantineExcludesControl
  BY DEF IInv
<1> QED  BY <1>1, Invariance, PTL

(* finishPower: the quarantine is there exactly when it has a cause. *)
THEOREM QuarantineIsExact == Spec => []QuarantineExact
<1>1. IInv => QuarantineExact
  BY DEF IInv
<1> QED  BY <1>1, Invariance, PTL

(* acquire: the reservation and the request in its takeover go together. *)
THEOREM ReservationsAreWaiters == Spec => []ReservationIsWaiter
<1>1. IInv => ReservationIsWaiter
  BY DEF IInv
<1> QED  BY <1>1, Invariance, PTL

(* revokeAll: nothing is granted once it has run. *)
THEOREM DrainingGrantsNothing == Spec => NoGrantAfterDrain
<1>1. IInv /\ [Next]_vars => [draining => generation' = generation]_vars
  <2> SUFFICES ASSUME IInv, Next, draining PROVE generation' = generation
    OBVIOUS
  <2>1. ASSUME NEW s \in Sessions, TakeoverResolve(s)
        PROVE  generation' = generation
    BY <2>1 DEF IInv, NoReservationWhenDraining, TakeoverResolve, TakeoverWins
  <2> QED
    BY <2>1, Zenon DEF Next, AcquireFree, AcquireTakeover, TakeoverWake, Disconnect, EndSession, AcquireAgent, Free, TouchAgent,
       IdlePastTTL, ExpireDecide, ExpireRelease, ReleaseAgentRead,
       ReleaseAgentWrite, BeginPower, FinishPower, RevokeAll, RevokeAllReturns
<1> QED  BY <1>1, Invariance, PTL DEF Spec, NoGrantAfterDrain

(* A release by anyone but a console request leaves a human controller      *)
(* alone: release(g) of a g that is not human keeps HumanActive's lease.    *)
LEMMA AgentReleaseSparesHuman ==
  ASSUME IInv, NEW g, g \notin human, release(g)
  PROVE  /\ active' \in {0, active}
         /\ HumanActive => active' = active
BY DEF release, HumanActive

(* Input is handed over through nobody, under a new generation, and a       *)
(* human's lease ends only with its own request.                            *)
THEOREM HandoverIsExplicit == Spec => ExplicitHandover
<1> DEFINE Step ==
      /\ active # 0 /\ active' # active => active' = 0
      /\ active' # active /\ active' # 0 => active' > generation
      /\ HumanActive /\ active' # active =>
           \E s \in Sessions : sessionLease[s] = active /\ sessionAt'[s] = "idle"
<1>1. IInv /\ [Next]_vars => [Step]_vars
  <2> SUFFICES ASSUME IInv, Next PROVE Step
    OBVIOUS
  <2>1. active \in Nat /\ generation \in Nat
    BY DEF IInv, TypeOK, Granted
  <2>2. ASSUME NEW s \in Sessions, AcquireFree(s) PROVE Step
    BY <2>1, <2>2 DEF AcquireFree, Free, grantLocked, HumanActive
  <2>3. ASSUME NEW s \in Sessions, TakeoverResolve(s) PROVE Step
    BY <2>1, <2>3 DEF TakeoverResolve, TakeoverWins, grantLocked, HumanActive
  <2>4. ASSUME NEW s \in Sessions, EndSession(s) PROVE Step
    BY <2>4, Zenon DEF EndSession, release, IInv, TypeOK, HolderIsActive
  <2>5. CASE AcquireAgent
    BY <2>1, <2>5 DEF AcquireAgent, Free, grantLocked, HumanActive
  <2>6. ASSUME NEW g \in 1..MaxGeneration, ExpireRelease(g) PROVE Step
    BY <2>6, AgentReleaseSparesHuman, Zenon DEF ExpireRelease, IInv, AgentOnly
  <2>7. ASSUME NEW r \in Releasers, ReleaseAgentWrite(r) PROVE Step
    BY <2>7, AgentReleaseSparesHuman DEF ReleaseAgentWrite, IInv, AgentOnly
  <2>8. ASSUME UNCHANGED active PROVE Step
    BY <2>8
  <2> QED
    BY <2>2, <2>3, <2>4, <2>5, <2>6, <2>7, <2>8, Zenon
    DEF Next, AcquireTakeover, TakeoverWake, Disconnect,
        TouchAgent, IdlePastTTL, ExpireDecide, ReleaseAgentRead, BeginPower,
        FinishPower, RevokeAll, RevokeAllReturns
<1> QED  BY <1>1, Invariance, PTL DEF Spec, ExplicitHandover

-----------------------------------------------------------------------------
(* Refinement *)

(* A lease that ends is an End of InputLease or invisible to it. *)
LEMMA ReleaseIsEnd ==
  ASSUME IInv, NEW g, release(g), UNCHANGED <<generation, blocked, draining, human>>
  PROVE  Lease!End \/ UNCHANGED Lease!leaseVars
<1>1. CASE active = g /\ active # 0
  BY <1>1 DEF release, Holder, Lease!End
<1>2. CASE active # g \/ active = 0
  BY <1>2 DEF release, Holder, Lease!leaseVars
<1> QED  BY <1>1, <1>2

(* A grant, to a free desktop that is not quarantined and not draining, is  *)
(* a Grant of InputLease.                                                   *)
LEMMA GrantIsGrant ==
  ASSUME IInv, grantLocked, active = 0, ~blocked, ~draining,
         UNCHANGED <<blocked, draining>>,
         human' \in {human, human \cup {generation + 1}}
  PROVE  \E party \in {"human", "agent"} : Lease!Grant(party)
<1>1. generation \in Nat /\ generation + 1 \notin human /\ generation + 1 # 0
  BY DEF IInv, TypeOK, Granted
<1>2. CASE human' = human
  BY <1>1, <1>2 DEF grantLocked, Holder, Lease!Grant
<1>3. CASE human' = human \cup {generation + 1}
  BY <1>1, <1>3, Zenon DEF grantLocked, Holder, Lease!Grant
<1> QED  BY <1>2, <1>3, Zenon

(* Every step of the registry is a step of InputLease or invisible to it. *)
LEMMA StepSimulation == IInv /\ [Next]_vars => [Lease!Next]_(Lease!leaseVars)
<1> SUFFICES ASSUME IInv, [Next]_vars
             PROVE  Lease!Next \/ UNCHANGED Lease!leaseVars
  OBVIOUS
<1>1. ASSUME UNCHANGED <<active, generation, blocked, draining, human>>
      PROVE  UNCHANGED Lease!leaseVars
  BY <1>1, Zenon DEF Lease!leaseVars, Holder
<1>2. ASSUME NEW s \in Sessions, AcquireFree(s) PROVE Lease!Next
  BY <1>2, GrantIsGrant DEF AcquireFree, Free, grantLocked, Lease!Next
<1>3. ASSUME NEW s \in Sessions, TakeoverResolve(s)
      PROVE  Lease!Next \/ UNCHANGED Lease!leaseVars
  <2>1. CASE TakeoverWins(s)
    BY <1>3, <2>1, GrantIsGrant, Zenon DEF TakeoverResolve, TakeoverWins, grantLocked,
       IInv, NoReservationWhenDraining, Lease!Next
  <2>2. CASE ~TakeoverWins(s)
    BY <1>1, <1>3, <2>2 DEF TakeoverResolve
  <2> QED  BY <2>1, <2>2, Zenon
<1>4. ASSUME NEW s \in Sessions, EndSession(s)
      PROVE  Lease!Next \/ UNCHANGED Lease!leaseVars
  BY <1>4, ReleaseIsEnd, Zenon DEF EndSession, Lease!Next
<1>5. ASSUME AcquireAgent PROVE Lease!Next
  BY <1>5, GrantIsGrant, Zenon DEF AcquireAgent, Free, Lease!Next
<1>6. ASSUME NEW g \in 1..MaxGeneration, ExpireRelease(g)
      PROVE  Lease!Next \/ UNCHANGED Lease!leaseVars
  BY <1>6, ReleaseIsEnd, Zenon DEF ExpireRelease, Lease!Next
<1>7. ASSUME NEW r \in Releasers, ReleaseAgentWrite(r)
      PROVE  Lease!Next \/ UNCHANGED Lease!leaseVars
  BY <1>7, ReleaseIsEnd DEF ReleaseAgentWrite, Lease!Next
<1>8. ASSUME NEW p \in PowerCalls, NEW a \in {"start", "stop"}, BeginPower(p, a)
      PROVE  Lease!Next
  <2>1. Lease!Withhold
    BY <1>8, Zenon DEF BeginPower, PowerAdmitted, Holder, Lease!Withhold
  <2> QED  BY <2>1, Zenon DEF Lease!Next
<1>9. ASSUME NEW p \in PowerCalls, NEW o \in Outcomes, FinishPower(p, o)
      PROVE  Lease!Next \/ UNCHANGED Lease!leaseVars
  <2>1. /\ blocked /\ active = 0
        /\ UNCHANGED <<active, generation, draining, human>>
        /\ blocked' = BlockedAfter(p, o)
    BY <1>9 DEF FinishPower, IInv, QuarantineExcludesControl
  <2>2. CASE draining
    BY <1>1, <2>1, <2>2, Zenon DEF BlockedAfter, IInv, TypeOK
  <2>3. CASE ~draining /\ blocked' = blocked
    BY <1>1, <2>1, <2>3
  <2>4. CASE ~draining /\ blocked' # blocked
    <3>1. BlockedAfter(p, o) \in BOOLEAN
      BY <2>4, Zenon DEF BlockedAfter, Outcomes, IInv, TypeOK
    <3>2. Lease!Lift
      BY <2>1, <2>4, <3>1, Zenon DEF Holder, Lease!Lift
    <3> QED  BY <3>2 DEF Lease!Next
  <2> QED  BY <2>2, <2>3, <2>4 DEF IInv, TypeOK
<1>10. ASSUME RevokeAll PROVE Lease!Next
  <2>1. Lease!Close
    BY <1>10, Zenon DEF RevokeAll, Holder, Lease!Close, IInv, TypeOK
  <2> QED  BY <2>1 DEF Lease!Next
<1> QED
  BY <1>1, <1>2, <1>3, <1>4, <1>5, <1>6, <1>7, <1>8, <1>9, <1>10, Zenon
  DEF Next, AcquireTakeover, TakeoverWake, Disconnect,
      TouchAgent, IdlePastTTL, ExpireDecide, ReleaseAgentRead, RevokeAllReturns,
      vars

(* The registry implements InputLease, for any number of callers. *)
THEOREM Implementation == Spec => ImplementsLease
<1>1. Init => Lease!Init
  BY Zenon DEF Init, Holder, Lease!Init
<1> QED
  BY <1>1, StepSimulation, Invariance, PTL DEF Spec, ImplementsLease, Lease!Spec

-----------------------------------------------------------------------------
(* The agent's calls beside the registry *)

(* Until the Gateway forwards a call the guest knows nothing of it.         *)
NotForwarded ==
  \A c \in Calls : gatewayAt[c] \in {"idle", "admitted", "touched"} =>
    guestAt[c] = "absent" /\ applied[c] = 0

(* The guest validates the whole batch before it applies anything.          *)
ValidatedFirst ==
  \A c \in Calls : guestAt[c] \in {"queued", "refused"} => applied[c] = 0

CallInv ==
  /\ CallTypeOK /\ NotForwarded /\ ValidatedFirst
  /\ AnswersAreTrue

(* No call has been made at the start. *)
LEMMA CallInitEstablishes == CallInit => CallInv
<1>1. NoAnswer \in Answers /\ 0 \in 0..BatchSize
  BY BatchSizeAssumption DEF NoAnswer, Answers
<1> QED
  BY <1>1 DEF CallInit, CallInv, CallTypeOK, NotForwarded, ValidatedFirst,
     AnswersAreTrue

(* Answer writes the answer and the place of one call. *)
LEMMA AnswerTypes ==
  ASSUME CallTypeOK, NEW c \in Calls, NEW o \in {"Refused", "Applied", "Partial", "UnknownOutcome"},
         NEW n \in 0..BatchSize, Answer(c, o, n)
  PROVE  /\ answer' \in [Calls -> Answers]
         /\ gatewayAt' \in [Calls -> {"idle", "admitted", "touched", "waiting", "answered"}]
         /\ answer'[c].outcome = o /\ answer'[c].completed = n /\ gatewayAt'[c] = "answered"
         /\ \A d \in Calls \ {c} : answer'[d] = answer[d] /\ gatewayAt'[d] = gatewayAt[d]
<1>1. [outcome |-> o, completed |-> n] \in Answers
  BY Zenon DEF Answers
<1> QED  BY <1>1 DEF Answer, CallTypeOK

(* The Gateway's half of a call up to its being forwarded. *)
LEMMA GatewayKeeps ==
  ASSUME CallInv, NEW c \in Calls,
         Admit(c) \/ Touch(c) \/ Forward(c) \/ BadBody(c) \/ GiveUp(c)
  PROVE  CallInv'
<1> USE BatchSizeAssumption DEF CallInv, CallTypeOK, NotForwarded, ValidatedFirst,
        AnswersAreTrue
<1>1. CASE Admit(c)
  <2>1. CASE AgentActive
    BY <1>1, <2>1 DEF Admit
  <2>2. CASE ~AgentActive
    BY <1>1, <2>2, AnswerTypes DEF Admit
  <2> QED  BY <2>1, <2>2, Zenon
<1>2. CASE Touch(c)
  BY <1>2, Zenon DEF Touch
<1>3. CASE Forward(c)
  BY <1>3 DEF Forward
<1>4. CASE BadBody(c)
  BY <1>4, AnswerTypes DEF BadBody
<1>5. CASE GiveUp(c)
  BY <1>5, AnswerTypes DEF GiveUp, UnknownAnswer
<1> QED  BY <1>1, <1>2, <1>3, <1>4, <1>5, Zenon

(* The guest's answer is passed on.  A refused batch applied nothing, an    *)
(* ended one exactly what is counted, and the guest is done with either.    *)
LEMMA RelayKeeps ==
  ASSUME CallInv, NEW c \in Calls, Relay(c)
  PROVE  CallInv'
<1> USE BatchSizeAssumption DEF CallInv, CallTypeOK, NotForwarded, ValidatedFirst,
        AnswersAreTrue
<1>1. CASE guestAt[c] = "refused" /\ Answer(c, "Refused", 0)
  BY <1>1, AnswerTypes DEF Relay
<1>2. CASE /\ guestAt[c] = "ended"
           /\ Answer(c, IF applied[c] = BatchSize THEN "Applied" ELSE "Partial", applied[c])
  BY <1>2, AnswerTypes DEF Relay
<1> QED  BY <1>1, <1>2, Zenon DEF Relay

(* The guest, one step at a time under its lock. *)
LEMMA GuestKeeps ==
  ASSUME CallInv, NEW c \in Calls,
         GuestTakes(c) \/ GuestApplies(c) \/ GuestEnds(c) \/ GuestDies(c)
  PROVE  CallInv'
<1> USE BatchSizeAssumption DEF CallInv, CallTypeOK, NotForwarded, ValidatedFirst,
        AnswersAreTrue
<1>1. CASE GuestTakes(c)
  BY <1>1 DEF GuestTakes, GuestLockFree, Prepare
<1>2. CASE GuestApplies(c)
  BY <1>2 DEF GuestApplies, MoreActions
<1>3. CASE GuestEnds(c)
  BY <1>3 DEF GuestEnds
<1>4. CASE GuestDies(c)
  BY <1>4 DEF GuestDies
<1> QED  BY <1>1, <1>2, <1>3, <1>4, Zenon

(* The plugin hears the answer or stops listening. *)
LEMMA PluginKeeps ==
  ASSUME CallInv, NEW c \in Calls, Hear(c) \/ LoseAnswer(c)
  PROVE  CallInv'
<1>1. CASE Hear(c)
  <2>1. heard' \in [Calls -> {"none", "Applied", "Partial", "UnknownOutcome", "thrown"}]
    BY <1>1, Zenon DEF Hear, CallInv, CallTypeOK, Answers
  <2> QED
    BY <1>1, <2>1 DEF Hear, CallInv, CallTypeOK, NotForwarded, ValidatedFirst,
       AnswersAreTrue
<1>2. CASE LoseAnswer(c)
  BY <1>2, Zenon DEF LoseAnswer, CallInv, CallTypeOK, NotForwarded, ValidatedFirst,
     AnswersAreTrue
<1> QED  BY <1>1, <1>2, Zenon

(* Every step of the composition keeps the invariant of the calls. *)
LEMMA CallNextKeeps == CallInv /\ [CallNext]_allVars => CallInv'
<1> SUFFICES ASSUME CallInv, [CallNext]_allVars PROVE CallInv'
  OBVIOUS
<1>1. CASE UNCHANGED callVars
  BY <1>1 DEF callVars, CallInv, CallTypeOK, NotForwarded, ValidatedFirst,
     AnswersAreTrue
<1> QED
  BY <1>1, GatewayKeeps, RelayKeeps, GuestKeeps, PluginKeeps, Zenon DEF CallNext, allVars

(* In every behaviour of registry and calls the invariant holds. *)
THEOREM CallInvariance == CallSpec => []CallInv
BY CallInitEstablishes, CallNextKeeps, PTL DEF CallSpec

(* What the Gateway answers is true of the desktop: a refusal means nothing *)
(* was or will be applied, Applied that all was, Partial that the count is  *)
(* exact, however many calls there are and whoever loses whom.              *)
THEOREM AnswersHold == CallSpec => []AnswersAreTrue
<1>1. CallInv => AnswersAreTrue
  BY DEF CallInv
<1> QED  BY <1>1, CallInvariance, PTL

(* Calls use the registry only as InputControl allows: a behaviour of the   *)
(* composition is one of the registry, so every theorem about the registry  *)
(* holds while calls are under way.                                         *)
THEOREM CallsKeepRegistry == CallSpec => Spec
<1>1. CallInit => Init
  BY Zenon DEF CallInit
<1>2. [CallNext]_allVars => [Next]_vars
  <2> SUFFICES ASSUME [CallNext]_allVars PROVE Next \/ UNCHANGED vars
    OBVIOUS
  <2>1. ASSUME NEW c \in Calls, Touch(c) PROVE Next \/ UNCHANGED vars
    BY <2>1 DEF Touch, Next
  <2> QED
    BY <2>1, Zenon DEF CallNext, allVars, Admit, Forward, BadBody, Relay, GiveUp, GuestTakes,
       GuestApplies, GuestEnds, GuestDies, Hear, LoseAnswer
<1> QED  BY <1>1, <1>2, PTL DEF CallSpec, Spec

=============================================================================
