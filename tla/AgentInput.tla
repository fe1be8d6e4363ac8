------------------------------ MODULE AgentInput ------------------------------
(***************************************************************************)
(* One agent tool call on its way to the desktop, beside the registry that *)
(* decides who may send input: the plugin's request (index.ts), the        *)
(* Gateway handler that checks the lease and proxies it (gateway.go), and  *)
(* the Guest Desktop Agent that applies it (desktop_agent.py).             *)
(*                                                                         *)
(* The registry is all of InputControl.  A call is a batch of BatchSize    *)
(* actions (a launch is a batch of one); its payload is abstracted to      *)
(* whether the guest's validation accepts it.                              *)
(***************************************************************************)
EXTENDS InputControl

CONSTANTS
  Calls,      \* the agent's tool calls, desktop_act or desktop_launch
  BatchSize   \* actions in a batch

ASSUME BatchSizeAssumption == BatchSize \in Nat \ {0}

VARIABLES
  gatewayAt,  \* where handleAgentAction is, for each call
  guestAt,    \* where the guest's request handler is, for each call
  applied,    \* how many actions of each call have reached the desktop
  answer,     \* what the Gateway answered each call
  heard       \* how the call ended for the plugin

callVars == <<gatewayAt, guestAt, applied, answer, heard>>
allVars  == <<vars, callVars>>

(* An answer: its outcome, and the completedActions it reports. *)
Answers == [outcome : {"none", "Refused", "Applied", "Partial", "UnknownOutcome"},
            completed : 0..BatchSize]
NoAnswer == [outcome |-> "none", completed |-> 0]

(* Types of the state that the calls add; no batch applies more actions     *)
(* than it has.                                                             *)
CallTypeOK ==
  /\ gatewayAt \in [Calls -> {"idle", "admitted", "touched", "waiting", "answered"}]
  /\ guestAt \in [Calls -> {"absent", "queued", "applying", "refused", "ended"}]
  /\ applied \in [Calls -> 0..BatchSize]
  /\ answer \in [Calls -> Answers]
  /\ heard \in [Calls -> {"none", "Applied", "Partial", "UnknownOutcome", "thrown"}]

CallInit ==
  /\ Init
  /\ gatewayAt = [c \in Calls |-> "idle"]
  /\ guestAt = [c \in Calls |-> "absent"]
  /\ applied = [c \in Calls |-> 0]
  /\ answer = [c \in Calls |-> NoAnswer]
  /\ heard = [c \in Calls |-> "none"]

-----------------------------------------------------------------------------
(* The Gateway: handleAgentAction and proxyGuestAgent *)

Answer(c, outcome, completed) ==
  /\ answer' = [answer EXCEPT ![c] = [outcome |-> outcome, completed |-> completed]]
  /\ gatewayAt' = [gatewayAt EXCEPT ![c] = "answered"]

(* The status check: an agent holds input, or the call is refused.  The     *)
(* request may arrive after the plugin stopped waiting for it.              *)
Admit(c) ==
  /\ gatewayAt[c] = "idle"
  /\ IF AgentActive
     THEN gatewayAt' = [gatewayAt EXCEPT ![c] = "admitted"] /\ UNCHANGED answer
     ELSE Answer(c, "Refused", 0)
  /\ UNCHANGED <<vars, guestAt, applied, heard>>

(* touchAgent, under a lock of its own: the lease may have changed hands    *)
(* since the check, and then another one is touched, or none.               *)
Touch(c) ==
  /\ gatewayAt[c] = "admitted"
  /\ gatewayAt' = [gatewayAt EXCEPT ![c] = "touched"]
  /\ TouchAgent \/ (~AgentActive /\ UNCHANGED vars)
  /\ UNCHANGED <<guestAt, applied, answer, heard>>

(* The body is read and sent on to the guest, where a thread takes it up.   *)
Forward(c) ==
  /\ gatewayAt[c] = "touched"
  /\ gatewayAt' = [gatewayAt EXCEPT ![c] = "waiting"]
  /\ guestAt' = [guestAt EXCEPT ![c] = "queued"]
  /\ UNCHANGED <<vars, applied, answer, heard>>

(* The body cannot be read: a 400, and the guest is never contacted.        *)
BadBody(c) ==
  /\ gatewayAt[c] = "touched"
  /\ Answer(c, "Refused", 0)
  /\ UNCHANGED <<vars, guestAt, applied, heard>>

(* The guest's status and body are passed on as they are.                   *)
Relay(c) ==
  /\ gatewayAt[c] = "waiting"
  /\ \/ guestAt[c] = "refused" /\ Answer(c, "Refused", 0)
     \/ /\ guestAt[c] = "ended"
        /\ Answer(c, IF applied[c] = BatchSize THEN "Applied" ELSE "Partial", applied[c])
  /\ guestAt' = [guestAt EXCEPT ![c] = "absent"]
  /\ UNCHANGED <<vars, applied, heard>>

(* What the Gateway writes itself when it stops waiting. *)
UnknownAnswer(c) == Answer(c, "UnknownOutcome", 0)

(* The guest cannot be reached, does not answer within guestAgentTimeout,   *)
(* or the plugin's request ended.  Nothing tells the guest to stop.         *)
GiveUp(c) ==
  /\ gatewayAt[c] \in {"touched", "waiting"}
  /\ UnknownAnswer(c)
  /\ UNCHANGED <<vars, guestAt, applied, heard>>

-----------------------------------------------------------------------------
(* The guest: one request at a time under agent.lock *)

(* with agent.lock *)
GuestLockFree(c) == \A d \in Calls : guestAt[d] # "applying"

ValidateAsYouGoMutant(c) ==
  \/ guestAt' = [guestAt EXCEPT ![c] = "refused"] /\ UNCHANGED applied
  \/ guestAt' = [guestAt EXCEPT ![c] = "refused"] /\ applied' = [applied EXCEPT ![c] = 1]
  \/ guestAt' = [guestAt EXCEPT ![c] = "applying"] /\ UNCHANGED applied

(* action_batch prepares every action before it applies the first one; a    *)
(* batch that does not validate, like a launch that fails, is an error with *)
(* no outcome.                                                              *)
Prepare(c) ==
  /\ \E verdict \in {"refused", "applying"} : guestAt' = [guestAt EXCEPT ![c] = verdict]
  /\ UNCHANGED applied

GuestTakes(c) ==
  /\ guestAt[c] = "queued"
  /\ GuestLockFree(c)
  /\ Prepare(c)
  /\ UNCHANGED <<vars, gatewayAt, answer, heard>>

MoreActions(c) == applied[c] < BatchSize

(* One iteration of the loop over the prepared actions. *)
GuestApplies(c) ==
  /\ guestAt[c] = "applying" /\ MoreActions(c)
  /\ applied' = [applied EXCEPT ![c] = @ + 1]
  /\ UNCHANGED <<vars, gatewayAt, guestAt, answer, heard>>

(* The loop is over, or an action failed and the rest is abandoned.         *)
GuestEnds(c) ==
  /\ guestAt[c] = "applying"
  /\ guestAt' = [guestAt EXCEPT ![c] = "ended"]
  /\ UNCHANGED <<vars, gatewayAt, applied, answer, heard>>

(* The guest's process or its VM stops: what has not been applied never is, *)
(* and no answer comes.                                                     *)
GuestDies(c) ==
  /\ guestAt[c] # "absent"
  /\ guestAt' = [guestAt EXCEPT ![c] = "absent"]
  /\ UNCHANGED <<vars, gatewayAt, applied, answer, heard>>

-----------------------------------------------------------------------------
(* The plugin: gatewayJSON around desktop_act and handleActionFailure *)

(* The answer arrives: a result, or an HTTP error that is thrown.           *)
Hear(c) ==
  /\ gatewayAt[c] = "answered" /\ heard[c] = "none"
  /\ heard' = [heard EXCEPT ![c] = IF answer[c].outcome = "Refused"
                                   THEN "thrown" ELSE answer[c].outcome]
  /\ UNCHANGED <<vars, gatewayAt, guestAt, applied, answer>>

(* fetch rejects, because GATEWAY_BATCH_TIMEOUT_MS, shorter than the        *)
(* Gateway's own timeout, has passed, the tool call or its lease is         *)
(* aborted, or the connection broke; handleActionFailure throws that too.   *)
LoseAnswer(c) ==
  /\ heard[c] = "none"
  /\ heard' = [heard EXCEPT ![c] = "thrown"]
  /\ UNCHANGED <<vars, gatewayAt, guestAt, applied, answer>>

CallNext ==
  \/ Next /\ UNCHANGED callVars
  \/ \E c \in Calls :
       \/ Admit(c) \/ Touch(c) \/ Forward(c) \/ BadBody(c) \/ Relay(c) \/ GiveUp(c)
       \/ GuestTakes(c) \/ GuestApplies(c) \/ GuestEnds(c) \/ GuestDies(c)
       \/ Hear(c) \/ LoseAnswer(c)

CallSpec == CallInit /\ [][CallNext]_allVars

-----------------------------------------------------------------------------
(* An error answered without an outcome means nothing was applied and       *)
(* nothing will be, Applied means everything was and Partial means exactly  *)
(* the count it reports: the contract proxyGuestAgent and action_batch      *)
(* state, over every way the three processes can lose each other.           *)
AnswersAreTrue ==
  \A c \in Calls : gatewayAt[c] = "answered" =>
    /\ answer[c].outcome = "Refused" => applied[c] = 0 /\ guestAt[c] = "absent"
    /\ answer[c].outcome = "Applied" => applied[c] = BatchSize
    /\ answer[c].outcome = "Partial" => /\ applied[c] = answer[c].completed
                                        /\ guestAt[c] = "absent"

=============================================================================
