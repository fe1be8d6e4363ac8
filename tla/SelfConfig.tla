------------------------------ MODULE SelfConfig ------------------------------
(***************************************************************************)
(* How the status of an Instance is written: the relay's config watcher    *)
(* (internal/relay/config.go, clientConfigObserver in cmd/relay) records   *)
(* the agent's configuration in status.selfConfig, the Instance controller *)
(* projects it onto the SelfConfigCompliant condition, and the other       *)
(* controllers put their own conditions into the same array.  All of them  *)
(* write with JSON merge patches that carry no resourceVersion: a patch    *)
(* names the fields in which the writer's object differs from the one it   *)
(* read, and an array is one field.                                        *)
(*                                                                         *)
(* A configuration document stands for its own digest.                     *)
(***************************************************************************)
EXTENDS Naturals

CONSTANTS
  Keys,        \* the top-level keys of typeclaw.json
  Protected,   \* spec.selfConfig.protectedPaths
  Others,      \* the other controllers that own a condition of the Instance
  MaxChanges,  \* bound on configuration edits and changes of what others report
  MaxFaults    \* bound on status patches that fail

ASSUME SelfConfigAssumption ==
  /\ Protected \subseteq Keys /\ "instance" \notin Others
  /\ MaxChanges \in Nat /\ MaxFaults \in Nat

Documents   == [Keys -> {0, 1}]
Controllers == Others \cup {"instance"}

VARIABLES
  config,   \* the agent's typeclaw.json
  changes,  \* how often it, or what others report, has changed
  last,     \* lastDigest and lastValues of the watcher: {} is empty
  breach,   \* history: a protected key differs from the sighting before
  copy,     \* status.selfConfig in the watcher's Instance
  faults,   \* how many of the watcher's patches have failed
  failed,   \* history: a patch of the running relay has failed
  truth,    \* what each of the other controllers has to report
  server,   \* the Instance's status in the API server
  news,     \* the server holds a version that the cache has not seen
  cache,    \* the status in the manager's informer cache
  queue,    \* the controllers with the Instance in their workqueue
  base      \* the status each reconcile in progress has read

relay   == <<config, changes, last, breach, copy, faults, failed>>
manager == <<truth, news, cache, queue, base>>
vars    == <<relay, manager, server>>

SelfConfigStatus ==
  [digest : SUBSET Documents, revision : Nat, violation : BOOLEAN]

Conditions == [Controllers -> BOOLEAN]

(* What a controller reads of the status. *)
Views == [violation : BOOLEAN, conditions : Conditions]

Unset == [digest |-> {}, revision |-> 0, violation |-> FALSE]

(* Types; a reconcile in progress has one base. *)
TypeOK ==
  /\ config \in Documents /\ changes \in 0..MaxChanges /\ faults \in 0..MaxFaults
  /\ last \subseteq Documents
  /\ breach \in BOOLEAN /\ failed \in BOOLEAN /\ copy \in SelfConfigStatus
  /\ truth \in [Others -> BOOLEAN] 
  /\ server.selfConfig \in SelfConfigStatus /\ server.conditions \in Conditions
  /\ news \in BOOLEAN /\ cache \in Views /\ queue \subseteq Controllers
  /\ \A c \in Controllers : base[c] \subseteq Views /\ \A s, t \in base[c] : s = t

View == [violation |-> server.selfConfig.violation, conditions |-> server.conditions]

(* The Pod is new; the controllers have reported and are idle. *)
Init ==
  /\ config = [k \in Keys |-> 0] /\ changes = 0 /\ last = {}
  /\ breach = FALSE /\ copy = Unset /\ faults = 0 /\ failed = FALSE
  /\ truth = [c \in Others |-> FALSE]
  /\ server = [selfConfig |-> Unset, conditions |-> [c \in Controllers |-> c = "instance"]]
  /\ news = FALSE /\ cache = View /\ queue = {} /\ base = [c \in Controllers |-> {}]

-----------------------------------------------------------------------------
(* The runtime and the relay.  The observation document follows the         *)
(* configuration, so that a poll sees the last of the changes since the one *)
(* before; a poll that finds no document yet does nothing.                  *)

Edit ==
  /\ changes < MaxChanges
  /\ \E k \in Keys : config' = [config EXCEPT ![k] = 1 - @]
  /\ changes' = changes + 1
  /\ UNCHANGED <<last, breach, copy, faults, failed, manager, server>>

(* Mutant: a key that goes away is no change. *)
changedKeysMutant(old, new) == {k \in Keys : old[k] < new[k]}

(* An absent key is a value like any other. *)
changedKeys(old, new) == {k \in Keys : old[k] # new[k]}

currentRevision == copy.revision

(* The observation pollOnce makes of the document it read. *)
Observation(doc) ==
  LET changed == UNION {changedKeys(old, doc) : old \in last}
  IN IF last = {}
     THEN [Unset EXCEPT !.digest = {doc}]
     ELSE [digest |-> {doc}, revision |-> currentRevision + 1,
           violation |-> changed \cap Protected # {}]

(* client.MergeFrom: of the fields, those that differ from the base. *)
Merge(target, from, to) == [f \in DOMAIN target |-> IF to[f] # from[f] THEN to[f] ELSE target[f]]

Patched(obs) == [server EXCEPT !.selfConfig = Merge(@, copy, obs)]

(* Mutant: only the baseline is observed. *)
UnseenMutant == last = {}

(* A document that is the one last committed is no news. *)
Unseen == last # {config}

(* pollOnce and Observe.  The server's answer replaces the watcher's        *)
(* Instance, and the watcher commits what it saw.                           *)
Observe ==
  /\ Unseen
  /\ server' = Patched(Observation(config)) /\ news' = TRUE
  /\ last' = {config} /\ copy' = server'.selfConfig
  /\ breach' = \E old \in last, k \in Protected : old[k] # config[k]
  /\ UNCHANGED <<config, changes, faults, failed, truth, cache, queue, base>>

(* The patch fails, before or after the server has applied it.  Observe has *)
(* changed the Instance by then, and nothing changes it back.               *)
ObserveFails ==
  /\ Unseen
  /\ faults < MaxFaults /\ faults' = faults + 1 /\ failed' = TRUE
  /\ \/ server' = Patched(Observation(config)) /\ news' = TRUE
     \/ UNCHANGED <<server, news>>
  /\ copy' = Observation(config)
  /\ UNCHANGED <<config, changes, last, breach, truth, cache, queue, base>>

(* The relay, alone or with its Pod, is replaced; it reads the Instance     *)
(* when it starts.                                                          *)
Restart ==
  /\ last' = {} /\ breach' = FALSE /\ copy' = server.selfConfig /\ failed' = FALSE
  /\ UNCHANGED <<config, changes, faults, manager, server>>

-----------------------------------------------------------------------------
(* The controllers.  They share one cache and run one reconcile each.       *)

(* A Job, a StatefulSet or a Deployment changes, and its owner hears of it. *)
Turn(c) ==
  /\ changes < MaxChanges /\ changes' = changes + 1
  /\ truth' = [truth EXCEPT ![c] = ~@]
  /\ queue' = queue \cup {c}
  /\ UNCHANGED <<config, last, breach, copy, faults, failed, server, news, cache, base>>

(* Mutant: an event that changes conditions wakes nobody. *)
WokenMutant == IF cache.conditions # server.conditions THEN {} ELSE Controllers

(* For(&TypeClawInstance{}) without a predicate: every event of the         *)
(* Instance wakes all of them, status changes included.                     *)
Woken == Controllers

Sync ==
  /\ news /\ news' = FALSE
  /\ cache' = View
  /\ queue' = queue \cup Woken
  /\ UNCHANGED <<relay, server, truth, base>>

(* One reconcile per controller at a time. *)
Read(c) ==
  /\ c \in queue /\ base[c] = {}
  /\ base' = [base EXCEPT ![c] = {cache}]
  /\ queue' = queue \ {c}
  /\ UNCHANGED <<relay, server, truth, news, cache>>

(* SelfConfigCompliant, from the status the reconcile has read. *)
Projection(s) == ~s.violation

Report(c, s) == IF c = "instance" THEN Projection(s) ELSE truth[c]

(* setCondition and the status patch: the array goes out whole, as it was   *)
(* read but for the writer's own entry, and only if that entry changed.     *)
SetCondition(c) ==
  /\ \E s \in base[c] :
       LET conditions == [s.conditions EXCEPT ![c] = Report(c, s)]
       IN \/ /\ conditions # s.conditions
             /\ server' = [server EXCEPT !.conditions = conditions] /\ news' = TRUE
          \/ conditions = s.conditions /\ UNCHANGED <<server, news>>
  /\ base' = [base EXCEPT ![c] = {}]
  /\ UNCHANGED <<relay, truth, cache, queue>>

(* A patch that fails is retried by a fresh reconcile. *)
SetConditionFails(c) ==
  /\ base[c] # {}
  /\ base' = [base EXCEPT ![c] = {}]
  /\ queue' = queue \cup {c}
  /\ UNCHANGED <<relay, server, truth, news, cache>>

-----------------------------------------------------------------------------
Next ==
  \/ Edit \/ Observe \/ ObserveFails \/ Restart \/ Sync
  \/ \E c \in Others : Turn(c)
  \/ \E c \in Controllers : Read(c) \/ SetCondition(c) \/ SetConditionFails(c)

Spec == Init /\ [][Next]_vars

(* Some relay lives long enough to poll, the cache follows the server, and  *)
(* a controller works off its queue; a patch that keeps being sent goes     *)
(* through.                                                                 *)
Fairness ==
  /\ SF_vars(Observe) /\ WF_vars(Sync)
  /\ \A c \in Controllers : WF_vars(Read(c)) /\ SF_vars(SetCondition(c))

FairSpec == Spec /\ Fairness

-----------------------------------------------------------------------------
(* A relay none of whose patches has failed keeps status.selfConfig at its   *)
(* last sighting: its digest, and whether a protected key differs from the   *)
(* sighting before (pollOnce and Observe).  After a failed patch the retry   *)
(* is computed against the Instance that Observe has already changed, and    *)
(* leaves out what did not change since; the next relay puts that right.     *)
SightingIsRecorded ==
  \A d \in last : ~failed =>
    /\ server.selfConfig.digest = {d}
    /\ server.selfConfig.violation = breach

(* When the agent has stopped editing, status.selfConfig gets to the         *)
(* configuration it left, unless a patch of the relay then running fails     *)
(* (Run of the watcher).                                                     *)
ConfigIsSighted == <>[](server.selfConfig.digest = {config} \/ failed)

(* Controllers that overwrite each other's conditions from stale reads do    *)
(* not do so for ever: from some point on, every condition says what its     *)
(* owner has to say, SelfConfigCompliant follows status.selfConfig, and no   *)
(* patch takes either back (setCondition and the status patches).            *)
ConditionsSettle ==
  <>[](/\ \A c \in Others : server.conditions[c] = truth[c]
       /\ server.conditions["instance"] = ~server.selfConfig.violation)
==============================================================================
