--------------------------- MODULE PersonalDesktop ---------------------------
(***************************************************************************)
(* The Personal Desktop controller (internal/controller/                   *)
(* personaldesktop_controller.go) with the renderers it applies            *)
(* (internal/desktop) and the runtime's projection of the desktop          *)
(* (internal/resources/workload.go).                                       *)
(*                                                                         *)
(* One worker reconciles one TypeClawInstance.  A reconcile reads the      *)
(* Instance from the informer's cache and then calls the API server once   *)
(* per object, so it is modelled by the sequence of calls it has left to   *)
(* make.  Each call is a step of its own, and between two of them          *)
(* administrators edit the Instance, KubeVirt's API comes and goes, CDI    *)
(* fills the root disk, the guest boots and the Gateway's Pod starts.      *)
(*                                                                         *)
(* An object is a pair of a kind and a namespace.  Three kinds stand for   *)
(* the Gateway's objects: "access" for its Services, console Ingress and   *)
(* RBAC, "state" for the claim and the Serve config that its Pod mounts,   *)
(* "gateway" for the Deployment and its NetworkPolicy.  A token is a       *)
(* number: the guest keeps the one it found in its first-boot payload, the *)
(* Gateway presents the one it read when its Pod started.                  *)
(*                                                                         *)
(* Deleting marks an object.  A virtual machine and a disk then take their *)
(* time, and so does the Pod of a Deployment that is gone; an object that  *)
(* is marked keeps its name, and applying it changes nothing.              *)
(*                                                                         *)
(* The namespace and the adoption of a disk do not change during a         *)
(* behaviour, except that removing the personalDesktop block hides both.   *)
(* An Instance of the same name is created again only after the informer   *)
(* and garbage collection have finished with the previous one and what it  *)
(* deleted is gone.                                                        *)
(***************************************************************************)
EXTENDS Integers, Sequences, FiniteSets

CONSTANTS
    MaxEvents       \* edits, deletions, KubeVirt outages, failed calls, restarts

ASSUME BoundsAssumption == MaxEvents \in Nat

VARIABLES
    inst,       \* the Instance the API server holds
    cache,      \* the Instance the informer's cache holds
    due,        \* the work queue holds a request for the Instance
    run,        \* the reconcile underway, if any
    objs,       \* the desktop objects that exist and are not being deleted
    fading,     \* the kinds of those that are being deleted
    tokens,     \* the guest token in the token Secret, 0 when there is none
    payload,    \* the guest token in the first-boot payload
    disk,       \* the root disk: "absent", "blank" or "populated"
    booted,     \* the guest token on the disk, 0 before the first boot
    serving,    \* the guest token the Gateway Pod presents, 0 when it is down
    kubevirt,   \* discovery serves KubeVirt and CDI
    phase,      \* status.personalDesktop.phase
    events,     \* how often something was changed, failed or restarted
    stranded,   \* history: a cleanup could not reach what it should remove
    tokenless   \* history: a cleanup spared the disk and not its tokens

desktop == <<objs, fading, tokens, payload, disk, booted, serving>>
control == <<inst, cache, due, run, phase>>
history == <<stranded, tokenless>>
vars == <<desktop, control, kubevirt, events, history>>

Blocks == {"absent", "disabled", "enabled"}
Policies == {"Retain", "Delete"}
Payloads == {"cloudInit", "sysprep"}
Kinds ==
    Payloads \cup {"extension", "tokens", "mirror", "golden", "root", "vm", "access", "state", "gateway"}
Retained == {"tokens", "root", "golden"}
Slow == {"vm", "root"}
Phases == {"none", "Disabled", "Pending", "Provisioning", "Ready", "Degraded", "Deleting"}
Tokens == 0..4

(* What the API server stores of the Instance.  version is its            *)
(* resourceVersion as far as edits go; fit says whether the specification *)
(* passes Validate and the runtime loads extensions.                      *)
Instances ==
    [version: 0..MaxEvents, block: Blocks, away: BOOLEAN, adopted: BOOLEAN,
     policy: Policies, fit: {"ok", "invalid", "old"}, os: {"linux", "windows"},
     finalizer: BOOLEAN, life: {"live", "deleting", "gone"}]

Enabled(s) == s.block = "enabled"

Namespace(s) == IF s.block # "absent" /\ s.away THEN "desktop" ELSE "instance"

CrossNamespace(s) == Namespace(s) # "instance"

(* The object of a kind, by the names and namespaces the Instance derives. *)
Names(s, kind) == <<kind, IF kind \in {"extension", "mirror"} THEN "instance" ELSE Namespace(s)>>

Validate(s) == s.fit # "invalid"

RuntimeSupportsExtensions(s) == s.fit # "old"

desktopRetainsDisk(s) == s.block = "absent" \/ s.policy # "Delete"

(* Mutant: disabling follows the policy for deletions.                     *)
retainsMutant(s) == desktopRetainsDisk(s)

(* Disabling retains the disk; a deletion follows the declared policy.     *)
retains(s) == s.life = "live" \/ desktopRetainsDisk(s)

(* Mutant: the projection forgets the preconditions of the controller.     *)
desktopProjectedMutant(s) == Enabled(s)

(* Whether the runtime's Pod template, a function of the Instance, mounts  *)
(* the extension ConfigMap and the agent's token.                          *)
desktopProjected(s) == Enabled(s) /\ Validate(s) /\ RuntimeSupportsExtensions(s)

(* The first-boot payload of the selected guest and the one it replaces.   *)
Payload(s) == IF s.os = "windows" THEN "sysprep" ELSE "cloudInit"
OtherPayload(s) == CHOOSE k \in Payloads : k # Payload(s)

Init ==
    \E away, adopted \in BOOLEAN, policy \in Policies :
        /\ inst = [version |-> 0, block |-> "enabled", away |-> away, adopted |-> adopted,
                   policy |-> policy, fit |-> "ok", os |-> "linux",
                   finalizer |-> FALSE, life |-> "live"]
        /\ cache = inst
        /\ due = TRUE
        /\ run = {}
        /\ objs = {}
        /\ fading = {}
        /\ tokens = 0
        /\ payload = 0
        /\ disk = IF adopted THEN "populated" ELSE "absent"
        /\ booted = 0
        /\ serving = 0
        /\ kubevirt = TRUE
        /\ phase = "none"
        /\ events = 0
        /\ stranded = FALSE
        /\ tokenless = FALSE

-----------------------------------------------------------------------------
(* The environment: administrators, KubeVirt, CDI, the guest and the Pods. *)

Event == events < MaxEvents /\ events' = events + 1

(* An administrator edits the desktop block.  Withdrawing the Delete       *)
(* policy or the block during a deletion can spare a disk whose tokens are *)
(* gone.                                                                   *)
Edit ==
    /\ Event
    /\ inst.life # "gone"
    /\ \E s \in {[inst EXCEPT !.block = b] : b \in Blocks}
                \cup {[inst EXCEPT !.policy = p] : p \in Policies}
                \cup {[inst EXCEPT !.fit = f] : f \in {"ok", "invalid", "old"}}
                \cup {[inst EXCEPT !.os = o] : o \in {"linux", "windows"}} :
        /\ s # inst
        /\ inst' = [s EXCEPT !.version = events']
        /\ tokenless' = (tokenless \/ (~retains(inst) /\ retains(s)))
    /\ UNCHANGED <<desktop, cache, due, run, phase, kubevirt, stranded>>

(* The API server keeps a deleted Instance for as long as it has the       *)
(* finalizer.                                                              *)
Delete ==
    /\ Event
    /\ inst.life = "live"
    /\ inst' = [inst EXCEPT !.version = events',
                            !.life = IF inst.finalizer THEN "deleting" ELSE "gone"]
    /\ UNCHANGED <<desktop, cache, due, run, phase, kubevirt, history>>

(* Garbage collection removes what has an owner reference: ownDesktopObject *)
(* sets one on the objects of the Instance's namespace that are not        *)
(* retained.                                                               *)
Owned == {o \in objs : o[2] = "instance" /\ o[1] \notin Retained}

Collect ==
    /\ inst.life = "gone"
    /\ Owned # {}
    /\ objs' = objs \ Owned
    /\ fading' = fading \cup {o[1] : o \in {q \in Owned : q[1] \in Slow}}
    /\ payload' = IF \E o \in objs' : o[1] \in Payloads THEN payload ELSE 0
    /\ UNCHANGED <<tokens, disk, booted, serving, control, kubevirt, events, history>>

Exists(kind) == \E o \in objs : o[1] = kind

(* What was deleted goes: the Pod of a Deployment, the virtual machine, and *)
(* the disk after the virtual machine that uses it.                        *)
Vanish ==
    /\ \/ /\ serving # 0 /\ ~Exists("gateway")
          /\ serving' = 0
          /\ UNCHANGED <<fading, disk, booted>>
       \/ /\ "vm" \in fading
          /\ fading' = fading \ {"vm"}
          /\ UNCHANGED <<disk, booted, serving>>
       \/ /\ fading = {"root"}
          /\ fading' = {} /\ disk' = "absent" /\ booted' = 0
          /\ UNCHANGED serving
    /\ UNCHANGED <<objs, tokens, payload, control, kubevirt, events, history>>

Recreate ==
    /\ inst.life = "gone"
    /\ cache = inst
    /\ run = {}
    /\ Owned = {} /\ fading = {} /\ (serving # 0 => Exists("gateway"))
    /\ inst' = [inst EXCEPT !.block = "enabled", !.fit = "ok", !.life = "live"]
    /\ phase' = "none"
    /\ UNCHANGED <<desktop, cache, due, run, kubevirt, events, history>>

(* Discovery stops or starts to serve the virtualization kinds.            *)
Discover ==
    /\ Event
    /\ kubevirt' = ~kubevirt
    /\ UNCHANGED <<desktop, control, history>>

Populate ==
    /\ disk = "blank"
    /\ disk' = "populated"
    /\ UNCHANGED <<objs, fading, tokens, payload, booted, serving, control, kubevirt,
                   events, history>>

(* The first boot writes the payload's token to the disk, once.            *)
Boot ==
    /\ Exists("vm") \/ "vm" \in fading
    /\ disk = "populated"
    /\ payload # 0
    /\ booted = 0
    /\ booted' = payload
    /\ UNCHANGED <<objs, fading, tokens, payload, disk, serving, control, kubevirt,
                   events, history>>

(* The Pod waits for what it mounts.                                       *)
Serve ==
    /\ Exists("gateway") /\ Exists("state")
    /\ tokens # 0
    /\ serving = 0
    /\ serving' = tokens
    /\ UNCHANGED <<objs, fading, tokens, payload, disk, booted, control, kubevirt,
                   events, history>>

Sync ==
    /\ cache # inst
    /\ cache' = inst
    /\ due' = TRUE
    /\ UNCHANGED <<desktop, inst, run, phase, kubevirt, events, history>>

-----------------------------------------------------------------------------
(* The reconcile.  A call is a pair of a verb and its object.              *)

Credentials(s) ==
    << <<"finalize", "instance">>, <<"apply", "extension">>, <<"apply", "tokens">> >>
    \o (IF CrossNamespace(s) THEN << <<"apply", "mirror">> >> ELSE <<>>)

(* A disk is created once and never updated.                               *)
ensureDataVolume(kind) == << <<"create", kind>> >>

(* Mutant: the payload of the other guest is left behind.                  *)
applyGuestPayloadMutant(s) == << <<"apply", Payload(s)>> >>

applyGuestPayload(s) == << <<"apply", Payload(s)>>, <<"remove", OtherPayload(s)>> >>

applyGateway == << <<"apply", "access">>, <<"apply", "state">>, <<"apply", "gateway">> >>

applyDesktop(s) ==
    ensureDataVolume("golden")
    \o (IF s.adopted THEN <<>> ELSE ensureDataVolume("root"))
    \o applyGuestPayload(s)
    \o << <<"apply", "vm">> >>
    \o applyGateway
    \o << <<"publish", "observed">> >>

(* convergeDesktop's early returns, up to the lookup of KubeVirt.          *)
convergeDesktop(s) ==
    CASE ~Enabled(s) -> << <<"cleanup", "desktop">> >>
      [] Enabled(s) /\ ~Validate(s) -> << <<"publish", "Degraded">> >>
      [] Enabled(s) /\ ~RuntimeSupportsExtensions(s) -> << <<"publish", "Pending">> >>
      [] OTHER -> Credentials(s) \o << <<"require", "kubevirt">> >>

(* Publishing Deleting comes before the cleanup and may fail.              *)
deletingDesktop == << <<"publish", "Deleting">> >>

Reconcile(s) ==
    CASE s.life = "gone" -> <<>>
      [] s.life = "deleting" ->
            IF s.finalizer THEN deletingDesktop \o << <<"cleanup", "desktop">> >> ELSE <<>>
      [] s.life = "live" -> convergeDesktop(s)

(* desktopCleanup's list, in its order, for a decision about the disk.     *)
desktopCleanup(s, retainDisk) ==
    LET kinds == <<"gateway", "access", "cloudInit", "sysprep", "extension", "state">>
                 \o (IF CrossNamespace(s) THEN <<"mirror">> ELSE <<>>)
                 \o (IF kubevirt THEN <<"vm">> ELSE <<>>)
                 \o (IF retainDisk THEN <<>> ELSE <<"tokens">>)
                 \o (IF ~retainDisk /\ kubevirt /\ ~s.adopted THEN <<"root">> ELSE <<>>)
    IN  [i \in 1..Len(kinds) |-> <<"delete", kinds[i]>>]

(* Mutant: the finalizer is dropped before the objects are removed.        *)
DismantleMutant(s) ==
    << <<"unfinalize", "instance">> >> \o desktopCleanup(s, retains(s))
    \o (IF s.life = "live" THEN << <<"publish", "Disabled">> >> ELSE <<>>)

Dismantle(s) ==
    desktopCleanup(s, retains(s)) \o << <<"unfinalize", "instance">> >>
    \o (IF s.life = "live" THEN << <<"publish", "Disabled">> >> ELSE <<>>)

Continue(s, calls) == run' = IF calls = <<>> THEN {} ELSE {[seen |-> s, calls |-> calls]}

(* An enabled desktop is reconciled again after desktopRequeue.            *)
Start ==
    /\ run = {}
    /\ due \/ (cache.life = "live" /\ Enabled(cache))
    /\ due' = FALSE
    /\ Continue(cache, Reconcile(cache))
    /\ UNCHANGED <<desktop, inst, cache, phase, kubevirt, events, history>>

(* Mutant: a failed reconcile is not retried.                              *)
RetryMutant == run' = {} /\ due' = FALSE

(* A reconcile that returns an error goes back to the queue.               *)
Retry == run' = {} /\ due' = TRUE

(* Update is refused when the Instance changed since it was read.          *)
Finalizer(r, wanted, life) ==
    \/ /\ r.seen.finalizer = wanted
       /\ Continue(r.seen, Tail(r.calls))
       /\ UNCHANGED <<inst, due>>
    \/ /\ r.seen.finalizer # wanted
       /\ r.seen = inst
       /\ inst' = [inst EXCEPT !.finalizer = wanted, !.life = life]
       /\ Continue(inst', Tail(r.calls))
       /\ UNCHANGED due
    \/ /\ r.seen.finalizer # wanted
       /\ r.seen # inst
       /\ Retry
       /\ UNCHANGED inst

ensureDesktopFinalizer ==
    /\ \E r \in run :
        /\ Head(r.calls)[1] = "finalize"
        /\ Finalizer(r, TRUE, inst.life)
    /\ UNCHANGED <<desktop, cache, phase, kubevirt, events, history>>

dropDesktopFinalizer ==
    /\ \E r \in run :
        /\ Head(r.calls)[1] = "unfinalize"
        /\ Finalizer(r, FALSE, IF inst.life = "deleting" THEN "gone" ELSE inst.life)
    /\ UNCHANGED <<desktop, cache, phase, kubevirt, events, history>>

(* Mutant: the token is generated at every reconcile.                      *)
NewTokenSetMutant == CHOOSE t \in Tokens \ {0} : t \notin {tokens, payload, booted, serving}

(* NewTokenSet keeps the token that the Secret holds.                      *)
NewTokenSet == IF tokens # 0 THEN tokens ELSE CHOOSE t \in Tokens \ {0} : t \notin {payload, booted, serving}

(* applyDesktopObject, applyRetainedDesktopObject and ensureDataVolume.    *)
Apply ==
    /\ \E r \in run : LET kind == Head(r.calls)[2] IN
        /\ Head(r.calls)[1] \in {"apply", "create"}
        /\ objs' = IF kind \in fading THEN objs ELSE objs \cup {Names(r.seen, kind)}
        /\ tokens' = IF kind = "tokens" THEN NewTokenSet ELSE tokens
        /\ payload' = IF kind \in Payloads THEN tokens ELSE payload
        /\ disk' = IF kind = "root" /\ disk = "absent" THEN "blank" ELSE disk
        /\ Continue(r.seen, Tail(r.calls))
    /\ UNCHANGED <<fading, booted, serving, inst, cache, due, phase, kubevirt, events, history>>

(* deleteDesktopObject, and what goes with the object at once.             *)
Remove ==
    /\ \E r \in run : LET gone == Names(r.seen, Head(r.calls)[2]) IN
        /\ Head(r.calls)[1] \in {"delete", "remove"}
        /\ objs' = objs \ {gone}
        /\ fading' = IF gone \in objs /\ gone[1] \in Slow THEN fading \cup {gone[1]} ELSE fading
        /\ tokens' = IF gone \in objs /\ gone[1] = "tokens" THEN 0 ELSE tokens
        /\ payload' = IF \E o \in objs' : o[1] \in Payloads THEN payload ELSE 0
        /\ Continue(r.seen, Tail(r.calls))
    /\ UNCHANGED <<disk, booted, serving, inst, cache, due, phase, kubevirt, events, history>>

(* The virtualization kinds are looked up after the credentials are        *)
(* written, and at the start of a cleanup.                                 *)
kubeVirtAvailable ==
    /\ \E r \in run :
        /\ Head(r.calls)[1] = "require"
        /\ Continue(r.seen, IF kubevirt THEN applyDesktop(r.seen) ELSE << <<"publish", "Pending">> >>)
    /\ UNCHANGED <<desktop, inst, cache, due, phase, kubevirt, events, history>>

Cleanup ==
    /\ \E r \in run : LET s == r.seen IN
        /\ Head(r.calls)[1] = "cleanup"
        /\ Continue(s, Dismantle(s))
        /\ stranded' = (stranded \/ ~kubevirt \/ (s.block = "absent" /\ s.away))
        /\ tokenless' = (tokenless \/ (~retains(s) /\ (~kubevirt \/ s.adopted)))
    /\ UNCHANGED <<desktop, inst, cache, due, phase, kubevirt, events>>

(* Ready means that the Gateway serves and the root disk is populated.     *)
Observed == IF serving # 0 /\ disk = "populated" THEN "Ready" ELSE "Provisioning"

(* The status patch answers with the Instance the API server holds, which  *)
(* is the one a deletion goes on with.                                     *)
publishDesktop ==
    /\ \E r \in run : LET outcome == Head(r.calls)[2] IN
        /\ Head(r.calls)[1] = "publish"
        /\ \/ /\ inst.life # "gone"
              /\ phase' = IF outcome = "observed" THEN Observed ELSE outcome
              /\ Continue(inst, Tail(r.calls))
              /\ UNCHANGED due
           \/ /\ inst.life = "gone"
              /\ Continue(r.seen, Tail(r.calls))
              /\ due' = (r.seen.life = "live")
              /\ UNCHANGED phase
    /\ UNCHANGED <<desktop, inst, cache, kubevirt, events, history>>

-----------------------------------------------------------------------------
(* Faults.                                                                 *)

(* An object that cannot be applied is reported; a failed finalizer,       *)
(* removal or status call is retried; an unpublished deletion goes on.  A  *)
(* call that took effect and whose answer was lost is, for the objects, a  *)
(* call that succeeds before the next one fails.                           *)
Fails ==
    /\ Event
    /\ \E r \in run : LET verb == Head(r.calls)[1] IN
        /\ verb \notin {"require", "cleanup"}
        /\ CASE verb \in {"apply", "create", "remove"} ->
                    Continue(r.seen, << <<"publish", "Degraded">> >>) /\ UNCHANGED due
             [] Head(r.calls) = <<"publish", "Deleting">> ->
                    Continue(r.seen, Tail(r.calls)) /\ UNCHANGED due
             [] OTHER -> Retry
    /\ UNCHANGED <<desktop, inst, cache, phase, kubevirt, history>>

(* The operator restarts and lists the Instance afresh.                    *)
Restart ==
    /\ Event
    /\ run # {}
    /\ run' = {}
    /\ due' = TRUE
    /\ cache' = inst
    /\ UNCHANGED <<desktop, inst, phase, kubevirt, history>>

Call ==
    \/ ensureDesktopFinalizer
    \/ dropDesktopFinalizer
    \/ Apply
    \/ Remove
    \/ kubeVirtAvailable
    \/ Cleanup
    \/ publishDesktop

Next ==
    \/ Edit
    \/ Delete
    \/ Collect
    \/ Vanish
    \/ Recreate
    \/ Discover
    \/ Populate
    \/ Boot
    \/ Serve
    \/ Sync
    \/ Start
    \/ Call
    \/ Fails
    \/ Restart

Spec == Init /\ [][Next]_vars

(* The informer delivers, the queue's worker runs, requests are answered,  *)
(* garbage collection, CDI and the kubelet make progress.                  *)
Fairness ==
    /\ WF_vars(Sync)
    /\ WF_vars(Start)
    /\ WF_vars(Call)
    /\ WF_vars(Collect)
    /\ WF_vars(Vanish)
    /\ WF_vars(Populate)
    /\ WF_vars(Serve)

FairSpec == Spec /\ Fairness

-----------------------------------------------------------------------------
(* Types; one reconcile at a time; a token exists exactly with its Secret. *)
TypeOK ==
    /\ inst \in Instances
    /\ cache \in Instances
    /\ run \subseteq [seen: Instances, calls: Seq(STRING \X STRING)]
    /\ Cardinality(run) <= 1
    /\ objs \subseteq Kinds \X {"instance", "desktop"} /\ fading \subseteq Slow
    /\ {tokens, payload, booted, serving} \subseteq Tokens
    /\ disk \in {"absent", "blank", "populated"}
    /\ phase \in Phases
    /\ (tokens # 0) = (\E o \in objs : o[1] = "tokens")
    /\ {due, kubevirt, stranded, tokenless} \subseteq BOOLEAN

(* ensureDesktopFinalizer and dropDesktopFinalizer bracket the life of the *)
(* desktop: while the Instance has no finalizer only the disks and the     *)
(* token Secret exist or are not being deleted, unless a cleanup ran       *)
(* without KubeVirt's API or after the block that names the desktop's      *)
(* namespace was removed.                                                  *)
FinalizerGuardsObjects ==
    ~inst.finalizer /\ ~stranded => \A o \in objs : o[1] \in Retained

(* A guest that booted once knows only the token of its first boot: the    *)
(* Gateway presents that token, whatever was disabled, enabled, deleted or *)
(* created again in between, unless a deletion under the policy Delete     *)
(* took the tokens of a disk that it left (an adopted disk, KubeVirt's API *)
(* away, the policy or the block withdrawn during the deletion).           *)
GatewayHoldsGuestToken ==
    serving # 0 /\ booted # 0 /\ ~tokenless => serving = booted

(* The root disk is removed only by the cleanup of an Instance that is     *)
(* being deleted and declares Delete, and the golden image by nobody.      *)
DiskOutlivesDesktop ==
    [][\A o \in objs \ objs' :
        /\ o[1] # "golden"
        /\ o[1] = "root" => \E r \in run : r.seen.life = "deleting" /\ r.seen.policy = "Delete"
                                           /\ ~r.seen.adopted]_vars

(* desktopProjected repeats the conditions under which the controller      *)
(* writes the extension ConfigMap and the token Secret, with or without    *)
(* KubeVirt: the runtime is never left mounting an object nobody creates.  *)
RuntimeCanStart ==
    []<>(desktopProjected(inst) /\ inst.life = "live" =>
            /\ <<"extension", "instance">> \in objs
            /\ <<IF inst.away THEN "mirror" ELSE "tokens", "instance">> \in objs)

(* An enabled desktop that is left alone becomes Ready with exactly the    *)
(* objects its specification renders.                                      *)
DesktopConverges ==
    <>[](inst.life = "live" /\ desktopProjected(inst) /\ kubevirt)
    => <>[](/\ phase = "Ready"
            /\ {o[1] : o \in objs} =
                   {"extension", "tokens", "golden", "vm", "access", "state", "gateway",
                    IF inst.os = "windows" THEN "sysprep" ELSE "cloudInit"}
                   \cup (IF inst.away THEN {"mirror"} ELSE {})
                   \cup (IF inst.adopted THEN {} ELSE {"root"}))

(* A deleted Instance goes away: no failed removal and no status write     *)
(* keeps it behind the finalizer for good.                                 *)
DeletionFinishes == inst.life = "deleting" ~> inst.life # "deleting"

(* Names says that it is safe on an Instance whose personalDesktop block   *)
(* was removed and that its names are what cleanup after a removed block   *)
(* needs: with KubeVirt there, a desktop whose finalizer was dropped has   *)
(* left nothing but the disks and the token Secret.                        *)
RemovedBlockIsCleaned ==
    ~inst.finalizer /\ kubevirt => \A o \in objs : o[1] \in Retained

=============================================================================
