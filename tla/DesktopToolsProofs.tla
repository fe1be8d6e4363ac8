-------------------------- MODULE DesktopToolsProofs --------------------------
(***************************************************************************)
(* Proofs about the computer-use plugin, for any sessions and any number   *)
(* of calls, faults and queued operations.                                 *)
(*                                                                         *)
(* That the plugin accounts for the Gateway's agent lease, that a batch is *)
(* sent for a frame captured under that lease and only once, and that no   *)
(* session takes another one's lease rest on one invariant over the local  *)
(* lease, the queue, the frames and the Gateway.                           *)
(***************************************************************************)
EXTENDS DesktopTools, FiniteSetTheorems, TLAPS

(* The invariant behind the lease and the frames *)

Captures == [id: Nat, boot: Nat, vmi: Nat, gen: Nat, taken: Nat]
Operations ==
    [id: Nat, kind: Kinds, session: Sessions, lease: 0..(MaxCalls + 1), frame: SUBSET Captures]

Shape ==
    /\ local \subseteq Leases /\ \A l, k \in local : l = k
    /\ obs \in [Sessions -> SUBSET Captures]
    /\ answer \subseteq Captures /\ \A a, b \in answer : a = b
    /\ queue \in Seq(Operations) /\ calls \in 0..MaxCalls /\ Len(queue) <= calls
    /\ gw \in [boot: Nat, gen: Nat, owner: {"none", "agent", "human"}, blocked: BOOLEAN]
    /\ vmi \in Nat /\ vmis \in Nat
    /\ untracked \in BOOLEAN /\ disposing \in BOOLEAN

(* The operation that waits for each request, and what it may have heard.  *)
Waits ==
    /\ at \in Requests \cup {"idle"}
    /\ at # "idle" => queue # <<>>
    /\ at \in {"acquire", "observe", "act", "launch", "start", "stop"} => op.kind = at
    /\ at = "release" => op.kind \in {"release", "recover", "end", "dispose", "stop"}
    /\ at = "idle" => answer = {}
    /\ at = "acquire" /\ reply = "ok" => answer # {}
    /\ reply = "unknown" => at \in {"stop", "start"}

(* An operation that names a lease was called by the session that holds    *)
(* it, or recovers it; a dead lease is closed.                             *)
LeasesAreNamed ==
    /\ \A l \in local, i \in DOMAIN queue :
        queue[i].lease = l.id /\ queue[i].kind # "recover" => queue[i].session = l.session
    /\ \A l \in local : l.dead => l.closing
    /\ \A i \in DOMAIN queue : queue[i].kind = "dispose" => disposing

(* Operations are numbered in their order, and a frame has the number of   *)
(* the one that observed it: it is older than every operation that waits.  *)
(* A batch on its way still has its frame; the others are not spent.       *)
FramesAreOrdered ==
    /\ \A i, k \in DOMAIN queue : i < k => queue[i].id < queue[k].id
    /\ \A i \in DOMAIN queue : queue[i].id <= calls
    /\ \A s \in Sessions : \A f \in obs[s] :
        f.id <= calls /\ \A i \in DOMAIN queue : f.id < queue[i].id
    /\ \A n \in spent : n \in Nat /\ n <= calls /\ \A i \in DOMAIN queue : n < queue[i].id
    /\ \A a \in answer : queue # <<>> /\ a.id = op.id
    /\ at # "act" => \A s \in Sessions : \A f \in obs[s] : f.id \notin spent

(* A frame carries no generation that is still to come; one that carries   *)
(* the generation of the agent's lease was captured under that lease.      *)
Trusted(f) ==
    /\ f.boot < gw.boot \/ (f.boot = gw.boot /\ f.gen <= gw.gen)
    /\ gw.owner = "agent" /\ ~untracked /\ f.boot = gw.boot /\ f.gen = gw.gen => f.taken = f.gen

FramesAreTrusted ==
    /\ \A s \in Sessions : \A f \in obs[s] : Trusted(f)
    /\ at = "observe" /\ reply = "ok" => \A a \in answer : Trusted(a)
    /\ at = "observe" /\ reply = "pending" =>
        \A a \in answer : /\ a.boot = gw.boot
                          /\ gw.owner = "agent" /\ ~untracked => a.taken = gw.gen

(* What the agent's lease rules out, or vouches for, while an operation    *)
(* waits; nothing that was given up can acquire it.                        *)
LeaseIsHeard ==
    ~untracked =>
      /\ "acquire" \notin late
      /\ gw.owner = "agent" =>
          /\ at # "stop"
          /\ at = "release" => reply \notin {"ok", "refused"}
          /\ at = "acquire" => reply = "ok" /\ \A a \in answer : a.boot = gw.boot /\ a.gen = gw.gen
          /\ at = "act" /\ reply = "pending" =>
              \E f \in op.frame : f.taken = gw.gen /\ f.boot = gw.boot

IInv ==
    /\ Shape /\ Waits /\ LeasesAreNamed /\ FramesAreOrdered /\ FramesAreTrusted /\ LeaseIsHeard
    /\ AgentLeaseIsTracked

USE DEF plugin, executor, desktop, history
-----------------------------------------------------------------------------
(* The queue and the local lease *)

(* The running operation is the first. *)
LEMMA HeadIs ==
    ASSUME Shape, queue # <<>>
    PROVE  1 \in DOMAIN queue /\ op = queue[1] /\ op \in Operations
BY DEF Shape, op

(* What remains when it returns. *)
LEMMA TailIs ==
    ASSUME Shape, queue # <<>>, queue' = Tail(queue)
    PROVE  /\ queue' \in Seq(Operations) /\ Len(queue') <= Len(queue)
           /\ \A i \in DOMAIN queue' : i + 1 \in DOMAIN queue /\ queue'[i] = queue[i + 1]
           /\ \A i \in DOMAIN queue' : i \in Nat /\ i # 0
BY DEF Shape

(* A call waits behind the others. *)
LEMMA AppendIs ==
    ASSUME Shape, NEW e \in Operations, queue' = Append(queue, e)
    PROVE  /\ queue' \in Seq(Operations) /\ Len(queue') = Len(queue) + 1 /\ queue' # <<>>
           /\ queue # <<>> => op' = op
           /\ \A i \in DOMAIN queue' :
                \/ i \in DOMAIN queue /\ queue'[i] = queue[i]
                \/ i \notin DOMAIN queue /\ i = Len(queue') /\ queue'[i] = e
BY DEF Shape, op

(* There are fewer operations than identities. *)
LEMMA FreshIdIs ==
    ASSUME Shape, \A l \in local : \E i \in DOMAIN queue : queue[i].lease = l.id
    PROVE  /\ FreshId \in 1..(MaxCalls + 1)
           /\ \A i \in DOMAIN queue : queue[i].lease # FreshId
<1> DEFINE N == 1..(MaxCalls + 1)
           Free(n) == ~Held(n) /\ \A i \in DOMAIN queue : queue[i].lease # n
<1>1. ASSUME \A n \in N : ~Free(n) PROVE FALSE
  <2> DEFINE f == [n \in N |-> CHOOSE i \in DOMAIN queue : queue[i].lease = n]
  <2>1. \A n \in N : \E i \in DOMAIN queue : queue[i].lease = n
    BY <1>1 DEF Held
  <2>2. \A n \in N : f[n] \in DOMAIN queue /\ queue[f[n]].lease = n
    BY <2>1
  <2>3. f \in [N -> 1..Len(queue)]
    <3>1. DOMAIN queue = 1..Len(queue)
      BY DEF Shape
    <3>2. \A n \in N : (CHOOSE i \in DOMAIN queue : queue[i].lease = n) \in 1..Len(queue)
      BY <2>2, <3>1
    <3> QED  BY <3>2, Zenon
  <2>4. Len(queue) \in Nat /\ Len(queue) < MaxCalls + 1 /\ MaxCalls \in Nat
    BY BoundsAssumption DEF Shape
  <2>5. /\ IsFiniteSet(N) /\ Cardinality(N) = MaxCalls + 1
        /\ IsFiniteSet(1..Len(queue)) /\ Cardinality(1..Len(queue)) = Len(queue)
    <3>1. \A n \in Nat : IsFiniteSet(1..n) /\ Cardinality(1..n) = n
      <4> SUFFICES ASSUME NEW n \in Nat PROVE IsFiniteSet(1..n) /\ Cardinality(1..n) = n
        OBVIOUS
      <4>1. IsFiniteSet(1..n) /\ Cardinality(1..n) = IF 1 > n THEN 0 ELSE n - 1 + 1
        BY FS_Interval
      <4>2. (IF 1 > n THEN 0 ELSE n - 1 + 1) = n
        OBVIOUS
      <4> QED  BY <4>1, <4>2
    <3> QED  BY <2>4, <3>1
  <2> HIDE DEF f, N
  <2>6. \E x, y \in N : x # y /\ f[x] = f[y]
    BY <2>3, <2>4, <2>5, FS_PigeonHole
  <2> QED  BY <2>2, <2>6
<1>2. \E n \in N : Free(n)
  BY <1>1
<1>3. FreshId = CHOOSE n \in N : Free(n)
  BY DEF FreshId
<1> HIDE DEF N
<1> QED  BY <1>2, <1>3 DEF N

(* A local lease after a step: still one at most, and still the session's  *)
(* that it was, under its identity or one that no operation knows.         *)
LeaseStays ==
    /\ local' \subseteq Leases /\ \A l, k \in local' : l = k
    /\ \A k \in local' : k.dead => k.closing
    /\ \A k \in local' :
        \/ \E l \in local : l.id = k.id /\ l.session = k.session
        \/ \A i \in DOMAIN queue : queue[i].lease # k.id

(* The Gateway's lease that the plugin knows of is not forgotten. *)
GrantStays ==
    \A l \in local : l.established =>
        \E k \in local' : k.established /\ k.boot = l.boot /\ k.gen = l.gen

(* renewLocalControlAfterFailedClose *)
LEMMA RenewedIs ==
    ASSUME Shape, LeasesAreNamed, queue # <<>>, local' = Renewed
    PROVE  LeaseStays /\ GrantStays
<1>1. CASE disposing \/ \E l \in Mine : l.dead
  BY <1>1, Zenon DEF Renewed, Shape, LeasesAreNamed, LeaseStays, GrantStays
<1>2. CASE Mine = {}
  <2>1. local' = local
    BY <1>2 DEF Renewed
  <2> QED  BY <2>1 DEF Shape, LeasesAreNamed, LeaseStays, GrantStays
<1>3. CASE ~disposing /\ Mine # {} /\ \A l \in Mine : ~l.dead
  <2>1. PICK l \in local : l.id = op.lease /\ local = {l} /\ l \in Leases
    BY <1>3 DEF Mine, Shape
  <2> DEFINE k == [l EXCEPT !.id = FreshId, !.closing = FALSE, !.orphaned = FALSE]
  <2>2. FreshId \in 1..(MaxCalls + 1) /\ \A i \in DOMAIN queue : queue[i].lease # FreshId
    BY <2>1, HeadIs, FreshIdIs
  <2>3. Mine = {l}
    BY <2>1 DEF Mine
  <2>4. local' = {k}
    BY <1>3, <2>1, <2>3 DEF Renewed
  <2>5. /\ k \in Leases /\ k.id = FreshId /\ k.dead = l.dead /\ k.established = l.established
        /\ k.boot = l.boot /\ k.gen = l.gen
    BY <2>1, <2>2, Zenon DEF Leases
  <2> HIDE DEF k
  <2>6. ~k.dead
    BY <1>3, <2>3, <2>5
  <2> QED  BY <2>1, <2>2, <2>4, <2>5, <2>6 DEF LeaseStays, GrantStays
<1> QED  BY <1>1, <1>2, <1>3, Zenon

(* What a failed operation leaves: an acquisition its own lease unless     *)
(* that was closed meanwhile, a disposal and a stop that was sent nothing. *)
LEMMA AfterFailureIs ==
    ASSUME Shape, LeasesAreNamed, queue # <<>>, local' = AfterFailure
    PROVE  /\ LeaseStays
           /\ \/ GrantStays
              \/ op.kind = "acquire" /\ \E l \in Mine : ~l.closing /\ l.established
              \/ op.kind = "stop" /\ at = "stop"
              \/ op.kind = "dispose"
<1>1. CASE op.kind = "acquire"
  <2>1. local' = {l \in local : l.id # op.lease \/ l.closing}
    BY <1>1 DEF AfterFailure
  <2> QED  BY <1>1, <2>1 DEF Shape, LeasesAreNamed, LeaseStays, GrantStays, Mine
<1>2. CASE local' = Renewed
  BY <1>2, RenewedIs
<1>3. CASE op.kind = "stop" /\ at = "stop"
  <2>1. local' = local \ Mine
    BY <1>3 DEF AfterFailure
  <2> QED  BY <1>3, <2>1 DEF Shape, LeasesAreNamed, LeaseStays
<1>4. CASE op.kind = "dispose"
  <2>1. local' = {}
    BY <1>4 DEF AfterFailure
  <2> QED  BY <1>4, <2>1 DEF LeaseStays
<1>5. CASE local' = local
  BY <1>5 DEF Shape, LeasesAreNamed, LeaseStays, GrantStays
<1> QED  BY <1>1, <1>2, <1>3, <1>4, <1>5, Zenon DEF AfterFailure
-----------------------------------------------------------------------------
(* The three ways in which a step moves the executor *)

(* Frames are only forgotten. *)
FewerFrames ==
    obs' \in [Sessions -> SUBSET Captures] /\ \A s \in Sessions : obs'[s] \subseteq obs[s]

(* A prologue, and the operation it leaves in the queue. *)
LEMMA EnqueueKeeps ==
    ASSUME IInv, NEW kind \in Kinds, NEW s \in Sessions, NEW lease \in 0..(MaxCalls + 1),
           Enqueue(kind, s, lease), LeaseStays, GrantStays, FewerFrames,
           \A k \in local' : lease = k.id /\ kind # "recover" => s = k.session,
           disposing' \in BOOLEAN, disposing => disposing', kind = "dispose" => disposing'
    PROVE  IInv'
<1> DEFINE e == [id |-> calls', kind |-> kind, session |-> s, lease |-> lease,
                 frame |-> IF kind = "act" THEN obs[s] ELSE {}]
<1>1. /\ calls < MaxCalls /\ calls' = calls + 1 /\ queue' = Append(queue, e)
      /\ UNCHANGED <<at, reply, answer, late, gw, vmi, vmis, events, untracked, spent>>
  BY DEF Enqueue
<1>2. calls \in Nat /\ calls' \in 0..MaxCalls
  BY <1>1, BoundsAssumption DEF IInv, Shape
<1>3. e \in Operations
  BY <1>2 DEF Operations, IInv, Shape
<1>4. e.id = calls' /\ e.kind = kind /\ e.session = s /\ e.lease = lease
  OBVIOUS
<1> HIDE DEF e
<1>5. /\ queue' \in Seq(Operations) /\ Len(queue') = Len(queue) + 1 /\ queue' # <<>>
      /\ queue # <<>> => op' = op
      /\ \A i \in DOMAIN queue' :
           \/ i \in DOMAIN queue /\ queue'[i] = queue[i]
           \/ i \notin DOMAIN queue /\ i = Len(queue') /\ queue'[i] = e
  BY <1>1, <1>3, AppendIs, Zenon DEF IInv
<1>6. Shape'
  <2>1. Len(queue') <= calls'
    BY <1>1, <1>2, <1>5 DEF IInv, Shape
  <2> QED  BY <1>1, <1>2, <1>5, <2>1, Zenon DEF IInv, Shape, LeaseStays, FewerFrames
<1>7. Waits'
  BY <1>1, <1>5, Zenon DEF IInv, Waits
<1>8. LeasesAreNamed'
  BY <1>4, <1>5 DEF IInv, LeasesAreNamed, LeaseStays
<1>9. FramesAreOrdered'
  <2>1. DOMAIN queue = 1..Len(queue) /\ DOMAIN queue' = 1..(Len(queue) + 1) /\ Len(queue) \in Nat
    BY <1>5 DEF IInv, Shape
  <2>2. \A i \in DOMAIN queue : queue[i].id \in Nat /\ queue[i].id <= calls
    <3>1. \A i \in DOMAIN queue : queue[i] \in Operations
      BY DEF IInv, Shape
    <3> QED  BY <3>1 DEF IInv, FramesAreOrdered, Operations
  <2>3. \A i, k \in DOMAIN queue' : i < k => queue'[i].id < queue'[k].id
    BY <1>1, <1>2, <1>4, <1>5, <2>1, <2>2 DEF IInv, FramesAreOrdered
  <2>4. \A i \in DOMAIN queue' : queue'[i].id <= calls'
    BY <1>1, <1>2, <1>4, <1>5, <2>2
  <2>5. ASSUME NEW n \in Nat, n <= calls, \A i \in DOMAIN queue : n < queue[i].id
        PROVE  n <= calls' /\ \A i \in DOMAIN queue' : n < queue'[i].id
    BY <1>1, <1>2, <1>4, <1>5, <2>5
  <2>6. \A t \in Sessions : \A f \in obs'[t] :
          f.id <= calls' /\ \A i \in DOMAIN queue' : f.id < queue'[i].id
    BY <2>5 DEF IInv, FramesAreOrdered, FewerFrames, Captures
  <2>7. \A n \in spent' : n \in Nat /\ n <= calls' /\ \A i \in DOMAIN queue' : n < queue'[i].id
    BY <1>1, <2>5, Zenon DEF IInv, FramesAreOrdered
  <2>8. \A a \in answer' : queue' # <<>> /\ a.id = op'.id
    BY <1>1, <1>5, Zenon DEF IInv, FramesAreOrdered
  <2>9. at' # "act" => \A t \in Sessions : \A f \in obs'[t] : f.id \notin spent'
    BY <1>1, Zenon DEF IInv, FramesAreOrdered, FewerFrames
  <2> QED  BY <2>3, <2>4, <2>6, <2>7, <2>8, <2>9, Zenon DEF FramesAreOrdered
<1>10. FramesAreTrusted'
  BY <1>1, Zenon DEF IInv, FramesAreTrusted, Trusted, FewerFrames
<1>11. LeaseIsHeard'
  BY <1>1, <1>5, Zenon DEF IInv, LeaseIsHeard, Waits
<1>12. AgentLeaseIsTracked'
  BY <1>1 DEF IInv, AgentLeaseIsTracked, GrantStays
<1> QED  BY <1>6, <1>7, <1>8, <1>9, <1>10, <1>11, <1>12, Zenon DEF IInv

(* An operation that ends: its frame, if it was to act, is spent and gone. *)
LEMMA ReturnKeeps ==
    ASSUME IInv, queue # <<>>, Return, LeaseStays,
           obs' \in [Sessions -> SUBSET Captures],
           \A s \in Sessions : \A f \in obs'[s] :
               f \in obs[s] \/ (at = "observe" /\ reply = "ok" /\ f \in answer),
           at = "act" => obs' = NoFrames,
           UNCHANGED <<disposing, desktop, calls, spent>>,
           untracked' \in BOOLEAN, untracked => untracked',
           ~untracked' => "acquire" \notin late',
           AgentLeaseIsTracked'
    PROVE  IInv'
<1>1. queue' = Tail(queue) /\ at' = "idle" /\ reply' = "none" /\ answer' = {}
  BY DEF Return
<1>2. /\ queue' \in Seq(Operations) /\ Len(queue') <= Len(queue)
      /\ \A i \in DOMAIN queue' : i + 1 \in DOMAIN queue /\ queue'[i] = queue[i + 1]
      /\ \A i \in DOMAIN queue' : i \in Nat /\ i # 0
  BY <1>1, TailIs, Zenon DEF IInv
<1>3. Shape'
  <2>1. Len(queue') <= calls'
    BY <1>2 DEF IInv, Shape
  <2> QED  BY <1>1, <1>2, <2>1, Zenon DEF IInv, Shape, LeaseStays
<1>4. Waits'
  BY <1>1, Zenon DEF Waits
<1>5. LeasesAreNamed'
  BY <1>2 DEF IInv, LeasesAreNamed, LeaseStays
<1>6. FramesAreOrdered'
  <2>1. op.id \in Nat /\ op.id <= calls /\ op = queue[1] /\ 1 \in DOMAIN queue
    BY HeadIs, Zenon DEF IInv, FramesAreOrdered, Operations
  <2>2. \A i \in DOMAIN queue' : op.id < queue'[i].id
    <3> SUFFICES ASSUME NEW i \in DOMAIN queue' PROVE op.id < queue'[i].id
      BY Zenon
    <3>1. i + 1 \in DOMAIN queue /\ queue'[i] = queue[i + 1] /\ 1 < i + 1
      BY <1>2
    <3> QED  BY <2>1, <3>1, Zenon DEF IInv, FramesAreOrdered
  <2>3. \A i, k \in DOMAIN queue' : i < k => queue'[i].id < queue'[k].id
    <3>1. \A i, k \in DOMAIN queue : i < k => queue[i].id < queue[k].id
      BY Zenon DEF IInv, FramesAreOrdered
    <3> QED  BY <1>2, <3>1
  <2>4. \A i \in DOMAIN queue' : queue'[i].id <= calls'
    BY <1>2 DEF IInv, FramesAreOrdered
  <2>5. \A s \in Sessions : \A f \in obs'[s] :
          f.id <= calls' /\ \A i \in DOMAIN queue' : f.id < queue'[i].id
    BY <1>2, <2>1, <2>2 DEF IInv, FramesAreOrdered
  <2>6. \A n \in spent' : n \in Nat /\ n <= calls' /\ \A i \in DOMAIN queue' : n < queue'[i].id
    BY <1>2, Zenon DEF IInv, FramesAreOrdered
  <2>7. \A s \in Sessions : \A f \in obs'[s] : f.id \notin spent'
    <3>1. CASE at = "act"
      BY <3>1, Zenon DEF NoFrames
    <3>2. CASE at # "act"
      BY <2>1, <3>2 DEF IInv, FramesAreOrdered
    <3> QED  BY <3>1, <3>2, Zenon
  <2> QED  BY <1>1, <2>3, <2>4, <2>5, <2>6, <2>7, Zenon DEF FramesAreOrdered
<1>7. FramesAreTrusted'
  BY <1>1, Zenon DEF IInv, FramesAreTrusted, Trusted
<1>8. LeaseIsHeard'
  BY <1>1, Zenon DEF LeaseIsHeard
<1> QED  BY <1>3, <1>4, <1>5, <1>6, <1>7, <1>8, Zenon DEF IInv

(* An operation that sends a request.  A batch is sent for the session's   *)
(* last frame, which is then spent; control is asked for when nobody has   *)
(* it, and the VM is stopped when nobody has control.                      *)
LEMMA SendKeeps ==
    ASSUME IInv, queue # <<>>, NEW request \in Requests, Send(request),
           at = "idle" \/ (at = "release" /\ request = "stop"),
           IF request = "release" THEN op.kind \in {"release", "recover", "end", "dispose", "stop"}
                                  ELSE op.kind = request,
           FewerFrames, UNCHANGED <<local, disposing, late, desktop, calls, untracked>>,
           spent' = spent \cup {f.id : f \in IF request = "act" THEN op.frame ELSE {}},
           request = "act" => /\ op.frame = obs[op.session]
                              /\ \E f \in op.frame : f.boot = gw.boot /\ f.gen = gw.gen,
           request \in {"acquire", "stop"} => gw.owner # "agent"
    PROVE  IInv'
<1>1. at' = request /\ reply' = "pending" /\ UNCHANGED <<queue, answer>> /\ op' = op
  BY Zenon DEF Send, op
<1>2. Shape'
  BY <1>1, Zenon DEF IInv, Shape, FewerFrames
<1>3. Waits'
  BY <1>1, Zenon DEF Waits, Requests
<1>4. LeasesAreNamed'
  BY <1>1, Zenon DEF IInv, LeasesAreNamed
<1>5. op.session \in Sessions
  BY HeadIs, Zenon DEF IInv, Operations
<1>6. FramesAreOrdered'
  <2>1. ASSUME NEW n \in spent'
        PROVE  n \in Nat /\ n <= calls' /\ \A i \in DOMAIN queue' : n < queue'[i].id
    <3>1. CASE n \in spent
      BY <1>1, <3>1, Zenon DEF IInv, FramesAreOrdered
    <3>2. CASE n \notin spent
      <4>1. PICK f \in obs[op.session] : n = f.id
        BY <2>1, <3>2, Zenon
      <4>2. n \in Nat
        BY <1>5, <4>1 DEF IInv, Shape, Captures
      <4> QED  BY <1>1, <1>5, <4>1, <4>2, Zenon DEF IInv, FramesAreOrdered
    <3> QED  BY <3>1, <3>2, Zenon
  <2>2. at' # "act" => \A s \in Sessions : \A f \in obs'[s] : f.id \notin spent'
    BY <1>1, Zenon DEF IInv, FramesAreOrdered, FewerFrames
  <2> QED  BY <1>1, <2>1, <2>2, Zenon DEF IInv, FramesAreOrdered, FewerFrames
<1>7. FramesAreTrusted'
  <2>1. at' = "observe" => answer' = {}
    BY <1>1, Zenon DEF IInv, Waits
  <2> QED  BY <1>1, <2>1, Zenon DEF IInv, FramesAreTrusted, Trusted, FewerFrames
<1>8. LeaseIsHeard'
  <2>1. ~untracked /\ gw.owner = "agent" /\ request = "act" =>
          \E f \in op.frame : f.taken = gw.gen /\ f.boot = gw.boot
    BY <1>5, Zenon DEF IInv, FramesAreTrusted, Trusted
  <2> QED  BY <1>1, <2>1, Zenon DEF IInv, LeaseIsHeard
<1>9. AgentLeaseIsTracked'
  BY <1>1 DEF IInv, AgentLeaseIsTracked
<1> QED  BY <1>2, <1>3, <1>4, <1>6, <1>7, <1>8, <1>9, Zenon DEF IInv
-----------------------------------------------------------------------------
(* The steps of the plugin *)

LEMMA InitEstablishes == Init => IInv
<1> SUFFICES ASSUME Init PROVE IInv
  OBVIOUS
<1>1. queue = <<>> /\ queue \in Seq(Operations) /\ Len(queue) = 0 /\ DOMAIN queue = {}
  BY DEF Init
<1>2. gw \in [boot: Nat, gen: Nat, owner: {"none", "agent", "human"}, blocked: BOOLEAN]
      /\ gw.owner = "none"
  BY DEF Init
<1>3. calls \in 0..MaxCalls
  BY BoundsAssumption DEF Init
<1>4. obs \in [Sessions -> SUBSET Captures] /\ \A s \in Sessions : obs[s] = {}
  BY DEF Init
<1>5. local = {} /\ answer = {} /\ spent = {} /\ late = {} /\ at = "idle" /\ reply = "none"
      /\ vmi = 1 /\ vmis = 1 /\ calls = 0 /\ untracked = FALSE /\ disposing = FALSE
  BY DEF Init
<1>6. Shape
  <2>1. local \subseteq Leases /\ (\A l, k \in local : l = k)
        /\ answer \subseteq Captures /\ \A a, b \in answer : a = b
    BY <1>5
  <2>2. Len(queue) <= calls /\ vmi \in Nat /\ vmis \in Nat
    BY <1>1, <1>5
  <2>3. untracked \in BOOLEAN /\ disposing \in BOOLEAN
    BY <1>5, Zenon
  <2> QED  BY <1>1, <1>2, <1>3, <1>4, <2>1, <2>2, <2>3, Zenon DEF Shape
<1>7. Waits /\ LeasesAreNamed
  BY <1>1, <1>5, Zenon DEF Waits, LeasesAreNamed
<1>8. FramesAreOrdered
  BY <1>1, <1>4, <1>5, Zenon DEF FramesAreOrdered
<1>9. FramesAreTrusted
  BY <1>4, <1>5, Zenon DEF FramesAreTrusted
<1>10. LeaseIsHeard /\ AgentLeaseIsTracked
  BY <1>2, <1>5, Zenon DEF LeaseIsHeard, AgentLeaseIsTracked
<1> QED  BY <1>6, <1>7, <1>8, <1>9, <1>10, Zenon DEF IInv

(* How a prologue, or a refused acquisition, marks the lease. *)
Marked ==
    \/ local' = local
    \/ local' = Close(local)
    \/ local' = {[l EXCEPT !.closing = TRUE, !.dead = TRUE] : l \in local}
    \/ local' = {[l EXCEPT !.closing = TRUE, !.orphaned = TRUE, !.dead = TRUE] : l \in local}
    \/ local' = Quarantine(local)

(* A marked lease is the session's that it was. *)
LEMMA MarkedIs ==
    ASSUME Shape, LeasesAreNamed, Marked
    PROVE  /\ LeaseStays /\ GrantStays
           /\ \A k \in local' : \E l \in local :
                l.id = k.id /\ l.session = k.session /\ (l.closing => k.closing)
<1>1. CASE local = {}
  <2>1. local' = {}
    BY <1>1, Zenon DEF Marked, Close, Quarantine
  <2> QED  BY <1>1, <2>1 DEF LeaseStays, GrantStays
<1>2. CASE local # {}
  <2>1. PICK l \in local : local = {l} /\ l \in Leases
    <3>1. PICK l \in local : l \in Leases
      BY <1>2, Zenon DEF Shape
    <3>2. local = {l}
      BY <3>1, Zenon DEF Shape
    <3> QED  BY <3>1, <3>2, Zenon
  <2>2. CASE local' = local
    BY <2>1, <2>2, Zenon DEF LeasesAreNamed, LeaseStays, GrantStays
  <2>3. ASSUME NEW k \in Leases, local' = {k}, k.id = l.id, k.session = l.session, k.closing,
               k.established = l.established, k.boot = l.boot, k.gen = l.gen
        PROVE  /\ LeaseStays /\ GrantStays
               /\ \A m \in local' : \E n \in local :
                    n.id = m.id /\ n.session = m.session /\ (n.closing => m.closing)
    BY <2>1, <2>3, Zenon DEF LeaseStays, GrantStays
  <2>4. CASE local' = Close(local)
    <3> DEFINE k == [l EXCEPT !.closing = TRUE]
    <3>1. /\ k \in Leases /\ k.id = l.id /\ k.session = l.session /\ k.closing
          /\ k.established = l.established /\ k.boot = l.boot /\ k.gen = l.gen
      BY <2>1, Zenon DEF Leases
    <3>2. local' = {k}
      BY <2>1, <2>4, Zenon DEF Close
    <3> HIDE DEF k
    <3> QED  BY <2>3, <3>1, <3>2
  <2>5. CASE local' = {[n EXCEPT !.closing = TRUE, !.dead = TRUE] : n \in local}
    <3> DEFINE k == [l EXCEPT !.closing = TRUE, !.dead = TRUE]
    <3>1. /\ k \in Leases /\ k.id = l.id /\ k.session = l.session /\ k.closing
          /\ k.established = l.established /\ k.boot = l.boot /\ k.gen = l.gen
      BY <2>1, Zenon DEF Leases
    <3>2. local' = {k}
      BY <2>1, <2>5, Zenon
    <3> HIDE DEF k
    <3> QED  BY <2>3, <3>1, <3>2
  <2>6. CASE local' = {[n EXCEPT !.closing = TRUE, !.orphaned = TRUE, !.dead = TRUE] : n \in local}
    <3> DEFINE k == [l EXCEPT !.closing = TRUE, !.orphaned = TRUE, !.dead = TRUE]
    <3>1. /\ k \in Leases /\ k.id = l.id /\ k.session = l.session /\ k.closing
          /\ k.established = l.established /\ k.boot = l.boot /\ k.gen = l.gen
      BY <2>1, Zenon DEF Leases
    <3>2. local' = {k}
      BY <2>1, <2>6, Zenon
    <3> HIDE DEF k
    <3> QED  BY <2>3, <3>1, <3>2
  <2>7. CASE local' = Quarantine(local)
    <3> DEFINE k == [l EXCEPT !.closing = TRUE, !.orphaned = TRUE]
    <3>1. /\ k \in Leases /\ k.id = l.id /\ k.session = l.session /\ k.closing
          /\ k.established = l.established /\ k.boot = l.boot /\ k.gen = l.gen
      BY <2>1, Zenon DEF Leases
    <3>2. local' = {k}
      BY <2>1, <2>7, Zenon DEF Quarantine
    <3> HIDE DEF k
    <3> QED  BY <2>3, <3>1, <3>2
  <2> QED  BY <2>2, <2>4, <2>5, <2>6, <2>7, Zenon DEF Marked
<1> QED  BY <1>1, <1>2, Zenon

(* A call of a session that holds the lease it names, or names none. *)
LEMMA CallKeeps ==
    ASSUME IInv, NEW kind \in Kinds, NEW s \in Sessions, NEW lease \in 0..(MaxCalls + 1),
           Enqueue(kind, s, lease), FewerFrames, disposing' \in BOOLEAN, disposing => disposing',
           kind = "dispose" => disposing', Marked,
           \/ kind = "recover"
           \/ lease = 0
           \/ \E l \in local : l.session = s
    PROVE  IInv'
<1>1. /\ LeaseStays /\ GrantStays
      /\ \A k \in local' : \E l \in local : l.id = k.id /\ l.session = k.session
  BY MarkedIs DEF IInv
<1>2. \A l \in local : l.id # 0
  <2>1. \A l \in local : l.id \in 1..(MaxCalls + 1)
    BY DEF IInv, Shape, Leases
  <2> QED  BY <2>1, BoundsAssumption
<1>3. \A k \in local' : lease = k.id /\ kind # "recover" => s = k.session
  <2>1. \A l, k \in local : l = k
    BY DEF IInv, Shape
  <2> QED  BY <1>1, <1>2, <2>1, Zenon
<1> HIDE DEF IInv
<1> QED  BY <1>1, <1>3, EnqueueKeeps

LEMMA SameFrames == IInv /\ UNCHANGED obs => FewerFrames
BY DEF IInv, Shape, FewerFrames

LEMMA NoFramesAreFewer == obs' = NoFrames => FewerFrames
BY DEF NoFrames, FewerFrames

LEMMA CallAcquireKeeps == ASSUME IInv, NEW s \in Sessions, CallAcquire(s) PROVE IInv'
<1>1. FewerFrames /\ disposing' = disposing /\ disposing' \in BOOLEAN /\ "acquire" \in Kinds
  BY SameFrames DEF CallAcquire, IInv, Shape, Kinds
<1>2. CASE local # {}
  <2>1. local' = local /\ \E l \in local : l.session = s
    BY <1>2, Zenon DEF CallAcquire, Owner
  <2>2. PICK l \in local : Enqueue("acquire", s, l.id)
    BY <2>1 DEF CallAcquire, Call
  <2>3. l.id \in 0..(MaxCalls + 1)
    BY BoundsAssumption DEF IInv, Shape, Leases
  <2> QED  BY <1>1, <2>1, <2>2, <2>3, CallKeeps, Zenon DEF Marked
<1>3. CASE local = {}
  <2> DEFINE k == [id |-> FreshId, session |-> s, closing |-> FALSE, orphaned |-> FALSE,
                   dead |-> FALSE, established |-> FALSE, boot |-> 0, gen |-> 0]
  <2>1. FreshId \in 1..(MaxCalls + 1) /\ \A i \in DOMAIN queue : queue[i].lease # FreshId
    BY <1>3, FreshIdIs, Zenon DEF IInv
  <2>2. k \in Leases /\ k.id = FreshId /\ k.session = s /\ ~k.dead
    BY <2>1, Zenon DEF Leases
  <2>3. local' = {k} /\ \E l \in local' : Enqueue("acquire", s, l.id)
    BY <1>3, Zenon DEF CallAcquire, Call
  <2> HIDE DEF k
  <2>4. Enqueue("acquire", s, k.id) /\ k.id \in 0..(MaxCalls + 1)
    BY <2>1, <2>2, <2>3, BoundsAssumption
  <2>5. LeaseStays /\ GrantStays
    BY <1>3, <2>1, <2>2, <2>3, Zenon DEF LeaseStays, GrantStays
  <2>6. \A m \in local' : k.id = m.id => s = m.session
    BY <2>2, <2>3
  <2> QED  BY <1>1, <2>4, <2>5, <2>6, EnqueueKeeps
<1> QED  BY <1>2, <1>3, Zenon

LEMMA CallsKeep ==
    ASSUME IInv, NEW s \in Sessions,
           \/ CallObserve(s) \/ CallInput(s) \/ CallRelease(s) \/ CallStop(s) \/ CallStart(s)
    PROVE  IInv'
<1>1. FewerFrames /\ disposing' = disposing /\ disposing' \in BOOLEAN
  <2>1. UNCHANGED <<obs, disposing>>
    BY DEF CallObserve, CallInput, CallRelease, CallStop, CallStart
  <2> QED  BY <2>1, SameFrames, Zenon DEF IInv, Shape
<1>2. 0 \in 0..(MaxCalls + 1) /\ \A l \in local : l.id \in 0..(MaxCalls + 1)
  BY BoundsAssumption DEF IInv, Shape, Leases
<1>3. Kinds = {"acquire", "observe", "act", "launch", "release", "recover", "stop", "start", "end",
               "dispose"}
  BY DEF Kinds
<1> HIDE DEF IInv
<1>4. CASE CallObserve(s)
  <2>1. Enqueue("observe", s, 0) /\ local' = local
    BY <1>4 DEF CallObserve, Call
  <2> QED  BY <1>1, <1>2, <1>3, <2>1, CallKeeps, Zenon DEF Marked
<1>5. CASE CallInput(s)
  <2>1. PICK l \in local, kind \in {"act", "launch"} : Enqueue(kind, s, l.id)
    BY <1>5, Zenon DEF CallInput, Call
  <2>2. local' = local /\ \E k \in local : k.session = s
    BY <1>5, Zenon DEF CallInput, Owner
  <2> QED  BY <1>1, <1>2, <1>3, <2>1, <2>2, CallKeeps, Zenon DEF Marked
<1>6. CASE CallRelease(s)
  <2>1. PICK l \in local :
          \/ Enqueue("recover", s, l.id) /\ local' = local
          \/ Owner(s) /\ Enqueue("release", s, l.id) /\ local' = Close(local)
    BY <1>6 DEF CallRelease, Call
  <2>2. CASE Enqueue("recover", s, l.id) /\ local' = local
    BY <1>1, <1>2, <1>3, <2>2, CallKeeps, Zenon DEF Marked
  <2>3. CASE Owner(s) /\ Enqueue("release", s, l.id) /\ local' = Close(local)
    <3>1. \E k \in local : k.session = s
      BY <2>3, Zenon DEF Owner
    <3> QED  BY <1>1, <1>2, <1>3, <2>3, <3>1, CallKeeps, Zenon DEF Marked
  <2> QED  BY <2>1, <2>2, <2>3, Zenon
<1>7. CASE CallStop(s)
  <2>1. local' = Close(local)
    BY <1>7 DEF CallStop
  <2>2. CASE Enqueue("stop", s, 0)
    BY <1>1, <1>2, <1>3, <2>1, <2>2, CallKeeps, Zenon DEF Marked
  <2>3. CASE Owner(s) /\ \E l \in local : Enqueue("stop", s, l.id)
    <3>1. \E k \in local : k.session = s
      BY <2>3 DEF Owner
    <3> QED  BY <1>1, <1>2, <1>3, <2>1, <2>3, <3>1, CallKeeps, Zenon DEF Marked
  <2> QED  BY <1>7, <2>2, <2>3, Zenon DEF CallStop, Call
<1>8. CASE CallStart(s)
  <2>1. local' = local
    BY <1>8 DEF CallStart
  <2>2. CASE Enqueue("start", s, 0)
    BY <1>1, <1>2, <1>3, <2>1, <2>2, CallKeeps, Zenon DEF Marked
  <2>3. CASE Owner(s) /\ \E l \in local : Enqueue("start", s, l.id)
    <3>1. \E k \in local : k.session = s
      BY <2>3 DEF Owner
    <3> QED  BY <1>1, <1>2, <1>3, <2>1, <2>3, <3>1, CallKeeps, Zenon DEF Marked
  <2> QED  BY <1>8, <2>2, <2>3, Zenon DEF CallStart, Call
<1> QED  BY <1>4, <1>5, <1>6, <1>7, <1>8, Zenon

LEMMA SessionEndKeeps == ASSUME IInv, NEW s \in Sessions, SessionEnd(s) PROVE IInv'
<1>1. /\ obs' = [obs EXCEPT ![s] = {}]
      /\ UNCHANGED <<local, executor, late, desktop, calls, events, history, disposing>>
  BY Zenon DEF SessionEnd
<1>2. FewerFrames /\ op' = op
  BY <1>1 DEF IInv, Shape, FewerFrames, op
<1>3. Shape'
  BY <1>1, <1>2 DEF IInv, Shape, FewerFrames
<1>4. Waits' /\ LeasesAreNamed' /\ LeaseIsHeard' /\ AgentLeaseIsTracked'
  BY <1>1, <1>2, Zenon DEF IInv, Waits, LeasesAreNamed, LeaseIsHeard, AgentLeaseIsTracked
<1>5. FramesAreTrusted'
  BY <1>1, <1>2 DEF IInv, FramesAreTrusted, Trusted, FewerFrames
<1>6. FramesAreOrdered'
  BY <1>1, <1>2, Zenon DEF IInv, FramesAreOrdered, FewerFrames
<1> QED  BY <1>3, <1>4, <1>5, <1>6 DEF IInv

LEMMA ReleaseEndedKeeps == ASSUME IInv, NEW s \in Sessions, ReleaseEnded(s) PROVE IInv'
<1>1. disposing' = disposing /\ disposing' \in BOOLEAN
  BY Zenon DEF ReleaseEnded, IInv, Shape
<1>2. CASE \E l \in local : l.session = s
  <2>1. Marked /\ obs' = NoFrames
    BY <1>2, Zenon DEF ReleaseEnded, Marked
  <2>2. PICK l \in local : Enqueue("end", s, l.id)
    BY <1>2, Zenon DEF ReleaseEnded
  <2>3. l.id \in 0..(MaxCalls + 1) /\ "end" \in Kinds
    BY BoundsAssumption DEF IInv, Shape, Leases, Kinds
  <2>4. FewerFrames
    BY <2>1, NoFramesAreFewer
  <2> HIDE DEF IInv
  <2> QED  BY <1>1, <1>2, <2>1, <2>2, <2>3, <2>4, CallKeeps, Zenon
<1>3. CASE ~\E l \in local : l.session = s
  <2>1. UNCHANGED <<local, obs, disposing, executor, late, desktop, calls, events, history>>
    BY <1>1, <1>3, Zenon DEF ReleaseEnded
  <2>2. op' = op
    BY <2>1 DEF op
  <2>3. Shape'
    BY <2>1 DEF IInv, Shape
  <2>4. Waits' /\ LeasesAreNamed' /\ LeaseIsHeard' /\ AgentLeaseIsTracked'
    BY <2>1, <2>2, Zenon DEF IInv, Waits, LeasesAreNamed, LeaseIsHeard, AgentLeaseIsTracked
  <2>5. FramesAreTrusted'
    BY <2>1, Zenon DEF IInv, FramesAreTrusted, Trusted
  <2>6. FramesAreOrdered'
    BY <2>1, <2>2, Zenon DEF IInv, FramesAreOrdered
  <2> QED  BY <2>3, <2>4, <2>5, <2>6 DEF IInv
<1> QED  BY <1>2, <1>3, Zenon

LEMMA DisposeKeeps == ASSUME IInv, Dispose PROVE IInv'
<1>1. disposing' = TRUE /\ UNCHANGED obs
  BY Zenon DEF Dispose
<1>2. Marked
  BY Zenon DEF Dispose, Marked
<1>3. PICK s \in Sessions : Enqueue("dispose", s, 0)
  BY Zenon DEF Dispose, Call
<1>4. 0 \in 0..(MaxCalls + 1) /\ "dispose" \in Kinds /\ FewerFrames
  BY <1>1, BoundsAssumption, SameFrames DEF Kinds
<1> HIDE DEF IInv
<1> QED  BY <1>1, <1>2, <1>3, <1>4, CallKeeps, Zenon

LEMMA PrologueKeeps == IInv /\ Prologue => IInv'
BY DisposeKeeps, CallAcquireKeeps, CallsKeep, SessionEndKeeps, ReleaseEndedKeeps,
   Zenon DEF Prologue

(* An operation that ends without a new frame, and keeps the record of the *)
(* agent's lease if there is one.                                          *)
LEMMA DropKeeps ==
    ASSUME IInv, queue # <<>>, Return, LeaseStays, FewerFrames,
           at = "act" => obs' = NoFrames,
           UNCHANGED <<disposing, desktop, calls, spent>>,
           untracked' \in BOOLEAN, untracked => untracked',
           ~untracked' => "acquire" \notin late',
           gw.owner = "agent" /\ ~untracked' => GrantStays /\ at # "acquire"
    PROVE  IInv'
<1>1. AgentLeaseIsTracked'
  BY DEF IInv, AgentLeaseIsTracked, GrantStays
<1>2. \A s \in Sessions : \A f \in obs'[s] : f \in obs[s]
  BY Zenon DEF FewerFrames
<1>3. obs' \in [Sessions -> SUBSET Captures]
  BY DEF FewerFrames
<1> HIDE DEF IInv
<1> QED  BY <1>1, <1>2, <1>3, ReturnKeeps, Zenon

LEMMA BeginAcquireKeeps ==
    ASSUME IInv, queue # <<>>, at = "idle", op.kind = "acquire", BeginAcquire,
           spent' = spent \cup {f.id : f \in IF at' = "act" THEN op.frame ELSE {}},
           UNCHANGED <<disposing, late, desktop, calls>>
    PROVE  IInv'
<1> DEFINE established == \E l \in Mine : l.established
           match == \E l \in Mine : l.boot = gw.boot /\ l.gen = gw.gen
<1>1. untracked \in BOOLEAN /\ (~untracked => "acquire" \notin late') /\ Shape /\ LeasesAreNamed
  BY DEF IInv, Shape, LeaseIsHeard
<1>2. at' # "act" => spent' = spent
  BY Zenon
<1>3. CASE Throw /\ untracked' = (untracked \/ established) /\ UNCHANGED obs
  <2>1. Return /\ local' = AfterFailure /\ at' = "idle"
    BY <1>3, Zenon DEF Throw, Return
  <2>2. LeaseStays /\ (GrantStays \/ established)
    BY <1>1, <2>1, AfterFailureIs, Zenon
  <2>3. untracked' \in BOOLEAN /\ (untracked => untracked') /\ (~untracked' => ~established)
    BY <1>3, Zenon
  <2>4. FewerFrames
    BY <1>3, SameFrames, Zenon
  <2> HIDE DEF established, IInv
  <2> QED  BY <1>1, <1>2, <2>1, <2>2, <2>3, <2>4, DropKeeps, Zenon
<1>4. CASE Return /\ obs' = NoFrames /\ UNCHANGED untracked
           /\ (local' = Quarantine(local) \/ local' = local)
  <2>1. at' = "idle" /\ FewerFrames
    BY <1>4, NoFramesAreFewer, Zenon DEF Return
  <2>2. LeaseStays /\ GrantStays
    BY <1>1, <1>4, MarkedIs, Zenon DEF Marked
  <2> HIDE DEF established, match, IInv
  <2> QED  BY <1>1, <1>2, <1>4, <2>1, <2>2, DropKeeps, Zenon
<1>5. CASE gw.owner = "none" /\ obs' = NoFrames /\ Send("acquire") /\ UNCHANGED <<local, untracked>>
  <2>1. at' = "acquire" /\ FewerFrames /\ "acquire" \in Requests
    BY <1>5, NoFramesAreFewer, Zenon DEF Send, Requests
  <2>2. spent' = spent \cup {f.id : f \in IF "acquire" = "act" THEN op.frame ELSE {}}
    BY <2>1, Zenon
  <2> HIDE DEF established, match, IInv
  <2> QED  BY <1>5, <2>1, <2>2, SendKeeps, Zenon
<1> HIDE DEF established, match
<1> QED  BY <1>3, <1>4, <1>5, Zenon DEF BeginAcquire, established

LEMMA BeginInputKeeps ==
    ASSUME IInv, queue # <<>>, at = "idle", op.kind \in {"act", "launch"}, BeginInput,
           spent' = spent \cup {f.id : f \in IF at' = "act" THEN op.frame ELSE {}},
           UNCHANGED <<disposing, late, desktop, calls, untracked>>
    PROVE  IInv'
<1>1. untracked \in BOOLEAN /\ (~untracked => "acquire" \notin late') /\ Shape /\ LeasesAreNamed
  BY Zenon DEF IInv, Shape, LeaseIsHeard
<1>2. CASE Throw /\ (UNCHANGED obs \/ obs' = NoFrames)
  <2>1. Return /\ local' = AfterFailure /\ at' = "idle"
    BY <1>2, Zenon DEF Throw, Return
  <2>2. LeaseStays /\ GrantStays
    BY <1>1, <2>1, AfterFailureIs, Zenon
  <2>3. FewerFrames /\ spent' = spent
    BY <1>2, <2>1, SameFrames, NoFramesAreFewer, Zenon
  <2> HIDE DEF IInv
  <2> QED  BY <1>1, <2>1, <2>2, <2>3, DropKeeps, Zenon
<1>3. CASE /\ op.kind = "launch" \/ observationIsFresh(op.frame)
           /\ Send(op.kind)
           /\ UNCHANGED <<local, obs>>
  <2>1. at' = op.kind /\ op.kind \in Requests
    BY <1>3, Zenon DEF Send, Requests
  <2>2. FewerFrames
    BY <1>3, SameFrames, Zenon
  <2>3. op.kind = "act" => /\ op.frame = obs[op.session]
                           /\ \E f \in op.frame : f.boot = gw.boot /\ f.gen = gw.gen
    BY <1>3, Zenon DEF observationIsFresh
  <2>4. spent' = spent \cup {f.id : f \in IF op.kind = "act" THEN op.frame ELSE {}}
    BY <2>1, Zenon
  <2> HIDE DEF IInv
  <2>5. op.kind \notin {"acquire", "stop", "release"}
    BY Zenon
  <2> QED  BY <1>3, <2>1, <2>2, <2>3, <2>4, <2>5, SendKeeps, Zenon
<1> QED  BY <1>2, <1>3, Zenon DEF BeginInput

LEMMA BeginKeeps == ASSUME IInv, Begin PROVE IInv'
<1>1. /\ queue # <<>> /\ at = "idle"
      /\ spent' = spent \cup {f.id : f \in IF at' = "act" THEN op.frame ELSE {}}
      /\ UNCHANGED <<uncertain, disposing, late, desktop, calls, events>>
  BY Zenon DEF Begin
<1>2. untracked \in BOOLEAN /\ (~untracked => "acquire" \notin late') /\ Shape /\ LeasesAreNamed
  BY <1>1, Zenon DEF IInv, Shape, LeaseIsHeard
<1>3. CASE op.kind = "acquire" /\ BeginAcquire
  BY <1>1, <1>3, BeginAcquireKeeps, Zenon
<1>4. CASE op.kind \in {"act", "launch"} /\ BeginInput /\ UNCHANGED untracked
  BY <1>1, <1>4, BeginInputKeeps, Zenon
<1>5. CASE op.kind = "stop" /\ Throw /\ UNCHANGED <<obs, untracked>>
  <2>1. Return /\ local' = AfterFailure /\ at' = "idle"
    BY <1>5, Zenon DEF Throw, Return
  <2>2. LeaseStays /\ GrantStays
    BY <1>1, <1>2, <1>5, <2>1, AfterFailureIs, Zenon
  <2>3. FewerFrames /\ spent' = spent
    BY <1>1, <1>5, <2>1, SameFrames, Zenon
  <2> HIDE DEF IInv
  <2> QED  BY <1>1, <1>2, <1>5, <2>1, <2>2, <2>3, DropKeeps, Zenon
<1>6. CASE op.kind \in {"observe", "start"} /\ Send(op.kind) /\ UNCHANGED <<local, obs, untracked>>
  <2>1. at' = op.kind /\ op.kind \in Requests /\ op.kind \notin {"acquire", "act", "stop", "release"}
    BY <1>6, Zenon DEF Send, Requests
  <2>2. FewerFrames
    BY <1>6, SameFrames, Zenon
  <2>3. spent' = spent \cup {f.id : f \in IF op.kind = "act" THEN op.frame ELSE {}}
    BY <1>1, <2>1, Zenon
  <2> HIDE DEF IInv
  <2> QED  BY <1>1, <1>6, <2>1, <2>2, <2>3, SendKeeps, Zenon
<1>7. CASE /\ op.kind \in {"release", "recover", "end", "dispose", "stop"}
           /\ Send("release")
           /\ obs' = IF op.kind = "dispose" THEN NoFrames ELSE obs
           /\ UNCHANGED <<local, untracked>>
  <2>1. at' = "release" /\ "release" \in Requests
    BY <1>7, Zenon DEF Send, Requests
  <2>2. FewerFrames
    BY <1>7, SameFrames, NoFramesAreFewer, Zenon
  <2>3. spent' = spent \cup {f.id : f \in IF "release" = "act" THEN op.frame ELSE {}}
    BY <1>1, <2>1, Zenon
  <2> HIDE DEF IInv
  <2> QED  BY <1>1, <1>7, <2>1, <2>2, <2>3, SendKeeps, Zenon
<1> QED  BY <1>3, <1>4, <1>5, <1>6, <1>7, Zenon DEF Begin

(* What an operation that gives up leaves behind and forgets. *)
LEMMA GivenUpIs ==
    ASSUME IInv, queue # <<>>, LeaveBehind, ForgetFrames
    PROVE  /\ FewerFrames /\ (at = "act" => obs' = NoFrames)
           /\ ~untracked /\ at # "acquire" => "acquire" \notin late'
<1>1. UNCHANGED obs \/ obs' = NoFrames
  BY DEF ForgetFrames
<1>2. at = "act" => obs' = NoFrames
  BY Zenon DEF ForgetFrames
<1>3. ~untracked /\ at # "acquire" => "acquire" \notin late'
  BY Zenon DEF LeaveBehind, IInv, LeaseIsHeard
<1> QED  BY <1>1, <1>2, <1>3, SameFrames, NoFramesAreFewer, Zenon

LEMMA AbortKeeps == ASSUME IInv, Abort PROVE IInv'
<1>1. /\ queue # <<>> /\ ~Current /\ Return /\ local' = AfterFailure
      /\ LeaveBehind /\ ForgetFrames
      /\ UNCHANGED <<disposing, desktop, calls, spent>>
  BY DEF Abort, Throw
<1>2. untracked' = (untracked \/ at = "acquire")
  BY DEF Abort
<1>3. /\ FewerFrames /\ (at = "act" => obs' = NoFrames)
      /\ ~untracked /\ at # "acquire" => "acquire" \notin late'
  BY <1>1, GivenUpIs
<1>4. untracked' \in BOOLEAN /\ (untracked => untracked')
      /\ (~untracked' => ~untracked /\ at # "acquire")
  BY <1>2, Zenon
<1>5. LeaseStays /\ (gw.owner = "agent" /\ ~untracked => GrantStays)
  <2>1. op.kind # "dispose"
    BY <1>1, Zenon DEF Current
  <2>2. op.kind = "acquire" => \A l \in Mine : l.closing
    <3>1. op.kind = "acquire" => \A l \in Mine : l.closing \/ l.dead
      BY <1>1, Zenon DEF Current
    <3>2. \A l \in Mine : l.dead => l.closing
      BY Zenon DEF Mine, IInv, LeasesAreNamed
    <3> QED  BY <3>1, <3>2, Zenon
  <2>3. gw.owner = "agent" /\ ~untracked => at # "stop"
    BY DEF IInv, LeaseIsHeard
  <2>4. Shape /\ LeasesAreNamed
    BY Zenon DEF IInv
  <2> QED  BY <1>1, <2>1, <2>2, <2>3, <2>4, AfterFailureIs
<1> HIDE DEF IInv
<1> QED  BY <1>1, <1>3, <1>4, <1>5, DropKeeps, Zenon

LEMMA LoseKeeps == ASSUME IInv, Lose PROVE IInv'
<1>1. /\ queue # <<>> /\ Return /\ local' = AfterFailure /\ LeaveBehind /\ ForgetFrames
      /\ UNCHANGED <<disposing, desktop, calls, spent>>
  BY Zenon DEF Lose, Throw
<1>2. untracked' = (\/ untracked
                    \/ at = "acquire"
                    \/ op.kind = "dispose"
                    \/ op.kind = "acquire" /\ \E l \in Mine : l.established)
  BY Zenon DEF Lose
<1>3. /\ FewerFrames /\ (at = "act" => obs' = NoFrames)
      /\ ~untracked /\ at # "acquire" => "acquire" \notin late'
  BY <1>1, GivenUpIs, Zenon
<1>4. /\ untracked' \in BOOLEAN /\ (untracked => untracked')
      /\ ~untracked' => /\ ~untracked /\ at # "acquire" /\ op.kind # "dispose"
                        /\ ~(op.kind = "acquire" /\ \E l \in Mine : l.established)
  BY <1>2, Zenon
<1>5. LeaseStays /\ (gw.owner = "agent" /\ ~untracked' => GrantStays)
  <2>1. gw.owner = "agent" /\ ~untracked => at # "stop"
    BY DEF IInv, LeaseIsHeard
  <2>2. Shape /\ LeasesAreNamed
    BY DEF IInv
  <2> QED  BY <1>1, <1>4, <2>1, <2>2, AfterFailureIs, Zenon
<1> HIDE DEF IInv
<1> QED  BY <1>1, <1>3, <1>4, <1>5, DropKeeps, Zenon

(* setLocalControl: the lease is established with the Gateway's grant. *)
LEMMA EstablishedIs ==
    ASSUME Shape, LeasesAreNamed, NEW l \in local, l.id = op.lease, NEW a \in answer,
           local' = Established
    PROVE  /\ LeaseStays
           /\ \E k \in local' : k.established /\ k.boot = a.boot /\ k.gen = a.gen
<1> DEFINE k == Granted(l, a)
<1>1. local = {l} /\ answer = {a} /\ l \in Leases /\ a \in Captures /\ (l.dead => l.closing)
  BY DEF Shape, LeasesAreNamed
<1>2. local' = {k}
  BY <1>1 DEF Established
<1>3. /\ k \in Leases /\ k.id = l.id /\ k.session = l.session /\ k.established
      /\ k.dead = l.dead /\ k.closing = l.closing /\ k.boot = a.boot /\ k.gen = a.gen
  BY <1>1, Zenon DEF Leases, Captures, Granted
<1> HIDE DEF k
<1>4. k.dead => k.closing
  BY <1>1, <1>3, Zenon
<1> QED  BY <1>2, <1>3, <1>4, Zenon DEF LeaseStays

LEMMA HearAcquireKeeps ==
    ASSUME IInv, queue # <<>>, Current, at = "acquire", reply \in {"ok", "refused", "unknown"},
           HearAcquire, UNCHANGED <<disposing, late, desktop, calls, history>>
    PROVE  IInv'
<1>1. /\ op.kind = "acquire" /\ (reply = "ok" => answer # {}) /\ reply # "unknown"
      /\ untracked \in BOOLEAN /\ (~untracked => "acquire" \notin late) /\ Shape /\ LeasesAreNamed
  BY DEF IInv, Waits, Shape, LeaseIsHeard
<1>2. Return /\ obs' = NoFrames /\ FewerFrames
  BY NoFramesAreFewer, Zenon DEF HearAcquire
<1>3. CASE reply = "ok"
  <2>1. PICK l \in local : l.id = op.lease
    BY <1>1 DEF Current, Mine
  <2>2. PICK a \in answer : TRUE
    BY <1>1, <1>3, Zenon
  <2>3. local' = Established
    BY <1>3, Zenon DEF HearAcquire
  <2>4. /\ LeaseStays
        /\ \E k \in local' : k.established /\ k.boot = a.boot /\ k.gen = a.gen
    BY <1>1, <2>1, <2>2, <2>3, EstablishedIs, Zenon
  <2>5. AgentLeaseIsTracked'
    BY <2>2, <2>4, Zenon DEF IInv, LeaseIsHeard, AgentLeaseIsTracked
  <2>6. obs' \in [Sessions -> SUBSET Captures] /\ \A s \in Sessions : \A f \in obs'[s] : f \in obs[s]
    BY <1>2, Zenon DEF FewerFrames
  <2> HIDE DEF IInv
  <2> QED  BY <1>1, <1>2, <2>4, <2>5, <2>6, ReturnKeeps, Zenon
<1>4. CASE reply = "refused"
  <2>1. local' = AfterFailure
    BY <1>4, Zenon DEF HearAcquire
  <2>2. LeaseStays
    BY <1>1, <2>1, AfterFailureIs, Zenon
  <2>3. ~untracked => gw.owner # "agent"
    BY <1>4, Zenon DEF IInv, LeaseIsHeard
  <2> HIDE DEF IInv
  <2> QED  BY <1>1, <1>2, <2>2, <2>3, DropKeeps, Zenon
<1> QED  BY <1>1, <1>3, <1>4, Zenon

LEMMA HearReleaseKeeps ==
    ASSUME IInv, queue # <<>>, at = "release", reply \in {"ok", "refused", "unknown"},
           HearRelease, UNCHANGED <<disposing, late, desktop, calls, history>>
    PROVE  IInv'
<1>1. /\ op.kind \in {"release", "recover", "end", "dispose", "stop"} /\ reply # "unknown"
      /\ untracked \in BOOLEAN /\ (~untracked => "acquire" \notin late) /\ Shape /\ LeasesAreNamed
      /\ ~untracked => gw.owner # "agent"
  BY DEF IInv, Waits, Shape, LeaseIsHeard
<1>2. UNCHANGED obs \/ obs' = NoFrames
  BY DEF HearRelease
<1>3. FewerFrames
  BY <1>2, SameFrames, NoFramesAreFewer, Zenon
<1>4. CASE Return /\ local' = IF op.kind = "dispose" THEN {} ELSE local \ Mine
  <2>1. LeaseStays
    BY <1>1, <1>4, Zenon DEF Shape, LeasesAreNamed, LeaseStays
  <2> HIDE DEF IInv
  <2> QED  BY <1>1, <1>3, <1>4, <2>1, DropKeeps, Zenon
<1>5. CASE Released /\ op.kind = "stop" /\ Send("stop") /\ UNCHANGED <<local, obs>>
  <2>1. gw.owner = "none" /\ "stop" \in Requests
    BY <1>5, Zenon DEF Released, Requests
  <2>2. spent' = spent \cup {f.id : f \in IF "stop" = "act" THEN op.frame ELSE {}}
    OBVIOUS
  <2> HIDE DEF IInv
  <2> QED  BY <1>3, <1>5, <2>1, <2>2, SendKeeps, Zenon
<1>6. CASE Throw
  <2>1. LeaseStays /\ Return
    BY <1>1, <1>6, AfterFailureIs, Zenon DEF Throw
  <2> HIDE DEF IInv
  <2> QED  BY <1>1, <1>3, <2>1, DropKeeps, Zenon
<1> QED  BY <1>4, <1>5, <1>6, Zenon DEF HearRelease

LEMMA HearKeeps == ASSUME IInv, Hear PROVE IInv'
<1>1. /\ queue # <<>> /\ Current /\ reply \in {"ok", "refused", "unknown"}
      /\ UNCHANGED <<disposing, late, desktop, calls, history>>
  BY Zenon DEF Hear
<1>2. /\ untracked \in BOOLEAN /\ (~untracked => "acquire" \notin late) /\ Shape /\ LeasesAreNamed
      /\ ~untracked /\ at = "stop" => gw.owner # "agent"
  BY Zenon DEF IInv, Shape, LeaseIsHeard
<1>3. local' = local => LeaseStays /\ GrantStays
  BY <1>2, Zenon DEF Shape, LeasesAreNamed, LeaseStays, GrantStays
<1>4. CASE at = "acquire" /\ HearAcquire
  BY <1>1, <1>4, HearAcquireKeeps, Zenon
<1>5. CASE at = "observe" /\ HearObserve
  <2>1. Return /\ local' = local /\ (obs' = IF reply = "ok" THEN [obs EXCEPT ![op.session] = answer] ELSE obs)
    BY <1>5 DEF HearObserve
  <2>2. obs' \in [Sessions -> SUBSET Captures]
    BY <1>2, <2>1, Zenon DEF Shape
  <2>3. \A s \in Sessions : \A f \in obs'[s] :
          f \in obs[s] \/ (at = "observe" /\ reply = "ok" /\ f \in answer)
    BY <1>2, <1>5, <2>1, Zenon DEF Shape
  <2>4. AgentLeaseIsTracked'
    BY <1>1, <1>5, <2>1, Zenon DEF IInv, AgentLeaseIsTracked
  <2> HIDE DEF IInv
  <2> QED  BY <1>1, <1>2, <1>3, <1>5, <2>1, <2>2, <2>3, <2>4, ReturnKeeps, Zenon
<1>6. CASE at \in {"act", "launch"} /\ HearInput
  <2>1. Return /\ local' = local /\ obs' = NoFrames
    BY <1>6, Zenon DEF HearInput
  <2> HIDE DEF IInv
  <2> QED  BY <1>1, <1>2, <1>3, <1>6, <2>1, NoFramesAreFewer, DropKeeps, Zenon
<1>7. CASE at = "release" /\ HearRelease
  BY <1>1, <1>7, HearReleaseKeeps, Zenon
<1>8. CASE at \in {"stop", "start"} /\ HearPower
  <2>1. Return /\ obs' = NoFrames /\ local' = local \ (IF op.kind = "stop" THEN Mine ELSE {})
    BY <1>8, Zenon DEF HearPower
  <2>2. LeaseStays
    BY <1>2, <2>1, Zenon DEF Shape, LeasesAreNamed, LeaseStays
  <2>3. at = "start" => GrantStays
    <3>1. op.kind = at
      BY <1>8, Zenon DEF IInv, Waits
    <3> QED  BY <2>1, <3>1, Zenon DEF GrantStays
  <2> HIDE DEF IInv
  <2> QED  BY <1>1, <1>2, <1>8, <2>1, <2>2, <2>3, NoFramesAreFewer, DropKeeps, Zenon
<1> QED  BY <1>4, <1>5, <1>6, <1>7, <1>8, Zenon DEF Hear
-----------------------------------------------------------------------------
(* The steps of the Gateway, the humans and the cluster *)

Gateways == [boot: Nat, gen: Nat, owner: {"none", "agent", "human"}, blocked: BOOLEAN]

(* A step that gives the agent nothing: it may take control away, hand it  *)
(* to a human under a new generation, or restart the Gateway.              *)
GrantsNothing ==
    \/ gw'.boot = gw.boot /\ gw'.gen = gw.gen /\ gw'.owner \in {gw.owner, "none"}
    \/ gw'.boot = gw.boot /\ gw'.gen = gw.gen + 1 /\ gw'.owner = "human"
    \/ gw'.boot = gw.boot + 1 /\ gw'.owner = "none"

(* The agent's lease begins a generation. *)
Grants ==
    /\ gw'.boot = gw.boot /\ gw'.gen = gw.gen + 1
    /\ gw.owner = "none" /\ gw'.owner = "agent"

(* A frame that was trusted is trusted after the Gateway's step. *)
LEMMA TrustedStays ==
    ASSUME NEW f \in Captures, gw \in Gateways, gw' \in Gateways, GrantsNothing \/ Grants,
           Trusted(f), UNCHANGED untracked
    PROVE  Trusted(f)'
<1>1. /\ f.boot \in Nat /\ f.gen \in Nat /\ gw.boot \in Nat /\ gw.gen \in Nat
      /\ gw'.boot \in Nat /\ gw'.gen \in Nat
  BY Zenon DEF Captures, Gateways
<1>2. f.boot < gw'.boot \/ (f.boot = gw'.boot /\ f.gen <= gw'.gen)
  BY <1>1 DEF Trusted, GrantsNothing, Grants
<1>3. ASSUME gw'.owner = "agent", ~untracked, f.boot = gw'.boot, f.gen = gw'.gen
      PROVE  f.taken = f.gen
  BY <1>1, <1>3 DEF Trusted, GrantsNothing, Grants
<1> QED  BY <1>2, <1>3, Zenon DEF Trusted

(* Control changes hands under a new generation. *)
LEMMA HandedTo ==
    ASSUME gw \in Gateways, NEW owner \in {"none", "agent", "human"}
    PROVE  LET g == [gw EXCEPT !.owner = owner, !.gen = gw.gen + 1] IN
           g \in Gateways /\ g.boot = gw.boot /\ g.gen = gw.gen + 1 /\ g.owner = owner
<1>1. \A n \in Nat : LET g == [gw EXCEPT !.owner = owner, !.gen = n] IN
        g \in Gateways /\ g.boot = gw.boot /\ g.gen = n /\ g.owner = owner
  BY Zenon DEF Gateways
<1>2. gw.gen + 1 \in Nat
  BY DEF Gateways
<1> QED  BY <1>1, <1>2, Zenon

(* What the Gateway does with a request, and how it answers. *)
LEMMA HandleIs ==
    ASSUME Shape, NEW request, NEW outcome \in {"ok", "refused", "unknown"},
           Handle(request, outcome)
    PROVE  /\ gw' \in Gateways /\ vmi' \in Nat /\ vmis' \in Nat
           /\ GrantsNothing \/ (request = "acquire" /\ outcome = "ok" /\ Grants)
           /\ request = "acquire" /\ outcome = "ok" => Grants
           /\ request = "release" => gw'.owner # "agent"
           /\ outcome = "unknown" => request \in {"stop", "start"}
           /\ request = "act" /\ outcome = "ok" => gw.owner = "agent"
           /\ request \notin {"idle", "observe"}
           /\ gw'.boot = gw.boot
<1>1. gw \in Gateways /\ vmi \in Nat /\ vmis \in Nat
  BY DEF Shape, Gateways
<1>2. CASE request = "acquire" /\ acquireAgent(outcome)
  <2>1. CASE outcome = "refused" /\ UNCHANGED desktop
    BY <1>1, <1>2, <2>1, Zenon DEF GrantsNothing
  <2>2. CASE outcome = "ok" /\ gw.owner = "none" /\ UNCHANGED <<vmi, vmis>>
             /\ gw' = [gw EXCEPT !.owner = "agent", !.gen = gw.gen + 1]
    <3> DEFINE g == [gw EXCEPT !.owner = "agent", !.gen = gw.gen + 1]
    <3>1. g \in Gateways /\ g.boot = gw.boot /\ g.gen = gw.gen + 1 /\ g.owner = "agent"
      BY <1>1, HandedTo, Zenon
    <3>2. gw' = g
      BY <2>2, Zenon
    <3> HIDE DEF g
    <3>3. gw' \in Gateways /\ Grants /\ gw'.boot = gw.boot
      BY <2>2, <3>1, <3>2, Zenon DEF Grants
    <3> QED  BY <1>1, <1>2, <2>2, <3>3, Zenon
  <2> QED  BY <1>2, <2>1, <2>2, Zenon DEF acquireAgent
<1>3. CASE request = "release" /\ handleControlRelease(outcome)
  BY <1>1, <1>3, Zenon DEF handleControlRelease, Gateways, GrantsNothing
<1>4. CASE request \in {"act", "launch"} /\ handleAgentAction(outcome)
  BY <1>1, <1>4, Zenon DEF handleAgentAction, Gateways, GrantsNothing
<1>5. CASE request \in {"stop", "start"} /\ handlePower(request, outcome)
  <2>1. vmi' \in Nat /\ vmis' \in Nat
    BY <1>1, <1>5 DEF handlePower, dispatchPower, Powered
  <2>2. \/ gw' = gw
        \/ gw' = [gw EXCEPT !.blocked = (request = "stop")]
        \/ gw' = [gw EXCEPT !.blocked = TRUE]
    BY <1>5 DEF handlePower
  <2>3. gw' \in Gateways /\ gw'.boot = gw.boot /\ gw'.gen = gw.gen /\ gw'.owner = gw.owner
    <3>1. \A b \in BOOLEAN : LET g == [gw EXCEPT !.blocked = b] IN
            g \in Gateways /\ g.boot = gw.boot /\ g.gen = gw.gen /\ g.owner = gw.owner
      BY <1>1, Zenon DEF Gateways
    <3>2. (request = "stop") \in BOOLEAN /\ TRUE \in BOOLEAN
      BY Zenon
    <3> QED  BY <1>1, <2>2, <3>1, <3>2, Zenon
  <2> QED  BY <1>5, <2>1, <2>3, Zenon DEF GrantsNothing
<1> QED  BY <1>2, <1>3, <1>4, <1>5, Zenon DEF Handle

(* A step of the Gateway that the running operation hears nothing of, or   *)
(* hears of only as a lost request.                                        *)
LEMMA UnheardKeeps ==
    ASSUME IInv, UNCHANGED <<plugin, queue, at, answer, calls, history>>,
           gw' \in Gateways, vmi' \in Nat, vmis' \in Nat,
           GrantsNothing \/ (untracked /\ Grants),
           reply' = reply \/ (reply = "pending" /\ reply' = "lost"),
           gw'.boot = gw.boot \/ reply' # "pending",
           late' \subseteq late
    PROVE  IInv'
<1>1. op' = op /\ gw \in Gateways
  BY Zenon DEF op, IInv, Shape, Gateways
<1>2. Shape'
  BY Zenon DEF IInv, Shape, Gateways
<1>3. Waits' /\ LeasesAreNamed' /\ FramesAreOrdered'
  BY <1>1, Zenon DEF IInv, Waits, LeasesAreNamed, FramesAreOrdered
<1>4. FramesAreTrusted'
  <2>1. \A s \in Sessions : \A f \in obs[s] : f \in Captures
    BY Zenon DEF IInv, Shape
  <2>2. \A s \in Sessions : \A f \in obs'[s] : Trusted(f)'
    BY <1>1, <2>1, TrustedStays, Zenon DEF IInv, FramesAreTrusted
  <2>3. at' = "observe" /\ reply' = "ok" => \A a \in answer' : Trusted(a)'
    <3>1. \A a \in answer : a \in Captures
      BY Zenon DEF IInv, Shape
    <3> QED  BY <1>1, <3>1, TrustedStays, Zenon DEF IInv, FramesAreTrusted
  <2>4. at' = "observe" /\ reply' = "pending" =>
          \A a \in answer' : /\ a.boot = gw'.boot
                             /\ gw'.owner = "agent" /\ ~untracked' => a.taken = gw'.gen
    BY <1>1, Zenon DEF IInv, FramesAreTrusted, GrantsNothing
  <2> QED  BY <2>2, <2>3, <2>4, Zenon DEF FramesAreTrusted
<1>5. ~untracked /\ gw'.owner = "agent" => gw.owner = "agent" /\ gw'.gen = gw.gen /\ gw'.boot = gw.boot
  BY Zenon DEF GrantsNothing
<1>6. LeaseIsHeard'
  BY <1>1, <1>5, Zenon DEF IInv, LeaseIsHeard
<1>7. AgentLeaseIsTracked'
  BY <1>5, Zenon DEF IInv, AgentLeaseIsTracked
<1> QED  BY <1>2, <1>3, <1>4, <1>6, <1>7, Zenon DEF IInv

LEMMA ProcessKeeps == ASSUME IInv, Process PROVE IInv'
<1>1. PICK outcome \in {"ok", "refused", "unknown"} : Handle(at, outcome) /\ reply' = outcome
  BY Zenon DEF Process
<1>2. /\ reply = "pending" /\ UNCHANGED <<plugin, queue, at, late, calls, events, history>>
      /\ answer' = IF at = "acquire" /\ reply' = "ok"
                   THEN {[id |-> op.id, boot |-> gw.boot, vmi |-> vmi, gen |-> gw'.gen,
                          taken |-> gw'.gen]}
                   ELSE {}
  BY Zenon DEF Process
<1>3. /\ gw' \in Gateways /\ vmi' \in Nat /\ vmis' \in Nat
      /\ GrantsNothing \/ (at = "acquire" /\ outcome = "ok" /\ Grants)
      /\ at = "acquire" /\ outcome = "ok" => Grants
      /\ at = "release" => gw'.owner # "agent"
      /\ outcome = "unknown" => at \in {"stop", "start"}
      /\ at \notin {"idle", "observe"} /\ gw'.boot = gw.boot
  BY <1>1, HandleIs, Zenon DEF IInv
<1>4. queue # <<>> /\ op' = op /\ op.id \in Nat /\ gw \in Gateways
  <2>1. queue # <<>>
    BY <1>3, Zenon DEF IInv, Waits
  <2> QED  BY <1>2, <2>1, HeadIs, Zenon DEF IInv, Operations, op, Shape, Gateways
<1>5. /\ answer' \subseteq Captures /\ \A a, b \in answer' : a = b
      /\ \A a \in answer' : a.id = op.id /\ a.boot = gw.boot /\ a.gen = gw'.gen
      /\ at = "acquire" /\ reply' = "ok" => answer' # {}
  <2>1. CASE at = "acquire" /\ reply' = "ok"
    <3>1. gw'.gen \in Nat /\ gw.boot \in Nat /\ vmi \in Nat
      BY <1>3, <1>4, Zenon DEF Gateways, IInv, Shape
    <3> DEFINE c == [id |-> op.id, boot |-> gw.boot, vmi |-> vmi, gen |-> gw'.gen, taken |-> gw'.gen]
    <3>2. answer' = {c}
      BY <1>2, <2>1, Zenon
    <3>3. c \in Captures /\ c.id = op.id /\ c.boot = gw.boot /\ c.gen = gw'.gen
      BY <1>4, <3>1, Zenon DEF Captures
    <3> HIDE DEF c
    <3> QED  BY <3>2, <3>3, Zenon
  <2>2. CASE ~(at = "acquire" /\ reply' = "ok")
    <3>1. answer' = {}
      BY <1>2, <2>2, Zenon
    <3> QED  BY <2>2, <3>1, Zenon
  <2> QED  BY <2>1, <2>2, Zenon
<1>6. Shape'
  BY <1>2, <1>3, <1>5 DEF IInv, Shape, Gateways
<1>7. Waits' /\ LeasesAreNamed'
  BY <1>1, <1>2, <1>3, <1>4, <1>5, Zenon DEF IInv, Waits, LeasesAreNamed
<1>8. FramesAreOrdered'
  BY <1>2, <1>4, <1>5, Zenon DEF IInv, FramesAreOrdered
<1>9. FramesAreTrusted'
  <2>1. \A s \in Sessions : \A f \in obs[s] : f \in Captures
    BY Zenon DEF IInv, Shape
  <2>2. \A s \in Sessions : \A f \in obs'[s] : Trusted(f)'
    BY <1>2, <1>3, <1>4, <2>1, TrustedStays, Zenon DEF IInv, FramesAreTrusted
  <2> QED  BY <1>2, <1>3, <2>2, Zenon DEF FramesAreTrusted
<1>10. ~untracked /\ gw'.owner = "agent" /\ ~(at = "acquire" /\ outcome = "ok") =>
         at # "acquire" /\ gw.owner = "agent" /\ gw'.gen = gw.gen
  BY <1>2, <1>3, Zenon DEF GrantsNothing, IInv, LeaseIsHeard
<1>11. LeaseIsHeard'
  BY <1>1, <1>2, <1>3, <1>5, <1>10, Zenon DEF IInv, LeaseIsHeard
<1>12. AgentLeaseIsTracked'
  BY <1>1, <1>2, <1>3, <1>5, <1>10, Zenon DEF IInv, AgentLeaseIsTracked
<1> QED  BY <1>6, <1>7, <1>8, <1>9, <1>11, <1>12, Zenon DEF IInv

LEMMA ProcessLateKeeps == ASSUME IInv, ProcessLate PROVE IInv'
<1>1. PICK request \in late, outcome \in {"ok", "refused", "unknown"} :
        Handle(request, outcome) /\ late' = late \ {request}
  BY Zenon DEF ProcessLate
<1>2. UNCHANGED <<plugin, executor, calls, events, history>>
  BY Zenon DEF ProcessLate
<1>3. /\ gw' \in Gateways /\ vmi' \in Nat /\ vmis' \in Nat /\ gw'.boot = gw.boot
      /\ GrantsNothing \/ (request = "acquire" /\ outcome = "ok" /\ Grants)
  BY <1>1, HandleIs, Zenon DEF IInv
<1>4. request = "acquire" => untracked
  BY <1>1, Zenon DEF IInv, LeaseIsHeard
<1> HIDE DEF IInv
<1> QED  BY <1>1, <1>2, <1>3, <1>4, UnheardKeeps, Zenon

LEMMA ScreenshotKeeps == ASSUME IInv, Capture \/ writeScreenshotResponse PROVE IInv'
<1>1. /\ at = "observe" /\ reply = "pending"
      /\ UNCHANGED <<plugin, queue, at, late, desktop, calls, events, history>>
  BY Zenon DEF Capture, writeScreenshotResponse
<1>2. queue # <<>> /\ op' = op /\ op.id \in Nat /\ gw \in Gateways /\ vmi \in Nat
  <2>1. queue # <<>>
    BY <1>1, Zenon DEF IInv, Waits
  <2> QED  BY <1>1, <2>1, HeadIs, Zenon DEF IInv, Operations, op, Shape, Gateways
<1>3. /\ answer' \subseteq Captures /\ \A a, b \in answer' : a = b
      /\ \A a \in answer' : a.id = op.id /\ a.boot = gw.boot
      /\ gw.owner = "agent" /\ ~untracked => \A a \in answer' : a.taken = gw.gen
      /\ reply' \in {"refused", "pending", "ok"}
      /\ reply' = "ok" => \A a \in answer' : a.gen = gw.gen
  <2>1. CASE Capture /\ vmi = 0
    BY <1>1, <2>1, Zenon DEF Capture, IInv, Shape, FramesAreTrusted, FramesAreOrdered
  <2>2. CASE Capture /\ vmi # 0
    <3> DEFINE c == [id |-> op.id, boot |-> gw.boot, vmi |-> vmi, gen |-> 0, taken |-> gw.gen]
    <3>1. answer' = {c} /\ reply' = "pending"
      BY <2>2, Zenon DEF Capture
    <3>2. c \in Captures /\ c.id = op.id /\ c.boot = gw.boot /\ c.taken = gw.gen
      BY <1>2, Zenon DEF Captures, Gateways
    <3> HIDE DEF c
    <3> QED  BY <3>1, <3>2, Zenon
  <2>3. CASE writeScreenshotResponse
    <3>1. PICK a \in answer : answer = {a} /\ a \in Captures
      BY <2>3 DEF writeScreenshotResponse, IInv, Shape
    <3> DEFINE b == [a EXCEPT !.gen = gw.gen]
    <3>2. answer' = {b} /\ reply' = "ok"
      BY <2>3, <3>1, Zenon DEF writeScreenshotResponse
    <3>3. /\ b \in Captures /\ b.id = a.id /\ b.boot = a.boot /\ b.taken = a.taken
          /\ b.gen = gw.gen
      BY <1>2, <3>1, Zenon DEF Captures, Gateways
    <3>4. /\ a.id = op.id /\ a.boot = gw.boot
          /\ gw.owner = "agent" /\ ~untracked => a.taken = gw.gen
      BY <1>1, Zenon DEF IInv, FramesAreOrdered, FramesAreTrusted
    <3> HIDE DEF b
    <3> QED  BY <3>2, <3>3, <3>4, Zenon
  <2> QED  BY <2>1, <2>2, <2>3, Zenon
<1>4. Shape' /\ LeasesAreNamed'
  BY <1>1, <1>3 DEF IInv, Shape, LeasesAreNamed
<1>5. Waits'
  BY <1>1, <1>2, <1>3, Zenon DEF IInv, Waits
<1>6. FramesAreOrdered'
  BY <1>1, <1>2, <1>3, Zenon DEF IInv, FramesAreOrdered
<1>7. FramesAreTrusted'
  <2>1. gw.boot \in Nat /\ gw.gen \in Nat
    BY <1>2, Zenon DEF Gateways
  <2>2. reply' = "ok" => \A a \in answer' : Trusted(a)'
    BY <1>1, <1>3, <2>1 DEF Trusted
  <2> QED  BY <1>1, <1>3, <2>2, Zenon DEF IInv, FramesAreTrusted, Trusted
<1>8. LeaseIsHeard' /\ AgentLeaseIsTracked'
  BY <1>1, Zenon DEF IInv, LeaseIsHeard, AgentLeaseIsTracked
<1> QED  BY <1>4, <1>5, <1>6, <1>7, <1>8, Zenon DEF IInv

LEMMA ClusterKeeps ==
    ASSUME IInv, \/ HumanAcquire \/ HumanRelease \/ HumanPower \/ Expire
                 \/ RestartGateway \/ ReplaceVM
    PROVE  IInv'
<1>1. gw \in Gateways /\ vmi \in Nat /\ vmis \in Nat /\ Shape
  BY DEF IInv, Shape, Gateways
<1>2. UNCHANGED <<plugin, queue, at, answer, late, calls, history>>
  BY Zenon DEF HumanAcquire, HumanRelease, HumanPower, Expire, RestartGateway, ReplaceVM
<1> HIDE DEF IInv
<1>3. CASE HumanAcquire
  <2> DEFINE g == [gw EXCEPT !.owner = "human", !.gen = gw.gen + 1]
  <2>1. g \in Gateways /\ g.boot = gw.boot /\ g.gen = gw.gen + 1 /\ g.owner = "human"
    BY <1>1, HandedTo
  <2>2. gw' = g /\ UNCHANGED <<vmi, vmis, reply>>
    BY <1>3, Zenon DEF HumanAcquire
  <2> HIDE DEF g
  <2>3. gw' \in Gateways /\ GrantsNothing /\ gw'.boot = gw.boot
    BY <2>1, <2>2 DEF GrantsNothing
  <2> QED  BY <1>1, <1>2, <2>2, <2>3, UnheardKeeps, Zenon
<1>4. CASE HumanRelease \/ Expire
  <2>1. gw' = [gw EXCEPT !.owner = "none"] /\ UNCHANGED <<vmi, vmis, reply>>
    BY <1>4 DEF HumanRelease, Expire
  <2>2. gw' \in Gateways /\ GrantsNothing /\ gw'.boot = gw.boot
    BY <1>1, <2>1, Zenon DEF Gateways, GrantsNothing
  <2> QED  BY <1>1, <1>2, <2>1, <2>2, UnheardKeeps, Zenon
<1>5. CASE HumanPower
  <2>1. PICK action \in {"stop", "start"} : Handle(action, "ok")
    BY <1>5, Zenon DEF HumanPower, Handle
  <2>2. gw' \in Gateways /\ vmi' \in Nat /\ vmis' \in Nat /\ GrantsNothing /\ gw'.boot = gw.boot
    BY <1>1, <2>1, HandleIs, Zenon
  <2>3. UNCHANGED reply
    BY <1>5, Zenon DEF HumanPower
  <2> QED  BY <1>2, <2>2, <2>3, UnheardKeeps, Zenon
<1>6. CASE RestartGateway
  <2>1. /\ gw' = [boot |-> gw.boot + 1, gen |-> 0, owner |-> "none", blocked |-> FALSE]
        /\ UNCHANGED <<vmi, vmis>>
        /\ reply' = IF reply = "pending" THEN "lost" ELSE reply
    BY <1>6, Zenon DEF RestartGateway
  <2>2. gw' \in Gateways /\ GrantsNothing
    BY <1>1, <2>1 DEF Gateways, GrantsNothing
  <2> QED  BY <1>1, <1>2, <2>1, <2>2, UnheardKeeps, Zenon
<1>7. CASE ReplaceVM
  <2>1. UNCHANGED <<gw, reply>> /\ vmi' \in Nat /\ vmis' \in Nat
    BY <1>1, <1>7 DEF ReplaceVM
  <2>2. gw' \in Gateways /\ GrantsNothing /\ gw'.boot = gw.boot
    BY <1>1, <2>1, Zenon DEF GrantsNothing
  <2> QED  BY <1>2, <2>1, <2>2, UnheardKeeps, Zenon
<1> QED  BY <1>3, <1>4, <1>5, <1>6, <1>7, Zenon

(* A step that changes nothing of the model. *)
LEMMA StutterKeeps == IInv /\ UNCHANGED vars => IInv'
<1> SUFFICES ASSUME IInv, UNCHANGED vars PROVE IInv'
  OBVIOUS
<1>1. Shape' /\ Waits' /\ LeasesAreNamed'
  BY ZenonT(30) DEF vars, IInv, Shape, Waits, LeasesAreNamed, op
<1>2. FramesAreOrdered'
  BY DEF vars, IInv, FramesAreOrdered, op
<1>3. FramesAreTrusted' /\ LeaseIsHeard' /\ AgentLeaseIsTracked'
  BY Zenon DEF vars, IInv, FramesAreTrusted, Trusted, LeaseIsHeard, AgentLeaseIsTracked, op
<1> QED  BY <1>1, <1>2, <1>3, Zenon DEF IInv

LEMMA NextKeeps == IInv /\ [Next]_vars => IInv'
BY Zenon, PrologueKeeps, BeginKeeps, AbortKeeps, LoseKeeps, HearKeeps, ProcessKeeps, ProcessLateKeeps,
   ScreenshotKeeps, ClusterKeeps, StutterKeeps DEF Next

(* The local lease, the executor and the Gateway agree in every reachable  *)
(* state, whatever the tools' calls, the handovers and the lost requests.  *)
THEOREM Invariance == Spec => []IInv
BY InitEstablishes, NextKeeps, PTL DEF Spec

(* Every agent lease of the Gateway is the one the plugin established or   *)
(* the grant that its running acquisition has yet to hear of, unless an    *)
(* acquisition was given up or dropped (ensureControl, desktop_acquire).   *)
THEOREM AgentLeasesAreTracked == Spec => []AgentLeaseIsTracked
<1>1. IInv => AgentLeaseIsTracked
  BY Zenon DEF IInv
<1> QED  BY <1>1, Invariance, PTL
-----------------------------------------------------------------------------
(* What a batch is sent for *)

(* The prologues leave the running operation's request alone. *)
LEMMA PrologueIsSilent == Prologue => UNCHANGED <<at, reply, gw>>
<1> SUFFICES ASSUME Prologue PROVE UNCHANGED <<at, reply, gw>>
  BY Zenon
<1>1. ASSUME NEW kind, NEW s, NEW lease, Enqueue(kind, s, lease) PROVE UNCHANGED <<at, reply, gw>>
  BY <1>1, Zenon DEF Enqueue
<1>2. ASSUME NEW s \in Sessions, CallAcquire(s) \/ CallObserve(s) \/ CallInput(s) \/ CallRelease(s)
      PROVE  UNCHANGED <<at, reply, gw>>
  BY <1>1, <1>2, Zenon DEF CallAcquire, CallObserve, CallInput, CallRelease, Call
<1>3. ASSUME NEW s \in Sessions, CallStop(s) \/ CallStart(s) PROVE UNCHANGED <<at, reply, gw>>
  BY <1>1, <1>3 DEF CallStop, CallStart, Call
<1>4. Dispose => UNCHANGED <<at, reply, gw>>
  BY <1>1, Zenon DEF Dispose, Call
<1>5. ASSUME NEW s \in Sessions, SessionEnd(s) \/ ReleaseEnded(s)
      PROVE  UNCHANGED <<at, reply, gw>>
  BY <1>1, <1>5, Zenon DEF SessionEnd, ReleaseEnded
<1> QED  BY <1>2, <1>3, <1>4, <1>5, Zenon DEF Prologue

(* The frame of a batch that is sent is the session's last one, captured   *)
(* under the lease that is held, and not spent.                            *)
LEMMA SentIsFresh ==
    ASSUME IInv, Next, at = "idle", at' = "act"
    PROVE  /\ \A f \in op.frame : f.id \notin spent
           /\ ~untracked => \E f \in op.frame : f.vmi = vmi /\ f.taken = gw.gen /\ f.boot = gw.boot
<1>1. Begin
  <2>1. ~Prologue
    BY PrologueIsSilent, Zenon
  <2>2. ~Abort /\ ~Lose
    BY DEF Abort, Lose, Throw, Return
  <2>3. ~Hear
    BY DEF Hear
  <2>4. ~Process /\ ~ProcessLate /\ ~Capture /\ ~writeScreenshotResponse
    BY DEF Process, ProcessLate, Capture, writeScreenshotResponse
  <2>5. ~HumanAcquire /\ ~HumanRelease /\ ~HumanPower /\ ~Expire /\ ~RestartGateway /\ ~ReplaceVM
    BY Zenon DEF HumanAcquire, HumanRelease, HumanPower, Expire, RestartGateway, ReplaceVM
  <2> QED  BY <2>1, <2>2, <2>3, <2>4, <2>5, Zenon DEF Next
<1>2. BeginInput /\ op.kind \in {"act", "launch"} /\ queue # <<>>
  BY <1>1, Zenon DEF Begin, BeginAcquire, Throw, Return, Send
<1>3. ControlExists /\ (op.kind = "launch" \/ observationIsFresh(op.frame)) /\ Send(op.kind)
  BY <1>2, Zenon DEF BeginInput, Throw, Return
<1>4. op.kind = "act"
  BY <1>3, Zenon DEF Send
<1>5. PICK f \in op.frame :
        op.frame = obs[op.session] /\ f.boot = gw.boot /\ f.vmi = vmi /\ f.gen = gw.gen
  BY <1>3, <1>4, Zenon DEF observationIsFresh
<1>6. op.session \in Sessions
  BY <1>2, HeadIs, Zenon DEF IInv, Operations
<1>7. \A g \in op.frame : g.id \notin spent
  BY <1>5, <1>6, Zenon DEF IInv, FramesAreOrdered
<1>8. ~untracked => f.taken = gw.gen
  BY <1>3, <1>5, <1>6, Zenon DEF IInv, FramesAreTrusted, Trusted, ControlExists
<1> QED  BY <1>5, <1>7, <1>8, Zenon

(* The Gateway takes a batch that the plugin waits for only from the lease *)
(* under which its frame was captured.                                     *)
LEMMA TakenIsFresh ==
    ASSUME IInv, Next, at = "act", reply = "pending", reply' = "ok", ~untracked
    PROVE  \E f \in op.frame : f.taken = gw.gen /\ f.boot = gw.boot
<1>1. Process
  <2>1. ~Prologue
    BY PrologueIsSilent, Zenon
  <2>2. ~Begin /\ ~Abort /\ ~Lose /\ ~Hear
    BY DEF Begin, Abort, Lose, Hear, Throw, Return
  <2>3. ~ProcessLate /\ ~Capture /\ ~writeScreenshotResponse
    BY DEF ProcessLate, Capture, writeScreenshotResponse
  <2>4. ~HumanAcquire /\ ~HumanRelease /\ ~HumanPower /\ ~Expire /\ ~RestartGateway /\ ~ReplaceVM
    BY Zenon DEF HumanAcquire, HumanRelease, HumanPower, Expire, RestartGateway, ReplaceVM
  <2> QED  BY <2>1, <2>2, <2>3, <2>4, Zenon DEF Next
<1>2. Handle("act", "ok")
  BY <1>1, Zenon DEF Process
<1>3. gw.owner = "agent"
  BY <1>2, HandleIs, Zenon DEF IInv
<1> QED  BY <1>3, Zenon DEF IInv, LeaseIsHeard

(* desktop_act sends a batch only for a frame captured under the lease     *)
(* that is held, on the VMI that runs, and the Gateway takes it only under *)
(* that lease (observationIsFresh, handleAgentAction).                     *)
THEOREM InputStaysFresh == Spec => InputIsFresh
<1> DEFINE Step ==
      ~untracked =>
        /\ at = "idle" /\ at' = "act" =>
            \E f \in op.frame : f.vmi = vmi /\ f.taken = gw.gen /\ f.boot = gw.boot
        /\ at = "act" /\ reply = "pending" /\ reply' = "ok" =>
            \E f \in op.frame : f.taken = gw.gen /\ f.boot = gw.boot
<1>1. IInv /\ [Next]_vars => [Step]_vars
  BY SentIsFresh, TakenIsFresh, Zenon
<1>2. InputIsFresh <=> [][Step]_vars
  BY Zenon DEF InputIsFresh
<1> HIDE DEF Step
<1> QED  BY <1>1, <1>2, Invariance, PTL DEF Spec

(* One observation unlocks one batch, also when two calls present it and   *)
(* when the first one was refused, lost or aborted.                        *)
THEOREM FramesAreSpentOnce == Spec => OneBatchPerFrame
<1> DEFINE Step == at = "idle" /\ at' = "act" => \A f \in op.frame : f.id \notin spent
<1>1. IInv /\ [Next]_vars => [Step]_vars
  BY SentIsFresh, Zenon
<1>2. OneBatchPerFrame <=> [][Step]_vars
  BY Zenon DEF OneBatchPerFrame
<1> HIDE DEF Step
<1> QED  BY <1>1, <1>2, Invariance, PTL DEF Spec
-----------------------------------------------------------------------------
(* Whose lease a step closes *)

Kept(l) == \E k \in local' : k.session = l.session /\ (k.closing => l.closing)

Entitled(l) ==
    \/ l.orphaned
    \/ disposing'
    \/ queue # <<>> /\ op.session = l.session
    \/ queue' # <<>> /\ queue'[Len(queue')].session = l.session

(* The running operation was called by the session of the lease it names. *)
LEMMA MineIsCalled ==
    ASSUME IInv, queue # <<>>, op.kind # "recover", NEW l \in Mine
    PROVE  op.session = l.session
BY HeadIs DEF Mine, IInv, LeasesAreNamed

(* A failed operation touches its own lease, or disposes of any. *)
LEMMA FailureIsEntitled ==
    ASSUME IInv, queue # <<>>, local' = AfterFailure, UNCHANGED disposing, NEW l \in local
    PROVE  Kept(l) \/ Entitled(l)
<1>1. CASE op.kind = "dispose"
  <2>1. disposing
    BY <1>1, HeadIs, Zenon DEF IInv, LeasesAreNamed
  <2> QED  BY <2>1, Zenon DEF Entitled
<1>2. CASE l \in Mine /\ op.kind # "recover"
  BY <1>2, MineIsCalled, Zenon DEF Entitled
<1>3. CASE op.kind = "recover"
  <2>1. local' = local
    BY <1>3, Zenon DEF AfterFailure
  <2> QED  BY <2>1 DEF Kept
<1>4. CASE l \notin Mine /\ op.kind # "dispose"
  <2>1. Mine = {}
    BY <1>4, Zenon DEF Mine, IInv, Shape
  <2>2. Renewed = local
    BY <2>1 DEF Renewed
  <2>3. l \in local'
    BY <1>4, <2>1, <2>2, Zenon DEF AfterFailure, Mine
  <2> QED  BY <2>3, Zenon DEF Kept
<1> QED  BY <1>1, <1>2, <1>3, <1>4, Zenon

(* A call closes the lease of the session that makes it. *)
LEMMA PrologueIsEntitled ==
    ASSUME IInv, Prologue, NEW l \in local
    PROVE  Kept(l) \/ Entitled(l)
<1>1. local' = local => Kept(l)
  BY Zenon DEF Kept
<1>2. \A k \in local : k = l
  BY DEF IInv, Shape
<1>3. ASSUME NEW kind \in Kinds, NEW s \in Sessions, NEW k \in local, Enqueue(kind, s, k.id)
      PROVE  queue' # <<>> /\ queue'[Len(queue')].session = s
  <2> DEFINE e == [id |-> calls', kind |-> kind, session |-> s, lease |-> k.id,
                   frame |-> IF kind = "act" THEN obs[s] ELSE {}]
  <2>1. queue' = Append(queue, e) /\ e.session = s
    BY <1>3, Zenon DEF Enqueue
  <2> HIDE DEF e
  <2>2. queue \in Seq(Operations)
    BY DEF IInv, Shape
  <2> QED  BY <2>1, <2>2
<1>4. "release" \in Kinds /\ "stop" \in Kinds /\ "end" \in Kinds
  BY DEF Kinds
<1>5. CASE Dispose
  BY <1>5, Zenon DEF Dispose, Entitled
<1>6. ASSUME NEW s \in Sessions, CallAcquire(s) PROVE Kept(l)
  BY <1>1, <1>6, Zenon DEF CallAcquire
<1>7. ASSUME NEW s \in Sessions, CallObserve(s) \/ CallInput(s) \/ CallStart(s) PROVE Kept(l)
  BY <1>1, <1>7, Zenon DEF CallObserve, CallInput, CallStart
<1>8. ASSUME NEW s \in Sessions, CallRelease(s) PROVE Kept(l) \/ Entitled(l)
  <2>1. PICK k \in local : \/ local' = local
                           \/ Owner(s) /\ Enqueue("release", s, k.id)
    BY <1>8, Zenon DEF CallRelease, Call
  <2>2. CASE Owner(s) /\ Enqueue("release", s, k.id)
    <3>1. l.session = s
      BY <1>2, <2>2, Zenon DEF Owner
    <3> QED  BY <1>3, <1>4, <2>2, <3>1, Zenon DEF Entitled
  <2> QED  BY <1>1, <2>1, <2>2, Zenon
<1>9. ASSUME NEW s \in Sessions, CallStop(s) PROVE Entitled(l)
  <2>1. PICK k \in local : Owner(s) /\ Enqueue("stop", s, k.id)
    BY <1>9, Zenon DEF CallStop, Call
  <2>2. l.session = s
    BY <1>2, <2>1, Zenon DEF Owner
  <2> QED  BY <1>3, <1>4, <2>1, <2>2, Zenon DEF Entitled
<1>10. ASSUME NEW s \in Sessions, SessionEnd(s) PROVE Kept(l)
  BY <1>1, <1>10, Zenon DEF SessionEnd
<1>11. ASSUME NEW s \in Sessions, ReleaseEnded(s) PROVE Kept(l) \/ Entitled(l)
  <2>1. CASE local' = local
    BY <1>1, <2>1, Zenon
  <2>2. CASE \E k \in local : k.session = s /\ Enqueue("end", s, k.id)
    <3>1. PICK k \in local : k.session = s /\ Enqueue("end", s, k.id)
      BY <2>2, Zenon
    <3>2. l.session = s
      BY <1>2, <3>1, Zenon
    <3> QED  BY <1>3, <1>4, <3>1, <3>2, Zenon DEF Entitled
  <2> QED  BY <1>11, <2>1, <2>2, Zenon DEF ReleaseEnded
<1> QED  BY <1>5, <1>6, <1>7, <1>8, <1>9, <1>10, <1>11, Zenon DEF Prologue

(* An operation drops or quarantines the lease it was called with. *)
LEMMA ExecutorIsEntitled ==
    ASSUME IInv, Begin \/ Abort \/ Lose \/ Hear, NEW l \in local
    PROVE  Kept(l) \/ Entitled(l)
<1>1. queue # <<>> /\ UNCHANGED disposing
  BY Zenon DEF Begin, Abort, Lose, Hear
<1>2. local' = local => Kept(l)
  BY Zenon DEF Kept
<1>3. local' = AfterFailure => Kept(l) \/ Entitled(l)
  BY <1>1, FailureIsEntitled, Zenon
<1>4. l \in Mine /\ op.kind # "recover" => Entitled(l)
  BY <1>1, MineIsCalled, Zenon DEF Entitled
<1>5. \A k \in local : k = l
  BY Zenon DEF IInv, Shape
<1>6. CASE Begin
  <2>1. CASE op.kind = "acquire" /\ BeginAcquire
    <3>1. l \in Mine
      BY <1>5, <1>6, <2>1, Zenon DEF Begin, Current, Mine
    <3> QED  BY <1>4, <2>1, <3>1, Zenon
  <2>2. CASE op.kind \in {"act", "launch"} /\ BeginInput
    BY <1>2, <1>3, <2>2, Zenon DEF BeginInput, Throw
  <2>3. CASE Throw \/ UNCHANGED local
    BY <1>2, <1>3, <2>3, Zenon DEF Throw
  <2> QED  BY <1>6, <2>1, <2>2, <2>3, Zenon DEF Begin
<1>7. CASE Abort \/ Lose
  BY <1>3, <1>7, Zenon DEF Abort, Lose, Throw
<1>8. CASE Hear
  <2>1. CASE at = "acquire" /\ HearAcquire
    <3>1. op.kind = "acquire"
      BY <2>1, Zenon DEF IInv, Waits
    <3>2. l \in Mine
      BY <1>5, <1>8, <3>1, Zenon DEF Hear, Current, Mine
    <3> QED  BY <1>4, <3>1, <3>2, Zenon
  <2>2. CASE HearObserve \/ HearInput
    BY <1>2, <2>2, Zenon DEF HearObserve, HearInput
  <2>3. CASE at = "release" /\ HearRelease
    <3>1. CASE local' = IF op.kind = "dispose" THEN {} ELSE local \ Mine
      <4>1. op.kind = "dispose" => Entitled(l)
        BY <1>1, HeadIs, Zenon DEF IInv, LeasesAreNamed, Entitled
      <4>2. op.kind = "recover" /\ l \in Mine => Entitled(l)
        BY <1>5, <1>8, Zenon DEF Hear, Current, Mine, Entitled
      <4>3. op.kind # "dispose" /\ l \notin Mine => Kept(l)
        BY <3>1, Zenon DEF Kept
      <4> QED  BY <1>4, <4>1, <4>2, <4>3, Zenon
    <3>2. CASE Throw \/ UNCHANGED local
      BY <1>2, <1>3, <3>2 DEF Throw
    <3> QED  BY <2>3, <3>1, <3>2, Zenon DEF HearRelease
  <2>4. CASE HearPower
    <3>1. l \in local' \/ (op.kind = "stop" /\ l \in Mine)
      BY <2>4, Zenon DEF HearPower
    <3> QED  BY <1>4, <3>1, Zenon DEF Kept
  <2> QED  BY <1>8, <2>1, <2>2, <2>3, <2>4, Zenon DEF Hear
<1> QED  BY <1>6, <1>7, <1>8, Zenon

(* No session's call closes or drops the lease of another one: it can only *)
(* recover one that is already orphaned (requireLocalControl,              *)
(* assertCurrentLease, desktop_release).                                   *)
THEOREM LeasesAreNotTaken == Spec => LeaseIsNotTaken
<1> DEFINE Step == \A l \in local : ~Kept(l) => Entitled(l)
<1>1. IInv /\ [Next]_vars => [Step]_vars
  <2> SUFFICES ASSUME IInv, Next, NEW l \in local PROVE Kept(l) \/ Entitled(l)
    OBVIOUS
  <2>1. CASE Prologue
    BY <2>1, PrologueIsEntitled, Zenon
  <2>2. CASE Begin \/ Abort \/ Lose \/ Hear
    BY <2>2, ExecutorIsEntitled, Zenon
  <2>3. CASE \/ Process \/ ProcessLate \/ Capture \/ writeScreenshotResponse
             \/ HumanAcquire \/ HumanRelease \/ HumanPower \/ Expire \/ RestartGateway \/ ReplaceVM
    <3>1. local' = local
      BY <2>3, Zenon DEF Process, ProcessLate, Capture, writeScreenshotResponse, HumanAcquire,
         HumanRelease, HumanPower, Expire, RestartGateway, ReplaceVM
    <3> QED  BY <3>1, Zenon DEF Kept
  <2> QED  BY <2>1, <2>2, <2>3, Zenon DEF Next
<1>2. LeaseIsNotTaken <=> [][Step]_vars
  BY DEF LeaseIsNotTaken, Kept, Entitled
<1> HIDE DEF Step
<1> QED  BY <1>1, <1>2, Invariance, PTL DEF Spec
=============================================================================
