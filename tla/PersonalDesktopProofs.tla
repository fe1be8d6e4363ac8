------------------------ MODULE PersonalDesktopProofs ------------------------
(***************************************************************************)
(* Proofs about the Personal Desktop controller, for any number of edits,  *)
(* deletions, outages, failed calls and restarts: the finalizer stays for  *)
(* as long as there is something to clean up, the Gateway never presents   *)
(* another token than the guest's, and a disk is removed only with an      *)
(* Instance whose policy says so.                                          *)
(*                                                                         *)
(* The invariant says what a reconcile may still do by the calls it has    *)
(* left: a cleanup still holds a call for every object there is, or the    *)
(* objects are gone; and how far the Instances that the API server, the    *)
(* cache and the reconcile hold can differ.                                *)
(***************************************************************************)
EXTENDS PersonalDesktop, TLAPS

(* An Instance that asks for a desktop. *)
Wanted(s) == s.life = "live" /\ Enabled(s)

(* The calls of a reconcile that builds a desktop, and of one that removes *)
(* it.                                                                     *)
BuildCalls(s) ==
    {<<"finalize", "instance">>, <<"require", "kubevirt">>, <<"publish", "Pending">>,
     <<"publish", "Degraded">>, <<"publish", "observed">>}
    \cup {"apply"} \X (IF s.away THEN Kinds ELSE Kinds \ {"mirror"})
    \cup {"create"} \X {"golden", "root"}
    \cup {"remove"} \X Payloads

Expendable(s) ==
    (Kinds \ Retained)
    \cup (IF s.life = "deleting" /\ ~retains(s) THEN {"tokens"} ELSE {})
    \cup (IF s.life = "deleting" /\ ~retains(s) /\ ~s.adopted THEN {"root"} ELSE {})

CleanupCalls(s) ==
    {<<"publish", "Disabled">>}
    \cup (IF s.life = "deleting" THEN {<<"publish", "Deleting">>} ELSE {})
    \cup (IF s.life = "gone" THEN {} ELSE {<<"cleanup", "desktop">>, <<"unfinalize", "instance">>})
    \cup (IF s.life = "gone" THEN {} ELSE {"delete"} \X Expendable(s))

(* The order of a reconcile's calls: the finalizer first, the status last  *)
(* but for a deletion's, and the finalizer's removal after the objects'.   *)
Precedes(call, next) ==
    /\ next[1] # "finalize"
    /\ call[1] = "publish" => call[2] = "Deleting" /\ next = <<"cleanup", "desktop">>
    /\ call[1] = "unfinalize" => next = <<"publish", "Disabled">>

InOrder(calls) == \A i, j \in DOMAIN calls : i < j => Precedes(calls[i], calls[j])

Planned(s, calls) ==
    /\ calls # <<>>
    /\ InOrder(calls)
    /\ calls \in Seq(IF Wanted(s) THEN BuildCalls(s) ELSE CleanupCalls(s))

Types ==
    /\ inst \in Instances /\ cache \in Instances /\ events \in 0..MaxEvents
    /\ \A r, q \in run : r = q /\ r.seen \in Instances
    /\ objs \subseteq Kinds \X {"instance", "desktop"} /\ fading \subseteq Slow
    /\ {tokens, payload, booted, serving} \subseteq Tokens
    /\ stranded \in BOOLEAN /\ tokenless \in BOOLEAN

Plans == \A r \in run : Planned(r.seen, r.calls)

(* What an Instance keeps from its creation on. *)
Alike(s) == s.away = inst.away /\ s.adopted = inst.adopted /\ s.version <= inst.version

(* The copies of the Instance: a copy that is being deleted is not out of  *)
(* date by more than edits, and one that asks for no desktop is older than *)
(* an Instance that does.                                                  *)
Copies ==
    /\ inst.version <= events
    /\ inst.life = "deleting" => inst.finalizer
    /\ inst.life = "gone" => ~inst.finalizer
    /\ Alike(cache)
    /\ cache.life = "deleting" => inst.life # "live"
    /\ cache.life # "gone" /\ ~Wanted(cache) /\ Wanted(inst) => cache.version < inst.version
    /\ \A r \in run :
        /\ Alike(r.seen)
        /\ r.seen.life = "deleting" => inst.life # "live" /\ cache.life # "live"
        /\ ~Wanted(r.seen) /\ Wanted(inst) => r.seen.version < inst.version
        /\ ~Wanted(r.seen) /\ Wanted(cache) => r.seen.version < cache.version

(* Whoever builds has seen or set the finalizer, and it is still there. *)
Finalized ==
    /\ Wanted(cache) /\ cache.finalizer => inst.finalizer
    /\ \A r \in run : Wanted(r.seen) =>
        /\ r.seen.finalizer => inst.finalizer
        /\ Head(r.calls)[1] \notin {"finalize", "publish"} => r.seen.finalizer

Has(calls, call) == \E i \in DOMAIN calls : calls[i] = call

(* An object is where the Instance's names put it, what depends on an      *)
(* object goes with it, and a disk is there until its volume has gone.     *)
Placed ==
    /\ \A o \in objs : /\ o[2] = IF o[1] \notin {"extension", "mirror"} /\ inst.away THEN "desktop"
                                 ELSE "instance"
                       /\ o[1] = "mirror" => inst.away
    /\ tokens # 0 => \E o \in objs : o[1] = "tokens"
    /\ payload # 0 => \E o \in objs : o[1] \in Payloads
    /\ disk # "absent" \/ booted # 0 => \/ inst.adopted \/ "root" \in fading
                                         \/ \E o \in objs : o[1] = "root"

(* A cleanup that is underway still removes every object that it should,   *)
(* before it drops the finalizer.                                          *)
Covered ==
    \A r \in run : Has(r.calls, <<"unfinalize", "instance">>) =>
        /\ ~stranded =>
            /\ ~(r.seen.block = "absent" /\ r.seen.away)
            /\ \A o \in objs : o[1] \in Retained \/ Has(r.calls, <<"delete", o[1]>>)
        /\ ~tokenless /\ r.seen.life = "deleting" /\ ~retains(r.seen) =>
            /\ ~r.seen.adopted
            /\ \A o \in objs : o[1] = "golden" \/ Has(r.calls, <<"delete", o[1]>>)

NoToken == tokens = 0 /\ payload = 0 /\ booted = 0 /\ serving = 0

(* What is left of the token goes with the disk and with the Pod.          *)
Spent ==
    /\ tokens = 0 /\ payload = 0
    /\ booted # 0 => "root" \in fading
    /\ serving # 0 => ~Exists("gateway")

(* A deletion that nobody withdraws removes the disk only if the Instance  *)
(* still says so, and has removed the tokens with it.                      *)
DeletesOnce(s) ==
    s.life = "deleting" /\ ~retains(s) =>
        /\ inst.life = "deleting" => ~retains(inst)
        /\ inst.life = "gone" => Spent

(* There is one token; without its Secret, the rest of it is on its way    *)
(* out with the Instance.                                                  *)
OneToken ==
    ~tokenless =>
        /\ \A x, y \in {tokens, payload, booted, serving} : x = 0 \/ y = 0 \/ x = y
        /\ tokens = 0 /\ ~NoToken =>
            /\ inst.life # "live" /\ cache.life # "live"
            /\ inst.life = "deleting" => ~retains(inst)
            /\ inst.life = "gone" => Spent
            /\ \A r \in run : r.seen.life # "live"
        /\ DeletesOnce(cache)
        /\ \A r \in run : DeletesOnce(r.seen)

IInv ==
    /\ Types /\ Plans /\ Copies /\ Finalized /\ Placed /\ Covered /\ OneToken
    /\ FinalizerGuardsObjects
-----------------------------------------------------------------------------
(* Sequences of calls *)

(* The call that is made and the ones that are left. *)
LEMMA TailIs ==
    ASSUME NEW S, NEW c \in Seq(S), c # <<>>
    PROVE  /\ Head(c) = c[1] /\ 1 \in DOMAIN c /\ Head(c) \in S /\ Tail(c) \in Seq(S)
           /\ \A i \in DOMAIN Tail(c) : i + 1 \in DOMAIN c /\ Tail(c)[i] = c[i + 1] /\ 1 < i + 1
           /\ \A i \in DOMAIN c : i = 1 \/ (i - 1 \in DOMAIN Tail(c) /\ Tail(c)[i - 1] = c[i])
OBVIOUS

LEMMA TailInOrder ==
    ASSUME NEW S, NEW c \in Seq(S), c # <<>>, InOrder(c)
    PROVE  /\ InOrder(Tail(c))
           /\ \A i \in DOMAIN Tail(c) : Precedes(Head(c), Tail(c)[i])
<1>1. ASSUME NEW i \in DOMAIN Tail(c), NEW j \in DOMAIN Tail(c), i < j
      PROVE  Precedes(Tail(c)[i], Tail(c)[j])
  <2>1. /\ i + 1 \in DOMAIN c /\ Tail(c)[i] = c[i + 1]
        /\ j + 1 \in DOMAIN c /\ Tail(c)[j] = c[j + 1]
    BY TailIs
  <2>2. i + 1 < j + 1
    BY <1>1
  <2> QED  BY <2>1, <2>2 DEF InOrder
<1>2. ASSUME NEW i \in DOMAIN Tail(c) PROVE Precedes(Head(c), Tail(c)[i])
  BY TailIs DEF InOrder
<1> QED  BY <1>1, <1>2 DEF InOrder

LEMMA TailHas ==
    ASSUME NEW S, NEW c \in Seq(S), c # <<>>, NEW x
    PROVE  Has(c, x) <=> Head(c) = x \/ Has(Tail(c), x)
<1>1. Has(c, x) => Head(c) = x \/ Has(Tail(c), x)
  <2>1. ASSUME NEW i \in DOMAIN c, c[i] = x, i # 1
        PROVE  i - 1 \in DOMAIN Tail(c) /\ Tail(c)[i - 1] = x
    BY <2>1, TailIs
  <2>2. Head(c) = c[1]
    BY TailIs
  <2> QED  BY <2>1, <2>2, Zenon DEF Has
<1>2. Head(c) = x => Has(c, x)
  BY TailIs DEF Has
<1>3. Has(Tail(c), x) => Has(c, x)
  <2>1. ASSUME NEW i \in DOMAIN Tail(c), Tail(c)[i] = x PROVE i + 1 \in DOMAIN c /\ c[i + 1] = x
    BY <2>1, TailIs
  <2> QED  BY <2>1 DEF Has
<1> QED  BY <1>1, <1>2, <1>3

(* Two sequences of calls, one after the other. *)
LEMMA ConcatIs ==
    ASSUME NEW S, NEW c \in Seq(S), NEW d \in Seq(S)
    PROVE  /\ c \o d \in Seq(S)
           /\ \A i \in DOMAIN c : i \in DOMAIN (c \o d) /\ (c \o d)[i] = c[i]
           /\ \A i \in DOMAIN d : Len(c) + i \in DOMAIN (c \o d) /\ (c \o d)[Len(c) + i] = d[i]
           /\ \A i \in DOMAIN (c \o d) :
                \/ i \in DOMAIN c
                \/ i \notin DOMAIN c /\ Len(c) < i /\ i - Len(c) \in DOMAIN d
                   /\ (c \o d)[i] = d[i - Len(c)]
OBVIOUS

LEMMA ConcatInOrder ==
    ASSUME NEW A, NEW B, NEW c \in Seq(A), NEW d \in Seq(B),
           InOrder(c), InOrder(d), \A a \in A, b \in B : Precedes(a, b)
    PROVE  c \o d \in Seq(A \cup B) /\ InOrder(c \o d)
<1>1. c \in Seq(A \cup B) /\ d \in Seq(A \cup B)
  OBVIOUS
<1>2. ASSUME NEW i \in DOMAIN (c \o d), NEW j \in DOMAIN (c \o d), i < j
      PROVE  Precedes((c \o d)[i], (c \o d)[j])
  <2>1. DOMAIN c = 1..Len(c) /\ DOMAIN d = 1..Len(d) /\ Len(c) \in Nat /\ Len(d) \in Nat
        /\ DOMAIN (c \o d) = 1..(Len(c) + Len(d))
    OBVIOUS
  <2>2. CASE i \in DOMAIN c /\ j \in DOMAIN c
    BY <1>1, <1>2, <2>2, ConcatIs DEF InOrder
  <2>3. CASE i \in DOMAIN c /\ j \notin DOMAIN c
    <3>1. (c \o d)[i] = c[i] /\ c[i] \in A
      BY <1>1, <2>3, ConcatIs
    <3>2. (c \o d)[j] \in B
      BY <1>1, <2>3, ConcatIs
    <3> QED  BY <3>1, <3>2
  <2>4. CASE i \notin DOMAIN c /\ j \notin DOMAIN c
    <3>1. /\ i - Len(c) \in DOMAIN d /\ (c \o d)[i] = d[i - Len(c)]
          /\ j - Len(c) \in DOMAIN d /\ (c \o d)[j] = d[j - Len(c)]
      BY <1>1, <2>4, ConcatIs
    <3>2. i - Len(c) < j - Len(c)
      BY <1>2, <2>1
    <3> QED  BY <3>1, <3>2 DEF InOrder
  <2> QED  BY <1>2, <2>1, <2>2, <2>3, <2>4
<1> QED  BY <1>1, <1>2, ConcatIs DEF InOrder

LEMMA ConcatHas ==
    ASSUME NEW S, NEW c \in Seq(S), NEW d \in Seq(S), NEW x
    PROVE  Has(c \o d, x) <=> Has(c, x) \/ Has(d, x)
<1>1. Has(c \o d, x) => Has(c, x) \/ Has(d, x)
  BY ConcatIs DEF Has
<1>2. Has(c, x) => Has(c \o d, x)
  BY ConcatIs DEF Has
<1>3. Has(d, x) => Has(c \o d, x)
  <2>1. ASSUME NEW i \in DOMAIN d, d[i] = x
        PROVE  Len(c) + i \in DOMAIN (c \o d) /\ (c \o d)[Len(c) + i] = x
    BY <2>1, ConcatIs
  <2> QED  BY <2>1, Zenon DEF Has
<1> QED  BY <1>1, <1>2, <1>3

(* One call, and calls that may come in any order. *)
LEMMA OneInOrder == \A call : InOrder(<<call>>) /\ Has(<<call>>, call)
BY DEF InOrder, Has

LEMMA AnyOrder ==
    ASSUME NEW A, NEW c \in Seq(A), \A a, b \in A : Precedes(a, b)
    PROVE  InOrder(c)
BY DEF InOrder

LEMMA HasOnly ==
    ASSUME NEW S, NEW c \in Seq(S), NEW x, x \notin S
    PROVE  ~Has(c, x)
BY DEF Has

LEMMA NoneInOrder == InOrder(<<>>)
BY DEF InOrder
-----------------------------------------------------------------------------
(* The plans *)

Objects(s) == {"apply"} \X (IF s.away THEN Kinds ELSE Kinds \ {"mirror"})

LEMMA CredentialsArePlanned ==
    ASSUME NEW s \in Instances, Wanted(s)
    PROVE  LET c == Credentials(s) \o << <<"require", "kubevirt">> >> IN
           Planned(s, c) /\ Head(c) = <<"finalize", "instance">>
<1> DEFINE first ==
             << <<"finalize", "instance">>, <<"apply", "extension">>, <<"apply", "tokens">> >>
           more == IF CrossNamespace(s) THEN << <<"apply", "mirror">> >> ELSE <<>>
           last == << <<"require", "kubevirt">> >>
           A == {<<"finalize", "instance">>} \cup Objects(s)
           L == {<<"require", "kubevirt">>}
<1>1. {<<"apply", "extension">>, <<"apply", "tokens">>} \subseteq Objects(s)
  BY DEF Objects, Kinds
<1>2. CrossNamespace(s) => <<"apply", "mirror">> \in Objects(s)
  BY DEF CrossNamespace, Namespace, Objects, Kinds
<1>3. \A a, b \in Objects(s) : a[1] = "apply" /\ Precedes(a, b)
  BY DEF Objects, Precedes
<1>4. first \in Seq(A) /\ InOrder(first)
  <2>1. first \in Seq(A)
    BY <1>1
  <2>2. DOMAIN first = 1..3
    OBVIOUS
  <2>3. /\ Precedes(first[1], first[2]) /\ Precedes(first[1], first[3])
        /\ Precedes(first[2], first[3])
    BY DEF Precedes
  <2> HIDE DEF first
  <2> QED  BY <2>1, <2>2, <2>3 DEF InOrder
<1>5. more \in Seq(Objects(s)) /\ InOrder(more)
  BY <1>2, OneInOrder, NoneInOrder
<1>6. last \in Seq(L) /\ InOrder(last)
  BY OneInOrder
<1>7. \A a \in A, b \in Objects(s) : Precedes(a, b)
  BY <1>3 DEF Precedes
<1>8. \A a \in A, b \in L : Precedes(a, b)
  BY <1>3 DEF Precedes
<1>9. first \o more \in Seq(A) /\ InOrder(first \o more)
  <2>1. A \cup Objects(s) = A
    OBVIOUS
  <2> HIDE DEF first, more, A
  <2> QED  BY <1>4, <1>5, <1>7, <2>1, ConcatInOrder
<1>10. first \o more \o last \in Seq(A \cup L) /\ InOrder(first \o more \o last)
  <2> HIDE DEF first, more, last, A, L
  <2> QED  BY <1>6, <1>8, <1>9, ConcatInOrder, Zenon
<1>11. A \cup L \subseteq BuildCalls(s)
  BY DEF BuildCalls, Objects
<1>12. Credentials(s) \o last = first \o more \o last
  BY DEF Credentials
<1>13. (first \o more \o last) # <<>> /\ Head(first \o more \o last) = <<"finalize", "instance">>
  <2>1. 1 \in DOMAIN first /\ first[1] = <<"finalize", "instance">>
    OBVIOUS
  <2>2. 1 \in DOMAIN (first \o more) /\ (first \o more)[1] = <<"finalize", "instance">>
    <3>1. first \in Seq(A) /\ more \in Seq(A)
      BY <1>4, <1>5
    <3> HIDE DEF first, more, A
    <3> QED  BY <2>1, <3>1, ConcatIs
  <2>3. first \o more \in Seq(A \cup L) /\ last \in Seq(A \cup L)
    BY <1>6, <1>9
  <2> HIDE DEF first, more, last, A, L
  <2>4. /\ 1 \in DOMAIN (first \o more \o last)
        /\ (first \o more \o last)[1] = <<"finalize", "instance">>
    BY <2>2, <2>3, ConcatIs
  <2> QED  BY <1>10, <2>4
<1>14. Seq(A \cup L) \subseteq Seq(BuildCalls(s))
  BY <1>11
<1> HIDE DEF first, more, A, L
<1> QED  BY <1>10, <1>12, <1>13, <1>14, Zenon DEF Planned

LEMMA ReconcileIsPlanned ==
    ASSUME NEW s \in Instances, Reconcile(s) # <<>>
    PROVE  /\ Planned(s, Reconcile(s)) /\ s.life # "gone"
           /\ Wanted(s) => Head(Reconcile(s))[1] \in {"finalize", "publish"}
           /\ ~Has(Reconcile(s), <<"unfinalize", "instance">>)
<1>1. s.life \in {"live", "deleting"}
  BY DEF Reconcile, Instances
<1>2. CASE Wanted(s)
  <2>1. Reconcile(s) \in {<< <<"publish", "Degraded">> >>, << <<"publish", "Pending">> >>,
                          Credentials(s) \o << <<"require", "kubevirt">> >>}
    BY <1>2 DEF Reconcile, convergeDesktop, Wanted
  <2>2. <<"unfinalize", "instance">> \notin BuildCalls(s)
    BY DEF BuildCalls
  <2>3. Planned(s, Reconcile(s)) => ~Has(Reconcile(s), <<"unfinalize", "instance">>)
    BY <1>2, <2>2, HasOnly DEF Planned
  <2>4. ASSUME NEW x \in {"Degraded", "Pending"}, Reconcile(s) = << <<"publish", x>> >>
        PROVE  Planned(s, Reconcile(s)) /\ Head(Reconcile(s))[1] = "publish"
    BY <1>2, <2>4, OneInOrder DEF Planned, BuildCalls
  <2>5. ASSUME Reconcile(s) = Credentials(s) \o << <<"require", "kubevirt">> >>
        PROVE  Planned(s, Reconcile(s)) /\ Head(Reconcile(s))[1] = "finalize"
    <3>1. Planned(s, Reconcile(s)) /\ Head(Reconcile(s)) = <<"finalize", "instance">>
      BY <1>2, <2>5, CredentialsArePlanned, Zenon
    <3> QED  BY <3>1
  <2> QED  BY <1>1, <2>1, <2>3, <2>4, <2>5
<1>3. CASE ~Wanted(s) /\ s.life = "live"
  <2>1. Reconcile(s) = << <<"cleanup", "desktop">> >>
    BY <1>3 DEF Reconcile, convergeDesktop, Wanted
  <2>2. Planned(s, Reconcile(s))
    BY <1>3, <2>1, OneInOrder DEF Planned, CleanupCalls
  <2>3. ~Has(Reconcile(s), <<"unfinalize", "instance">>)
    BY <2>1 DEF Has
  <2> QED  BY <1>3, <2>2, <2>3
<1>4. CASE s.life = "deleting"
  <2> DEFINE p == <<"publish", "Deleting">>
             q == <<"cleanup", "desktop">>
  <2>1. Reconcile(s) = <<p>> \o <<q>>
    BY <1>4 DEF Reconcile, deletingDesktop
  <2>2. Precedes(p, q) /\ p # <<"unfinalize", "instance">> /\ q # <<"unfinalize", "instance">>
    BY DEF Precedes
  <2>3. {p, q} \subseteq CleanupCalls(s) /\ ~Wanted(s)
    BY <1>4 DEF CleanupCalls, Wanted
  <2> HIDE DEF p, q
  <2>4. <<p>> \in Seq({p}) /\ <<q>> \in Seq({q}) /\ InOrder(<<p>>) /\ InOrder(<<q>>)
    BY OneInOrder
  <2>5. <<p>> \o <<q>> \in Seq({p} \cup {q}) /\ InOrder(<<p>> \o <<q>>)
    <3> DEFINE A == {p}
               B == {q}
    <3>1. \A a \in A, b \in B : Precedes(a, b)
      BY <2>2
    <3>2. <<p>> \in Seq(A) /\ <<q>> \in Seq(B)
      BY <2>4
    <3> HIDE DEF A, B
    <3>3. <<p>> \o <<q>> \in Seq(A \cup B) /\ InOrder(<<p>> \o <<q>>)
      BY <2>4, <3>1, <3>2, ConcatInOrder, Zenon
    <3> QED  BY <3>3 DEF A, B
  <2>6. ~Has(<<p>> \o <<q>>, <<"unfinalize", "instance">>)
    <3>1. <<"unfinalize", "instance">> \notin {p} \cup {q}
      BY <2>2
    <3> QED  BY <2>5, <3>1, HasOnly, Zenon
  <2>7. <<p>> \o <<q>> \in Seq(CleanupCalls(s))
    BY <2>3
  <2> QED  BY <1>4, <2>1, <2>3, <2>5, <2>6, <2>7, Zenon DEF Planned
<1> QED  BY <1>1, <1>2, <1>3, <1>4

(* Calls that may come in any order, and then one that is the last. *)
LEMMA BodyThenLast ==
    ASSUME NEW B, NEW body \in Seq(B), NEW last, \A a, b \in B : Precedes(a, b),
           \A a \in B : Precedes(a, last)
    PROVE  LET c == body \o <<last>> IN
           c # <<>> /\ c \in Seq(B \cup {last}) /\ InOrder(c)
<1> DEFINE L == {last}
<1>1. InOrder(body) /\ InOrder(<<last>>) /\ <<last>> \in Seq(L)
  BY AnyOrder, OneInOrder
<1>2. \A a \in B, b \in L : Precedes(a, b)
  OBVIOUS
<1> HIDE DEF L
<1>3. body \o <<last>> \in Seq(B \cup L) /\ InOrder(body \o <<last>>)
  BY <1>1, <1>2, ConcatInOrder, Zenon
<1>4. body \o <<last>> # <<>>
  <2>1. body \in Seq(B \cup L) /\ <<last>> \in Seq(B \cup L)
    BY <1>1
  <2>2. Has(<<last>>, last)
    BY OneInOrder
  <2>3. Has(body \o <<last>>, last)
    BY <2>1, <2>2, ConcatHas, Zenon
  <2> QED  BY <2>3 DEF Has
<1> QED  BY <1>3, <1>4 DEF L

LEMMA applyDesktopIsPlanned ==
    ASSUME NEW s \in Instances, Wanted(s)
    PROVE  Planned(s, applyDesktop(s)) /\ ~Has(applyDesktop(s), <<"unfinalize", "instance">>)
<1> DEFINE B == Objects(s) \cup {"create"} \X {"golden", "root"} \cup {"remove"} \X Payloads
           golden == << <<"create", "golden">> >>
           root == IF s.adopted THEN <<>> ELSE << <<"create", "root">> >>
           guest == << <<"apply", Payload(s)>>, <<"remove", OtherPayload(s)>> >>
           vm == << <<"apply", "vm">> >>
           gateway == << <<"apply", "access">>, <<"apply", "state">>, <<"apply", "gateway">> >>
           last == <<"publish", "observed">>
<1>1. Payload(s) \in Payloads /\ OtherPayload(s) \in Payloads
  BY DEF Payload, OtherPayload, Payloads
<1>2. /\ <<"apply", Payload(s)>> \in B /\ <<"apply", "vm">> \in B
      /\ <<"apply", "access">> \in B /\ <<"apply", "state">> \in B /\ <<"apply", "gateway">> \in B
  BY <1>1 DEF Objects, Kinds, Payloads
<1>3. /\ <<"remove", OtherPayload(s)>> \in B /\ <<"create", "golden">> \in B
      /\ <<"create", "root">> \in B
  BY <1>1
<1>4. \A a \in B : a[1] \in {"apply", "create", "remove"}
  BY DEF Objects
<1>5. \A a, b \in B : Precedes(a, b)
  BY <1>4 DEF Precedes
<1>6. \A a \in B : Precedes(a, last)
  BY <1>4 DEF Precedes
<1>7. B \cup {last} \subseteq BuildCalls(s)
  BY DEF BuildCalls, Objects
<1>8. applyDesktop(s) = golden \o root \o guest \o vm \o gateway \o <<last>>
  BY DEF applyDesktop, ensureDataVolume, applyGuestPayload, applyGateway
<1> HIDE DEF B
<1>9. golden \in Seq(B) /\ root \in Seq(B) /\ vm \in Seq(B) /\ gateway \in Seq(B)
  BY <1>2, <1>3
<1>10. guest \in Seq(B)
  BY <1>2, <1>3
<1> HIDE DEF golden, root, guest, vm, gateway, last
<1>11. golden \o root \o guest \o vm \o gateway \in Seq(B)
  <2>1. golden \o root \in Seq(B)
    BY <1>9
  <2>2. golden \o root \o guest \in Seq(B)
    BY <1>10, <2>1
  <2>3. golden \o root \o guest \o vm \in Seq(B)
    BY <1>9, <2>2
  <2> QED  BY <1>9, <2>3
<1>12. applyDesktop(s) # <<>> /\ applyDesktop(s) \in Seq(B \cup {last}) /\ InOrder(applyDesktop(s))
  BY <1>5, <1>6, <1>8, <1>11, BodyThenLast, Zenon
<1>13. applyDesktop(s) \in Seq(BuildCalls(s))
  BY <1>7, <1>12
<1>14. ~Has(applyDesktop(s), <<"unfinalize", "instance">>)
  <2>1. <<"unfinalize", "instance">> \notin BuildCalls(s)
    BY DEF BuildCalls
  <2> QED  BY <1>13, <2>1, HasOnly
<1> QED  BY <1>12, <1>13, <1>14 DEF Planned

(* The kinds that a cleanup removes. *)
Doomed(s) ==
    {"gateway", "access", "cloudInit", "sysprep", "extension", "state"}
    \cup (IF CrossNamespace(s) THEN {"mirror"} ELSE {})
    \cup (IF kubevirt THEN {"vm"} ELSE {})
    \cup (IF retains(s) THEN {} ELSE {"tokens"})
    \cup (IF ~retains(s) /\ kubevirt /\ ~s.adopted THEN {"root"} ELSE {})

LEMMA desktopCleanupIs ==
    ASSUME NEW s \in Instances, s.life # "gone"
    PROVE  LET c == desktopCleanup(s, retains(s)) IN
           /\ c \in Seq({"delete"} \X Expendable(s))
           /\ \A kind \in Doomed(s) : Has(c, <<"delete", kind>>)
<1> DEFINE always == <<"gateway", "access", "cloudInit", "sysprep", "extension", "state">>
           mirror == IF CrossNamespace(s) THEN <<"mirror">> ELSE <<>>
           vm == IF kubevirt THEN <<"vm">> ELSE <<>>
           token == IF retains(s) THEN <<>> ELSE <<"tokens">>
           root == IF ~retains(s) /\ kubevirt /\ ~s.adopted THEN <<"root">> ELSE <<>>
           kinds == always \o mirror \o vm \o token \o root
           E == Expendable(s)
<1>1. ~retains(s) => s.life = "deleting"
  BY DEF retains, Instances
<1>2. {"gateway", "access", "cloudInit", "sysprep", "extension", "state", "mirror", "vm"} \subseteq E
  BY DEF Expendable, Kinds, Retained, Payloads
<1>3. /\ ~retains(s) => "tokens" \in E
      /\ ~retains(s) /\ ~s.adopted => "root" \in E
  BY <1>1 DEF Expendable
<1>4. always \in Seq(E) /\ mirror \in Seq(E) /\ vm \in Seq(E)
  BY <1>2
<1>5. token \in Seq(E) /\ root \in Seq(E)
  BY <1>3
<1>6. \A k \in {"gateway", "access", "cloudInit", "sysprep", "extension", "state"} : Has(always, k)
  <2>1. DOMAIN always = 1..6
    OBVIOUS
  <2>2. /\ always[1] = "gateway" /\ always[2] = "access" /\ always[3] = "cloudInit"
        /\ always[4] = "sysprep" /\ always[5] = "extension" /\ always[6] = "state"
    OBVIOUS
  <2> HIDE DEF always
  <2> QED  BY <2>1, <2>2 DEF Has
<1>7. /\ CrossNamespace(s) => Has(mirror, "mirror")
      /\ kubevirt => Has(vm, "vm")
      /\ ~retains(s) => Has(token, "tokens")
      /\ ~retains(s) /\ kubevirt /\ ~s.adopted => Has(root, "root")
  BY OneInOrder
<1>8. desktopCleanup(s, retains(s)) = [i \in 1..Len(kinds) |-> <<"delete", kinds[i]>>]
  BY DEF desktopCleanup
<1> HIDE DEF always, mirror, vm, token, root, E
<1>9. /\ always \o mirror \in Seq(E) /\ always \o mirror \o vm \in Seq(E)
      /\ always \o mirror \o vm \o token \in Seq(E) /\ kinds \in Seq(E)
  BY <1>4, <1>5
<1>10. \A k : Has(always, k) \/ Has(mirror, k) \/ Has(vm, k) \/ Has(token, k) \/ Has(root, k)
              => Has(kinds, k)
  <2> SUFFICES ASSUME NEW k PROVE
               Has(always, k) \/ Has(mirror, k) \/ Has(vm, k) \/ Has(token, k) \/ Has(root, k)
               => Has(kinds, k)
    OBVIOUS
  <2>1. Has(always, k) \/ Has(mirror, k) => Has(always \o mirror, k)
    BY <1>4, ConcatHas
  <2>2. Has(always \o mirror, k) \/ Has(vm, k) => Has(always \o mirror \o vm, k)
    BY <1>4, <1>9, ConcatHas, Zenon
  <2>3. Has(always \o mirror \o vm, k) \/ Has(token, k) => Has(always \o mirror \o vm \o token, k)
    BY <1>5, <1>9, ConcatHas, Zenon
  <2>4. Has(always \o mirror \o vm \o token, k) \/ Has(root, k) => Has(kinds, k)
    BY <1>5, <1>9, ConcatHas, Zenon
  <2> QED  BY <2>1, <2>2, <2>3, <2>4
<1>11. \A kind \in Doomed(s) : Has(kinds, kind)
  BY <1>6, <1>7, <1>10 DEF Doomed
<1> HIDE DEF kinds
<1>12. desktopCleanup(s, retains(s)) \in Seq({"delete"} \X E)
  BY <1>8, <1>9
<1>13. ASSUME NEW kind, Has(kinds, kind)
       PROVE  Has(desktopCleanup(s, retains(s)), <<"delete", kind>>)
  <2>1. PICK i \in DOMAIN kinds : kinds[i] = kind
    BY <1>13 DEF Has
  <2>2. i \in 1..Len(kinds)
    BY <1>9, <2>1
  <2> QED  BY <1>8, <2>1, <2>2 DEF Has
<1> QED  BY <1>11, <1>12, <1>13 DEF E

LEMMA DismantleIsPlanned ==
    ASSUME NEW s \in Instances, ~Wanted(s), s.life # "gone"
    PROVE  /\ Planned(s, Dismantle(s))
           /\ \A kind \in Doomed(s) : Has(Dismantle(s), <<"delete", kind>>)
<1> DEFINE D == {"delete"} \X Expendable(s)
           L == {<<"publish", "Disabled">>}
           removals == desktopCleanup(s, retains(s))
           drop == <<"unfinalize", "instance">>
           last == IF s.life = "live" THEN << <<"publish", "Disabled">> >> ELSE <<>>
           A == D \cup {drop}
<1>1. removals \in Seq(D) /\ \A kind \in Doomed(s) : Has(removals, <<"delete", kind>>)
  BY desktopCleanupIs
<1>2. \A a, b \in D : Precedes(a, b)
  BY DEF Precedes
<1>3. \A a \in D : Precedes(a, drop)
  BY DEF Precedes
<1>4. \A a \in A, b \in L : Precedes(a, b)
  BY DEF Precedes
<1>5. last \in Seq(L) /\ InOrder(last)
  <2>1. CASE s.life = "live"
    BY <2>1, OneInOrder
  <2>2. CASE s.life # "live"
    BY <2>2, NoneInOrder
  <2> QED  BY <2>1, <2>2
<1>6. Dismantle(s) = removals \o <<drop>> \o last
  BY DEF Dismantle
<1>7. A \cup L \subseteq CleanupCalls(s)
  BY DEF CleanupCalls
<1> HIDE DEF D, L, removals, drop, last
<1>8. removals \o <<drop>> # <<>> /\ removals \o <<drop>> \in Seq(A) /\ InOrder(removals \o <<drop>>)
  BY <1>1, <1>2, <1>3, BodyThenLast, Zenon
<1>9. removals \in Seq(A) /\ <<drop>> \in Seq(A)
  BY <1>1
<1> HIDE DEF A
<1>10. removals \o <<drop>> \o last \in Seq(A \cup L) /\ InOrder(removals \o <<drop>> \o last)
  BY <1>4, <1>5, <1>8, ConcatInOrder, Zenon
<1>11. Dismantle(s) \in Seq(CleanupCalls(s))
  BY <1>6, <1>7, <1>10
<1>12. \A kind \in Doomed(s) : Has(Dismantle(s), <<"delete", kind>>)
  <2>1. \A x : Has(removals, x) => Has(removals \o <<drop>>, x)
    BY <1>9, ConcatHas, Zenon
  <2>2. removals \o <<drop>> \in Seq(A \cup L) /\ last \in Seq(A \cup L)
    BY <1>5, <1>8
  <2> DEFINE body == removals \o <<drop>>
  <2> HIDE DEF body
  <2>3. \A x : Has(body, x) => Has(body \o last, x)
    <3>1. body \in Seq(A \cup L)
      BY <2>2 DEF body
    <3> QED  BY <2>2, <3>1, ConcatHas
  <2> QED  BY <1>1, <1>6, <2>1, <2>3, Zenon DEF body
<1>13. Dismantle(s) # <<>>
  <2>1. "gateway" \in Doomed(s)
    BY DEF Doomed
  <2> QED  BY <1>12, <2>1 DEF Has
<1> QED  BY <1>6, <1>10, <1>11, <1>12, <1>13, Zenon DEF Planned
-----------------------------------------------------------------------------
(* The Instances that administrators, the API server and the reconcile     *)
(* write.                                                                  *)

LEMMA RecreatedIs ==
    ASSUME NEW s \in Instances,
           NEW t, t = [s EXCEPT !.block = "enabled", !.fit = "ok", !.life = "live"]
    PROVE  /\ t \in Instances /\ t.finalizer = s.finalizer /\ t.life = "live"
           /\ t.version = s.version /\ t.away = s.away /\ t.adopted = s.adopted
           /\ t.block = "enabled" /\ t.policy = s.policy
BY Zenon DEF Instances, Blocks

LEMMA EditIs ==
    ASSUME inst \in Instances, events \in 0..MaxEvents, Edit
    PROVE  /\ inst' \in Instances /\ inst'.version = events + 1 /\ events' = events + 1
           /\ events' \in 0..MaxEvents
           /\ inst'.finalizer = inst.finalizer /\ inst'.life = inst.life
           /\ inst'.away = inst.away /\ inst'.adopted = inst.adopted
<1>1. events' = events + 1 /\ events' \in 0..MaxEvents
  BY BoundsAssumption DEF Edit, Event
<1> DEFINE Kept(s) == /\ s \in Instances
                      /\ s.finalizer = inst.finalizer /\ s.life = inst.life
                      /\ s.away = inst.away /\ s.adopted = inst.adopted
<1>2. \A b \in Blocks : Kept([inst EXCEPT !.block = b])
  BY DEF Instances
<1>3. \A p \in Policies : Kept([inst EXCEPT !.policy = p])
  BY DEF Instances
<1>4. \A f \in {"ok", "invalid", "old"} : Kept([inst EXCEPT !.fit = f])
  BY DEF Instances
<1>5. \A o \in {"linux", "windows"} : Kept([inst EXCEPT !.os = o])
  BY Zenon DEF Instances
<1>6. \A s : Kept(s) => LET t == [s EXCEPT !.version = events'] IN Kept(t) /\ t.version = events'
  BY <1>1 DEF Instances
<1> HIDE DEF Kept
<1>7. Kept(inst') /\ inst'.version = events'
  BY <1>2, <1>3, <1>4, <1>5, <1>6 DEF Edit
<1> QED  BY <1>1, <1>7 DEF Kept
-----------------------------------------------------------------------------
(* Going on with a reconcile *)

LEMMA ContinueIs ==
    ASSUME NEW s, NEW calls, Continue(s, calls)
    PROVE  /\ \A r, q \in run' : r = q
           /\ \A r \in run' : r.seen = s /\ r.calls = calls /\ calls # <<>>
BY DEF Continue

(* What the first of the planned calls can be, and what it leaves. *)
LEMMA FirstCall ==
    ASSUME NEW s \in Instances, NEW calls, Planned(s, calls)
    PROVE  /\ Wanted(s) => Head(calls) \in BuildCalls(s)
           /\ ~Wanted(s) => Head(calls) \in CleanupCalls(s)
           /\ \A x : Has(calls, x) <=> Head(calls) = x \/ Has(Tail(calls), x)
           /\ \A i \in DOMAIN Tail(calls) : Precedes(Head(calls), Tail(calls)[i])
           /\ Tail(calls) # <<>> =>
                /\ Planned(s, Tail(calls))
                /\ Precedes(Head(calls), Head(Tail(calls)))
<1> DEFINE S == IF Wanted(s) THEN BuildCalls(s) ELSE CleanupCalls(s)
<1>1. calls \in Seq(S) /\ calls # <<>> /\ InOrder(calls)
  BY DEF Planned
<1>2. (Wanted(s) => S = BuildCalls(s)) /\ (~Wanted(s) => S = CleanupCalls(s))
  OBVIOUS
<1>3. Planned(s, Tail(calls)) <=> Tail(calls) # <<>> /\ InOrder(Tail(calls)) /\ Tail(calls) \in Seq(S)
  BY DEF Planned
<1> HIDE DEF S
<1>4. Head(calls) \in S /\ Tail(calls) \in Seq(S)
  BY <1>1, TailIs
<1>5. \A x : Has(calls, x) <=> Head(calls) = x \/ Has(Tail(calls), x)
  BY <1>1, TailHas
<1>6. InOrder(Tail(calls)) /\ \A i \in DOMAIN Tail(calls) : Precedes(Head(calls), Tail(calls)[i])
  BY <1>1, TailInOrder
<1>7. Tail(calls) # <<>> => 1 \in DOMAIN Tail(calls) /\ Head(Tail(calls)) = Tail(calls)[1]
  BY <1>4
<1> QED  BY <1>2, <1>3, <1>4, <1>5, <1>6, <1>7, Zenon

LEMMA BuildKeepsFinalizer ==
    ASSUME NEW s \in Instances, NEW calls, Planned(s, calls), Wanted(s)
    PROVE  ~Has(calls, <<"unfinalize", "instance">>)
<1>1. <<"unfinalize", "instance">> \notin BuildCalls(s)
  BY DEF BuildCalls
<1>2. calls \in Seq(BuildCalls(s))
  BY DEF Planned
<1> QED  BY <1>1, <1>2, HasOnly

(* Reconciles that keep their copy of the Instance. *)
LEMMA CopiesFollow ==
    ASSUME IInv, \A q \in run' : \E r \in run : q.seen = r.seen, UNCHANGED <<inst, cache>>,
           inst.version <= events'
    PROVE  Copies'
<1>1. /\ inst.life = "deleting" => inst.finalizer
      /\ inst.life = "gone" => ~inst.finalizer
      /\ Alike(cache)
      /\ cache.life = "deleting" => inst.life # "live"
      /\ cache.life # "gone" /\ ~Wanted(cache) /\ Wanted(inst) => cache.version < inst.version
  BY DEF IInv, Copies
<1>2. ASSUME NEW q \in run'
      PROVE  /\ Alike(q.seen)
             /\ q.seen.life = "deleting" => inst.life # "live" /\ cache.life # "live"
             /\ ~Wanted(q.seen) /\ Wanted(inst) => q.seen.version < inst.version
             /\ ~Wanted(q.seen) /\ Wanted(cache) => q.seen.version < cache.version
  <2>1. PICK r \in run : q.seen = r.seen
    OBVIOUS
  <2> QED  BY <2>1 DEF IInv, Copies
<1>3. Alike(cache)' /\ \A q \in run' : Alike(q.seen)'
  BY <1>1, <1>2 DEF Alike
<1> QED  BY <1>1, <1>2, <1>3, Zenon DEF Copies

(* A reconcile that ends leaves nothing to account for. *)
LEMMA EndKeeps ==
    ASSUME IInv, run' = {}, events' \in events..MaxEvents,
           UNCHANGED <<desktop, inst, cache, history>>
    PROVE  IInv'
<1> USE DEF desktop, history
<1>1. events' \in 0..MaxEvents /\ inst.version \in Nat /\ inst.version <= events'
  BY BoundsAssumption DEF IInv, Types, Copies, Instances
<1>2. Types'
  BY <1>1 DEF IInv, Types
<1>3. Plans' /\ Covered'
  BY DEF Plans, Covered
<1>4. Copies'
  BY <1>1, CopiesFollow, Zenon
<1>5. Finalized' /\ Placed'
  BY DEF IInv, Finalized, Placed
<1>6. OneToken'
  BY DEF IInv, OneToken, DeletesOnce, NoToken, Spent, Exists
<1> QED  BY <1>2, <1>3, <1>4, <1>5, <1>6 DEF IInv, FinalizerGuardsObjects

(* A call that changes nothing but the calls left. *)
LEMMA TailKeeps ==
    ASSUME IInv, NEW r \in run, Continue(r.seen, Tail(r.calls)), events' \in events..MaxEvents,
           Head(r.calls)[1] # "delete", Head(r.calls)[1] = "finalize" => r.seen.finalizer,
           UNCHANGED <<desktop, inst, cache, history>>
    PROVE  IInv'
<1> USE DEF desktop, history
<1>1. events' \in 0..MaxEvents /\ inst.version \in Nat /\ inst.version <= events'
  BY BoundsAssumption DEF IInv, Types, Copies, Instances
<1>2. /\ \A p, q \in run' : p = q
      /\ \A q \in run' : q.seen = r.seen /\ q.calls = Tail(r.calls) /\ Tail(r.calls) # <<>>
  BY ContinueIs, Zenon
<1>3. r.seen \in Instances /\ Planned(r.seen, r.calls)
  BY DEF IInv, Types, Plans
<1>4. Types'
  BY <1>1, <1>2, <1>3, Zenon DEF IInv, Types
<1>5. Plans'
  BY <1>2, <1>3, FirstCall DEF Plans
<1>6. Copies'
  BY <1>1, <1>2, CopiesFollow
<1>7. Finalized'
  <2>1. ASSUME NEW q \in run', Wanted(q.seen)
        PROVE  /\ q.seen.finalizer => inst.finalizer
               /\ Head(q.calls)[1] \notin {"finalize", "publish"} => q.seen.finalizer
    <3>1. q.seen = r.seen /\ q.calls = Tail(r.calls) /\ Tail(r.calls) # <<>> /\ Wanted(r.seen)
      BY <1>2, <2>1, Zenon
    <3>2. Head(r.calls) \in BuildCalls(r.seen) /\ Precedes(Head(r.calls), Head(Tail(r.calls)))
      BY <1>3, <3>1, FirstCall, Zenon
    <3>3. Head(r.calls)[1] # "publish"
      BY <3>2 DEF BuildCalls, Precedes
    <3>4. r.seen.finalizer => inst.finalizer
      BY <3>1 DEF IInv, Finalized
    <3>5. Head(r.calls)[1] \notin {"finalize", "publish"} => r.seen.finalizer
      BY <3>1 DEF IInv, Finalized
    <3> QED  BY <3>1, <3>3, <3>4, <3>5
  <2>2. Wanted(cache) /\ cache.finalizer => inst.finalizer
    BY DEF IInv, Finalized
  <2> QED  BY <2>1, <2>2 DEF Finalized
<1>8. Placed'
  BY Zenon DEF IInv, Placed
<1>9. Covered'
  <2>1. ASSUME NEW q \in run', Has(q.calls, <<"unfinalize", "instance">>)
        PROVE  /\ q.seen = r.seen /\ Has(r.calls, <<"unfinalize", "instance">>)
               /\ \A kind : Has(r.calls, <<"delete", kind>>) => Has(q.calls, <<"delete", kind>>)
    <3>1. q.seen = r.seen /\ q.calls = Tail(r.calls)
      BY <1>2, Zenon
    <3>2. \A x : Has(r.calls, x) <=> Head(r.calls) = x \/ Has(Tail(r.calls), x)
      BY <1>3, FirstCall
    <3>3. \A kind : Head(r.calls) # <<"delete", kind>>
      OBVIOUS
    <3> QED  BY <2>1, <3>1, <3>2, <3>3
  <2> QED  BY <2>1 DEF IInv, Covered
<1>10. OneToken'
  BY <1>2 DEF IInv, OneToken, DeletesOnce, NoToken, Spent, Exists
<1> QED  BY <1>4, <1>5, <1>6, <1>7, <1>8, <1>9, <1>10 DEF IInv, FinalizerGuardsObjects
-----------------------------------------------------------------------------
(* The environment *)

LEMMA InitEstablishes == Init => IInv
<1> SUFFICES ASSUME Init PROVE IInv
  OBVIOUS
<1>1. PICK away \in BOOLEAN, adopted \in BOOLEAN, policy \in Policies :
        inst = [version |-> 0, block |-> "enabled", away |-> away, adopted |-> adopted,
                policy |-> policy, fit |-> "ok", os |-> "linux",
                finalizer |-> FALSE, life |-> "live"] /\ disk = IF adopted THEN "populated" ELSE "absent"
  BY Zenon DEF Init
<1>2. inst \in Instances
  BY <1>1, BoundsAssumption DEF Instances, Blocks, Policies
<1>3. /\ inst.version = 0 /\ inst.block = "enabled" /\ inst.life = "live" /\ ~inst.finalizer
      /\ disk # "absent" => inst.adopted
  BY <1>1
<1>4. /\ cache = inst /\ run = {} /\ objs = {} /\ fading = {} /\ events = 0
      /\ tokens = 0 /\ payload = 0 /\ booted = 0 /\ serving = 0
      /\ ~stranded /\ ~tokenless /\ stranded \in BOOLEAN /\ tokenless \in BOOLEAN
  BY Zenon DEF Init
<1>5. Types
  BY <1>2, <1>4, BoundsAssumption DEF Types, Tokens
<1>6. Plans /\ Covered
  BY <1>4 DEF Plans, Covered
<1>7. Copies
  BY <1>3, <1>4 DEF Copies, Alike
<1>8. Finalized /\ Placed
  BY <1>3, <1>4, Zenon DEF Finalized, Placed
<1>9. OneToken
  BY <1>3, <1>4 DEF OneToken, DeletesOnce, NoToken, Spent, Exists
<1> QED  BY <1>4, <1>5, <1>6, <1>7, <1>8, <1>9, Zenon DEF IInv, FinalizerGuardsObjects

(* Where the Instance, its copies and the reconcile stay as they are. *)
LEMMA ControlKeeps ==
    ASSUME IInv, UNCHANGED <<inst, cache, run>>, events' \in events..MaxEvents
    PROVE  Plans' /\ Copies' /\ Finalized' /\ events' \in 0..MaxEvents
<1>1. events' \in 0..MaxEvents /\ inst.version \in Nat /\ inst.version <= events'
  BY BoundsAssumption DEF IInv, Types, Copies, Instances
<1>2. Plans' /\ Finalized'
  BY DEF IInv, Plans, Finalized
<1>3. Copies'
  BY <1>1, CopiesFollow
<1> QED  BY <1>1, <1>2, <1>3

LEMMA DiscoverKeeps == ASSUME IInv, Discover PROVE IInv'
<1> USE DEF desktop, control, history
<1>1. UNCHANGED <<desktop, inst, cache, run, history>> /\ events' \in events..MaxEvents
  BY BoundsAssumption DEF IInv, Types, Discover, Event
<1>2. Plans' /\ Copies' /\ Finalized' /\ events' \in 0..MaxEvents
  BY <1>1, ControlKeeps
<1>3. Types'
  BY <1>1, <1>2 DEF IInv, Types
<1>4. Placed' /\ Covered'
  BY <1>1 DEF IInv, Placed, Covered
<1>5. OneToken'
  BY <1>1 DEF IInv, OneToken, DeletesOnce, NoToken, Spent, Exists
<1> QED  BY <1>1, <1>2, <1>3, <1>4, <1>5 DEF IInv, FinalizerGuardsObjects

LEMMA PopulateKeeps == ASSUME IInv, Populate PROVE IInv'
<1> USE DEF desktop, control, history
<1>1. /\ UNCHANGED <<objs, fading, tokens, payload, booted, serving, inst, cache, run, history, events>>
      /\ disk # "absent" /\ events' \in events..MaxEvents
  BY BoundsAssumption DEF IInv, Types, Populate
<1>2. Plans' /\ Copies' /\ Finalized' /\ events' \in 0..MaxEvents
  BY <1>1, ControlKeeps, Zenon
<1>3. Types'
  BY <1>1, <1>2, Zenon DEF IInv, Types
<1>4. Placed' /\ Covered'
  BY <1>1 DEF IInv, Placed, Covered
<1>5. OneToken'
  BY <1>1 DEF IInv, OneToken, DeletesOnce, NoToken, Spent, Exists
<1> QED  BY <1>1, <1>2, <1>3, <1>4, <1>5 DEF IInv, FinalizerGuardsObjects

LEMMA BootKeeps == ASSUME IInv, Boot PROVE IInv'
<1> USE DEF desktop, control, history
<1>1. /\ UNCHANGED <<objs, fading, tokens, payload, disk, serving, inst, cache, run, history, events>>
      /\ disk # "absent" /\ payload # 0 /\ booted = 0 /\ booted' = payload
      /\ events' \in events..MaxEvents
  BY BoundsAssumption DEF IInv, Types, Boot
<1>2. Plans' /\ Copies' /\ Finalized' /\ events' \in 0..MaxEvents
  BY <1>1, ControlKeeps
<1>3. Types'
  BY <1>1, <1>2, Zenon DEF IInv, Types
<1>4. Placed' /\ Covered'
  BY <1>1 DEF IInv, Placed, Covered
<1>5. OneToken'
  BY <1>1 DEF IInv, OneToken, DeletesOnce, NoToken, Spent, Exists
<1> QED  BY <1>1, <1>2, <1>3, <1>4, <1>5 DEF IInv, FinalizerGuardsObjects

LEMMA ServeKeeps == ASSUME IInv, Serve PROVE IInv'
<1> USE DEF desktop, control, history
<1>1. /\ UNCHANGED <<objs, fading, tokens, payload, disk, booted, inst, cache, run, history, events>>
      /\ tokens # 0 /\ serving = 0 /\ serving' = tokens
      /\ events' \in events..MaxEvents
  BY BoundsAssumption DEF IInv, Types, Serve
<1>2. Plans' /\ Copies' /\ Finalized' /\ events' \in 0..MaxEvents
  BY <1>1, ControlKeeps
<1>3. Types'
  BY <1>1, <1>2, Zenon DEF IInv, Types
<1>4. Placed' /\ Covered'
  BY <1>1, Zenon DEF IInv, Placed, Covered
<1>5. OneToken'
  BY <1>1 DEF IInv, OneToken, DeletesOnce, NoToken, Spent, Exists
<1> QED  BY <1>1, <1>2, <1>3, <1>4, <1>5 DEF IInv, FinalizerGuardsObjects

LEMMA CollectKeeps == ASSUME IInv, Collect PROVE IInv'
<1> USE DEF desktop, control, history
<1>1. /\ UNCHANGED <<tokens, disk, booted, serving, inst, cache, run, history, events>>
      /\ inst.life = "gone" /\ events' \in events..MaxEvents
  BY BoundsAssumption DEF IInv, Types, Collect
<1>2. objs' \subseteq objs /\ \A o \in objs : o[1] \in Retained => o \in objs'
  BY DEF Collect, Owned
<1>3. /\ payload' \in {payload, 0} /\ (payload' # 0 => \E o \in objs' : o[1] \in Payloads)
      /\ fading \subseteq fading' /\ (fading \subseteq Slow => fading' \subseteq Slow)
  BY DEF Collect
<1>4. Plans' /\ Copies' /\ Finalized' /\ events' \in 0..MaxEvents
  BY <1>1, ControlKeeps
<1>5. Types'
  BY <1>1, <1>2, <1>3, <1>4 DEF IInv, Types, Tokens
<1>6. Placed' /\ Covered'
  <2>1. Placed'
    BY <1>1, <1>2, <1>3, Zenon DEF IInv, Placed, Retained
  <2>2. Covered'
    BY <1>1, <1>2, Zenon DEF IInv, Covered
  <2> QED  BY <2>1, <2>2
<1>7. OneToken'
  <2>1. Spent => Spent'
    BY <1>1, <1>2, <1>3 DEF Spent, Exists
  <2> QED  BY <1>1, <1>3, <2>1 DEF IInv, OneToken, DeletesOnce, NoToken
<1> QED  BY <1>1, <1>2, <1>4, <1>5, <1>6, <1>7, Zenon DEF IInv, FinalizerGuardsObjects

LEMMA VanishKeeps == ASSUME IInv, Vanish PROVE IInv'
<1> USE DEF desktop, control, history
<1>1. /\ UNCHANGED <<objs, tokens, payload, inst, cache, run, history, events>>
      /\ events' \in events..MaxEvents
  BY BoundsAssumption DEF IInv, Types, Vanish
<1>2. /\ serving' \in {serving, 0} /\ booted' \in {booted, 0} /\ fading' \subseteq fading
      /\ disk' # "absent" => disk # "absent"
      /\ disk' # "absent" \/ booted' # 0 => ("root" \in fading => "root" \in fading')
  BY DEF Vanish
<1>3. Plans' /\ Copies' /\ Finalized' /\ events' \in 0..MaxEvents
  BY <1>1, ControlKeeps
<1>4. Types'
  BY <1>1, <1>2, <1>3 DEF IInv, Types, Tokens
<1>5. Placed'
  BY <1>1, <1>2 DEF IInv, Placed
<1>6. Covered'
  BY <1>1, Zenon DEF IInv, Covered
<1>7. OneToken'
  <2>1. Spent => Spent'
    BY <1>1, <1>2 DEF Spent, Exists
  <2>2. NoToken => NoToken'
    BY <1>1, <1>2 DEF NoToken
  <2>3. {tokens, payload, booted, serving}' \subseteq {tokens, payload, booted, serving} \cup {0}
    BY <1>1, <1>2
  <2> QED  BY <1>1, <2>1, <2>2, <2>3 DEF IInv, OneToken, DeletesOnce
<1> QED  BY <1>1, <1>3, <1>4, <1>5, <1>6, <1>7, Zenon DEF IInv, FinalizerGuardsObjects
-----------------------------------------------------------------------------
(* The Instance and its copies *)

LEMMA EditKeeps == ASSUME IInv, Edit PROVE IInv'
<1> USE DEF desktop, history
<1>1. /\ inst' \in Instances /\ inst'.version = events + 1 /\ events' = events + 1
      /\ events' \in 0..MaxEvents /\ inst'.finalizer = inst.finalizer /\ inst'.life = inst.life
      /\ inst'.away = inst.away /\ inst'.adopted = inst.adopted
  BY EditIs DEF IInv, Types
<1>2. UNCHANGED <<desktop, cache, run, stranded>> /\ inst.life # "gone"
  BY DEF Edit
<1>3. PICK s : inst' = [s EXCEPT !.version = events'] /\ s \in Instances
               /\ tokenless' = (tokenless \/ (~retains(inst) /\ retains(s)))
  <2>1. inst \in Instances
    BY DEF IInv, Types
  <2>2. /\ \A b \in Blocks : [inst EXCEPT !.block = b] \in Instances
        /\ \A p \in Policies : [inst EXCEPT !.policy = p] \in Instances
    BY <2>1 DEF Instances
  <2>3. /\ \A f \in {"ok", "invalid", "old"} : [inst EXCEPT !.fit = f] \in Instances
        /\ \A o \in {"linux", "windows"} : [inst EXCEPT !.os = o] \in Instances
    BY <2>1 DEF Instances
  <2> QED  BY <2>2, <2>3 DEF Edit
<1>4. tokenless' \in BOOLEAN /\ (~tokenless' => ~tokenless /\ (~retains(inst) => ~retains(inst')))
  <2>1. retains(inst') = retains(s)
    BY <1>1, <1>3 DEF retains, desktopRetainsDisk, Instances
  <2> QED  BY <1>3, <2>1, Zenon DEF IInv, Types
<1>5. inst.life \in {"live", "deleting", "gone"} /\ inst.version \in Nat /\ events \in Nat
      /\ inst.version <= events /\ cache.version \in Nat /\ \A r \in run : r.seen.version \in Nat
  BY BoundsAssumption DEF IInv, Types, Copies, Instances
<1>6. Types' /\ Plans'
  BY <1>1, <1>2, <1>4 DEF IInv, Types, Plans
<1>7. Copies'
  <2>1. /\ inst.life = "deleting" => inst.finalizer
        /\ inst.life = "gone" => ~inst.finalizer
        /\ Alike(cache)
        /\ cache.life = "deleting" => inst.life # "live"
    BY DEF IInv, Copies
  <2>2. ASSUME NEW r \in run
        PROVE  /\ Alike(r.seen)
               /\ r.seen.life = "deleting" => inst.life # "live" /\ cache.life # "live"
               /\ ~Wanted(r.seen) /\ Wanted(cache) => r.seen.version < cache.version
    BY Zenon DEF IInv, Copies
  <2>3. /\ Alike(cache)' /\ cache.version < inst'.version
        /\ \A r \in run : Alike(r.seen)' /\ r.seen.version < inst'.version
    BY <1>1, <1>2, <1>5, <2>1, <2>2 DEF Alike
  <2>4. inst'.version <= events'
    BY <1>1, <1>5
  <2> QED  BY <1>1, <1>2, <2>1, <2>2, <2>3, <2>4 DEF Copies
<1>8. Finalized' /\ Placed'
  BY <1>1, <1>2, Zenon DEF IInv, Finalized, Placed
<1>9. Covered'
  BY <1>2, <1>4, Zenon DEF IInv, Covered
<1>10. OneToken'
  BY <1>1, <1>2, <1>4, <1>5, Zenon DEF IInv, OneToken, DeletesOnce, NoToken, Spent, Exists, Copies
<1> QED  BY <1>1, <1>2, <1>6, <1>7, <1>8, <1>9, <1>10 DEF IInv, FinalizerGuardsObjects

LEMMA DeleteKeeps == ASSUME IInv, Delete PROVE IInv'
<1> USE DEF desktop, history
<1> DEFINE life == IF inst.finalizer THEN "deleting" ELSE "gone"
<1>1. UNCHANGED <<desktop, cache, run, history>> /\ inst.life = "live"
  BY DEF Delete
<1>2. events' = events + 1 /\ events' \in 0..MaxEvents
  BY BoundsAssumption DEF IInv, Types, Delete, Event
<1>3. inst' = [inst EXCEPT !.version = events', !.life = life]
  BY Zenon DEF Delete
<1>4. life \in {"live", "deleting", "gone"} /\ life # "live"
  OBVIOUS
<1>5. (life = "deleting" => inst.finalizer) /\ (life = "gone" => ~inst.finalizer)
  OBVIOUS
<1> HIDE DEF life
<1>6. /\ inst' \in Instances /\ inst'.finalizer = inst.finalizer /\ inst'.life = life
      /\ inst'.version = events' /\ inst'.away = inst.away /\ inst'.adopted = inst.adopted
  <2>1. inst \in Instances
    BY DEF IInv, Types
  <2> QED  BY <1>2, <1>3, <1>4, <2>1, Zenon DEF Instances
<1>7. inst.version \in Nat /\ events \in Nat /\ inst.version <= events
      /\ cache.version \in Nat /\ \A r \in run : r.seen.version \in Nat
  BY BoundsAssumption DEF IInv, Types, Copies, Instances
<1>8. Types' /\ Plans'
  BY <1>1, <1>2, <1>6, Zenon DEF IInv, Types, Plans
<1>9. Copies'
  <2>1. /\ inst.life = "deleting" => inst.finalizer
        /\ inst.life = "gone" => ~inst.finalizer
        /\ Alike(cache)
        /\ cache.life = "deleting" => inst.life # "live"
    BY DEF IInv, Copies
  <2>2. ASSUME NEW r \in run
        PROVE  /\ Alike(r.seen)
               /\ r.seen.life = "deleting" => inst.life # "live" /\ cache.life # "live"
               /\ ~Wanted(r.seen) /\ Wanted(cache) => r.seen.version < cache.version
    BY DEF IInv, Copies
  <2>3. Alike(cache)' /\ \A r \in run : Alike(r.seen)'
    BY <1>1, <1>2, <1>6, <1>7, <2>1, <2>2 DEF Alike
  <2>4. inst'.version <= events' /\ inst'.life # "live" /\ ~Wanted(inst')
    BY <1>2, <1>4, <1>6 DEF Wanted
  <2> QED  BY <1>1, <1>5, <1>6, <2>1, <2>2, <2>3, <2>4, Zenon DEF Copies
<1>10. Finalized' /\ Placed' /\ Covered'
  BY <1>1, <1>6, Zenon DEF IInv, Finalized, Placed, Covered
<1>11. OneToken'
  BY <1>1, <1>4, <1>6, Zenon DEF IInv, OneToken, DeletesOnce, NoToken, Spent, Exists, Copies
<1> QED  BY <1>1, <1>6, <1>8, <1>9, <1>10, <1>11 DEF IInv, FinalizerGuardsObjects

LEMMA RecreateKeeps == ASSUME IInv, Recreate PROVE IInv'
<1> USE DEF desktop, history
<1>1. /\ UNCHANGED <<desktop, cache, run, events, history>>
      /\ inst.life = "gone" /\ cache = inst /\ run = {}
      /\ fading = {} /\ (serving # 0 => Exists("gateway"))
  BY DEF Recreate
<1>2. inst' = [inst EXCEPT !.block = "enabled", !.fit = "ok", !.life = "live"]
  BY Zenon DEF Recreate
<1>3. /\ inst' \in Instances /\ inst'.finalizer = inst.finalizer /\ inst'.life = "live"
      /\ inst'.version = inst.version /\ inst'.away = inst.away /\ inst'.adopted = inst.adopted
  BY <1>2, RecreatedIs, Zenon DEF IInv, Types
<1>4. Types' /\ Plans' /\ Covered'
  BY <1>1, <1>3 DEF IInv, Types, Plans, Covered
<1>5. Copies'
  <2>1. inst.version <= events /\ Alike(cache)
    BY DEF IInv, Copies
  <2>2. Alike(cache)'
    BY <1>1, <1>3, <2>1, Zenon DEF Alike
  <2> QED  BY <1>1, <1>3, <2>1, <2>2 DEF Copies
<1>6. Finalized' /\ Placed'
  BY <1>1, <1>3, Zenon DEF IInv, Finalized, Placed, Wanted
<1>7. OneToken'
  BY <1>1, <1>3 DEF IInv, OneToken, DeletesOnce, NoToken, Spent, Exists
<1> QED  BY <1>1, <1>3, <1>4, <1>5, <1>6, <1>7, Zenon DEF IInv, FinalizerGuardsObjects

LEMMA SyncKeeps == ASSUME IInv, Sync PROVE IInv'
<1> USE DEF desktop, history
<1>1. UNCHANGED <<desktop, inst, run, events, history>> /\ cache' = inst
  BY DEF Sync
<1>2. inst.version \in Nat
  BY DEF IInv, Types, Instances
<1>3. Types' /\ Plans' /\ Placed' /\ Covered'
  BY <1>1, Zenon DEF IInv, Types, Plans, Placed, Covered
<1>4. Copies'
  <2>1. /\ inst.version <= events /\ Alike(inst)
        /\ inst.life = "deleting" => inst.finalizer
        /\ inst.life = "gone" => ~inst.finalizer
    BY <1>2 DEF IInv, Copies, Alike
  <2>2. ASSUME NEW r \in run
        PROVE  /\ Alike(r.seen)
               /\ r.seen.life = "deleting" => inst.life # "live"
               /\ ~Wanted(r.seen) /\ Wanted(inst) => r.seen.version < inst.version
    BY DEF IInv, Copies
  <2>3. Alike(inst)' /\ \A r \in run : Alike(r.seen)'
    BY <1>1, <2>1, <2>2, Zenon DEF Alike
  <2>4. inst.life = "deleting" => inst.life # "live"
    OBVIOUS
  <2> QED  BY <1>1, <2>1, <2>2, <2>3, <2>4 DEF Copies
<1>5. Finalized'
  BY <1>1 DEF IInv, Finalized
<1>6. OneToken'
  BY <1>1 DEF IInv, OneToken, DeletesOnce, NoToken, Spent, Exists
<1> QED  BY <1>1, <1>3, <1>4, <1>5, <1>6, Zenon DEF IInv, FinalizerGuardsObjects

LEMMA RestartKeeps == ASSUME IInv, Restart PROVE IInv'
<1> USE DEF desktop, history
<1>1. /\ UNCHANGED <<desktop, inst, history>> /\ cache' = inst /\ run' = {}
      /\ events' \in 0..MaxEvents /\ inst.version \in Nat /\ inst.version <= events'
  BY BoundsAssumption DEF IInv, Types, Copies, Instances, Restart, Event
<1>2. Types' /\ Plans' /\ Placed' /\ Covered'
  BY <1>1 DEF IInv, Types, Plans, Placed, Covered
<1>3. Copies'
  <2>1. /\ inst.life = "deleting" => inst.finalizer
        /\ inst.life = "gone" => ~inst.finalizer
    BY DEF IInv, Copies
  <2>2. Alike(inst)'
    BY <1>1 DEF Alike
  <2>3. inst.life = "deleting" => inst.life # "live"
    OBVIOUS
  <2> QED  BY <1>1, <2>1, <2>2, <2>3, Zenon DEF Copies
<1>4. Finalized'
  BY <1>1 DEF IInv, Finalized
<1>5. OneToken'
  BY <1>1 DEF IInv, OneToken, DeletesOnce, NoToken, Spent, Exists
<1> QED  BY <1>1, <1>2, <1>3, <1>4, <1>5, Zenon DEF IInv, FinalizerGuardsObjects

LEMMA StartKeeps == ASSUME IInv, Start PROVE IInv'
<1> USE DEF desktop, history
<1> DEFINE calls == Reconcile(cache)
<1>1. UNCHANGED <<desktop, inst, cache, events, history>> /\ run = {}
  BY Zenon DEF Start
<1>2. /\ \A p, q \in run' : p = q
      /\ \A q \in run' : q.seen = cache /\ q.calls = calls /\ calls # <<>>
  BY ContinueIs DEF Start
<1>3. cache \in Instances
  BY DEF IInv, Types
<1>4. calls # <<>> => /\ Planned(cache, calls) /\ cache.life # "gone"
                      /\ Wanted(cache) => Head(calls)[1] \in {"finalize", "publish"}
                      /\ ~Has(calls, <<"unfinalize", "instance">>)
  BY <1>3, ReconcileIsPlanned, Zenon
<1> HIDE DEF calls
<1>5. Types' /\ Plans'
  BY <1>1, <1>2, <1>3, <1>4, Zenon DEF IInv, Types, Plans
<1>6. Copies'
  <2>1. ASSUME NEW q \in run'
        PROVE  /\ q.seen = cache /\ cache.life # "gone"
    BY <1>2, <1>4, Zenon
  <2>2. /\ inst.version <= events /\ Alike(cache)
        /\ inst.life = "deleting" => inst.finalizer
        /\ inst.life = "gone" => ~inst.finalizer
        /\ cache.life = "deleting" => inst.life # "live"
        /\ cache.life # "gone" /\ ~Wanted(cache) /\ Wanted(inst) => cache.version < inst.version
    BY DEF IInv, Copies
  <2>3. Alike(cache)'
    BY <1>1, <2>2, Zenon DEF Alike
  <2>4. cache.life = "deleting" => cache.life # "live"
    OBVIOUS
  <2> QED  BY <1>1, <2>1, <2>2, <2>3, <2>4, Zenon DEF Copies
<1>7. Finalized' /\ Placed' /\ Covered'
  BY <1>1, <1>2, <1>4, Zenon DEF IInv, Finalized, Placed, Covered
<1>8. OneToken'
  BY <1>1, <1>2 DEF IInv, OneToken, DeletesOnce, NoToken, Spent, Exists
<1> QED  BY <1>1, <1>5, <1>6, <1>7, <1>8 DEF IInv, FinalizerGuardsObjects
-----------------------------------------------------------------------------
(* The calls of a reconcile *)

LEMMA ensureFinalizerKeeps == ASSUME IInv, ensureDesktopFinalizer PROVE IInv'
<1> USE DEF desktop, history
<1>1. UNCHANGED <<desktop, cache, events, history>> /\ events' \in events..MaxEvents
  BY BoundsAssumption DEF IInv, Types, ensureDesktopFinalizer
<1>2. PICK r \in run : Head(r.calls)[1] = "finalize" /\ Finalizer(r, TRUE, inst.life)
  BY Zenon DEF ensureDesktopFinalizer
<1>3. r.seen \in Instances /\ inst \in Instances /\ Planned(r.seen, r.calls)
  BY DEF IInv, Types, Plans
<1>4. CASE r.seen.finalizer /\ Continue(r.seen, Tail(r.calls)) /\ UNCHANGED <<inst, due>>
  BY <1>1, <1>2, <1>4, TailKeeps, Zenon
<1>5. CASE /\ ~r.seen.finalizer /\ r.seen = inst
           /\ inst' = [inst EXCEPT !.finalizer = TRUE, !.life = inst.life]
           /\ Continue(inst', Tail(r.calls))
  <2>1. /\ inst' \in Instances /\ inst'.finalizer /\ inst'.life = inst.life
        /\ inst'.version = inst.version /\ inst'.away = inst.away
        /\ inst'.adopted = inst.adopted /\ inst'.block = inst.block
    BY <1>3, <1>5, Zenon DEF Instances
  <2>2. /\ \A p, q \in run' : p = q
        /\ \A q \in run' : q.seen = inst' /\ q.calls = Tail(r.calls) /\ Tail(r.calls) # <<>>
    BY <1>5, ContinueIs, Zenon
  <2>3. Wanted(inst)
    <3>1. Head(r.calls) \notin CleanupCalls(r.seen)
      BY <1>2 DEF CleanupCalls
    <3> QED  BY <1>3, <1>5, <3>1, FirstCall
  <2>4. Wanted(inst') /\ inst.life = "live"
    BY <2>1, <2>3 DEF Wanted, Enabled
  <2>5. Tail(r.calls) # <<>> => Planned(inst', Tail(r.calls))
    <3>1. Tail(r.calls) # <<>> => Planned(inst, Tail(r.calls))
      BY <1>3, <1>5, FirstCall
    <3>2. BuildCalls(inst') = BuildCalls(inst)
      BY <2>1, Zenon DEF BuildCalls
    <3> QED  BY <2>3, <2>4, <3>1, <3>2 DEF Planned
  <2>6. Types' /\ Plans'
    BY <1>1, <2>1, <2>2, <2>5, Zenon DEF IInv, Types, Plans
  <2>7. Copies'
    <3>1. inst'.version \in Nat
      BY <2>1 DEF Instances
    <3>2. /\ inst.version <= events /\ Alike(cache)
          /\ cache.life = "deleting" => inst.life # "live"
          /\ cache.life # "gone" /\ ~Wanted(cache) => cache.version < inst.version
      BY <2>3, Zenon DEF IInv, Copies
    <3>3. Alike(cache)' /\ \A q \in run' : Alike(q.seen)'
      BY <1>1, <2>1, <2>2, <3>1, <3>2 DEF Alike
    <3> QED  BY <1>1, <2>1, <2>2, <2>4, <3>2, <3>3 DEF Copies
  <2>8. Finalized' /\ Placed'
    BY <1>1, <2>1, <2>2, Zenon DEF IInv, Finalized, Placed
  <2>9. Covered'
    BY <2>1, <2>2, <2>4, <2>5, BuildKeepsFinalizer, Zenon DEF Covered
  <2>10. OneToken'
    BY <1>1, <2>1, <2>2, <2>4 DEF IInv, OneToken, DeletesOnce, NoToken, Spent, Exists, Copies
  <2> QED  BY <2>1, <2>6, <2>7, <2>8, <2>9, <2>10 DEF IInv, FinalizerGuardsObjects
<1>6. CASE Retry /\ UNCHANGED inst
  BY <1>1, <1>6, EndKeeps, Zenon DEF Retry
<1>7. r.seen.finalizer \in BOOLEAN
  BY <1>3 DEF Instances
<1> QED  BY <1>2, <1>4, <1>5, <1>6, <1>7, Zenon DEF Finalizer

LEMMA dropFinalizerKeeps == ASSUME IInv, dropDesktopFinalizer PROVE IInv'
<1> USE DEF desktop, history
<1> DEFINE life == IF inst.life = "deleting" THEN "gone" ELSE inst.life
<1>1. UNCHANGED <<desktop, cache, events, history>> /\ events' \in events..MaxEvents
  BY BoundsAssumption DEF IInv, Types, dropDesktopFinalizer
<1>2. PICK r \in run : Head(r.calls)[1] = "unfinalize" /\ Finalizer(r, FALSE, life)
  BY Zenon DEF dropDesktopFinalizer
<1>3. r.seen \in Instances /\ inst \in Instances /\ Planned(r.seen, r.calls)
  BY DEF IInv, Types, Plans
<1>4. CASE ~r.seen.finalizer /\ Continue(r.seen, Tail(r.calls)) /\ UNCHANGED <<inst, due>>
  BY <1>1, <1>2, <1>4, TailKeeps
<1>5. CASE /\ r.seen.finalizer /\ r.seen = inst
           /\ inst' = [inst EXCEPT !.finalizer = FALSE, !.life = life]
           /\ Continue(inst', Tail(r.calls))
  <2>1. inst.life \in {"live", "deleting"} /\ life \in {"live", "deleting", "gone"}
    BY <1>3, <1>5 DEF IInv, Copies, Instances
  <2>2. /\ inst.life = "live" => life = "live"
        /\ inst.life = "deleting" => life = "gone"
    OBVIOUS
  <2> HIDE DEF life
  <2>3. /\ inst' \in Instances /\ ~inst'.finalizer /\ inst'.life = life
        /\ inst'.version = inst.version /\ inst'.away = inst.away
        /\ inst'.adopted = inst.adopted /\ inst'.block = inst.block
    BY <1>3, <1>5, <2>1, Zenon DEF Instances
  <2>4. /\ \A p, q \in run' : p = q
        /\ \A q \in run' : q.seen = inst' /\ q.calls = Tail(r.calls) /\ Tail(r.calls) # <<>>
    BY <1>5, ContinueIs, Zenon
  <2>5. ~Wanted(inst) /\ Head(r.calls) = <<"unfinalize", "instance">>
    <3>1. Head(r.calls) \notin BuildCalls(r.seen)
      BY <1>2 DEF BuildCalls
    <3>2. ~Wanted(inst) /\ Head(r.calls) \in CleanupCalls(r.seen)
      BY <1>3, <1>5, <3>1, FirstCall
    <3> QED  BY <1>2, <3>2 DEF CleanupCalls
  <2>6. ~Wanted(inst') /\ ~Wanted(cache)
    <3>1. ~Wanted(inst')
      BY <2>1, <2>2, <2>3, <2>5 DEF Wanted, Enabled
    <3>2. ~Wanted(cache)
      <4>1. cache.version \in Nat /\ inst.version \in Nat
        BY DEF IInv, Types, Instances
      <4> QED  BY <1>5, <2>5, <4>1 DEF IInv, Copies, Alike
    <3> QED  BY <3>1, <3>2
  <2>7. \A i \in DOMAIN Tail(r.calls) : Tail(r.calls)[i] = <<"publish", "Disabled">>
    BY <1>2, <1>3, FirstCall DEF Precedes
  <2>8. ~Has(Tail(r.calls), <<"unfinalize", "instance">>)
        /\ \A kind : ~Has(r.calls, <<"delete", kind>>)
    <3>1. \A x : Has(r.calls, x) <=> Head(r.calls) = x \/ Has(Tail(r.calls), x)
      BY <1>3, FirstCall
    <3>2. \A kind : ~Has(Tail(r.calls), <<"delete", kind>>)
      BY <2>7 DEF Has
    <3>3. \A kind : Head(r.calls) # <<"delete", kind>>
      BY <2>5
    <3>4. ~Has(Tail(r.calls), <<"unfinalize", "instance">>)
      BY <2>7 DEF Has
    <3> QED  BY <3>1, <3>2, <3>3, <3>4, Zenon
  <2>9. Tail(r.calls) # <<>> => Planned(inst', Tail(r.calls))
    <3>1. Tail(r.calls) # <<>> => Planned(inst, Tail(r.calls))
      BY <1>3, <1>5, FirstCall
    <3>2. ASSUME Tail(r.calls) # <<>>
          PROVE  Tail(r.calls) \in Seq(CleanupCalls(inst'))
      <4>1. Tail(r.calls) \in Seq(CleanupCalls(inst))
        BY <2>5, <3>1, <3>2 DEF Planned
      <4>2. \A i \in DOMAIN Tail(r.calls) : Tail(r.calls)[i] \in CleanupCalls(inst')
        BY <2>7, Zenon DEF CleanupCalls
      <4> DEFINE calls == Tail(r.calls)
                 C == CleanupCalls(inst)
                 D == CleanupCalls(inst')
      <4>3. calls \in Seq(C) /\ \A i \in DOMAIN calls : calls[i] \in D
        BY <4>1, <4>2
      <4> HIDE DEF calls, C, D
      <4>4. calls \in Seq(D)
        BY <4>3
      <4> QED  BY <4>4 DEF calls, D
    <3> QED  BY <2>6, <3>1, <3>2 DEF Planned
  <2>10. Has(r.calls, <<"unfinalize", "instance">>)
    BY <1>3, <2>5, FirstCall, Zenon
  <2>11. Types' /\ Plans'
    BY <1>1, <2>3, <2>4, <2>9, Zenon DEF IInv, Types, Plans
  <2>12. Copies'
    <3>1. inst'.version \in Nat
      BY <2>3 DEF Instances
    <3>2. /\ inst.version <= events /\ Alike(cache)
          /\ cache.life = "deleting" => inst.life # "live"
      BY DEF IInv, Copies
    <3>3. Alike(cache)' /\ \A q \in run' : Alike(q.seen)'
      BY <1>1, <2>3, <2>4, <3>1, <3>2 DEF Alike
    <3> QED  BY <1>1, <2>1, <2>2, <2>3, <2>4, <2>6, <3>2, <3>3 DEF Copies
  <2>13. Finalized' /\ Placed'
    BY <1>1, <2>3, <2>4, <2>6 DEF IInv, Finalized, Placed
  <2>14. Covered'
    BY <2>4, <2>8, Zenon DEF Covered
  <2>15. ~tokenless /\ inst.life = "deleting" /\ ~retains(inst) => Spent
    <3>1. ASSUME ~tokenless, inst.life = "deleting", ~retains(inst)
          PROVE  ~inst.adopted /\ \A o \in objs : o[1] = "golden"
      BY <1>5, <2>8, <2>10, <3>1, Zenon DEF IInv, Covered
    <3> QED  BY <3>1 DEF IInv, Placed, Spent, Exists, Payloads
  <2>16. OneToken'
    <3>1. NoToken' = NoToken /\ Spent' = Spent
      BY <1>1 DEF NoToken, Spent, Exists
    <3>2. ASSUME ~tokenless, tokens = 0, ~NoToken
          PROVE  /\ inst'.life = "gone" /\ Spent /\ cache.life # "live"
                 /\ \A q \in run' : q.seen.life # "live"
      <4>1. inst.life = "deleting" /\ ~retains(inst) /\ cache.life # "live"
        BY <2>1, <3>2, Zenon DEF IInv, OneToken
      <4> QED  BY <2>2, <2>3, <2>4, <2>15, <3>2, <4>1
    <3>3. ASSUME ~tokenless PROVE DeletesOnce(cache)'
      <4>1. ASSUME cache.life = "deleting", ~retains(cache) PROVE life = "gone" /\ Spent
        <5>1. inst.life = "deleting"
          BY <2>1, <4>1 DEF IInv, Copies
        <5>2. ~retains(inst)
          BY <3>3, <4>1, <5>1, Zenon DEF IInv, OneToken, DeletesOnce
        <5> QED  BY <2>2, <2>15, <3>3, <5>1, <5>2
      <4> QED  BY <1>1, <2>3, <3>1, <4>1 DEF DeletesOnce, retains, desktopRetainsDisk
    <3>4. \A q \in run' : DeletesOnce(q.seen)'
      BY <2>1, <2>2, <2>3, <2>4 DEF DeletesOnce
    <3> QED  BY <1>1, <3>1, <3>2, <3>3, <3>4 DEF IInv, OneToken
  <2>17. FinalizerGuardsObjects'
    BY <1>1, <2>8, <2>10, Zenon DEF IInv, Covered, FinalizerGuardsObjects
  <2> QED  BY <2>11, <2>12, <2>13, <2>14, <2>16, <2>17 DEF IInv
<1>6. CASE Retry /\ UNCHANGED inst
  BY <1>1, <1>6, EndKeeps DEF Retry
<1>7. r.seen.finalizer \in BOOLEAN
  BY <1>3 DEF Instances
<1> QED  BY <1>2, <1>4, <1>5, <1>6, <1>7, Zenon DEF Finalizer

(* A reconcile that builds goes on with other calls of its plan. *)
LEMMA ReplanKeeps ==
    ASSUME IInv, NEW r \in run, Wanted(r.seen), NEW calls, Planned(r.seen, calls),
           Continue(r.seen, calls), events' \in events..MaxEvents,
           r.seen.finalizer \/ Head(calls)[1] \in {"finalize", "publish"},
           UNCHANGED <<desktop, inst, cache, history>>
    PROVE  IInv'
<1> USE DEF desktop, history
<1>1. events' \in 0..MaxEvents /\ inst.version \in Nat /\ inst.version <= events'
  BY BoundsAssumption DEF IInv, Types, Copies, Instances
<1>2. /\ \A p, q \in run' : p = q
      /\ \A q \in run' : q.seen = r.seen /\ q.calls = calls
  BY ContinueIs, ZenonT(30)
<1>3. r.seen \in Instances
  BY DEF IInv, Types
<1>4. Types' /\ Plans'
  BY <1>1, <1>2, <1>3 DEF IInv, Types, Plans
<1>5. Copies'
  BY <1>1, <1>2, CopiesFollow, Zenon
<1>6. Finalized' /\ Placed'
  BY <1>2 DEF IInv, Finalized, Placed
<1>7. Covered'
  BY <1>2, <1>3, BuildKeepsFinalizer, Zenon DEF Covered
<1>8. OneToken'
  BY <1>2 DEF IInv, OneToken, DeletesOnce, NoToken, Spent, Exists
<1> QED  BY <1>4, <1>5, <1>6, <1>7, <1>8, Zenon DEF IInv, FinalizerGuardsObjects

LEMMA StatusIsPlanned ==
    ASSUME NEW s \in Instances, Wanted(s), NEW outcome \in {"Pending", "Degraded"}
    PROVE  Planned(s, << <<"publish", outcome>> >>)
           /\ Head(<< <<"publish", outcome>> >>)[1] = "publish"
<1> DEFINE call == <<"publish", outcome>>
<1>1. call \in BuildCalls(s)
  BY DEF BuildCalls
<1>2. call[1] = "publish"
  OBVIOUS
<1> HIDE DEF call
<1>3. <<call>> # <<>> /\ <<call>> \in Seq(BuildCalls(s)) /\ Head(<<call>>) = call
  BY <1>1
<1> QED  BY <1>2, <1>3, OneInOrder DEF Planned, call

LEMMA kubeVirtAvailableKeeps == ASSUME IInv, kubeVirtAvailable PROVE IInv'
<1>1. UNCHANGED <<desktop, inst, cache, history>> /\ events' \in events..MaxEvents
  BY BoundsAssumption DEF IInv, Types, kubeVirtAvailable
<1>2. PICK r \in run :
        /\ Head(r.calls)[1] = "require"
        /\ Continue(r.seen, IF kubevirt THEN applyDesktop(r.seen)
                            ELSE << <<"publish", "Pending">> >>)
  BY DEF kubeVirtAvailable
<1>3. r.seen \in Instances /\ Planned(r.seen, r.calls)
  BY Zenon DEF IInv, Types, Plans
<1>4. Wanted(r.seen)
  <2>1. Head(r.calls) \notin CleanupCalls(r.seen)
    BY <1>2 DEF CleanupCalls
  <2> QED  BY <1>3, <2>1, FirstCall
<1>5. r.seen.finalizer
  BY <1>2, <1>4 DEF IInv, Finalized
<1>6. CASE kubevirt
  <2>1. Planned(r.seen, applyDesktop(r.seen)) /\ Continue(r.seen, applyDesktop(r.seen))
    BY <1>2, <1>3, <1>4, <1>6, applyDesktopIsPlanned
  <2> QED  BY <1>1, <1>4, <1>5, <2>1, ReplanKeeps, Zenon
<1>7. CASE ~kubevirt
  <2> DEFINE calls == << <<"publish", "Pending">> >>
  <2>1. Planned(r.seen, calls) /\ Continue(r.seen, calls)
    BY <1>2, <1>3, <1>4, <1>7, StatusIsPlanned, Zenon
  <2> HIDE DEF calls
  <2> QED  BY <1>1, <1>4, <1>5, <2>1, ReplanKeeps, Zenon
<1> QED  BY <1>6, <1>7

LEMMA CleanupKeeps == ASSUME IInv, Cleanup PROVE IInv'
<1> USE DEF desktop, history
<1>1. UNCHANGED <<desktop, inst, cache, events>>
  BY Zenon DEF Cleanup
<1>2. PICK r \in run :
        /\ Head(r.calls)[1] = "cleanup"
        /\ Continue(r.seen, Dismantle(r.seen))
        /\ stranded' = (stranded \/ ~kubevirt \/ (r.seen.block = "absent" /\ r.seen.away))
        /\ tokenless' = (tokenless \/ (~retains(r.seen) /\ (~kubevirt \/ r.seen.adopted)))
  BY DEF Cleanup
<1> DEFINE s == r.seen
           calls == Dismantle(s)
<1>3. s \in Instances /\ Planned(s, r.calls)
  BY Zenon DEF IInv, Types, Plans
<1>4. ~Wanted(s) /\ s.life # "gone"
  <2>1. Head(r.calls) \notin BuildCalls(s)
    BY <1>2 DEF BuildCalls
  <2>2. ~Wanted(s) /\ Head(r.calls) \in CleanupCalls(s)
    BY <1>3, <2>1, FirstCall, Zenon
  <2> QED  BY <1>2, <2>2 DEF CleanupCalls
<1>5. /\ Planned(s, calls)
      /\ \A kind \in Doomed(s) : Has(calls, <<"delete", kind>>)
  BY <1>3, <1>4, DismantleIsPlanned, Zenon
<1>6. /\ \A p, q \in run' : p = q
      /\ \A q \in run' : q.seen = s /\ q.calls = calls
  BY <1>2, ContinueIs
<1>7. stranded' \in BOOLEAN /\ tokenless' \in BOOLEAN
  BY <1>2
<1>8. ~stranded' => ~stranded /\ kubevirt /\ ~(s.block = "absent" /\ s.away)
  BY <1>2, Zenon
<1>9. ~tokenless' => ~tokenless /\ (~retains(s) => kubevirt /\ ~s.adopted)
  BY <1>2, Zenon
<1>10. s.away = inst.away /\ s.away \in BOOLEAN
  BY <1>3 DEF IInv, Copies, Alike, Instances
<1>11. objs \subseteq Kinds \X {"instance", "desktop"}
  BY DEF IInv, Types
<1> HIDE DEF s, calls
<1>12. ASSUME NEW o \in objs, kubevirt, ~(s.block = "absent" /\ s.away), o[1] \notin Retained
       PROVE  Has(calls, <<"delete", o[1]>>)
  <2>1. o[1] \in Kinds /\ (o[1] = "mirror" => s.away)
    BY <1>10, <1>11 DEF IInv, Placed
  <2>2. s.away => CrossNamespace(s)
    BY <1>12, Zenon DEF CrossNamespace, Namespace
  <2>3. o[1] \in Doomed(s)
    BY <1>12, <2>1, <2>2 DEF Kinds, Payloads, Retained, Doomed
  <2> QED  BY <1>5, <2>3
<1>13. ASSUME NEW o \in objs, kubevirt, ~s.adopted, ~retains(s), o[1] # "golden"
       PROVE  Has(calls, <<"delete", o[1]>>)
  <2>1. CASE o[1] \in Retained
    <3>1. o[1] \in Doomed(s)
      BY <1>13, <2>1 DEF Retained, Doomed
    <3> QED  BY <1>5, <3>1
  <2>2. CASE o[1] \notin Retained
    BY <1>12, <1>13, <2>2, Zenon DEF retains, desktopRetainsDisk
  <2> QED  BY <2>1, <2>2
<1>14. Types' /\ Plans'
  BY <1>1, <1>3, <1>5, <1>6, <1>7, Zenon DEF IInv, Types, Plans, s
<1>15. Copies'
  <2>1. inst.version <= events' /\ \A q \in run' : q.seen = r.seen
    BY <1>1, <1>6, Zenon DEF IInv, Copies, s
  <2> QED  BY <1>1, <2>1, CopiesFollow, Zenon
<1>16. Finalized' /\ Placed'
  BY <1>1, <1>4, <1>6, Zenon DEF IInv, Finalized, Placed
<1>17. Covered'
  BY <1>1, <1>6, <1>8, <1>9, <1>12, <1>13, Zenon DEF Covered
<1>18. OneToken'
  BY <1>1, <1>6, <1>9 DEF IInv, OneToken, DeletesOnce, NoToken, Spent, Exists, s
<1> QED  BY <1>1, <1>8, <1>14, <1>15, <1>16, <1>17, <1>18, Zenon DEF IInv, FinalizerGuardsObjects

LEMMA publishKeeps == ASSUME IInv, publishDesktop PROVE IInv'
<1> USE DEF desktop, history
<1>1. UNCHANGED <<desktop, inst, cache, events, history>> /\ events' \in events..MaxEvents
  <2>1. UNCHANGED <<desktop, inst, cache, events, history>>
    BY DEF publishDesktop
  <2>2. events \in 0..MaxEvents
    BY Zenon DEF IInv, Types
  <2> QED  BY <2>1, <2>2, BoundsAssumption
<1>2. PICK r \in run :
        /\ Head(r.calls)[1] = "publish"
        /\ \/ inst.life # "gone" /\ Continue(inst, Tail(r.calls))
           \/ inst.life = "gone" /\ Continue(r.seen, Tail(r.calls))
  BY DEF publishDesktop
<1>3. r.seen \in Instances /\ inst \in Instances /\ Planned(r.seen, r.calls)
  BY DEF IInv, Types, Plans
<1>4. CASE Tail(r.calls) = <<>>
  <2>1. run' = {}
    BY <1>2, <1>4, Zenon DEF Continue
  <2> QED  BY <1>1, <2>1, EndKeeps
<1>5. CASE inst.life = "gone"
  BY <1>1, <1>2, <1>5, TailKeeps
<1>6. CASE inst.life # "gone" /\ Tail(r.calls) # <<>>
  <2>1. /\ \A p, q \in run' : p = q
        /\ \A q \in run' : q.seen = inst /\ q.calls = Tail(r.calls)
    BY <1>2, <1>6, ContinueIs, Zenon
  <2>2. /\ \A i \in DOMAIN Tail(r.calls) : Tail(r.calls)[i] = <<"cleanup", "desktop">>
        /\ Head(r.calls)[2] = "Deleting" /\ Planned(r.seen, Tail(r.calls))
    BY <1>2, <1>3, <1>6, FirstCall, Zenon DEF Precedes
  <2>3. ~Wanted(r.seen) /\ r.seen.life = "deleting"
    <3>1. Head(r.calls) \notin BuildCalls(r.seen)
      BY <1>2, <2>2 DEF BuildCalls
    <3>2. ~Wanted(r.seen) /\ Head(r.calls) \in CleanupCalls(r.seen)
      BY <1>3, <3>1, FirstCall, Zenon
    <3> QED  BY <1>2, <2>2, <3>2 DEF CleanupCalls
  <2>4. inst.life = "deleting" /\ cache.life # "live" /\ inst.version \in Nat
    BY <1>3, <1>6, <2>3 DEF IInv, Copies, Instances
  <2>5. ~Wanted(inst) /\ ~Wanted(cache)
    BY <2>4 DEF Wanted
  <2>6. Planned(inst, Tail(r.calls))
    <3> DEFINE calls == Tail(r.calls)
               C == CleanupCalls(r.seen)
               D == CleanupCalls(inst)
    <3>1. calls \in Seq(C) /\ InOrder(calls) /\ calls # <<>>
      BY <2>2, <2>3, Zenon DEF Planned
    <3>2. \A i \in DOMAIN calls : calls[i] \in D
      BY <2>2, <2>4, Zenon DEF CleanupCalls
    <3> HIDE DEF calls, C, D
    <3>3. calls \in Seq(D)
      BY <3>1, <3>2
    <3> QED  BY <2>5, <3>1, <3>3 DEF Planned, calls, D
  <2>7. Types' /\ Plans'
    BY <1>1, <1>3, <2>1, <2>6, Zenon DEF IInv, Types, Plans
  <2>8. Copies'
    <3>1. /\ inst.version <= events /\ inst.finalizer /\ Alike(cache) /\ Alike(inst)
      BY <2>4 DEF IInv, Copies, Alike
    <3>2. Alike(cache)' /\ \A q \in run' : Alike(q.seen)'
      BY <1>1, <2>1, <3>1, Zenon DEF Alike
    <3> QED  BY <1>1, <2>1, <2>4, <2>5, <3>1, <3>2, Zenon DEF Copies
  <2>9. Finalized' /\ Placed'
    BY <1>1, <2>1, <2>5, Zenon DEF IInv, Finalized, Placed
  <2>10. Covered'
    <3>1. ~Has(Tail(r.calls), <<"unfinalize", "instance">>)
      BY <2>2 DEF Has
    <3> QED  BY <2>1, <3>1 DEF Covered
  <2>11. OneToken'
    BY <1>1, <2>1, <2>4 DEF IInv, OneToken, DeletesOnce, NoToken, Spent, Exists
  <2> QED  BY <1>1, <2>7, <2>8, <2>9, <2>10, <2>11, Zenon DEF IInv, FinalizerGuardsObjects
<1> QED  BY <1>4, <1>5, <1>6

LEMMA FailsKeeps == ASSUME IInv, Fails PROVE IInv'
<1>1. UNCHANGED <<desktop, inst, cache, history>> /\ events' \in events..MaxEvents
  BY BoundsAssumption DEF IInv, Types, Fails, Event
<1>2. PICK r \in run :
        \/ Head(r.calls)[1] \in {"apply", "create", "remove"}
           /\ Continue(r.seen, << <<"publish", "Degraded">> >>)
        \/ Head(r.calls) = <<"publish", "Deleting">> /\ Continue(r.seen, Tail(r.calls))
        \/ Retry
  BY DEF Fails
<1>3. r.seen \in Instances /\ Planned(r.seen, r.calls)
  BY DEF IInv, Types, Plans
<1>4. CASE Head(r.calls)[1] \in {"apply", "create", "remove"}
           /\ Continue(r.seen, << <<"publish", "Degraded">> >>)
  <2> DEFINE calls == << <<"publish", "Degraded">> >>
  <2>1. Head(r.calls) \notin CleanupCalls(r.seen)
    BY <1>4 DEF CleanupCalls
  <2>2. Wanted(r.seen)
    BY <1>3, <2>1, FirstCall
  <2>3. Planned(r.seen, calls) /\ Continue(r.seen, calls) /\ Head(calls)[1] = "publish"
    BY <1>3, <1>4, <2>2, StatusIsPlanned
  <2> HIDE DEF calls
  <2> QED  BY <1>1, <2>2, <2>3, ReplanKeeps
<1>5. CASE Head(r.calls) = <<"publish", "Deleting">> /\ Continue(r.seen, Tail(r.calls))
  BY <1>1, <1>5, TailKeeps
<1>6. CASE Retry
  BY <1>1, <1>6, EndKeeps, Zenon DEF Retry
<1> QED  BY <1>2, <1>4, <1>5, <1>6

(* What the calls left say after an object is applied or removed. *)
LEMMA TailPlans ==
    ASSUME IInv, NEW r \in run, Continue(r.seen, Tail(r.calls)), UNCHANGED <<inst, cache, events>>,
           Head(r.calls)[1] \notin {"finalize", "publish"}
    PROVE  /\ Plans' /\ Copies' /\ Finalized'
           /\ \A p, q \in run' : p = q /\ p.seen \in Instances
           /\ \A q \in run' : q.seen = r.seen /\ q.calls = Tail(r.calls)
<1>1. /\ \A p, q \in run' : p = q
      /\ \A q \in run' : q.seen = r.seen /\ q.calls = Tail(r.calls) /\ Tail(r.calls) # <<>>
  BY ContinueIs, Zenon
<1>2. r.seen \in Instances /\ Planned(r.seen, r.calls)
  BY Zenon DEF IInv, Types, Plans
<1>3. Plans'
  BY <1>1, <1>2, FirstCall DEF Plans
<1>4. Copies'
  <2>1. inst.version <= events'
    BY Zenon DEF IInv, Copies
  <2> QED  BY <1>1, <2>1, CopiesFollow, Zenon
<1>5. Finalized'
  BY <1>1 DEF IInv, Finalized
<1> QED  BY <1>1, <1>2, <1>3, <1>4, <1>5

(* NewTokenSet finds an unused token when the Secret has none. *)
LEMMA NewTokenSetIs ==
    ASSUME Types
    PROVE  NewTokenSet \in Tokens /\ NewTokenSet # 0 /\ (tokens # 0 => NewTokenSet = tokens)
<1>1. tokens \in Tokens /\ payload \in Tokens /\ booted \in Tokens /\ serving \in Tokens
  BY DEF Types
<1>2. \E t \in Tokens \ {0} : t \notin {payload, booted, serving}
  <2>1. 1 \in Tokens \ {0} /\ 2 \in Tokens \ {0} /\ 3 \in Tokens \ {0} /\ 4 \in Tokens \ {0}
    BY DEF Tokens
  <2>2. \/ 1 \notin {payload, booted, serving} \/ 2 \notin {payload, booted, serving}
        \/ 3 \notin {payload, booted, serving} \/ 4 \notin {payload, booted, serving}
    OBVIOUS
  <2> QED  BY <2>1, <2>2
<1> DEFINE fresh == CHOOSE t \in Tokens \ {0} : t \notin {payload, booted, serving}
<1>3. fresh \in Tokens \ {0}
  BY <1>2
<1> HIDE DEF fresh
<1>4. NewTokenSet = IF tokens # 0 THEN tokens ELSE fresh
  BY Zenon DEF NewTokenSet, fresh
<1> QED  BY <1>1, <1>3, <1>4

LEMMA ApplyKeeps == ASSUME IInv, Apply PROVE IInv'
<1> USE DEF desktop, history
<1>1. UNCHANGED <<fading, booted, serving, inst, cache, events, history>>
  BY Zenon DEF Apply
<1>2. PICK r \in run :
        /\ Head(r.calls)[1] \in {"apply", "create"}
        /\ objs' = IF Head(r.calls)[2] \in fading THEN objs
                   ELSE objs \cup {Names(r.seen, Head(r.calls)[2])}
        /\ tokens' = IF Head(r.calls)[2] = "tokens" THEN NewTokenSet ELSE tokens
        /\ payload' = IF Head(r.calls)[2] \in Payloads THEN tokens ELSE payload
        /\ disk' = IF Head(r.calls)[2] = "root" /\ disk = "absent" THEN "blank" ELSE disk
        /\ Continue(r.seen, Tail(r.calls))
  BY DEF Apply
<1> DEFINE kind == Head(r.calls)[2]
           new == Names(r.seen, kind)
<1>3. r.seen \in Instances /\ Planned(r.seen, r.calls) /\ Types
  BY Zenon DEF IInv, Types, Plans
<1>4. Wanted(r.seen) /\ Head(r.calls) \in BuildCalls(r.seen)
  <2>1. Head(r.calls) \notin CleanupCalls(r.seen)
    BY <1>2 DEF CleanupCalls
  <2> QED  BY <1>3, <2>1, FirstCall, Zenon
<1>5. r.seen.finalizer /\ inst.finalizer
  BY <1>2, <1>4 DEF IInv, Finalized
<1>6. kind \in Kinds /\ (kind = "mirror" => r.seen.away)
  BY <1>2, <1>4 DEF BuildCalls, Kinds
<1>7. r.seen.away = inst.away /\ r.seen.block = "enabled" /\ r.seen.life = "live"
  BY <1>4, Zenon DEF IInv, Copies, Alike, Wanted, Enabled
<1>8. /\ new[1] = kind /\ new \in Kinds \X {"instance", "desktop"}
      /\ new[2] = IF kind \notin {"extension", "mirror"} /\ inst.away THEN "desktop" ELSE "instance"
  BY <1>6, <1>7 DEF Names, Namespace
<1>9. NewTokenSet \in Tokens /\ NewTokenSet # 0 /\ (tokens # 0 => NewTokenSet = tokens)
  BY <1>3, NewTokenSetIs, Zenon
<1>10. /\ Plans' /\ Copies' /\ Finalized'
       /\ \A p, q \in run' : p = q /\ p.seen \in Instances
       /\ \A q \in run' : q.seen = r.seen /\ q.calls = Tail(r.calls)
  BY <1>1, <1>2, TailPlans, Zenon
<1>11. /\ objs' \subseteq objs \cup {new} /\ objs \subseteq objs'
       /\ kind \in fading \/ new \in objs'
       /\ tokens' = IF kind = "tokens" THEN NewTokenSet ELSE tokens
       /\ payload' = IF kind \in Payloads THEN tokens ELSE payload
       /\ kind # "root" => disk' = disk
  <2>1. objs' = IF kind \in fading THEN objs ELSE objs \cup {new}
    BY <1>2, Zenon
  <2> HIDE DEF kind, new
  <2>2. /\ objs' \subseteq objs \cup {new} /\ objs \subseteq objs'
        /\ kind \in fading \/ new \in objs'
    BY <2>1
  <2> QED  BY <1>2, <2>2, Zenon DEF kind
<1> HIDE DEF kind, new
<1>12. Types'
  BY <1>1, <1>3, <1>8, <1>9, <1>10, <1>11, Zenon DEF Types
<1>13. Placed'
  <2>1. \A o \in objs' : /\ o[2] = IF o[1] \notin {"extension", "mirror"} /\ inst.away THEN "desktop"
                                   ELSE "instance"
                         /\ o[1] = "mirror" => inst.away
    BY <1>6, <1>7, <1>8, <1>11, Zenon DEF IInv, Placed
  <2>2. /\ tokens' # 0 => \E o \in objs' : o[1] = "tokens"
        /\ payload' # 0 => \E o \in objs' : o[1] \in Payloads
        /\ disk' # "absent" \/ booted # 0 =>
              inst.adopted \/ "root" \in fading \/ \E o \in objs' : o[1] = "root"
    <3>1. kind \in fading => kind \notin Payloads \cup {"tokens"}
      BY <1>3 DEF Types, Slow, Payloads
    <3> QED  BY <1>8, <1>11, <3>1, Zenon DEF IInv, Placed
  <2> QED  BY <1>1, <2>1, <2>2, Zenon DEF Placed
<1>14. Covered'
  <2>1. ASSUME NEW q \in run' PROVE ~Has(q.calls, <<"unfinalize", "instance">>)
    <3>1. \A x : Has(r.calls, x) <=> Head(r.calls) = x \/ Has(Tail(r.calls), x)
      BY <1>3, FirstCall, Zenon
    <3> QED  BY <1>3, <1>4, <1>10, <3>1, BuildKeepsFinalizer, Zenon
  <2> QED  BY <2>1 DEF Covered
<1>15. OneToken'
  <2>1. ASSUME ~tokenless PROVE tokens # 0 \/ NoToken
    BY <1>7, <2>1 DEF IInv, OneToken
  <2>2. ASSUME ~tokenless PROVE tokens' = 0 => NoToken'
    BY <1>1, <1>9, <1>11, <2>1, <2>2 DEF NoToken
  <2>3. ASSUME ~tokenless
        PROVE  \A x, y \in {tokens', payload', booted, serving} : x = 0 \/ y = 0 \/ x = y
    <3>1. CASE tokens = 0
      BY <1>11, <2>1, <2>3, <3>1, Zenon DEF NoToken
    <3>2. CASE tokens # 0
      <4>1. tokens' = tokens /\ payload' \in {payload, tokens}
        BY <1>9, <1>11, <3>2, Zenon
      <4> QED  BY <2>3, <4>1 DEF IInv, OneToken
    <3> QED  BY <3>1, <3>2
  <2>4. inst.life # "gone"
    BY <1>5, Zenon DEF IInv, Copies
  <2>5. ASSUME ~tokenless PROVE DeletesOnce(cache)'
    BY <1>1, <2>4, <2>5, Zenon DEF IInv, OneToken, DeletesOnce
  <2>6. \A q \in run' : DeletesOnce(q.seen)'
    BY <1>7, <1>10, Zenon DEF DeletesOnce
  <2> QED  BY <1>1, <2>2, <2>3, <2>5, <2>6, Zenon DEF OneToken
<1> QED  BY <1>1, <1>5, <1>10, <1>12, <1>13, <1>14, <1>15, Zenon DEF IInv, FinalizerGuardsObjects

LEMMA RemoveKeeps == ASSUME IInv, Remove PROVE IInv'
<1> USE DEF desktop, history
<1>1. UNCHANGED <<disk, booted, serving, inst, cache, events, history>>
  BY Zenon DEF Remove
<1>2. PICK r \in run : LET gone == Names(r.seen, Head(r.calls)[2]) IN
        /\ Head(r.calls)[1] \in {"delete", "remove"}
        /\ objs' = objs \ {gone}
        /\ fading' = IF gone \in objs /\ gone[1] \in Slow THEN fading \cup {gone[1]} ELSE fading
        /\ tokens' = IF gone \in objs /\ gone[1] = "tokens" THEN 0 ELSE tokens
        /\ payload' = IF \E o \in objs' : o[1] \in Payloads THEN payload ELSE 0
        /\ Continue(r.seen, Tail(r.calls))
  BY Zenon DEF Remove
<1> DEFINE s == r.seen
           gone == Names(s, Head(r.calls)[2])
<1>3. s \in Instances /\ Planned(s, r.calls) /\ Types
  BY DEF IInv, Types, Plans
<1>4. gone[1] = Head(r.calls)[2]
  BY DEF Names
<1>5. /\ fading' = IF gone \in objs /\ gone[1] \in Slow THEN fading \cup {gone[1]} ELSE fading
      /\ tokens' = IF gone \in objs /\ gone[1] = "tokens" THEN 0 ELSE tokens
  BY <1>2, Zenon
<1>6. /\ Head(r.calls)[1] \in {"delete", "remove"}
      /\ objs' = objs \ {gone}
      /\ payload' = IF \E o \in objs' : o[1] \in Payloads THEN payload ELSE 0
  BY <1>2, Zenon
<1>7. /\ Plans' /\ Copies' /\ Finalized'
      /\ \A p, q \in run' : p = q /\ p.seen \in Instances
      /\ \A q \in run' : q.seen = s /\ q.calls = Tail(r.calls)
  BY <1>1, <1>2, TailPlans
<1>8. gone = <<Head(r.calls)[2],
               IF Head(r.calls)[2] \in {"extension", "mirror"} THEN "instance" ELSE Namespace(s)>>
  BY DEF Names
<1> HIDE DEF s, gone
<1>9. 0 \in Tokens
  BY DEF Tokens
<1>10. /\ fading \subseteq fading' /\ fading' \subseteq fading \cup Slow
       /\ \A o \in objs : o \in objs' \/ o[1] \notin Slow \/ o[1] \in fading'
  BY <1>5, <1>6
<1>11. tokens' \in {tokens, 0} /\ payload' \in {payload, 0}
  BY <1>5, <1>6, Zenon
<1>12. Types'
  BY <1>1, <1>3, <1>6, <1>7, <1>9, <1>10, <1>11, Zenon DEF Types
<1>13. Placed'
  <2>1. \A o \in objs' : /\ o[2] = IF o[1] \notin {"extension", "mirror"} /\ inst.away THEN "desktop"
                                   ELSE "instance"
                         /\ o[1] = "mirror" => inst.away
    BY <1>6 DEF IInv, Placed
  <2>2. tokens' # 0 => \E o \in objs' : o[1] = "tokens"
    BY <1>5, <1>6, Zenon DEF IInv, Placed
  <2>3. payload' # 0 => \E o \in objs' : o[1] \in Payloads
    BY <1>6, Zenon
  <2>4. disk # "absent" \/ booted # 0 =>
          inst.adopted \/ "root" \in fading' \/ \E o \in objs' : o[1] = "root"
    <3>1. "root" \in Slow
      BY DEF Slow
    <3> QED  BY <1>10, <3>1, Zenon DEF IInv, Placed
  <2> QED  BY <1>1, <2>1, <2>2, <2>3, <2>4, Zenon DEF Placed
<1>14. Covered'
  <2>1. \A x : Has(r.calls, x) <=> Head(r.calls) = x \/ Has(Tail(r.calls), x)
    BY <1>3, FirstCall
  <2>2. s.away = inst.away /\ r.seen = s
    BY DEF IInv, Copies, Alike, s
  <2>3. ASSUME NEW o \in objs', ~(s.block = "absent" /\ s.away), Has(r.calls, <<"delete", o[1]>>)
        PROVE  Has(Tail(r.calls), <<"delete", o[1]>>)
    <3>1. o \in objs /\ o # gone
      BY <1>6
    <3>2. o = <<o[1], o[2]>>
      BY <1>3, <3>1 DEF Types
    <3>3. o[2] = IF o[1] \notin {"extension", "mirror"} /\ inst.away THEN "desktop" ELSE "instance"
      BY <3>1 DEF IInv, Placed
    <3>4. Namespace(s) = IF inst.away THEN "desktop" ELSE "instance"
      BY <2>2, <2>3 DEF Namespace
    <3>5. ASSUME Head(r.calls) = <<"delete", o[1]>> PROVE o = gone
      <4>1. Head(r.calls)[2] = o[1]
        BY <3>5
      <4>2. o[2] = IF o[1] \in {"extension", "mirror"} THEN "instance" ELSE Namespace(s)
        BY <3>3, <3>4
      <4> QED  BY <1>8, <3>2, <4>1, <4>2, Zenon
    <3> QED  BY <2>1, <2>3, <3>1, <3>5
  <2>4. ~retains(s) => ~(s.block = "absent" /\ s.away)
    BY DEF retains, desktopRetainsDisk
  <2>5. objs' \subseteq objs
    BY <1>6
  <2>6. Has(Tail(r.calls), <<"unfinalize", "instance">>) => Has(r.calls, <<"unfinalize", "instance">>)
    BY <2>1, Zenon
  <2>7. ASSUME NEW q \in run', Has(q.calls, <<"unfinalize", "instance">>), ~stranded
        PROVE  /\ ~(s.block = "absent" /\ s.away)
               /\ \A o \in objs' : o[1] \in Retained \/ Has(q.calls, <<"delete", o[1]>>)
    BY <1>7, <2>2, <2>3, <2>5, <2>6, <2>7, Zenon DEF IInv, Covered
  <2>8. ASSUME NEW q \in run', Has(q.calls, <<"unfinalize", "instance">>), ~tokenless,
               s.life = "deleting", ~retains(s)
        PROVE  /\ ~s.adopted
               /\ \A o \in objs' : o[1] = "golden" \/ Has(q.calls, <<"delete", o[1]>>)
    BY <1>7, <2>2, <2>3, <2>4, <2>5, <2>6, <2>8, Zenon DEF IInv, Covered
  <2> QED  BY <1>1, <1>7, <2>7, <2>8, Zenon DEF Covered
<1>15. OneToken'
  <2>1. (NoToken => NoToken') /\ (Spent => Spent')
    BY <1>1, <1>6, <1>10, <1>11 DEF NoToken, Spent, Exists
  <2>2. ASSUME ~tokenless
        PROVE  \A x, y \in {tokens', payload', booted', serving'} : x = 0 \/ y = 0 \/ x = y
    BY <1>1, <1>11, <2>2, Zenon DEF IInv, OneToken
  <2>3. ASSUME ~tokenless, tokens' = 0, ~NoToken'
        PROVE  /\ inst.life # "live" /\ cache.life # "live"
               /\ inst.life = "deleting" => ~retains(inst)
               /\ inst.life = "gone" => Spent'
               /\ \A q \in run' : q.seen.life # "live"
    <3>1. CASE tokens = 0
      BY <1>7, <2>1, <2>3, <3>1, Zenon DEF IInv, OneToken, s
    <3>2. CASE tokens # 0
      <4>1. Head(r.calls)[2] = "tokens"
        BY <1>4, <1>5, <2>3, <3>2, Zenon
      <4>2. s.life = "deleting" /\ ~retains(s)
        <5>1. Head(r.calls) \notin BuildCalls(s)
          BY <1>6, <4>1 DEF BuildCalls, Payloads
        <5>2. Head(r.calls) \in CleanupCalls(s)
          BY <1>3, <5>1, FirstCall, Zenon
        <5>3. "tokens" \in Expendable(s)
          BY <1>6, <4>1, <5>2 DEF CleanupCalls
        <5> QED  BY <5>3, Zenon DEF Expendable, Retained
      <4>3. inst.life # "live" /\ cache.life # "live" /\ inst.life \in {"live", "deleting", "gone"}
        BY <1>3, <4>2, Zenon DEF IInv, Copies, Types, Instances, s
      <4>4. inst.life # "gone"
        BY <2>3, <3>2, <4>2, Zenon DEF IInv, OneToken, DeletesOnce, NoToken, Spent, Exists, s
      <4>5. ~retains(inst)
        BY <2>3, <4>2, <4>3, <4>4, Zenon DEF IInv, OneToken, DeletesOnce, s
      <4> QED  BY <1>7, <4>2, <4>3, <4>4, <4>5
    <3> QED  BY <3>1, <3>2
  <2>4. ASSUME ~tokenless
        PROVE  DeletesOnce(cache)' /\ \A q \in run' : DeletesOnce(q.seen)'
    BY <1>1, <1>7, <2>1, <2>4, Zenon DEF IInv, OneToken, DeletesOnce, s
  <2>5. retains(inst)' = retains(inst)
    BY <1>1 DEF retains, desktopRetainsDisk
  <2> QED  BY <1>1, <2>2, <2>3, <2>4, <2>5 DEF OneToken
<1> QED  BY <1>1, <1>6, <1>7, <1>12, <1>13, <1>14, <1>15, Zenon DEF IInv, FinalizerGuardsObjects
-----------------------------------------------------------------------------
(* The theorems *)

LEMMA StutterKeeps == ASSUME IInv, UNCHANGED vars PROVE IInv'
<1> USE DEF vars, desktop, control, history
<1>1. Types' /\ Plans' /\ Finalized' /\ Placed'
  BY Zenon DEF IInv, Types, Plans, Finalized, Placed
<1>2. Copies' /\ Covered'
  <2>1. inst.version <= events'
    BY Zenon DEF IInv, Copies
  <2> QED  BY <2>1, CopiesFollow, Zenon DEF IInv, Covered
<1>3. OneToken'
  BY DEF IInv, OneToken, DeletesOnce, NoToken, Spent, Exists
<1> QED  BY <1>1, <1>2, <1>3 DEF IInv, FinalizerGuardsObjects

LEMMA NextKeeps == IInv /\ [Next]_vars => IInv'
BY Zenon, EditKeeps, DeleteKeeps, CollectKeeps, VanishKeeps, RecreateKeeps, DiscoverKeeps, PopulateKeeps, BootKeeps,
   ServeKeeps, SyncKeeps, StartKeeps, ensureFinalizerKeeps, dropFinalizerKeeps, ApplyKeeps,
   RemoveKeeps, kubeVirtAvailableKeeps, CleanupKeeps, publishKeeps, FailsKeeps, RestartKeeps,
   StutterKeeps DEF Next, Call

(* What the controller's calls left, its copies of the Instance and the    *)
(* tokens say of one another holds at every step, whatever is edited,      *)
(* deleted, created again, unavailable, refused or restarted in between.   *)
THEOREM Invariance == Spec => []IInv
BY InitEstablishes, NextKeeps, PTL DEF Spec

(* dropDesktopFinalizer comes last in every cleanup that could see all of  *)
(* the desktop: without the finalizer only the disks, the golden image and *)
(* the token Secret exist.                                                 *)
THEOREM FinalizerGuards == Spec => []FinalizerGuardsObjects
<1>1. IInv => FinalizerGuardsObjects
  BY Zenon DEF IInv
<1> QED  BY <1>1, Invariance, PTL

(* The token the Gateway presents is the one on the guest's disk, through  *)
(* any sequence of disabling, enabling, deleting and creating again, as    *)
(* long as no deletion took the tokens of a disk that it left.             *)
THEOREM GatewayMatchesGuest == Spec => []GatewayHoldsGuestToken
<1>1. IInv => GatewayHoldsGuestToken
  BY DEF IInv, OneToken, GatewayHoldsGuestToken
<1> QED  BY <1>1, Invariance, PTL

(* deleteDesktopObject and garbage collection never remove a golden image, *)
(* and remove a root disk only when the reconcile saw the Instance being   *)
(* deleted with the policy Delete and a disk of its own.                   *)
THEOREM DisksOutliveDesktops == Spec => DiskOutlivesDesktop
<1> DEFINE Step == \A o \in objs \ objs' :
                     /\ o[1] # "golden"
                     /\ o[1] = "root" =>
                          \E r \in run : r.seen.life = "deleting" /\ r.seen.policy = "Delete"
                                         /\ ~r.seen.adopted
<1>1. ASSUME IInv, Collect PROVE Step
  BY <1>1, Zenon DEF Collect, Owned, Retained
<1>2. ASSUME Apply PROVE Step
  BY <1>2, Zenon DEF Apply
<1>3. ASSUME IInv, Remove PROVE Step
  <2>1. PICK r \in run : /\ Head(r.calls)[1] \in {"delete", "remove"}
                         /\ objs' = objs \ {Names(r.seen, Head(r.calls)[2])}
    BY <1>3, Zenon DEF Remove
  <2>2. \A o \in objs \ objs' : o[1] = Head(r.calls)[2]
    BY <2>1 DEF Names
  <2>3. r.seen \in Instances /\ Planned(r.seen, r.calls)
    BY <1>3, Zenon DEF IInv, Types, Plans
  <2>4. CASE Wanted(r.seen)
    <3>1. Head(r.calls) \in BuildCalls(r.seen)
      BY <2>3, <2>4, FirstCall
    <3>2. Head(r.calls)[2] \in Payloads
      BY <2>1, <3>1 DEF BuildCalls
    <3> QED  BY <2>2, <3>2, Zenon DEF Payloads
  <2>5. CASE ~Wanted(r.seen)
    <3>1. Head(r.calls) \in CleanupCalls(r.seen)
      BY <2>3, <2>5, FirstCall, Zenon
    <3>2. Head(r.calls)[2] \in Expendable(r.seen)
      BY <2>1, <3>1 DEF CleanupCalls
    <3>3. /\ Head(r.calls)[2] # "golden"
          /\ Head(r.calls)[2] = "root" => /\ r.seen.life = "deleting" /\ ~r.seen.adopted
                                          /\ ~retains(r.seen)
      BY <3>2 DEF Expendable, Retained
    <3>4. ~retains(r.seen) => r.seen.policy = "Delete"
      BY DEF retains, desktopRetainsDisk
    <3> QED  BY <2>2, <3>3, <3>4, Zenon
  <2> QED  BY <2>4, <2>5, Zenon
<1>4. ASSUME Next, ~Collect, ~Apply, ~Remove PROVE objs' = objs
  BY <1>4, Zenon DEF Next, Call, desktop, control, Edit, Delete, Vanish, Recreate, Discover, Populate, Boot, Serve,
     Sync, Start, ensureDesktopFinalizer, dropDesktopFinalizer, kubeVirtAvailable, Cleanup,
     publishDesktop, Fails, Restart
<1>5. IInv /\ [Next]_vars => [Step]_vars
  BY <1>1, <1>2, <1>3, <1>4
<1> QED  BY <1>5, Invariance, PTL DEF Spec, DiskOutlivesDesktop
=============================================================================
