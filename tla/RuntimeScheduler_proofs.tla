------------------------ MODULE RuntimeScheduler_proofs ------------------------
(***************************************************************************)
(* Theorems about the slot driver, for every number of slots, generations, *)
(* invocations and calls, with handlers that call the runtime or not.      *)
(*                                                                         *)
(* Types says what every variable holds.  OrderInv is the inductive        *)
(* invariant of the ordered stream of closure calls: the queue holds what  *)
(* was scheduled and not yet taken, and the drainer waits for one drive at *)
(* a time.  RegistryInv is that of the registry of owners: an invocation   *)
(* that is still to begin is named by one call and owns no context, so the *)
(* context it begins with is nobody else's; and no drive on nobody's       *)
(* behalf, nor its continuation, is an owner's, so the plain free at its   *)
(* end takes no owner's context away.  QuietInv, at the end, is that of    *)
(* quiesce().                                                              *)
(***************************************************************************)
EXTENDS RuntimeScheduler, FiniteSetTheorems, SequenceTheorems, WellFoundedInduction, TLAPS

(***************************************************************************)
(* Types.                                                                  *)
(***************************************************************************)
Execs == {"free", "ready", "paused", "parked", "done", "failed"}
Phases == {"none", "loop", "hook", "returned", "unwound"}
Results == {"none", "done", "error", "parked", "paused", "quiesced", "terminated"}
Ops == {"loop", "track", "return", "drain", "wake", "finally", "begin", "rebegin",
        "cancel", "redispatch", "reinvoke", "kick"}
States == Settled \cup {"none", "deferred", "starting", "live"}
Identities == [slot : Slots, gen : Nat]
Items == [op : Ops, slot : Slots, gen : Nat, id : Invocations \cup Results \cup {None}]
Jobs == [by : Drivers, slot : Slots, gen : Nat, result : Results]

ItemTyped(x) ==
  /\ x.op \in {"begin", "rebegin", "cancel"} => x.id \in Invocations
  /\ x.op = "return" => x.id \in Results

ContextTypes ==
  /\ generation \in [Slots -> Nat] /\ exec \in [Slots -> Execs]
  /\ promises \subseteq Identities /\ spawned \in Seq(Identities)
  /\ deferredWakes \in [Slots -> Nat]
DriveTypes ==
  /\ driving \in [Slots -> Nat] /\ phase \in [Slots -> Phases]
  /\ result \in [Slots -> Results] /\ by \in [Slots -> Drivers]
  /\ jobs \subseteq Jobs
StackOfItems(calls) == calls \in Seq(Items) /\ \A x \in ToSet(calls) : ItemTyped(x)
StackTypes == StackOfItems(stack)
InvokeTypes ==
  /\ inv \in [Invocations -> States]
  /\ slotOf \in [Invocations -> Slots \cup {-1}] /\ genOf \in [Invocations -> Nat]
  /\ waiter \in [Slots -> Invocations \cup {None}]
  /\ deferredInvokes \in Seq(Invocations) /\ deferredCancels \in Seq(Invocations)

Types == ContextTypes /\ DriveTypes /\ StackTypes /\ InvokeTypes

(***************************************************************************)
(* An ordered stream of calls.                                             *)
(***************************************************************************)
ClosureDrives == {s \in Slots : by[s][1] = "closure"}
ClosureJobs == {j \in jobs : j.by[1] = "closure"}

\* The drainer that drives waits for one drive, or for its continuation.
OneClosureDrive ==
  /\ drainer # "driving" => ClosureDrives = {} /\ ClosureJobs = {}
  /\ \A s, t \in ClosureDrives : s = t
  /\ \A j, k \in ClosureJobs : j = k
  /\ ClosureDrives = {} \/ ClosureJobs = {}

\* The queue holds what was scheduled and not yet taken, in order.
QueueInOrder ==
  /\ queue \in Seq(Calls) /\ current \in Calls \cup {None}
  /\ drainer \in {"idle", "backpressure", "driving", "next"}
  /\ drainer = "backpressure" <=> current # None
  /\ delivery \in [Calls -> {"none", "queued", "marshaled", "refused"}]
  /\ \A i, j \in 1 .. Len(queue) : i < j => queue[i] < queue[j]
  /\ current # None => /\ delivery[current] = "queued"
                       /\ \A i \in 1 .. Len(queue) : current < queue[i]
  /\ \A i \in 1 .. Len(queue) : delivery[queue[i]] = "queued"
  /\ \A c, d \in Calls : c < d /\ delivery[d] # "none" => delivery[c] # "none"
  /\ ~terminated => \A c \in Calls : delivery[c] = "queued" => c \in ToSet(queue) \cup {current}

OrderInv == QueueInOrder /\ OneClosureDrive /\ InOrderDelivery

(***************************************************************************)
(* The registry of owners.                                                 *)
(***************************************************************************)
Begins(x) == x.op \in {"begin", "rebegin"}

\* The invocations that calls on the stack are still to begin, each in one call.
Named(calls) == {x.id : x \in {y \in ToSet(calls) : Begins(y)}}
DistinctBegins(calls) ==
  \A k, l \in 1 .. Len(calls) :
    Begins(calls[k]) /\ Begins(calls[l]) /\ calls[k].id = calls[l].id => k = l
BeginsOnce ==
  /\ DistinctBegins(stack)
  /\ \A k, l \in 1 .. Len(deferredInvokes) : deferredInvokes[k] = deferredInvokes[l] => k = l
  /\ Named(stack) \cap ToSet(deferredInvokes) = {}

\* Who is still to begin has no context.
NoContext(i) == \A s \in Slots : waiter[s] # i
StillToBegin ==
  /\ \A i \in Named(stack) \cup ToSet(deferredInvokes) :
       inv[i] \in Settled \cup {"starting", "deferred"} /\ NoContext(i)
  /\ \A i \in Invocations : inv[i] = "none" => NoContext(i)

\* A drive on nobody's behalf, or a call's, is not an owner's, nor is its end.
Owned(s, g) == waiter[s] # None /\ genOf[waiter[s]] = g
DrivesNotOwned ==
  /\ \A s \in Slots : by[s][1] \in {"background", "closure"} => ~Owned(s, driving[s])
  /\ \A j \in jobs : j.by[1] \in {"background", "closure"} => ~Owned(j.slot, j.gen)
\* Identities of the past: no context yet to come is named.
NamesOfThePast ==
  /\ \A s \in Slots : driving[s] <= generation[s]
  /\ \A j \in jobs : j.gen <= generation[j.slot]

RegistryInv ==
  /\ BeginsOnce /\ StillToBegin /\ DrivesNotOwned /\ NamesOfThePast /\ OwnerRegistry


(***************************************************************************)
(* Sequences.                                                              *)
(***************************************************************************)
\* What one sequence put before another holds.
LEMMA ConcatElements ==
  ASSUME NEW S, NEW s \in Seq(S), NEW t \in Seq(S)
  PROVE  s \o t \in Seq(S) /\ ToSet(s \o t) = ToSet(s) \cup ToSet(t)
<1>1. /\ s \o t \in Seq(S) /\ Len(s \o t) = Len(s) + Len(t)
      /\ \A i \in 1 .. Len(s) + Len(t) :
           (s \o t)[i] = IF i <= Len(s) THEN s[i] ELSE t[i - Len(s)]
  BY ConcatProperties
<1>2. Len(s) \in Nat /\ Len(t) \in Nat /\ DOMAIN s = 1 .. Len(s) /\ DOMAIN t = 1 .. Len(t)
      /\ DOMAIN (s \o t) = 1 .. Len(s) + Len(t)
  BY <1>1
<1> DEFINE u == s \o t
<1> HIDE DEF u
<1>3. \A x : x \in ToSet(u) <=> \E i \in 1 .. Len(s) + Len(t) : u[i] = x
  BY <1>2 DEF ToSet, u
<1>4. \A x : x \in ToSet(s) <=> \E i \in 1 .. Len(s) : s[i] = x
  BY <1>2 DEF ToSet
<1>5. \A x : x \in ToSet(t) <=> \E i \in 1 .. Len(t) : t[i] = x
  BY <1>2 DEF ToSet
<1>6. \A i \in 1 .. Len(s) : i \in 1 .. Len(s) + Len(t) /\ u[i] = s[i]
  BY <1>1, <1>2 DEF u
<1>7. \A i \in 1 .. Len(t) : Len(s) + i \in 1 .. Len(s) + Len(t) /\ u[Len(s) + i] = t[i]
  BY <1>1, <1>2 DEF u
<1>8. \A i \in 1 .. Len(s) + Len(t) :
        \/ i \in 1 .. Len(s) /\ u[i] = s[i]
        \/ i - Len(s) \in 1 .. Len(t) /\ u[i] = t[i - Len(s)]
  BY <1>1, <1>2 DEF u
<1>9. \A x : x \in ToSet(u) <=> x \in ToSet(s) \/ x \in ToSet(t)
  BY <1>3, <1>4, <1>5, <1>6, <1>7, <1>8
<1> QED
  BY <1>1, <1>9 DEF u

\* What is left of a sequence when its first k elements are cut off.
LEMMA SuffixElements ==
  ASSUME NEW S, NEW s \in Seq(S), NEW k \in Nat
  PROVE  LET t == SubSeq(s, k + 1, Len(s))
         IN /\ t \in Seq(S) /\ ToSet(t) \subseteq ToSet(s)
            /\ Len(t) = IF k <= Len(s) THEN Len(s) - k ELSE 0
            /\ \A i \in 1 .. Len(t) : i + k \in 1 .. Len(s) /\ t[i] = s[i + k]
<1> DEFINE t == SubSeq(s, k + 1, Len(s))
<1>1. Len(s) \in Nat /\ DOMAIN s = 1 .. Len(s) /\ \A i \in 1 .. Len(s) : s[i] \in S
  OBVIOUS
<1>2. /\ t \in Seq(S) /\ Len(t) = IF k + 1 <= Len(s) THEN Len(s) - (k + 1) + 1 ELSE 0
      /\ \A i \in 1 .. Len(s) - (k + 1) + 1 : t[i] = s[k + 1 + i - 1]
  <2>1. k + 1 \in Int /\ Len(s) \in Int /\ \A i \in k + 1 .. Len(s) : s[i] \in S
    BY <1>1
  <2> QED
    BY <2>1, SubSeqProperties
<1> HIDE DEF t
<1> DEFINE n == Len(s)
<1> HIDE DEF n
<1>0. n \in Nat /\ n = Len(s)
  BY <1>1 DEF n
<1>3. Len(t) = IF k <= Len(s) THEN Len(s) - k ELSE 0
  <2>1. CASE k + 1 <= n
    <3>1. k <= n /\ n - (k + 1) + 1 = n - k
      BY <1>0, <2>1
    <3> QED
      BY <1>0, <1>2, <2>1, <3>1
  <2>2. CASE ~(k + 1 <= n)
    <3>1. Len(t) = 0 /\ (k <= n => n - k = 0)
      BY <1>0, <1>2, <2>2
    <3> QED
      BY <1>0, <3>1
  <2> QED
    BY <2>1, <2>2
<1>4. \A i \in 1 .. Len(t) : i + k \in 1 .. Len(s) /\ t[i] = s[i + k]
  <2> TAKE i \in 1 .. Len(t)
  <2>0. n - (k + 1) + 1 = n - k
    BY <1>0
  <2>1. i + k \in 1 .. n /\ i \in 1 .. n - k /\ k + 1 + i - 1 = i + k
    BY <1>0, <1>3
  <2>2. i + k \in 1 .. Len(s) /\ i \in 1 .. Len(s) - (k + 1) + 1
    BY <1>0, <2>0, <2>1
  <2> QED
    BY <1>2, <2>1, <2>2
<1>5. DOMAIN t = 1 .. Len(t)
  BY <1>2
<1>6. ToSet(t) \subseteq ToSet(s)
  BY <1>1, <1>4, <1>5 DEF ToSet
<1> QED
  BY <1>2, <1>3, <1>4, <1>6 DEF t

\* The first element of a sequence and what is left without it.
LEMMA TailElements ==
  ASSUME NEW S, NEW s \in Seq(S), s # <<>>
  PROVE  /\ Tail(s) \in Seq(S) /\ ToSet(Tail(s)) \subseteq ToSet(s)
         /\ Head(s) \in S /\ Head(s) \in ToSet(s) /\ Head(s) = s[1]
         /\ Len(s) \in Nat /\ Len(s) >= 1 /\ Len(Tail(s)) = Len(s) - 1
         /\ \A i \in 1 .. Len(s) - 1 : Tail(s)[i] = s[i + 1]
         /\ ToSet(s) = {Head(s)} \cup ToSet(Tail(s))
<1>1. /\ Head(s) \in S /\ Tail(s) \in Seq(S) /\ Len(Tail(s)) = Len(s) - 1
      /\ \A i \in 1 .. Len(Tail(s)) : Tail(s)[i] = s[i + 1]
      /\ Len(s) \in Nat /\ Len(s) >= 1 /\ Head(s) = s[1]
  BY HeadTailProperties
<1> DEFINE t == Tail(s)
<1> HIDE DEF t
<1>2. DOMAIN s = 1 .. Len(s) /\ DOMAIN t = 1 .. Len(s) - 1
  BY <1>1 DEF t
<1>3. \A x : x \in ToSet(s) <=> \E i \in 1 .. Len(s) : s[i] = x
  BY <1>2 DEF ToSet
<1>4. \A x : x \in ToSet(t) <=> \E i \in 1 .. Len(s) - 1 : t[i] = x
  BY <1>2 DEF ToSet
<1>5. \A i \in 1 .. Len(s) - 1 : i + 1 \in 1 .. Len(s) /\ t[i] = s[i + 1]
  BY <1>1 DEF t
<1>6. \A i \in 1 .. Len(s) : i = 1 \/ (i - 1 \in 1 .. Len(s) - 1 /\ t[i - 1] = s[i])
  BY <1>1 DEF t
<1>7. 1 \in 1 .. Len(s)
  BY <1>1
<1>8. \A x : x \in ToSet(s) <=> x = s[1] \/ x \in ToSet(t)
  BY <1>3, <1>4, <1>5, <1>6, <1>7
<1> QED
  BY <1>1, <1>8 DEF t

\* The elements of the shortest sequences.
LEMMA ShortElements ==
  /\ ToSet(<<>>) = {}
  /\ \A a : ToSet(<<a>>) = {a}
  /\ \A a, b : ToSet(<<a, b>>) = {a, b}
<1>1. \A a, b : DOMAIN <<a, b>> = {1, 2} /\ DOMAIN <<a>> = {1}
  OBVIOUS
<1>2. \A a, b : <<a, b>>[1] = a /\ <<a, b>>[2] = b /\ <<a>>[1] = a
  OBVIOUS
<1>3. ToSet(<<>>) = {}
  BY DEF ToSet
<1>4. \A a : ToSet(<<a>>) = {a}
  BY <1>1, <1>2 DEF ToSet
<1>5. ASSUME NEW a, NEW b PROVE ToSet(<<a, b>>) = {a, b}
  BY <1>1, <1>2 DEF ToSet
<1> QED
  BY <1>3, <1>4, <1>5

\* What a sequence holds once an element is added at its end.
LEMMA AppendElements ==
  ASSUME NEW S, NEW s \in Seq(S), NEW e \in S
  PROVE  /\ Append(s, e) \in Seq(S) /\ ToSet(Append(s, e)) = ToSet(s) \cup {e}
         /\ Len(Append(s, e)) = Len(s) + 1
         /\ \A i \in 1 .. Len(s) : Append(s, e)[i] = s[i]
         /\ Append(s, e)[Len(s) + 1] = e
<1>1. /\ Append(s, e) \in Seq(S) /\ Len(Append(s, e)) = Len(s) + 1 /\ Len(s) \in Nat
      /\ \A i \in 1 .. Len(s) : Append(s, e)[i] = s[i]
      /\ Append(s, e)[Len(s) + 1] = e
  BY AppendProperties
<1> DEFINE t == Append(s, e)
<1> HIDE DEF t
<1>2. DOMAIN s = 1 .. Len(s) /\ DOMAIN t = 1 .. Len(s) + 1
  BY <1>1 DEF t
<1>3. \A x : x \in ToSet(s) <=> \E i \in 1 .. Len(s) : s[i] = x
  BY <1>2 DEF ToSet
<1>4. \A x : x \in ToSet(t) <=> \E i \in 1 .. Len(s) + 1 : t[i] = x
  BY <1>2 DEF ToSet
<1>5. \A i \in 1 .. Len(s) : i \in 1 .. Len(s) + 1 /\ t[i] = s[i]
  BY <1>1 DEF t
<1>6. Len(s) + 1 \in 1 .. Len(s) + 1 /\ t[Len(s) + 1] = e
  BY <1>1 DEF t
<1>7. \A i \in 1 .. Len(s) + 1 : i = Len(s) + 1 \/ i \in 1 .. Len(s)
  BY <1>1
<1>8. \A x : x \in ToSet(t) <=> x \in ToSet(s) \/ x = e
  BY <1>3, <1>4, <1>5, <1>6, <1>7
<1> QED
  BY <1>1, <1>8 DEF t

\* What a sequence holds once its k-th element is taken out.
LEMMA RemoveAtElements ==
  ASSUME NEW S, NEW s \in Seq(S), NEW k \in 1 .. Len(s)
  PROVE  /\ RemoveAt(s, k) \in Seq(S) /\ Len(RemoveAt(s, k)) = Len(s) - 1
         /\ \A i \in 1 .. Len(s) - 1 :
              RemoveAt(s, k)[i] = IF i < k THEN s[i] ELSE s[i + 1]
         /\ ToSet(RemoveAt(s, k)) \subseteq ToSet(s)
<1> DEFINE a == SubSeq(s, 1, k - 1)
           b == SubSeq(s, k + 1, Len(s))
<1>1. Len(s) \in Nat /\ k \in Nat /\ 1 <= k /\ k <= Len(s) /\ DOMAIN s = 1 .. Len(s)
      /\ \A i \in 1 .. Len(s) : s[i] \in S
  OBVIOUS
<1>2. a \in Seq(S) /\ Len(a) = k - 1 /\ \A i \in 1 .. k - 1 : a[i] = s[i]
  <2>1. 1 \in Int /\ k - 1 \in Int /\ \A i \in 1 .. k - 1 : s[i] \in S
    BY <1>1
  <2>2. /\ a \in Seq(S) /\ Len(a) = IF 1 <= k - 1 THEN k - 1 - 1 + 1 ELSE 0
        /\ \A i \in 1 .. k - 1 - 1 + 1 : a[i] = s[1 + i - 1]
    BY <2>1, SubSeqProperties
  <2> HIDE DEF a
  <2>3. Len(a) = k - 1 /\ k - 1 - 1 + 1 = k - 1
    BY <1>1, <2>2
  <2>4. \A i \in 1 .. k - 1 : 1 + i - 1 = i
    BY <1>1
  <2> QED
    BY <2>2, <2>3, <2>4
<1>3. b \in Seq(S) /\ Len(b) = Len(s) - k /\ \A i \in 1 .. Len(b) : b[i] = s[i + k]
  BY <1>1, SuffixElements
<1> HIDE DEF a, b
<1> DEFINE t == a \o b
<1>4. /\ t \in Seq(S) /\ Len(t) = Len(a) + Len(b)
      /\ \A i \in 1 .. Len(a) + Len(b) : t[i] = IF i <= Len(a) THEN a[i] ELSE b[i - Len(a)]
  BY <1>2, <1>3, ConcatProperties
<1> HIDE DEF t
<1>5. Len(t) = Len(s) - 1 /\ Len(a) + Len(b) = Len(s) - 1
  BY <1>1, <1>2, <1>3, <1>4
<1>6. ASSUME NEW i \in 1 .. Len(s) - 1 PROVE t[i] = IF i < k THEN s[i] ELSE s[i + 1]
  <2>1. CASE i < k
    BY <1>1, <1>2, <1>4, <1>5, <2>1
  <2>2. CASE ~(i < k)
    <3>1. i - (k - 1) \in 1 .. Len(b) /\ ~(i <= k - 1) /\ i - (k - 1) + k = i + 1
      BY <1>1, <1>3, <2>2
    <3>2. t[i] = b[i - (k - 1)]
      BY <1>2, <1>4, <1>5, <3>1
    <3>3. b[i - (k - 1)] = s[i - (k - 1) + k]
      BY <1>3, <3>1
    <3> QED
      BY <2>2, <3>1, <3>2, <3>3
  <2> QED
    BY <2>1, <2>2
<1>7. DOMAIN t = 1 .. Len(s) - 1
  BY <1>4, <1>5
<1>8. ToSet(t) \subseteq ToSet(s)
  <2>1. \A i \in 1 .. Len(s) - 1 : i \in 1 .. Len(s) /\ i + 1 \in 1 .. Len(s)
    BY <1>1
  <2> QED
    BY <1>1, <1>6, <1>7, <2>1 DEF ToSet
<1>9. RemoveAt(s, k) = t
  BY DEF RemoveAt, t, a, b
<1> QED
  BY <1>4, <1>5, <1>6, <1>8, <1>9

(***************************************************************************)
(* The context table, the drivers and the stack.                           *)
(***************************************************************************)
\* allocateContext takes a slot, and that slot is free.
LEMMA NextSlotIsFree ==
  ASSUME FreeSlots # {}
  PROVE  NextSlot \in Slots /\ exec[NextSlot] = "free"
<1> DEFINE R == OpToRel(<, Nat)
<1>1. IsWellFoundedOn(R, Nat)
  BY NatLessThanWellFounded
<1>2. \A k, n \in Nat : k < n => <<k, n>> \in R
  BY DEF OpToRel
<1> HIDE DEF R
<1>3. FreeSlots \in SUBSET Nat
  BY DEF FreeSlots, Slots
<1>4. PICK n \in FreeSlots : \A k \in FreeSlots : <<k, n>> \notin R
  BY <1>1, <1>3, WFMin
<1>5. \A k \in FreeSlots : n <= k
  <2> TAKE k \in FreeSlots
  <2>1. n \in Nat /\ k \in Nat /\ ~(k < n)
    BY <1>2, <1>3, <1>4
  <2> QED
    BY <2>1
<1>6. NextSlot \in FreeSlots
  BY <1>4, <1>5 DEF NextSlot, Min
<1> QED
  BY <1>6 DEF FreeSlots

\* The root's slot is one of the heap's.
LEMMA RootIsSlot == Root \in Slots
BY SchedulerAssumption DEF Root, Slots

\* On whose behalf a slot may be driven.
LEMMA WhoDrives ==
  /\ <<"none", None>> \in Drivers /\ <<"run", None>> \in Drivers
  /\ <<"root", None>> \in Drivers /\ <<"background", None>> \in Drivers
  /\ \A i \in Invocations : <<"invoke", i>> \in Drivers
  /\ \A c \in Calls : <<"closure", c>> \in Drivers
  /\ \A d \in Drivers : d[1] = "invoke" => d[2] \in Invocations
  /\ \A d \in Drivers : d[1] = "closure" => d[2] \in Calls /\ d = <<"closure", d[2]>>
BY DEF Drivers

\* A call built by Item has the type of a call, and the fields it was given.
LEMMA ItemsTyped ==
  ASSUME NEW op \in Ops, NEW s \in Slots, NEW g \in Nat,
         NEW id \in Invocations \cup Results \cup {None},
         op \in {"begin", "rebegin", "cancel"} => id \in Invocations,
         op = "return" => id \in Results
  PROVE  /\ Item(op, s, g, id) \in Items /\ ItemTyped(Item(op, s, g, id))
         /\ Item(op, s, g, id).op = op /\ Item(op, s, g, id).slot = s
         /\ Item(op, s, g, id).gen = g /\ Item(op, s, g, id).id = id
BY DEF Item, Items, ItemTyped

\* The stack keeps its type when it is pushed to, popped, or cut.
LEMMA StackPushed ==
  ASSUME NEW calls, NEW rest, StackOfItems(calls), StackOfItems(rest)
  PROVE  StackOfItems(calls \o rest)
BY ConcatElements DEF StackOfItems

\* A returned call leaves a stack of calls, and was itself a call.
LEMMA StackPopped ==
  ASSUME NEW calls, StackOfItems(calls), calls # <<>>
  PROVE  /\ StackOfItems(Tail(calls)) /\ Head(calls) \in Items /\ ItemTyped(Head(calls))
         /\ Head(calls).slot \in Slots /\ Head(calls).gen \in Nat
<1>1. calls \in Seq(Items) /\ \A x \in ToSet(calls) : ItemTyped(x)
  BY DEF StackOfItems
<1>2. /\ Tail(calls) \in Seq(Items) /\ ToSet(Tail(calls)) \subseteq ToSet(calls)
      /\ Head(calls) \in Items /\ Head(calls) \in ToSet(calls)
  BY <1>1, TailElements
<1>3. Head(calls).slot \in Slots /\ Head(calls).gen \in Nat
  BY <1>2 DEF Items
<1> QED
  BY <1>1, <1>2, <1>3 DEF StackOfItems

\* One call is a stack.
LEMMA StackOfOne ==
  ASSUME NEW x \in Items, ItemTyped(x)
  PROVE  StackOfItems(<<x>>)
BY ShortElements DEF StackOfItems

\* Two calls are a stack.
LEMMA StackOfTwo ==
  ASSUME NEW x \in Items, ItemTyped(x), NEW y \in Items, ItemTyped(y)
  PROVE  StackOfItems(<<x, y>>)
BY ShortElements DEF StackOfItems

\* No call is a stack.
LEMMA EmptyStack == StackOfItems(<<>>)
BY ShortElements DEF StackOfItems

\* Where a throw goes: off the whole job, or to the innermost frame.
LEMMA ThrowGoes ==
  ASSUME NEW calls, StackOfItems(calls), Throw(calls)
  PROVE  \/ Frames(calls) = {} /\ stack' = <<>> /\ UNCHANGED <<phase, result>>
         \/ \E k \in 1 .. Len(calls) :
              /\ calls[k].op \in {"loop", "return"} /\ calls[k].slot \in Slots
              /\ \A l \in 1 .. k - 1 : calls[l].op \notin {"loop", "return"}
              /\ stack' = SubSeq(calls, k + 1, Len(calls))
              /\ phase' = [phase EXCEPT ![calls[k].slot] = "returned"]
              /\ result' = [result EXCEPT ![calls[k].slot] = "error"]
<1> DEFINE R == OpToRel(<, Nat)
<1>1. IsWellFoundedOn(R, Nat)
  BY NatLessThanWellFounded
<1>2. \A k, n \in Nat : k < n => <<k, n>> \in R
  BY DEF OpToRel
<1> HIDE DEF R
<1>3. Len(calls) \in Nat /\ DOMAIN calls = 1 .. Len(calls)
      /\ \A k \in 1 .. Len(calls) : calls[k] \in Items
  BY DEF StackOfItems
<1>4. CASE Frames(calls) = {}
  BY <1>4 DEF Throw
<1>5. CASE Frames(calls) # {}
  <2>1. Frames(calls) \in SUBSET Nat
    BY <1>3 DEF Frames
  <2>2. PICK n \in Frames(calls) : \A k \in Frames(calls) : <<k, n>> \notin R
    BY <1>1, <1>5, <2>1, WFMin
  <2>3. \A k \in Frames(calls) : n <= k
    <3> TAKE k \in Frames(calls)
    <3>1. n \in Nat /\ k \in Nat /\ ~(k < n)
      BY <1>2, <2>1, <2>2
    <3> QED
      BY <3>1
  <2> DEFINE k == Min(Frames(calls))
  <2>4. k \in Frames(calls) /\ \A l \in Frames(calls) : k <= l
    BY <2>2, <2>3 DEF Min
  <2>5. /\ stack' = SubSeq(calls, k + 1, Len(calls))
        /\ phase' = [phase EXCEPT ![calls[k].slot] = "returned"]
        /\ result' = [result EXCEPT ![calls[k].slot] = "error"]
    BY <1>5 DEF Throw
  <2> HIDE DEF k
  <2>6. k \in 1 .. Len(calls) /\ calls[k].op \in {"loop", "return"}
    BY <1>3, <2>4 DEF Frames
  <2>7. calls[k].slot \in Slots
    BY <1>3, <2>6 DEF Items
  <2>8. \A l \in 1 .. k - 1 : calls[l].op \notin {"loop", "return"}
    <3> TAKE l \in 1 .. k - 1
    <3>1. l \in 1 .. Len(calls) /\ ~(k <= l)
      BY <1>3, <2>6
    <3> QED
      BY <1>3, <2>4, <3>1 DEF Frames
  <2> QED
    BY <2>5, <2>6, <2>7, <2>8
<1> QED
  BY <1>4, <1>5

\* What cancelContext leaves of the wake queue are wakes.
LEMMA WakesLeft ==
  ASSUME spawned \in Seq(Identities), NEW s
  PROVE  WakesWithout(s) \in Seq(Identities)
<1> DEFINE n == Len(spawned)
           Next1(f, k) == IF k = 0 THEN <<>>
                          ELSE IF spawned[k].slot = s THEN f[k - 1]
                          ELSE Append(f[k - 1], spawned[k])
           Run1(f, j) == f = [k \in 0 .. j |-> Next1(f, k)]
           kept == CHOOSE f : Run1(f, n)
<1>1. WakesWithout(s) = kept[n]
  BY DEF WakesWithout
<1>2. n \in Nat /\ \A k \in 1 .. n : spawned[k] \in Identities
  OBVIOUS
<1> HIDE DEF n
<1> DEFINE R == OpToRel(<, Nat)
<1>3. IsWellFoundedOn(R, Nat)
  BY NatLessThanWellFounded
<1>4. \A k, j \in Nat : k < j => <<k, j>> \in R
  BY DEF OpToRel
<1> HIDE DEF R
<1>5. \A j \in Nat : \E f : Run1(f, j)
  <2> DEFINE T == {j \in Nat : ~ \E f : Run1(f, j)}
  <2> SUFFICES ASSUME T # {} PROVE FALSE
    <3> HIDE DEF Run1
    <3> QED
      OBVIOUS
  <2>1. PICK j \in T : \A k \in T : <<k, j>> \notin R
    <3>1. T \in SUBSET Nat
      <4> HIDE DEF Run1
      <4> QED
        OBVIOUS
    <3> HIDE DEF T
    <3> QED
      BY <1>3, <3>1, WFMin
  <2>2. CASE j = 0
    <3> DEFINE g == [k \in 0 .. 0 |-> <<>>]
    <3>1. Run1(g, 0)
      OBVIOUS
    <3> QED
      BY <2>1, <2>2, <3>1
  <2>3. CASE j # 0
    <3>1. j \in Nat /\ j - 1 \in Nat /\ j - 1 < j
      BY <2>1, <2>3
    <3>2. j - 1 \notin T
      BY <1>4, <2>1, <3>1
    <3>3. PICK f : Run1(f, j - 1)
      BY <3>1, <3>2
    <3> DEFINE g == [k \in 0 .. j |-> IF k < j THEN f[k] ELSE Next1(f, j)]
    <3>4. \A k \in 0 .. j - 1 : f[k] = Next1(f, k)
      BY <3>3
    <3>5. \A k \in 0 .. j : g[k] = Next1(g, k)
      <4> TAKE k \in 0 .. j
      <4>1. CASE k < j
        BY <3>1, <3>4, <4>1
      <4>2. CASE k = j
        BY <3>1, <2>3, <4>2
      <4> QED
        BY <3>1, <4>1, <4>2
    <3>6. Run1(g, j)
      BY <3>5
    <3> QED
      BY <2>1, <3>6
  <2> QED
    BY <2>2, <2>3
<1>6. Run1(kept, n)
  BY <1>2, <1>5
<1> HIDE DEF kept
<1>7. \A k \in 0 .. n : kept[k] = Next1(kept, k)
  BY <1>6
<1>8. \A k \in 0 .. n : kept[k] \in Seq(Identities)
  <2> DEFINE T == {k \in 0 .. n : kept[k] \notin Seq(Identities)}
  <2> SUFFICES ASSUME T # {} PROVE FALSE
    OBVIOUS
  <2>1. PICK k \in T : \A l \in T : <<l, k>> \notin R
    <3>1. T \in SUBSET Nat
      BY <1>2
    <3> HIDE DEF T
    <3> QED
      BY <1>3, <3>1, WFMin
  <2>2. CASE k = 0
    <3>1. kept[0] = <<>>
      BY <1>2, <1>7
    <3>2. kept[k] \notin Seq(Identities)
      BY <2>1
    <3> QED
      BY <2>2, <3>1, <3>2, EmptySeq
  <2>3. CASE k # 0
    <3>1. k \in 0 .. n /\ kept[k] \notin Seq(Identities)
      BY <2>1
    <3>2. k \in Nat /\ k - 1 \in Nat /\ k - 1 \in 0 .. n /\ k - 1 < k /\ k \in 1 .. n
      BY <1>2, <2>3, <3>1
    <3> HIDE DEF T
    <3>3. k - 1 \notin T
      BY <1>4, <2>1, <3>2
    <3>4. kept[k - 1] \in Seq(Identities)
      BY <3>2, <3>3 DEF T
    <3>5. kept[k] = IF spawned[k].slot = s THEN kept[k - 1] ELSE Append(kept[k - 1], spawned[k])
      BY <1>7, <2>3, <3>1
    <3>6. kept[k] \in Seq(Identities)
      BY <1>2, <3>2, <3>4, <3>5
    <3> QED
      BY <3>1, <3>6
  <2> QED
    BY <2>2, <2>3
<1>9. n \in 0 .. n
  BY <1>2
<1> QED
  BY <1>1, <1>8, <1>9

(***************************************************************************)
(* Types: every action keeps them.                                         *)
(***************************************************************************)
\* A loop that returns at once leaves phases, results and the stack typed.
LEMMA LoopReturns ==
  ASSUME Types, stack # <<>>, NEW s \in Slots, NEW r \in Results, LoopReturn(s, r)
  PROVE  /\ phase' \in [Slots -> Phases] /\ result' \in [Slots -> Results]
         /\ StackTypes'
<1>1. StackOfItems(Tail(stack))
  BY StackPopped DEF Types, StackTypes
<1> QED
  BY <1>1 DEF LoopReturn, Types, DriveTypes, StackTypes, Phases, StackOfItems

\* So does a loop that returns after further calls.
LEMMA ReturnsAfter ==
  ASSUME Types, stack # <<>>, NEW s \in Slots, NEW r \in Results,
         NEW calls, StackOfItems(calls), ReturnAfter(calls, s, r)
  PROVE  /\ phase' \in [Slots -> Phases] /\ result' \in [Slots -> Results]
         /\ StackTypes'
<1>1. StackOfItems(Tail(stack)) /\ Top.gen \in Nat
  BY StackPopped DEF Types, StackTypes, Top
<1>2. Item("return", s, Top.gen, r) \in Items /\ ItemTyped(Item("return", s, Top.gen, r))
  BY <1>1, ItemsTyped DEF Ops
<1>3. StackOfItems(<<Item("return", s, Top.gen, r)>>)
  BY <1>2, StackOfOne
<1>4. StackOfItems(calls \o <<Item("return", s, Top.gen, r)>> \o Tail(stack))
  BY <1>1, <1>3, StackPushed
<1> QED
  BY <1>4 DEF ReturnAfter, Types, DriveTypes, StackTypes, StackOfItems

\* A throw leaves phases, results and the stack typed.
LEMMA ThrowTypes ==
  ASSUME Types, NEW calls, StackOfItems(calls), Throw(calls)
  PROVE  /\ phase' \in [Slots -> Phases] /\ result' \in [Slots -> Results]
         /\ StackTypes'
<1>1. CASE stack' = <<>> /\ UNCHANGED <<phase, result>>
  BY <1>1, EmptyStack DEF Types, DriveTypes, StackTypes, StackOfItems
<1>2. ASSUME NEW k \in 1 .. Len(calls), calls[k].slot \in Slots,
             stack' = SubSeq(calls, k + 1, Len(calls)),
             phase' = [phase EXCEPT ![calls[k].slot] = "returned"],
             result' = [result EXCEPT ![calls[k].slot] = "error"]
      PROVE  /\ phase' \in [Slots -> Phases] /\ result' \in [Slots -> Results]
             /\ StackTypes'
  <2>1. k \in Nat /\ calls \in Seq(Items) /\ \A x \in ToSet(calls) : ItemTyped(x)
    BY DEF StackOfItems
  <2>2. stack' \in Seq(Items) /\ ToSet(stack') \subseteq ToSet(calls)
    BY <1>2, <2>1, SuffixElements
  <2> QED
    BY <1>2, <2>1, <2>2 DEF Types, DriveTypes, StackTypes, StackOfItems, Phases, Results
<1> QED
  BY <1>1, <1>2, ThrowGoes

\* _driveSlot leaves the drives, the stack and the held wakes typed.
LEMMA DriveTyped ==
  ASSUME Types, NEW s \in Slots, NEW g \in Nat, NEW who \in Drivers,
         NEW rest, StackOfItems(rest), DriveSlot(s, g, who, rest)
  PROVE  DriveTypes' /\ StackTypes' /\ deferredWakes' \in [Slots -> Nat]
<1>1. \A r \in Results : Continuation(who, s, g, r) \subseteq Jobs
  BY DEF Continuation, Jobs
<1>2. CASE quiesced
  <2>1. /\ jobs' = jobs \cup Continuation(who, s, g, "quiesced")
        /\ deferredWakes' = [deferredWakes EXCEPT ![s] = g] /\ stack' = rest
        /\ UNCHANGED <<driving, phase, result, by>>
    BY <1>2 DEF DriveSlot
  <2>2. jobs' \subseteq Jobs
    BY <1>1, <2>1 DEF Types, DriveTypes, Results
  <2> QED
    BY <2>1, <2>2 DEF Types, DriveTypes, StackTypes, ContextTypes, StackOfItems
<1>3. CASE ~quiesced
  <2> DEFINE loop == Item("loop", s, g, None)
             track == Item("track", s, g, None)
  <2>1. /\ driving' = [driving EXCEPT ![s] = g] /\ phase' = [phase EXCEPT ![s] = "loop"]
        /\ by' = [by EXCEPT ![s] = who] /\ stack' = <<loop, track>> \o rest
        /\ UNCHANGED <<result, jobs, deferredWakes>>
    BY <1>3 DEF DriveSlot
  <2>2. loop \in Items /\ track \in Items /\ ItemTyped(loop) /\ ItemTyped(track)
    BY ItemsTyped DEF Ops
  <2>3. StackOfItems(stack')
    BY <2>1, <2>2, StackOfTwo, StackPushed
  <2> QED
    BY <2>1, <2>3 DEF Types, DriveTypes, StackTypes, ContextTypes, Phases, StackOfItems
<1> QED
  BY <1>2, <1>3

\* A step in which nothing changes keeps the types.
LEMMA TypesUnchanged == Types /\ UNCHANGED vars => Types'
BY DEF Types, ContextTypes, DriveTypes, StackTypes, StackOfItems, InvokeTypes, vars, context,
       wakes, drives, invokes, ItemTyped

\* So does each way a run of a context ends or goes on.
LEMMA TypesRun ==
  ASSUME Types, NEW s \in Slots,
         RunEnds(s) \/ RunParks(s) \/ RunPauses(s) \/ RunSpawns(s) \/ RunCompletes(s)
  PROVE  Types'
<1>0. stack # <<>> /\ Top \in Items /\ StackOfItems(Tail(stack)) /\ StackOfItems(stack)
  BY StackPopped DEF Types, StackTypes, RunEnds, RunParks, RunPauses, RunSpawns, RunCompletes,
                     Run, Calling, Top
<1>1. Drain \in Items /\ ItemTyped(Drain) /\ StackOfItems(<<Drain>>)
  <2>1. Drain \in Items /\ ItemTyped(Drain)
    BY ItemsTyped, RootIsSlot DEF Drain, Ops
  <2> QED
    BY <2>1, StackOfOne
<1>2. \A t \in Slots, g \in Nat : Wake(t, g) \in Items /\ ItemTyped(Wake(t, g))
  BY ItemsTyped DEF Wake, Ops
<1>3. CASE RunEnds(s)
  <2>1. PICK r \in {"done", "error"} : ReturnAfter(<<Drain>>, s, r)
    BY <1>3 DEF RunEnds
  <2>2. /\ phase' \in [Slots -> Phases] /\ result' \in [Slots -> Results] /\ StackTypes'
    BY <1>0, <1>1, <2>1, ReturnsAfter DEF Results
  <2>3. exec' \in [Slots -> Execs]
    BY <1>3 DEF RunEnds, Types, ContextTypes, Execs
  <2> QED
    BY <1>3, <2>2, <2>3 DEF RunEnds, Types, ContextTypes, DriveTypes, InvokeTypes, wakes, invokes
<1>4. CASE RunParks(s)
  <2>1. /\ phase' \in [Slots -> Phases] /\ result' \in [Slots -> Results] /\ StackTypes'
    BY <1>0, <1>4, LoopReturns DEF RunParks, Results
  <2>2. exec' \in [Slots -> Execs] /\ promises' \subseteq Identities
    BY <1>4 DEF RunParks, Types, ContextTypes, Execs, Identities, Identity
  <2> QED
    BY <1>4, <2>1, <2>2 DEF RunParks, Types, ContextTypes, DriveTypes, InvokeTypes, invokes
<1>5. CASE RunPauses(s)
  <2>1. /\ phase' \in [Slots -> Phases] /\ result' \in [Slots -> Results] /\ StackTypes'
    <3>1. CASE UNCHANGED <<stack, phase, result>>
      BY <3>1 DEF Types, DriveTypes, StackTypes, StackOfItems
    <3>2. CASE LoopReturn(s, "paused")
      BY <1>0, <3>2, LoopReturns DEF Results
    <3>3. CASE /\ phase' = [phase EXCEPT ![s] = "hook"]
               /\ stack' = Tail(stack) /\ UNCHANGED result
      BY <1>0, <3>3 DEF Types, DriveTypes, StackTypes, StackOfItems, Phases
    <3> QED
      BY <1>5, <3>1, <3>2, <3>3 DEF RunPauses
  <2>2. exec' \in [Slots -> Execs]
    BY <1>5 DEF RunPauses, Types, ContextTypes, Execs
  <2> QED
    BY <1>5, <2>1, <2>2 DEF RunPauses, Types, ContextTypes, DriveTypes, InvokeTypes, wakes, invokes
<1>6. CASE RunSpawns(s)
  <2>1. NextSlot \in Slots /\ NextGeneration \in Nat
    BY <1>6, NextSlotIsFree DEF RunSpawns, CanAllocate, NextGeneration, Types, ContextTypes
  <2>2. StackOfItems(<<Wake(NextSlot, NextGeneration)>> \o stack)
    BY <1>0, <1>2, <2>1, StackOfOne, StackPushed
  <2>3. generation' \in [Slots -> Nat] /\ exec' \in [Slots -> Execs]
    BY <1>6, <2>1 DEF RunSpawns, Types, ContextTypes, Execs
  <2> QED
    BY <1>6, <2>2, <2>3 DEF RunSpawns, Types, ContextTypes, DriveTypes, StackTypes, InvokeTypes,
                            wakes, drives, invokes, StackOfItems
<1>7. CASE RunCompletes(s)
  <2>1. PICK id \in promises :
          /\ exec' = [exec EXCEPT ![s] = "done", ![id.slot] = "ready"]
          /\ promises' = promises \ {id}
          /\ ReturnAfter(<<Wake(id.slot, id.gen), Drain>>, s, "done")
    BY <1>7 DEF RunCompletes
  <2>2. id.slot \in Slots /\ id.gen \in Nat
    BY DEF Types, ContextTypes, Identities
  <2>3. StackOfItems(<<Wake(id.slot, id.gen), Drain>>)
    BY <1>1, <1>2, <2>2, StackOfTwo
  <2>4. /\ phase' \in [Slots -> Phases] /\ result' \in [Slots -> Results] /\ StackTypes'
    BY <1>0, <2>1, <2>3, ReturnsAfter DEF Results
  <2>5. exec' \in [Slots -> Execs]
    BY <2>1, <2>2 DEF Types, ContextTypes, Execs
  <2> QED
    BY <1>7, <2>1, <2>4, <2>5 DEF RunCompletes, Types, ContextTypes, DriveTypes, InvokeTypes, invokes
<1> QED
  BY <1>3, <1>4, <1>5, <1>6, <1>7

\* So does a loop that returns without a run.
LEMMA TypesReturn ==
  ASSUME Types, NEW s \in Slots, RunReturns(s) \/ RunStrays(s) \/ LoopTerminated(s)
  PROVE  Types'
<1>1. stack # <<>> /\ \E r \in Results : LoopReturn(s, r)
  <2>1. CASE RunReturns(s)
    <3>1. stack # <<>> /\ Top.op = "return" /\ LoopReturn(s, Top.id)
      BY <2>1 DEF RunReturns, Calling
    <3>2. ItemTyped(Top)
      BY <3>1, StackPopped DEF Types, StackTypes, Top
    <3> QED
      BY <3>1, <3>2 DEF ItemTyped
  <2>2. CASE RunStrays(s)
    BY <2>2 DEF RunStrays, Calling, Results
  <2>3. CASE LoopTerminated(s)
    BY <2>3 DEF LoopTerminated, Calling, Results
  <2> QED
    BY <2>1, <2>2, <2>3
<1>2. /\ phase' \in [Slots -> Phases] /\ result' \in [Slots -> Results] /\ StackTypes'
  BY <1>1, LoopReturns
<1> QED
  BY <1>2 DEF RunReturns, RunStrays, LoopTerminated, Types, ContextTypes, DriveTypes, InvokeTypes,
              context, wakes, invokes

\* So do a drive's continuations and the fuel hook's.
LEMMA TypesDrive ==
  ASSUME Types, NEW s \in Slots, DriveThen(s) \/ DriveFinally(s) \/ HookResolves(s)
  PROVE  Types'
<1>1. CASE DriveThen(s)
  BY <1>1 DEF DriveThen, Types, ContextTypes, DriveTypes, StackTypes, StackOfItems, InvokeTypes,
              context, wakes, invokes, Phases
<1>2. CASE DriveFinally(s)
  <2> DEFINE held == deferredWakes[s] = driving[s]
             woken == IF held /\ result[s] \notin Terminal THEN <<Wake(s, driving[s])>> ELSE <<>>
             last == Item("finally", s, driving[s], None)
  <2>1. /\ driving' = [driving EXCEPT ![s] = 0] /\ phase' = [phase EXCEPT ![s] = "none"]
        /\ result' = [result EXCEPT ![s] = "none"]
        /\ by' = [by EXCEPT ![s] = <<"none", None>>]
        /\ jobs' = jobs \cup Continuation(by[s], s, driving[s], result[s])
        /\ deferredWakes' = IF held THEN [deferredWakes EXCEPT ![s] = 0] ELSE deferredWakes
        /\ stack' = woken \o <<last>>
        /\ UNCHANGED <<context, wakes, invokes>>
    BY <1>2 DEF DriveFinally
  <2> HIDE DEF held
  <2>2. driving[s] \in Nat /\ by[s] \in Drivers /\ result[s] \in Results
    BY DEF Types, DriveTypes
  <2>3. StackOfItems(woken) /\ StackOfItems(<<last>>)
    <3>1. /\ Wake(s, driving[s]) \in Items /\ ItemTyped(Wake(s, driving[s]))
          /\ last \in Items /\ ItemTyped(last)
      BY <2>2, ItemsTyped DEF Wake, Ops
    <3> QED
      BY <3>1, StackOfOne, EmptyStack
  <2>4. StackOfItems(stack')
    BY <2>1, <2>3, StackPushed
  <2>5. jobs' \subseteq Jobs
    BY <2>1, <2>2 DEF Continuation, Jobs, Types, DriveTypes
  <2>6. deferredWakes' \in [Slots -> Nat]
    BY <2>1 DEF Types, ContextTypes
  <2>7. DriveTypes'
    BY <2>1, <2>5, WhoDrives DEF Types, DriveTypes, Phases, Results
  <2> QED
    BY <2>1, <2>4, <2>6, <2>7 DEF Types, ContextTypes, StackTypes, StackOfItems, InvokeTypes,
                                  context, wakes, invokes
<1>3. CASE HookResolves(s)
  <2>1. Item("loop", s, driving[s], None) \in Items /\ ItemTyped(Item("loop", s, driving[s], None))
    BY ItemsTyped DEF Ops, Types, DriveTypes
  <2>2. StackTypes'
    <3>1. CASE stack' = <<Item("loop", s, driving[s], None)>>
      BY <2>1, <3>1, StackOfOne DEF StackTypes, StackOfItems
    <3>2. CASE UNCHANGED stack
      BY <3>2 DEF Types, StackTypes, StackOfItems
    <3> QED
      BY <1>3, <3>1, <3>2 DEF HookResolves
  <2>3. phase' \in [Slots -> Phases] /\ result' \in [Slots -> Results]
    BY <1>3 DEF HookResolves, Types, DriveTypes, Phases, Results
  <2> QED
    BY <1>3, <2>2, <2>3 DEF HookResolves, Types, ContextTypes, DriveTypes, InvokeTypes, context,
                            wakes, invokes
<1> QED
  BY <1>1, <1>2, <1>3

\* A tuple of calls is a stack.
LEMMA StackMapped ==
  ASSUME NEW n \in Nat, NEW calls \in [1 .. n -> Items], \A k \in 1 .. n : ItemTyped(calls[k])
  PROVE  StackOfItems(calls)
<1>1. calls \in Seq(Items) /\ DOMAIN calls = 1 .. n
  BY SeqDef
<1> QED
  BY <1>1 DEF StackOfItems, ToSet

\* The drives' counts, the dispatch of wakes and a settled promise keep the types.
LEMMA TypesWake ==
  ASSUME Types, TrackDrive \/ FinallyRest \/ DrainSpawned \/ DispatchWoken \/ Settle
  PROVE  Types'
<1>1. CASE TrackDrive
  <2>1. StackOfItems(Tail(stack))
    BY <1>1, StackPopped DEF TrackDrive, Calling, Types, StackTypes
  <2> QED
    BY <1>1, <2>1 DEF TrackDrive, Types, ContextTypes, DriveTypes, StackTypes, StackOfItems,
                      InvokeTypes, context, wakes, invokes
<1>2. CASE FinallyRest
  <2>1. StackOfItems(Tail(stack))
    BY <1>2, StackPopped DEF FinallyRest, Calling, Types, StackTypes
  <2> QED
    BY <1>2, <2>1 DEF FinallyRest, Types, ContextTypes, DriveTypes, StackTypes, StackOfItems,
                      InvokeTypes, context, wakes, invokes
<1>3. CASE DrainSpawned
  <2>1. StackOfItems(Tail(stack))
    BY <1>3, StackPopped DEF DrainSpawned, Calling, Types, StackTypes
  <2> DEFINE woken == [k \in DOMAIN spawned |-> Wake(spawned[k].slot, spawned[k].gen)]
  <2>2. StackOfItems(woken)
    <3>1. Len(spawned) \in Nat /\ DOMAIN spawned = 1 .. Len(spawned)
          /\ \A k \in 1 .. Len(spawned) : spawned[k] \in Identities
      BY DEF Types, ContextTypes
    <3>2. \A k \in 1 .. Len(spawned) : spawned[k].slot \in Slots /\ spawned[k].gen \in Nat
      BY <3>1 DEF Identities
    <3>3. \A k \in 1 .. Len(spawned) :
            /\ Wake(spawned[k].slot, spawned[k].gen) \in Items
            /\ ItemTyped(Wake(spawned[k].slot, spawned[k].gen))
      BY <3>2, ItemsTyped DEF Wake, Ops
    <3>4. woken \in [1 .. Len(spawned) -> Items] /\ \A k \in 1 .. Len(spawned) : ItemTyped(woken[k])
      BY <3>1, <3>3
    <3> HIDE DEF woken
    <3> QED
      BY <3>1, <3>4, StackMapped
  <2>3. stack' = Tail(stack) \/ stack' = woken \o Tail(stack)
    BY <1>3 DEF DrainSpawned
  <2> HIDE DEF woken
  <2>4. StackOfItems(stack')
    BY <2>1, <2>2, <2>3, StackPushed
  <2>5. spawned' \in Seq(Identities)
    BY <1>3, EmptySeq DEF DrainSpawned, Types, ContextTypes
  <2> QED
    BY <1>3, <2>4, <2>5 DEF DrainSpawned, Types, ContextTypes, DriveTypes, StackTypes,
                            StackOfItems, InvokeTypes, context, drives, invokes
<1>4. CASE DispatchWoken
  <2>1. stack # <<>> /\ StackOfItems(Tail(stack)) /\ Top.slot \in Slots /\ Top.gen \in Nat
    BY <1>4, StackPopped DEF DispatchWoken, Calling, Types, StackTypes, Top
  <2> DEFINE s == Top.slot
             g == Top.gen
  <2>2. UNCHANGED <<context, wakes, invokes>>
    BY <1>4 DEF DispatchWoken
  <2>3. DriveTypes' /\ StackTypes' /\ deferredWakes' \in [Slots -> Nat]
    <3>1. CASE stack' = Tail(stack) /\ UNCHANGED <<drives, deferredWakes>>
      BY <2>1, <3>1 DEF Types, DriveTypes, StackTypes, StackOfItems, ContextTypes, drives
    <3>2. CASE deferredWakes' = [deferredWakes EXCEPT ![s] = g] /\ stack' = Tail(stack)
               /\ UNCHANGED drives
      BY <2>1, <3>2 DEF Types, DriveTypes, StackTypes, StackOfItems, ContextTypes, drives
    <3>3. CASE DriveSlot(s, g, WakeOwner(s, g), Tail(stack))
      <4>1. WakeOwner(s, g) \in Drivers
        BY <2>1, WhoDrives DEF WakeOwner, Types, InvokeTypes
      <4> HIDE DEF s, g
      <4> QED
        BY <2>1, <3>3, <4>1, DriveTyped DEF s, g
    <3>4. CASE Throw(Tail(stack)) /\ UNCHANGED <<driving, by, jobs, deferredWakes>>
      BY <2>1, <3>4, ThrowTypes DEF Types, DriveTypes, ContextTypes
    <3> QED
      BY <1>4, <3>1, <3>2, <3>3, <3>4 DEF DispatchWoken
  <2> QED
    BY <2>2, <2>3 DEF Types, ContextTypes, InvokeTypes, context, wakes, invokes
<1>5. CASE Settle
  <2>1. PICK id \in promises :
          /\ promises' = promises \ {id}
          /\ IF Live(id.slot, id.gen) /\ exec[id.slot] = "parked"
               THEN /\ exec' = [exec EXCEPT ![id.slot] = "ready"]
                    /\ spawned' = IF Contains(spawned, id) THEN spawned ELSE Append(spawned, id)
                    /\ stack' = <<Drain>>
               ELSE UNCHANGED <<exec, spawned, stack>>
    BY <1>5 DEF Settle
  <2>2. StackOfItems(<<Drain>>)
    <3>1. Drain \in Items /\ ItemTyped(Drain)
      BY ItemsTyped, RootIsSlot DEF Drain, Ops
    <3> QED
      BY <3>1, StackOfOne
  <2>3. StackTypes'
    BY <2>1, <2>2 DEF Types, StackTypes, StackOfItems
  <2>4. id \in Identities /\ Append(spawned, id) \in Seq(Identities)
    BY AppendElements DEF Types, ContextTypes
  <2>5. exec' \in [Slots -> Execs] /\ promises' \subseteq Identities /\ spawned' \in Seq(Identities)
    BY <2>1, <2>4 DEF Types, ContextTypes, Execs
  <2> QED
    BY <1>5, <2>3, <2>5 DEF Settle, Types, ContextTypes, DriveTypes, InvokeTypes, drives, invokes
<1> QED
  BY <1>1, <1>2, <1>3, <1>4, <1>5

\* An owner's promise goes from one of its states to another.
LEMMA OutcomeTyped ==
  ASSUME Types, NEW i, NEW r \in States
  PROVE  Outcome(i, r) \in [Invocations -> States]
BY DEF Outcome, Types, InvokeTypes

\* cancelContext keeps the types of what it assigns.
LEMMA CancelTyped ==
  ASSUME Types, NEW i \in Invocations, OwnsSlot(i), CancelContext(i)
  PROVE  /\ exec' \in [Slots -> Execs] /\ spawned' \in Seq(Identities)
         /\ deferredWakes' \in [Slots -> Nat]
         /\ waiter' \in [Slots -> Invocations \cup {None}] /\ inv' \in [Invocations -> States]
<1>1. slotOf[i] \in Slots
  BY DEF Types, InvokeTypes, OwnsSlot
<1>2. spawned' \in Seq(Identities)
  BY WakesLeft DEF CancelContext, Types, ContextTypes
<1>3. inv' \in [Invocations -> States]
  BY OutcomeTyped DEF CancelContext, States, Settled
<1> QED
  BY <1>1, <1>2, <1>3 DEF CancelContext, Types, ContextTypes, InvokeTypes, Execs

\* An invocation, and the signal that aborts one, keep the types.
LEMMA TypesInvoke ==
  ASSUME Types, NEW i \in Invocations, Invoke(i) \/ Abort(i)
  PROVE  Types'
<1>1. CASE Invoke(i)
  <2>1. inv' \in [Invocations -> States]
    BY <1>1, OutcomeTyped DEF Invoke, States, Settled
  <2>2. deferredInvokes' \in Seq(Invocations)
    <3>1. deferredInvokes' = deferredInvokes \/ deferredInvokes' = Append(deferredInvokes, i)
      BY <1>1 DEF Invoke
    <3>2. deferredInvokes \in Seq(Invocations)
      BY DEF Types, InvokeTypes
    <3> QED
      BY <3>1, <3>2, AppendElements
  <2>3. StackOfItems(stack')
    <3>1. StackOfItems(<<Item("begin", Root, 0, i)>>)
      BY ItemsTyped, RootIsSlot, StackOfOne DEF Ops
    <3>2. stack' = stack \/ stack' = <<Item("begin", Root, 0, i)>> \o stack
      BY <1>1 DEF Invoke
    <3> QED
      BY <3>1, <3>2, StackPushed DEF Types, StackTypes
  <2> QED
    BY <1>1, <2>1, <2>2, <2>3 DEF Invoke, Types, ContextTypes, DriveTypes, StackTypes,
         StackOfItems, InvokeTypes, context, wakes, drives
<1>2. CASE Abort(i)
  <2>1. /\ exec' \in [Slots -> Execs] /\ spawned' \in Seq(Identities)
        /\ deferredWakes' \in [Slots -> Nat]
        /\ waiter' \in [Slots -> Invocations \cup {None}] /\ inv' \in [Invocations -> States]
        /\ deferredInvokes' \in Seq(Invocations) /\ deferredCancels' \in Seq(Invocations)
    <3>1. CASE /\ deferredInvokes' = deferredInvokes
                  \/ \E k \in DOMAIN deferredInvokes : deferredInvokes' = RemoveAt(deferredInvokes, k)
               /\ inv' = Outcome(i, "aborted")
               /\ UNCHANGED <<exec, spawned, deferredWakes, waiter, deferredCancels>>
      <4>1. DOMAIN deferredInvokes = 1 .. Len(deferredInvokes)
        BY DEF Types, InvokeTypes
      <4>2. deferredInvokes \in Seq(Invocations)
        BY DEF Types, InvokeTypes
      <4>3. \A k \in DOMAIN deferredInvokes : RemoveAt(deferredInvokes, k) \in Seq(Invocations)
        <5> TAKE k \in DOMAIN deferredInvokes
        <5>1. k \in 1 .. Len(deferredInvokes)
          BY <4>1
        <5> QED
          BY <4>2, <5>1, RemoveAtElements
      <4>4. deferredInvokes' \in Seq(Invocations)
        BY <3>1, <4>2, <4>3
      <4> QED
        BY <3>1, <4>4, OutcomeTyped DEF Types, ContextTypes, InvokeTypes, States, Settled
    <3>2. CASE /\ deferredCancels' = Append(deferredCancels, i)
               /\ UNCHANGED <<exec, spawned, deferredWakes, waiter, inv, deferredInvokes>>
      BY <3>2, AppendElements DEF Types, ContextTypes, InvokeTypes
    <3>3. CASE /\ OwnsSlot(i) /\ CancelContext(i)
               /\ UNCHANGED <<deferredInvokes, deferredCancels>>
      BY <3>3, CancelTyped DEF Types, InvokeTypes
    <3> QED
      BY <1>2, <3>1, <3>2, <3>3 DEF Abort
  <2> QED
    BY <1>2, <2>1 DEF Abort, Types, ContextTypes, DriveTypes, StackTypes, StackOfItems,
         InvokeTypes, drives
<1> QED
  BY <1>1, <1>2

\* The start of an invocation keeps the types, driven, refused or thrown.
LEMMA TypesBegin ==
  ASSUME Types, BeginInvoke
  PROVE  Types'
<1> DEFINE i == Top.id
<1>1. /\ stack # <<>> /\ StackOfItems(Tail(stack)) /\ i \in Invocations
      /\ UNCHANGED <<wakes, deferredInvokes, deferredCancels>>
  BY StackPopped DEF BeginInvoke, Types, StackTypes, Top, ItemTyped
<1> HIDE DEF i
<1>2. CASE BeginInvokeFails(i)
  <2>1. inv' \in [Invocations -> States]
    BY <1>2, OutcomeTyped DEF BeginInvokeFails, States, Settled
  <2>2. generation' \in [Slots -> Nat]
    BY <1>2, NextSlotIsFree DEF BeginInvokeFails, CanAllocate, Types, ContextTypes
  <2> QED
    BY <1>1, <1>2, <2>1, <2>2 DEF BeginInvokeFails, Types, ContextTypes, DriveTypes, StackTypes,
         StackOfItems, InvokeTypes, wakes, drives
<1>3. CASE BeginInvokeDrives(i)
  <2> DEFINE s == NextSlot
             g == NextGeneration
  <2>1. s \in Slots /\ g \in Nat
    BY <1>3, NextSlotIsFree DEF BeginInvokeDrives, CanAllocate, NextGeneration, Types, ContextTypes
  <2>2. /\ Allocate("ready")
        /\ slotOf' = [slotOf EXCEPT ![i] = s] /\ genOf' = [genOf EXCEPT ![i] = g]
        /\ waiter' = [waiter EXCEPT ![s] = i]
    BY <1>3 DEF BeginInvokeDrives
  <2>3. DriveTypes' /\ StackTypes' /\ deferredWakes' \in [Slots -> Nat]
        /\ inv' \in [Invocations -> States]
    <3>1. CASE DriveSlot(s, g, <<"invoke", i>>, Tail(stack)) /\ inv' = Outcome(i, "live")
      <4> HIDE DEF s, g
      <4> QED
        BY <1>1, <2>1, <3>1, DriveTyped, WhoDrives, OutcomeTyped DEF States
    <3>2. CASE /\ inv' = Outcome(i, "refused") /\ stack' = Tail(stack)
               /\ UNCHANGED <<driving, phase, result, by, jobs, deferredWakes>>
      BY <1>1, <3>2, OutcomeTyped DEF Types, DriveTypes, StackTypes, StackOfItems, ContextTypes,
           States, Settled
    <3>3. CASE /\ inv' = Outcome(i, "live") /\ Throw(Tail(stack))
               /\ UNCHANGED <<driving, by, jobs, deferredWakes>>
      BY <1>1, <3>3, OutcomeTyped, ThrowTypes DEF Types, DriveTypes, ContextTypes, States
    <3> QED
      BY <1>3, <3>1, <3>2, <3>3 DEF BeginInvokeDrives
  <2>4. generation' \in [Slots -> Nat] /\ exec' \in [Slots -> Execs]
    BY <2>1, <2>2 DEF Allocate, Types, ContextTypes, Execs
  <2>5. /\ slotOf' \in [Invocations -> Slots \cup {-1}] /\ genOf' \in [Invocations -> Nat]
        /\ waiter' \in [Slots -> Invocations \cup {None}]
    BY <1>1, <2>1, <2>2 DEF Types, InvokeTypes
  <2> QED
    BY <1>1, <2>3, <2>4, <2>5 DEF Types, ContextTypes, InvokeTypes, wakes
<1> QED
  BY <1>2, <1>3 DEF BeginInvoke, i

\* The heap has finitely many slots.
LEMMA SlotsFinite == IsFiniteSet(Slots)
<1>1. 0 \in Int /\ NumSlots - 1 \in Int
  BY SchedulerAssumption
<1> QED
  BY <1>1, FS_Interval DEF Slots

\* The calls resume() and the drainer make of their own are stacks.
LEMMA Called ==
  /\ \A op \in {"redispatch", "reinvoke", "kick"} :
       StackOfItems(<<Item(op, Root, 0, None)>>)
  /\ StackOfItems(<<Drain, Item("reinvoke", Root, 0, None)>>)
<1>1. \A op \in {"redispatch", "reinvoke", "kick", "drain"} :
        Item(op, Root, 0, None) \in Items /\ ItemTyped(Item(op, Root, 0, None))
  BY ItemsTyped, RootIsSlot DEF Ops
<1> QED
  BY <1>1, StackOfOne, StackOfTwo DEF Drain

\* The calls made for a sequence of invocations.
LEMMA CallsFor ==
  ASSUME NEW list \in Seq(Invocations), NEW op \in {"cancel", "rebegin"}
  PROVE  StackOfItems([k \in DOMAIN list |-> Item(op, Root, 0, list[k])])
<1> DEFINE calls == [k \in DOMAIN list |-> Item(op, Root, 0, list[k])]
<1>1. Len(list) \in Nat /\ DOMAIN list = 1 .. Len(list)
      /\ \A k \in 1 .. Len(list) : list[k] \in Invocations
  OBVIOUS
<1>2. \A k \in 1 .. Len(list) :
        Item(op, Root, 0, list[k]) \in Items /\ ItemTyped(Item(op, Root, 0, list[k]))
  BY <1>1, ItemsTyped, RootIsSlot DEF Ops
<1>3. calls \in [1 .. Len(list) -> Items] /\ \A k \in 1 .. Len(list) : ItemTyped(calls[k])
  BY <1>1, <1>2
<1> HIDE DEF calls
<1>4. StackOfItems(calls)
  BY <1>1, <1>3, StackMapped
<1> QED
  BY <1>4 DEF calls

\* quiesce, resume with its parts, and terminate keep the types.
LEMMA TypesResume ==
  ASSUME Types,
         Resume \/ ResumeCancels \/ ResumeRedispatches \/ ResumeReinvokes
           \/ Quiesce \/ Terminate
  PROVE  Types'
<1>0. StackOfItems(stack) /\ (stack # <<>> => StackOfItems(Tail(stack)))
  BY StackPopped DEF Types, StackTypes
<1>1. CASE Resume
  <2> DEFINE calls == [k \in DOMAIN deferredCancels |-> Item("cancel", Root, 0, deferredCancels[k])]
  <2>1. StackOfItems(calls)
    BY CallsFor DEF Types, InvokeTypes
  <2>2. stack' = calls \o <<Item("redispatch", Root, 0, None)>> \o stack
    BY <1>1 DEF Resume
  <2> HIDE DEF calls
  <2>3. StackOfItems(<<Item("redispatch", Root, 0, None)>>)
    BY Called
  <2>4. StackOfItems(stack')
    BY <1>0, <2>1, <2>2, <2>3, StackPushed
  <2> QED
    BY <1>1, <2>4, EmptySeq DEF Resume, Types, ContextTypes, DriveTypes, StackTypes, StackOfItems,
         InvokeTypes, context, wakes, drives
<1>2. CASE ResumeCancels
  <2>1. stack # <<>> /\ Top.op = "cancel" /\ stack' = Tail(stack)
    BY <1>2 DEF ResumeCancels, Calling
  <2>2. Top.id \in Invocations
    BY <2>1, StackPopped DEF Types, StackTypes, Top, ItemTyped
  <2>3. /\ exec' \in [Slots -> Execs] /\ spawned' \in Seq(Identities)
        /\ deferredWakes' \in [Slots -> Nat]
        /\ waiter' \in [Slots -> Invocations \cup {None}] /\ inv' \in [Invocations -> States]
    BY <1>2, <2>2, CancelTyped DEF ResumeCancels, Types, ContextTypes, InvokeTypes
  <2> QED
    BY <1>0, <1>2, <2>1, <2>3 DEF ResumeCancels, Types, ContextTypes, DriveTypes, StackTypes,
         StackOfItems, InvokeTypes, drives
<1>3. CASE ResumeRedispatches
  <2>0. stack # <<>>
    BY <1>3 DEF ResumeRedispatches, Calling
  <2> DEFINE H == {s \in Slots : deferredWakes[s] # 0}
             woken(order) == [k \in DOMAIN order |-> Wake(order[k], deferredWakes[order[k]])]
  <2>1. PICK order \in SetToSeqs(H) :
          stack' = woken(order) \o <<Drain, Item("reinvoke", Root, 0, None)>> \o Tail(stack)
    BY <1>3 DEF ResumeRedispatches
  <2>2. order \in [1 .. Cardinality(H) -> H]
    BY DEF SetToSeqs
  <2>3. IsFiniteSet(H)
    BY SlotsFinite, FS_Subset
  <2>4. Cardinality(H) \in Nat
    BY <2>3, FS_CardinalityType
  <2> DEFINE n == Cardinality(H)
             calls == woken(order)
  <2>5. \A k \in 1 .. n : order[k] \in Slots /\ deferredWakes[order[k]] \in Nat
    BY <2>2 DEF Types, ContextTypes
  <2>6. \A k \in 1 .. n : /\ Wake(order[k], deferredWakes[order[k]]) \in Items
                          /\ ItemTyped(Wake(order[k], deferredWakes[order[k]]))
    BY <2>5, ItemsTyped DEF Wake, Ops
  <2>7. calls \in [1 .. n -> Items] /\ \A k \in 1 .. n : ItemTyped(calls[k])
    BY <2>2, <2>6
  <2>8. stack' = calls \o <<Drain, Item("reinvoke", Root, 0, None)>> \o Tail(stack)
    BY <2>1
  <2> HIDE DEF calls, n
  <2>9. StackOfItems(calls)
    BY <2>4, <2>7, StackMapped DEF n
  <2>10. StackOfItems(stack')
    BY <1>0, <2>0, <2>8, <2>9, Called, StackPushed
  <2> QED
    BY <1>3, <2>10 DEF ResumeRedispatches, Types, ContextTypes, DriveTypes, StackTypes,
         StackOfItems, InvokeTypes, context, wakes, drives, invokes
<1>4. CASE ResumeReinvokes
  <2>0. stack # <<>>
    BY <1>4 DEF ResumeReinvokes, Calling
  <2> DEFINE calls == [k \in DOMAIN deferredInvokes |-> Item("rebegin", Root, 0, deferredInvokes[k])]
  <2>1. StackOfItems(calls)
    BY CallsFor DEF Types, InvokeTypes
  <2>2. stack' = calls \o <<Item("kick", Root, 0, None)>> \o Tail(stack)
    BY <1>4 DEF ResumeReinvokes
  <2> HIDE DEF calls
  <2>3. StackOfItems(<<Item("kick", Root, 0, None)>>)
    BY Called
  <2>4. StackOfItems(stack')
    BY <1>0, <2>0, <2>1, <2>2, <2>3, StackPushed
  <2> QED
    BY <1>4, <2>4, EmptySeq DEF ResumeReinvokes, Types, ContextTypes, DriveTypes, StackTypes,
         StackOfItems, InvokeTypes, context, wakes, drives
<1>5. CASE Quiesce
  BY <1>5 DEF Quiesce, Types, ContextTypes, DriveTypes, StackTypes, StackOfItems, InvokeTypes,
       context, wakes, drives, invokes
<1>6. CASE Terminate
  <2>1. /\ inv' \in [Invocations -> States] /\ waiter' \in [Slots -> Invocations \cup {None}]
        /\ deferredInvokes' \in Seq(Invocations) /\ deferredCancels' \in Seq(Invocations)
        /\ deferredWakes' \in [Slots -> Nat]
    BY <1>6, EmptySeq DEF Terminate, Types, InvokeTypes, States, Settled
  <2> QED
    BY <1>6, <2>1 DEF Terminate, Types, ContextTypes, DriveTypes, StackTypes, StackOfItems,
         InvokeTypes, context, wakes, drives
<1> QED
  BY <1>1, <1>2, <1>3, <1>4, <1>5, <1>6

\* A freed context's slot is free, or nothing changed.
LEMMA FreeTyped ==
  ASSUME Types, NEW s, NEW g, FreeIfLive(s, g)
  PROVE  exec' \in [Slots -> Execs]
BY DEF FreeIfLive, Types, ContextTypes, Execs

\* run(slot) keeps the types.
LEMMA TypesRunSlot ==
  ASSUME Types, NEW s \in Slots, RunSlot(s)
  PROVE  Types'
<1> DEFINE who == IF waiter[s] # None THEN <<"invoke", waiter[s]>> ELSE <<"run", None>>
<1>1. DriveSlot(s, generation[s], who, stack) /\ UNCHANGED <<context, wakes, invokes>>
  BY DEF RunSlot
<1>2. who \in Drivers
  BY WhoDrives DEF Types, InvokeTypes
<1> HIDE DEF who
<1>3. generation[s] \in Nat /\ StackOfItems(stack)
  BY DEF Types, ContextTypes, StackTypes
<1>4. DriveTypes' /\ StackTypes' /\ deferredWakes' \in [Slots -> Nat]
  BY <1>1, <1>2, <1>3, DriveTyped
<1> QED
  BY <1>1, <1>4 DEF Types, ContextTypes, InvokeTypes, context, wakes, invokes

\* The continuations of finished drives keep the types.
LEMMA TypesContinue ==
  ASSUME Types, Continue
  PROVE  Types'
<1>1. PICK j \in jobs :
        /\ jobs' = jobs \ {j}
        /\ \/ j.by[1] = "invoke" /\ InvokeContinues(j)
           \/ j.by[1] = "background" /\ BackgroundContinues(j)
                /\ UNCHANGED <<inv, waiter, deferredWakes>>
           \/ j.by[1] = "closure" /\ ClosureContinues(j)
                /\ UNCHANGED <<inv, waiter, deferredWakes>>
  BY DEF Continue
<1>2. /\ exec' \in [Slots -> Execs] /\ deferredWakes' \in [Slots -> Nat]
      /\ waiter' \in [Slots -> Invocations \cup {None}] /\ inv' \in [Invocations -> States]
  <2>1. CASE InvokeContinues(j)
    <3> DEFINE i == j.by[2]
               r == CASE j.result = "done" -> "value" [] j.result = "error" -> "error"
                      [] OTHER -> "terminated"
    <3>1. CASE OwnsSlot(i)
      <4>1. /\ inv' = Outcome(i, r)
            /\ waiter' = [waiter EXCEPT ![slotOf[i]] = None]
            /\ deferredWakes' = [deferredWakes EXCEPT ![slotOf[i]] = 0]
            /\ UNCHANGED exec \/ FreeIfLive(slotOf[i], genOf[i])
        BY <2>1, <3>1 DEF InvokeContinues
      <4>2. r \in States
        BY DEF States, Settled
      <4> HIDE DEF r, i
      <4>3. inv' \in [Invocations -> States]
        BY <4>1, <4>2, OutcomeTyped
      <4>4. exec' \in [Slots -> Execs]
        BY <4>1, FreeTyped DEF Types, ContextTypes
      <4> QED
        BY <4>1, <4>3, <4>4 DEF Types, ContextTypes, InvokeTypes
    <3>2. CASE ~OwnsSlot(i)
      BY <2>1, <3>2 DEF InvokeContinues, Types, ContextTypes, InvokeTypes
    <3> QED
      BY <3>1, <3>2
  <2>2. CASE BackgroundContinues(j) /\ UNCHANGED <<inv, waiter, deferredWakes>>
    BY <2>2, FreeTyped DEF BackgroundContinues, Types, ContextTypes, InvokeTypes
  <2>3. CASE ClosureContinues(j) /\ UNCHANGED <<inv, waiter, deferredWakes>>
    BY <2>3, FreeTyped DEF ClosureContinues, Types, ContextTypes, InvokeTypes
  <2> QED
    BY <1>1, <2>1, <2>2, <2>3
<1>3. /\ jobs' \subseteq Jobs
      /\ UNCHANGED <<generation, wakes, stack, driving, phase, result, by, slotOf, genOf,
                    deferredInvokes, deferredCancels>>
  BY <1>1 DEF Continue, Types, DriveTypes
<1> QED
  BY <1>2, <1>3 DEF Types, ContextTypes, DriveTypes, StackTypes, StackOfItems, InvokeTypes, wakes

\* A closure call that leaves the queue keeps the types.
LEMMA TypesCall ==
  ASSUME Types, current # None => current \in Calls, drainer = "backpressure" => current # None,
         RunClosureCall
  PROVE  Types'
<1>0. current \in Calls /\ UNCHANGED <<wakes, invokes>> /\ stack = <<>>
  BY DEF RunClosureCall, BetweenJobs
<1>1. CASE CallAbandoned
  BY <1>0, <1>1 DEF CallAbandoned, Types, ContextTypes, DriveTypes, StackTypes, StackOfItems,
       InvokeTypes, context, wakes, drives, invokes
<1>2. CASE CallRefused
  <2>1. generation' \in [Slots -> Nat]
    <3>1. CASE UNCHANGED generation
      BY <3>1 DEF Types, ContextTypes
    <3>2. CASE CanAllocate /\ generation' = [generation EXCEPT ![NextSlot] = @ + 1]
      BY <3>2, NextSlotIsFree DEF CanAllocate, Types, ContextTypes
    <3> QED
      BY <1>2, <3>1, <3>2 DEF CallRefused
  <2> QED
    BY <1>0, <1>2, <2>1 DEF CallRefused, Types, ContextTypes, DriveTypes, StackTypes,
         StackOfItems, InvokeTypes, wakes, drives, invokes
<1>3. CASE CallDelivered
  <2> DEFINE s == NextSlot
             g == NextGeneration
  <2>1. s \in Slots /\ g \in Nat
    BY <1>3, NextSlotIsFree DEF CallDelivered, CanAllocate, NextGeneration, Types, ContextTypes
  <2>2. CASE Allocate("ready") /\ DriveSlot(s, g, <<"closure", current>>, <<>>)
    <3>1. generation' \in [Slots -> Nat] /\ exec' \in [Slots -> Execs]
      BY <2>1, <2>2 DEF Allocate, Types, ContextTypes, Execs
    <3> HIDE DEF s, g
    <3>2. <<"closure", current>> \in Drivers
      BY <1>0, WhoDrives
    <3>3. DriveTypes' /\ StackTypes' /\ deferredWakes' \in [Slots -> Nat]
      BY <2>1, <2>2, <3>2, DriveTyped, EmptyStack
    <3> QED
      BY <1>0, <3>1, <3>3 DEF Types, ContextTypes, InvokeTypes, wakes, invokes
  <2>3. CASE /\ generation' = [generation EXCEPT ![s] = @ + 1]
             /\ UNCHANGED <<exec, steps, drives, deferredWakes, stack>>
    BY <1>0, <2>1, <2>3 DEF Types, ContextTypes, DriveTypes, StackTypes, StackOfItems,
         InvokeTypes, wakes, drives, invokes
  <2> QED
    BY <1>3, <2>2, <2>3 DEF CallDelivered
<1> QED
  BY <1>1, <1>2, <1>3 DEF RunClosureCall

\* The queue of closure calls and its drainer keep the types.
LEMMA TypesQueue ==
  ASSUME Types, (\E c \in Calls : Schedule(c)) \/ KickClosureDrainer \/ DrainerNext
  PROVE  Types'
<1>1. UNCHANGED <<context, wakes, drives, deferredWakes, invokes>>
  BY DEF Schedule, KickClosureDrainer, DrainerNext
<1>2. StackOfItems(stack')
  <2>1. StackOfItems(stack) /\ (stack # <<>> => StackOfItems(Tail(stack)))
    BY StackPopped DEF Types, StackTypes
  <2>2. StackOfItems(<<Item("kick", Root, 0, None)>> \o stack)
    BY <2>1, Called, StackPushed
  <2>3. \/ stack' = stack \/ (stack # <<>> /\ stack' = Tail(stack))
        \/ stack' = <<Item("kick", Root, 0, None)>> \o stack
    BY DEF Schedule, KickClosureDrainer, DrainerNext, Calling
  <2> QED
    BY <2>1, <2>2, <2>3
<1> QED
  BY <1>1, <1>2 DEF Types, ContextTypes, DriveTypes, StackTypes, StackOfItems, InvokeTypes,
       context, wakes, drives, invokes

\* Every step keeps the types, where the drainer's call is one of the calls.
LEMMA TypesStep ==
  ASSUME Types, current \in Calls \cup {None}, drainer = "backpressure" => current # None,
         [Next]_vars
  PROVE  Types'
<1>1. CASE UNCHANGED vars
  BY <1>1, TypesUnchanged
<1>2. CASE Synchronous
  BY <1>2, TypesRun, TypesReturn, TypesWake, TypesBegin, TypesResume, TypesQueue DEF Synchronous
<1>3. CASE Continuations
  BY <1>3, TypesDrive, TypesContinue, TypesCall, TypesQueue DEF Continuations
<1>4. CASE Embedder
  BY <1>4, TypesInvoke, TypesQueue, TypesResume DEF Embedder
<1>5. CASE Settle
  BY <1>5, TypesWake
<1>6. CASE \E s \in Slots : HookResolves(s) \/ RunSlot(s)
  BY <1>6, TypesDrive, TypesRunSlot
<1> QED
  BY <1>1, <1>2, <1>3, <1>4, <1>5, <1>6 DEF Next

(***************************************************************************)
(* The stream of calls.                                                    *)
(***************************************************************************)
\* The initial state is typed and its queue in order.
LEMMA OrderInit == Init => Types /\ OrderInv
<1> SUFFICES ASSUME Init PROVE Types /\ OrderInv
  OBVIOUS
<1>1. ContextTypes /\ DriveTypes /\ InvokeTypes
  BY WhoDrives, EmptySeq DEF Init, ContextTypes, DriveTypes, InvokeTypes, Execs, Phases, Results,
     States, Settled
<1>2. StackTypes
  BY EmptyStack DEF Init, StackTypes
<1>3. queue = <<>> /\ Len(queue) = 0 /\ current = None /\ drainer = "idle" /\ jobs = {}
      /\ delivery = [c \in Calls |-> "none"] /\ by = [s \in Slots |-> <<"none", None>>]
  BY DEF Init
<1>4. QueueInOrder
  BY <1>3, EmptySeq DEF QueueInOrder
<1>5. OneClosureDrive
  BY <1>3 DEF OneClosureDrive, ClosureDrives, ClosureJobs
<1>6. InOrderDelivery
  BY <1>3 DEF InOrderDelivery
<1> QED
  BY <1>1, <1>2, <1>4, <1>5, <1>6 DEF Types, OrderInv

\* A step that leaves the queue and starts no drive for a call keeps the order.
LEMMA OrderKept ==
  ASSUME OrderInv, UNCHANGED <<queue, drainer, current, delivery>>, terminated => terminated',
         ClosureDrives' \subseteq ClosureDrives, ClosureJobs' \subseteq ClosureJobs
  PROVE  OrderInv'
<1>1. QueueInOrder'
  BY DEF OrderInv, QueueInOrder
<1>2. OneClosureDrive'
  BY DEF OrderInv, OneClosureDrive
<1>3. InOrderDelivery'
  BY DEF OrderInv, InOrderDelivery
<1> QED
  BY <1>1, <1>2, <1>3 DEF OrderInv

\* A drive that is no closure call's adds no closure drive and no continuation of one.
LEMMA DriveKeepsOrder ==
  ASSUME Types, NEW s \in Slots, NEW g, NEW who, who[1] # "closure",
         NEW rest, DriveSlot(s, g, who, rest)
  PROVE  ClosureDrives' \subseteq ClosureDrives /\ ClosureJobs' \subseteq ClosureJobs
BY DEF DriveSlot, Continuation, ClosureDrives, ClosureJobs, Types, DriveTypes

\* Nor does a step that leaves the drivers and the continuations alone.
LEMMA SameDrives ==
  UNCHANGED <<by, jobs>> =>
    ClosureDrives' \subseteq ClosureDrives /\ ClosureJobs' \subseteq ClosureJobs
BY DEF ClosureDrives, ClosureJobs

\* Runs of contexts keep the stream in order.
LEMMA OrderOfRuns ==
  ASSUME Types, OrderInv, NEW s \in Slots,
         \/ RunEnds(s) \/ RunParks(s) \/ RunPauses(s) \/ RunSpawns(s) \/ RunCompletes(s)
         \/ RunReturns(s) \/ RunStrays(s) \/ LoopTerminated(s)
         \/ DriveThen(s) \/ HookResolves(s)
  PROVE  OrderInv'
<1>1. UNCHANGED <<by, jobs, queue, drainer, current, delivery, terminated>>
  BY DEF RunEnds, RunParks, RunPauses, RunSpawns, RunCompletes, RunReturns, RunStrays,
     LoopTerminated, DriveThen, HookResolves, drives, closures
<1> QED
  BY <1>1, SameDrives, OrderKept

\* So do the steps that touch neither the queue nor the drives.
LEMMA OrderOfRest ==
  ASSUME Types, OrderInv,
         \/ TrackDrive \/ FinallyRest \/ DrainSpawned \/ Settle
         \/ Quiesce \/ Resume \/ Terminate
         \/ ResumeCancels \/ ResumeRedispatches \/ ResumeReinvokes
         \/ \E i \in Invocations : Invoke(i) \/ Abort(i)
         \/ UNCHANGED vars
  PROVE  OrderInv'
<1> DEFINE Kept == UNCHANGED <<by, jobs, queue, drainer, current, delivery>> /\ (terminated => terminated')
<1> SUFFICES Kept
  BY SameDrives, OrderKept
<1>1. CASE TrackDrive \/ FinallyRest \/ DrainSpawned \/ Settle
  BY <1>1 DEF TrackDrive, FinallyRest, DrainSpawned, Settle, drives, closures
<1>2. CASE Quiesce \/ Resume \/ Terminate
  BY <1>2 DEF Quiesce, Resume, Terminate, drives, closures
<1>3. CASE ResumeCancels \/ ResumeRedispatches \/ ResumeReinvokes
  <2>1. CASE ResumeCancels
    BY <2>1 DEF ResumeCancels, drives, closures
  <2>2. CASE ResumeRedispatches
    BY <2>2 DEF ResumeRedispatches, drives, closures
  <2>3. CASE ResumeReinvokes
    BY <2>3 DEF ResumeReinvokes, drives, closures
  <2> QED
    BY <1>3, <2>1, <2>2, <2>3
<1>4. CASE \E i \in Invocations : Invoke(i) \/ Abort(i)
  BY <1>4 DEF Invoke, Abort, drives, closures
<1>5. CASE UNCHANGED vars
  BY <1>5 DEF drives, closures, vars
<1> QED
  BY <1>1, <1>2, <1>3, <1>4, <1>5

\* So do the drives of wakes, of invocations and of run(slot).
LEMMA OrderOfDrives ==
  ASSUME Types, OrderInv, DispatchWoken \/ BeginInvoke \/ \E s \in Slots : RunSlot(s)
  PROVE  OrderInv'
<1>1. CASE DispatchWoken
  <2>1. Top.slot \in Slots
    BY <1>1, StackPopped DEF DispatchWoken, Calling, Types, StackTypes, Top
  <2>2. WakeOwner(Top.slot, Top.gen)[1] # "closure"
    BY DEF WakeOwner
  <2>3. UNCHANGED <<by, jobs>> \/ DriveSlot(Top.slot, Top.gen, WakeOwner(Top.slot, Top.gen), Tail(stack))
    BY <1>1 DEF DispatchWoken, drives
  <2>4. ClosureDrives' \subseteq ClosureDrives /\ ClosureJobs' \subseteq ClosureJobs
    BY <2>1, <2>2, <2>3, DriveKeepsOrder, SameDrives
  <2>5. UNCHANGED <<queue, drainer, current, delivery, terminated>>
    BY <1>1 DEF DispatchWoken
  <2> QED
    BY <2>4, <2>5, OrderKept
<1>2. CASE BeginInvoke
  <2>1. \/ UNCHANGED <<by, jobs>>
        \/ CanAllocate /\ DriveSlot(NextSlot, NextGeneration, <<"invoke", Top.id>>, Tail(stack))
    BY <1>2 DEF BeginInvoke, BeginInvokeFails, BeginInvokeDrives, drives
  <2>2. ClosureDrives' \subseteq ClosureDrives /\ ClosureJobs' \subseteq ClosureJobs
    BY <2>1, DriveKeepsOrder, SameDrives, NextSlotIsFree DEF CanAllocate
  <2>3. UNCHANGED <<queue, drainer, current, delivery, terminated>>
    BY <1>2 DEF BeginInvoke
  <2> QED
    BY <2>2, <2>3, OrderKept
<1>3. ASSUME NEW s \in Slots, RunSlot(s) PROVE OrderInv'
  <2>1. ClosureDrives' \subseteq ClosureDrives /\ ClosureJobs' \subseteq ClosureJobs
    BY <1>3, DriveKeepsOrder DEF RunSlot
  <2>2. UNCHANGED <<queue, drainer, current, delivery, terminated>>
    BY <1>3 DEF RunSlot
  <2> QED
    BY <2>1, <2>2, OrderKept
<1> QED
  BY <1>1, <1>2, <1>3

\* The end of a call's drive becomes its continuation, and that the drainer's next turn.
LEMMA OrderOfEnds ==
  ASSUME Types, OrderInv, Continue \/ \E s \in Slots : DriveFinally(s)
  PROVE  OrderInv'
<1>1. ASSUME NEW s \in Slots, DriveFinally(s) PROVE OrderInv'
  <2>1. /\ by' = [by EXCEPT ![s] = <<"none", None>>]
        /\ jobs' = jobs \cup Continuation(by[s], s, driving[s], result[s])
        /\ UNCHANGED <<queue, drainer, current, delivery, terminated>>
    BY <1>1 DEF DriveFinally, closures
  <2>2. ClosureDrives' = ClosureDrives \ {s}
    BY <2>1 DEF ClosureDrives, Types, DriveTypes
  <2>3. CASE by[s][1] # "closure"
    <3>1. ClosureJobs' \subseteq ClosureJobs
      BY <2>1, <2>3 DEF Continuation, ClosureJobs
    <3> QED
      BY <2>1, <2>2, <3>1, OrderKept
  <2>4. CASE by[s][1] = "closure"
    <3> DEFINE e == [by |-> by[s], slot |-> s, gen |-> driving[s], result |-> result[s]]
    <3>1. ClosureDrives = {s} /\ ClosureJobs = {} /\ drainer = "driving"
      BY <2>4 DEF OrderInv, OneClosureDrive, ClosureDrives
    <3>2. jobs' = jobs \cup {e} /\ e.by[1] = "closure"
      BY <2>1, <2>4 DEF Continuation
    <3>3. ClosureJobs' = {e} /\ ClosureDrives' = {}
      BY <2>2, <3>1, <3>2 DEF ClosureJobs
    <3>4. OneClosureDrive'
      BY <2>1, <3>1, <3>3 DEF OneClosureDrive
    <3> QED
      BY <2>1, <3>4 DEF OrderInv, QueueInOrder, InOrderDelivery
  <2> QED
    BY <2>3, <2>4
<1>2. CASE Continue
  <2>1. PICK j \in jobs :
          /\ jobs' = jobs \ {j}
          /\ \/ j.by[1] # "closure" /\ UNCHANGED drainer
             \/ j.by[1] = "closure" /\ drainer' = "next"
    BY <1>2 DEF Continue, ClosureContinues
  <2>2. UNCHANGED <<by, queue, current, delivery, terminated>>
    BY <1>2 DEF Continue
  <2>3. ClosureJobs' \subseteq ClosureJobs /\ ClosureDrives' = ClosureDrives
    BY <2>1, <2>2 DEF ClosureJobs, ClosureDrives
  <2>4. CASE j.by[1] # "closure" /\ UNCHANGED drainer
    BY <2>2, <2>3, <2>4, OrderKept
  <2>5. CASE j.by[1] = "closure" /\ drainer' = "next"
    <3>1. ClosureJobs = {j} /\ ClosureDrives = {} /\ drainer = "driving"
      BY <2>5 DEF OrderInv, OneClosureDrive, ClosureJobs
    <3>2. ClosureJobs' = {} /\ ClosureDrives' = {}
      BY <2>1, <2>3, <3>1 DEF ClosureJobs
    <3>3. OneClosureDrive'
      BY <3>2 DEF OneClosureDrive
    <3>4. current = None
      BY <3>1 DEF OrderInv, QueueInOrder
    <3> QED
      BY <2>2, <2>5, <3>3, <3>4 DEF OrderInv, QueueInOrder, InOrderDelivery
  <2> QED
    BY <2>1, <2>4, <2>5
<1> QED
  BY <1>1, <1>2

\* A call is scheduled after all others; the drainer takes the first one only.
LEMMA OrderOfQueue ==
  ASSUME Types, OrderInv, (\E c \in Calls : Schedule(c)) \/ KickClosureDrainer \/ DrainerNext
  PROVE  OrderInv'
<1>0. queue \in Seq(Calls) /\ Len(queue) \in Nat /\ DOMAIN queue = 1 .. Len(queue)
      /\ \A x : x \in ToSet(queue) <=> \E i \in 1 .. Len(queue) : queue[i] = x
  BY DEF OrderInv, QueueInOrder, ToSet
<1>c. Calls \subseteq Nat
  BY DEF Calls
<1>1. ASSUME NEW c \in Calls, Schedule(c) PROVE OrderInv'
  <2>1. /\ ~terminated /\ delivery[c] = "none" /\ \A d \in Calls : d < c => delivery[d] # "none"
        /\ delivery' = [delivery EXCEPT ![c] = "queued"] /\ queue' = Append(queue, c)
        /\ UNCHANGED <<by, jobs, drainer, current, terminated>>
    BY <1>1 DEF Schedule, drives
  <2>2. /\ queue' \in Seq(Calls) /\ ToSet(queue') = ToSet(queue) \cup {c}
        /\ Len(queue') = Len(queue) + 1 /\ \A i \in 1 .. Len(queue) : queue'[i] = queue[i]
        /\ queue'[Len(queue) + 1] = c
    BY <1>0, <2>1, AppendElements
  <2>3. \A d \in Calls : delivery[d] = "queued" => d < c
    <3> TAKE d \in Calls
    <3> HAVE delivery[d] = "queued"
    <3>1. ~(c < d) /\ c # d
      BY <2>1 DEF OrderInv, QueueInOrder
    <3> QED
      BY <1>c, <3>1
  <2>4. \A i \in 1 .. Len(queue) : queue[i] \in Calls /\ delivery[queue[i]] = "queued" /\ queue[i] < c
    BY <1>0, <2>3 DEF OrderInv, QueueInOrder
  <2>5. current # None => current \in Calls /\ current < c
    BY <2>3 DEF OrderInv, QueueInOrder
  <2> DEFINE n == Len(queue)
  <2>6. \A i, j \in 1 .. Len(queue') : i < j => queue'[i] < queue'[j]
    <3> TAKE i, j \in 1 .. Len(queue')
    <3> HAVE i < j
    <3>1. i \in 1 .. Len(queue) /\ (j \in 1 .. Len(queue) \/ j = Len(queue) + 1)
      BY <1>0, <2>2
    <3> QED
      BY <2>2, <2>4, <3>1 DEF OrderInv, QueueInOrder
  <2>7. \A i \in 1 .. Len(queue') : i \in 1 .. Len(queue) \/ i = Len(queue) + 1
    BY <1>0, <2>2
  <2>8. \A i \in 1 .. Len(queue') : delivery'[queue'[i]] = "queued" /\ (current # None => current < queue'[i])
    BY <2>1, <2>2, <2>4, <2>5, <2>7 DEF OrderInv, QueueInOrder
  <2>9. delivery' \in [Calls -> {"none", "queued", "marshaled", "refused"}]
        /\ (current # None => delivery'[current] = "queued")
    BY <2>1, <2>5 DEF OrderInv, QueueInOrder
  <2>10. \A b, d \in Calls : b < d /\ delivery'[d] # "none" => delivery'[b] # "none"
    BY <2>1 DEF OrderInv, QueueInOrder
  <2>11. \A d \in Calls : delivery'[d] = "queued" => d \in ToSet(queue') \cup {current}
    BY <2>1, <2>2 DEF OrderInv, QueueInOrder
  <2>12. QueueInOrder'
    BY <2>1, <2>2, <2>6, <2>8, <2>9, <2>10, <2>11 DEF OrderInv, QueueInOrder
  <2>13. OneClosureDrive'
    BY <2>1 DEF OrderInv, OneClosureDrive, ClosureDrives, ClosureJobs
  <2>14. InOrderDelivery'
    BY <2>1 DEF OrderInv, QueueInOrder, InOrderDelivery
  <2> QED
    BY <2>12, <2>13, <2>14 DEF OrderInv
<1>2. ASSUME TakeHead, queue # <<>>, current = None, drainer \in {"idle", "next"},
             UNCHANGED <<by, jobs, delivery, terminated>>
      PROVE  OrderInv'
  <2>1. /\ Tail(queue) \in Seq(Calls) /\ Head(queue) \in Calls /\ Head(queue) = queue[1]
        /\ Len(queue) >= 1 /\ Len(Tail(queue)) = Len(queue) - 1
        /\ \A i \in 1 .. Len(queue) - 1 : Tail(queue)[i] = queue[i + 1]
        /\ ToSet(queue) = {Head(queue)} \cup ToSet(Tail(queue))
    BY <1>0, <1>2, TailElements
  <2>2. current' = Head(queue) /\ queue' = Tail(queue) /\ drainer' = "backpressure"
    BY <1>2 DEF TakeHead
  <2>3. 1 \in 1 .. Len(queue) /\ \A i \in 1 .. Len(queue) - 1 : i + 1 \in 1 .. Len(queue) /\ 1 < i + 1
    BY <1>0, <2>1
  <2>4. None \notin Calls
    BY <1>c, SchedulerAssumption
  <2>5. \A i, j \in 1 .. Len(queue') : i < j => queue'[i] < queue'[j]
    <3> TAKE i, j \in 1 .. Len(queue')
    <3> HAVE i < j
    <3>1. /\ i + 1 \in 1 .. Len(queue) /\ j + 1 \in 1 .. Len(queue) /\ i + 1 < j + 1
          /\ i \in 1 .. Len(queue) - 1 /\ j \in 1 .. Len(queue) - 1
      BY <1>0, <2>1, <2>2
    <3> QED
      BY <2>1, <2>2, <3>1 DEF OrderInv, QueueInOrder
  <2>6. \A i \in 1 .. Len(queue') : delivery'[queue'[i]] = "queued" /\ current' < queue'[i]
    BY <1>2, <2>1, <2>2, <2>3 DEF OrderInv, QueueInOrder
  <2>7. delivery'[current'] = "queued"
    BY <1>2, <2>1, <2>2, <2>3 DEF OrderInv, QueueInOrder
  <2>8. ~terminated => \A c \in Calls : delivery[c] = "queued" => c \in ToSet(queue') \cup {current'}
    BY <1>2, <2>1, <2>2, <2>4 DEF OrderInv, QueueInOrder
  <2>9. QueueInOrder'
    BY <1>2, <2>1, <2>2, <2>4, <2>5, <2>6, <2>7, <2>8 DEF OrderInv, QueueInOrder
  <2>10. OneClosureDrive'
    BY <1>2 DEF OrderInv, OneClosureDrive, ClosureDrives, ClosureJobs
  <2>11. InOrderDelivery'
    BY <1>2 DEF OrderInv, InOrderDelivery
  <2> QED
    BY <2>9, <2>10, <2>11 DEF OrderInv
<1>3. CASE KickClosureDrainer
  <2>1. UNCHANGED <<by, jobs, delivery, terminated>>
    BY <1>3 DEF KickClosureDrainer, drives
  <2>2. CASE drainer = "idle" /\ Drainable
    BY <1>2, <1>3, <2>1, <2>2 DEF KickClosureDrainer, Drainable, OrderInv, QueueInOrder
  <2>3. CASE UNCHANGED <<current, queue, drainer>>
    BY <2>1, <2>3, OrderKept, SameDrives
  <2> QED
    BY <1>3, <2>2, <2>3 DEF KickClosureDrainer
<1>4. CASE DrainerNext
  <2>1. UNCHANGED <<by, jobs, delivery, terminated>> /\ drainer = "next"
    BY <1>4 DEF DrainerNext, drives
  <2>2. CASE Drainable /\ TakeHead
    BY <1>2, <2>1, <2>2 DEF Drainable, OrderInv, QueueInOrder
  <2>3. CASE drainer' = "idle" /\ UNCHANGED <<current, queue>>
    BY <2>1, <2>3 DEF OrderInv, QueueInOrder, OneClosureDrive, InOrderDelivery, ClosureDrives, ClosureJobs
  <2> QED
    BY <1>4, <2>2, <2>3 DEF DrainerNext
<1> QED
  BY <1>1, <1>3, <1>4

\* A call that leaves the queue is marshaled, and then no earlier one was refused, or it
\* is refused, and then it closes the gate to all later ones.
LEMMA OrderOfCall ==
  ASSUME Types, OrderInv, RunClosureCall
  PROVE  OrderInv'
<1>1. /\ drainer = "backpressure" /\ current \in Calls /\ current' = None
      /\ UNCHANGED <<queue, terminated>> /\ ClosureDrives = {} /\ ClosureJobs = {}
  BY DEF RunClosureCall, OrderInv, QueueInOrder, OneClosureDrive
<1>0. queue \in Seq(Calls) /\ Len(queue) \in Nat /\ DOMAIN queue = 1 .. Len(queue)
      /\ \A x : x \in ToSet(queue) <=> \E i \in 1 .. Len(queue) : queue[i] = x
  BY DEF OrderInv, QueueInOrder, ToSet
<1>c. Calls \subseteq Nat /\ None \notin Calls
  BY SchedulerAssumption DEF Calls
<1>q. \A i \in 1 .. Len(queue) : queue[i] \in Calls /\ queue[i] # current
                                /\ current < queue[i] /\ delivery[queue[i]] = "queued"
  <2>1. \A i \in 1 .. Len(queue) : queue[i] \in Calls /\ current < queue[i]
                                  /\ delivery[queue[i]] = "queued"
    BY <1>0, <1>1, <1>c DEF OrderInv, QueueInOrder
  <2>2. \A i \in 1 .. Len(queue) : queue[i] # current
    BY <1>1, <1>c, <2>1
  <2> QED
    BY <2>1, <2>2
\* The call leaves the queue, delivered in its turn, or refused for good.
<1>2. ASSUME NEW d \in {"marshaled", "refused"}, ~terminated, drainer' # "backpressure",
             drainer' \in {"driving", "next"},
             delivery' = [delivery EXCEPT ![current] = d], d = "marshaled" => ~GateClosed
      PROVE  QueueInOrder' /\ InOrderDelivery'
  <2>1. QueueInOrder'
    <3>1. delivery' \in [Calls -> {"none", "queued", "marshaled", "refused"}]
      BY <1>2 DEF OrderInv, QueueInOrder
    <3>2. \A i \in 1 .. Len(queue) : delivery'[queue[i]] = "queued"
      <4> TAKE i \in 1 .. Len(queue)
      <4>1. queue[i] \in Calls /\ queue[i] # current /\ delivery[queue[i]] = "queued"
        BY <1>q
      <4> QED
        BY <1>2, <4>1 DEF OrderInv, QueueInOrder
    <3>3. \A b, c \in Calls : b < c /\ delivery'[c] # "none" => delivery'[b] # "none"
      BY <1>1, <1>2 DEF OrderInv, QueueInOrder
    <3>4. \A c \in Calls : delivery'[c] = "queued" => c \in ToSet(queue)
      BY <1>1, <1>2 DEF OrderInv, QueueInOrder
    <3> QED
      BY <1>0, <1>1, <1>2, <1>c, <3>1, <3>2, <3>3, <3>4 DEF OrderInv, QueueInOrder
  <2>2. InOrderDelivery'
    <3> SUFFICES ASSUME NEW b \in Calls, NEW c \in Calls, b < c, delivery'[c] = "marshaled"
                 PROVE  delivery'[b] = "marshaled"
      BY DEF InOrderDelivery
    <3>0. b # c /\ \A e \in Calls : e # current => delivery'[e] = delivery[e]
      BY <1>c, <1>2 DEF OrderInv, QueueInOrder
    <3>1. CASE c # current
      <4>1. delivery[b] = "marshaled"
        BY <3>0, <3>1 DEF OrderInv, InOrderDelivery
      <4>2. b # current
        BY <1>1, <4>1 DEF OrderInv, QueueInOrder
      <4> QED
        BY <3>0, <4>1, <4>2
    <3>2. CASE c = current
      <4>1. ~GateClosed /\ delivery[b] # "refused"
        BY <1>1, <1>2, <3>2 DEF GateClosed, OrderInv, QueueInOrder
      <4>2. delivery[b] # "none"
        BY <1>1, <3>2 DEF OrderInv, QueueInOrder
      <4>3. delivery[b] # "queued"
        <5> SUFFICES ASSUME delivery[b] = "queued" PROVE FALSE
          OBVIOUS
        <5>1. b \in ToSet(queue)
          BY <1>2, <3>0, <3>2 DEF OrderInv, QueueInOrder
        <5>2. c < b
          BY <1>0, <1>q, <3>2, <5>1
        <5>3. b \in Nat /\ c \in Nat
          BY <1>c
        <5> QED
          BY <5>2, <5>3
      <4> QED
        BY <3>0, <3>2, <4>1, <4>2, <4>3 DEF OrderInv, QueueInOrder
    <3> QED
      BY <3>1, <3>2
  <2> QED
    BY <2>1, <2>2
<1>3. CASE CallAbandoned
  <2>1. terminated /\ drainer' = "next" /\ UNCHANGED <<by, jobs, delivery>>
    BY <1>3 DEF CallAbandoned, drives
  <2>2. QueueInOrder' /\ InOrderDelivery'
    BY <1>1, <2>1 DEF OrderInv, QueueInOrder, InOrderDelivery
  <2>3. OneClosureDrive'
    BY <1>1, <2>1 DEF OneClosureDrive, ClosureDrives, ClosureJobs
  <2> QED
    BY <2>2, <2>3 DEF OrderInv
<1>4. CASE CallRefused
  <2>1. /\ ~terminated /\ drainer' = "next" /\ UNCHANGED <<by, jobs>>
        /\ delivery' = [delivery EXCEPT ![current] = "refused"]
    BY <1>4 DEF CallRefused, drives
  <2>2. OneClosureDrive'
    BY <1>1, <2>1 DEF OneClosureDrive, ClosureDrives, ClosureJobs
  <2> QED
    BY <1>2, <2>1, <2>2 DEF OrderInv
<1>5. CASE CallDelivered
  <2>1. /\ ~terminated /\ ~GateClosed /\ drainer' \in {"driving", "next"}
        /\ delivery' = [delivery EXCEPT ![current] = "marshaled"]
        /\ \/ drainer' = "driving" /\ CanAllocate
                /\ DriveSlot(NextSlot, NextGeneration, <<"closure", current>>, <<>>)
           \/ UNCHANGED <<by, jobs>>
    BY <1>5 DEF CallDelivered, drives
  <2>2. OneClosureDrive'
    <3>1. CASE UNCHANGED <<by, jobs>>
      BY <1>1, <3>1 DEF OneClosureDrive, ClosureDrives, ClosureJobs
    <3>2. CASE /\ drainer' = "driving" /\ CanAllocate
               /\ DriveSlot(NextSlot, NextGeneration, <<"closure", current>>, <<>>)
      <4> DEFINE s == NextSlot
                 e == [by |-> <<"closure", current>>, slot |-> s, gen |-> NextGeneration,
                       result |-> "quiesced"]
      <4>1. s \in Slots
        BY <3>2, NextSlotIsFree DEF CanAllocate
      <4>2. \/ UNCHANGED by /\ jobs' = jobs \cup {e}
            \/ by' = [by EXCEPT ![s] = <<"closure", current>>] /\ UNCHANGED jobs
        BY <3>2 DEF DriveSlot, Continuation
      <4> HIDE DEF e, s
      <4>3. \/ ClosureDrives' = {} /\ ClosureJobs' \subseteq {e}
            \/ ClosureDrives' \subseteq {s} /\ ClosureJobs' = {}
        BY <1>1, <4>1, <4>2 DEF ClosureDrives, ClosureJobs, Types, DriveTypes
      <4> QED
        BY <3>2, <4>3 DEF OneClosureDrive
    <3> QED
      BY <2>1, <3>1, <3>2
  <2> QED
    BY <1>2, <2>1, <2>2 DEF OrderInv
<1> QED
  BY <1>3, <1>4, <1>5 DEF RunClosureCall

\* Every step keeps the types and the order of the stream.
LEMMA OrderStep ==
  ASSUME Types, OrderInv, [Next]_vars
  PROVE  Types' /\ OrderInv'
<1>1. Types'
  BY TypesStep DEF OrderInv, QueueInOrder
<1>2. CASE UNCHANGED vars
  BY <1>1, <1>2, OrderOfRest
<1>3. CASE Synchronous
  BY <1>1, <1>3, OrderOfRuns, OrderOfRest, OrderOfDrives, OrderOfQueue DEF Synchronous
<1>4. CASE Continuations
  BY <1>1, <1>4, OrderOfRuns, OrderOfEnds, OrderOfCall, OrderOfQueue DEF Continuations
<1>5. CASE Embedder
  BY <1>1, <1>5, OrderOfRest, OrderOfQueue DEF Embedder
<1>6. CASE Settle
  BY <1>1, <1>6, OrderOfRest
<1>7. CASE \E s \in Slots : HookResolves(s) \/ RunSlot(s)
  BY <1>1, <1>7, OrderOfRuns, OrderOfDrives
<1> QED
  BY <1>2, <1>3, <1>4, <1>5, <1>6, <1>7 DEF Next

\* An ordered stream of closure calls is delivered without a hole, whatever the
\* interleaving of drives, handlers, quiesce, resume and terminate (scheduleClosureCall and its
\* drainer, the firer's gate).
THEOREM StreamWithoutHoles == Spec => []InOrderDelivery
<1>1. Init => Types /\ OrderInv
  BY OrderInit
<1>2. Types /\ OrderInv /\ [Next]_vars => Types' /\ OrderInv'
  BY OrderStep
<1>3. OrderInv => InOrderDelivery
  BY DEF OrderInv
<1> QED
  BY <1>1, <1>2, <1>3, PTL DEF Spec

(***************************************************************************)
(* The registry of owners.                                                 *)
(***************************************************************************)
\* What a sequence of calls is still to begin: of a concatenation, a rest, a suffix.
LEMMA NamedOfConcat ==
  ASSUME NEW s \in Seq(Items), NEW t \in Seq(Items)
  PROVE  /\ Named(s \o t) = Named(s) \cup Named(t)
         /\ DistinctBegins(s) /\ DistinctBegins(t) /\ Named(s) \cap Named(t) = {}
              => DistinctBegins(s \o t)
<1> DEFINE u == s \o t
<1>1. ToSet(u) = ToSet(s) \cup ToSet(t)
  BY ConcatElements
<1>2. Named(u) = Named(s) \cup Named(t)
  BY <1>1 DEF Named
<1>3. ASSUME DistinctBegins(s), DistinctBegins(t), Named(s) \cap Named(t) = {}
      PROVE  DistinctBegins(u)
  <2>1. /\ Len(u) = Len(s) + Len(t) /\ Len(s) \in Nat /\ Len(t) \in Nat
        /\ \A i \in 1 .. Len(s) + Len(t) : u[i] = IF i <= Len(s) THEN s[i] ELSE t[i - Len(s)]
        /\ DOMAIN s = 1 .. Len(s) /\ DOMAIN t = 1 .. Len(t)
    BY ConcatProperties
  <2> HIDE DEF u
  <2>2. \A i \in 1 .. Len(u) : \/ i \in 1 .. Len(s) /\ u[i] = s[i]
                               \/ i - Len(s) \in 1 .. Len(t) /\ u[i] = t[i - Len(s)]
    BY <2>1
  <2>3. /\ \A i \in 1 .. Len(s) : Begins(s[i]) => s[i].id \in Named(s)
        /\ \A i \in 1 .. Len(t) : Begins(t[i]) => t[i].id \in Named(t)
    BY <2>1 DEF Named, ToSet
  <2> SUFFICES ASSUME NEW k \in 1 .. Len(u), NEW l \in 1 .. Len(u),
                      Begins(u[k]), Begins(u[l]), u[k].id = u[l].id
               PROVE  k = l
    BY DEF DistinctBegins
  <2>4. CASE k \in 1 .. Len(s) /\ u[k] = s[k] /\ l \in 1 .. Len(s) /\ u[l] = s[l]
    BY <1>3, <2>4 DEF DistinctBegins
  <2>5. CASE /\ k - Len(s) \in 1 .. Len(t) /\ u[k] = t[k - Len(s)]
             /\ l - Len(s) \in 1 .. Len(t) /\ u[l] = t[l - Len(s)]
    <3>1. k - Len(s) = l - Len(s)
      BY <1>3, <2>5 DEF DistinctBegins
    <3> QED
      BY <2>1, <3>1
  <2>6. CASE k \in 1 .. Len(s) /\ u[k] = s[k] /\ l - Len(s) \in 1 .. Len(t) /\ u[l] = t[l - Len(s)]
    BY <1>3, <2>3, <2>6
  <2>7. CASE l \in 1 .. Len(s) /\ u[l] = s[l] /\ k - Len(s) \in 1 .. Len(t) /\ u[k] = t[k - Len(s)]
    BY <1>3, <2>3, <2>7
  <2> QED
    BY <2>2, <2>4, <2>5, <2>6, <2>7
<1> QED
  BY <1>2, <1>3

\* The last calls of a stack begin no more than the stack.
LEMMA NamedOfSuffix ==
  ASSUME NEW s \in Seq(Items), NEW k \in Nat
  PROVE  LET t == SubSeq(s, k + 1, Len(s))
         IN /\ Named(t) \subseteq Named(s)
            /\ DistinctBegins(s) => DistinctBegins(t)
<1> DEFINE t == SubSeq(s, k + 1, Len(s))
<1>0. /\ t \in Seq(Items) /\ ToSet(t) \subseteq ToSet(s)
      /\ \A i \in 1 .. Len(t) : i + k \in 1 .. Len(s) /\ t[i] = s[i + k]
  BY SuffixElements
<1> HIDE DEF t
<1>1. /\ t \in Seq(Items) /\ ToSet(t) \subseteq ToSet(s) /\ Len(t) \in Nat
      /\ \A i \in 1 .. Len(t) : i + k \in 1 .. Len(s) /\ t[i] = s[i + k]
  BY <1>0
<1>2. Named(t) \subseteq Named(s)
  BY <1>1 DEF Named
<1>3. ASSUME DistinctBegins(s) PROVE DistinctBegins(t)
  <2> SUFFICES ASSUME NEW i \in 1 .. Len(t), NEW j \in 1 .. Len(t),
                      Begins(t[i]), Begins(t[j]), t[i].id = t[j].id
               PROVE  i = j
    BY DEF DistinctBegins
  <2>1. i + k = j + k
    BY <1>1, <1>3 DEF DistinctBegins
  <2> QED
    BY <1>1, <2>1
<1> QED
  BY <1>2, <1>3 DEF t

\* A stack begins what its first call and the others begin.
LEMMA NamedOfTail ==
  ASSUME NEW s \in Seq(Items), s # <<>>
  PROVE  /\ Named(Tail(s)) \subseteq Named(s)
         /\ Begins(Head(s)) => Head(s).id \in Named(s)
         /\ DistinctBegins(s) =>
              /\ DistinctBegins(Tail(s))
              /\ Begins(Head(s)) => Head(s).id \notin Named(Tail(s))
<1> DEFINE t == Tail(s)
<1>1. /\ t \in Seq(Items) /\ Head(s) = s[1] /\ Len(s) \in Nat /\ Len(s) >= 1 /\ Len(t) = Len(s) - 1
      /\ \A i \in 1 .. Len(s) - 1 : t[i] = s[i + 1]
      /\ ToSet(s) = {Head(s)} \cup ToSet(t)
  BY TailElements
<1> HIDE DEF t
<1>2. Named(t) \subseteq Named(s) /\ (Begins(Head(s)) => Head(s).id \in Named(s))
  BY <1>1 DEF Named
<1>3. ASSUME DistinctBegins(s) PROVE DistinctBegins(t)
  <2> SUFFICES ASSUME NEW i \in 1 .. Len(t), NEW j \in 1 .. Len(t),
                      Begins(t[i]), Begins(t[j]), t[i].id = t[j].id
               PROVE  i = j
    BY DEF DistinctBegins
  <2>1. i + 1 \in 1 .. Len(s) /\ j + 1 \in 1 .. Len(s) /\ t[i] = s[i + 1] /\ t[j] = s[j + 1]
    BY <1>1
  <2>2. i + 1 = j + 1
    BY <1>3, <2>1 DEF DistinctBegins
  <2> QED
    BY <1>1, <2>2
<1>4. ASSUME DistinctBegins(s), Begins(Head(s)), Head(s).id \in Named(t) PROVE FALSE
  <2>0. DOMAIN t = 1 .. Len(t)
    BY <1>1
  <2>1. PICK i \in 1 .. Len(t) : Begins(t[i]) /\ t[i].id = Head(s).id
    BY <1>4, <2>0 DEF Named, ToSet
  <2>2. i + 1 \in 1 .. Len(s) /\ 1 \in 1 .. Len(s) /\ t[i] = s[i + 1] /\ Head(s) = s[1]
    BY <1>1
  <2>3. i + 1 = 1
    BY <1>4, <2>1, <2>2 DEF DistinctBegins
  <2> QED
    BY <1>1, <2>3
<1> QED
  BY <1>2, <1>3, <1>4 DEF t

\* Calls that begin nothing.
LEMMA NothingNamed ==
  ASSUME NEW calls, \A k \in DOMAIN calls : ~Begins(calls[k]), 
         NEW n \in Nat, DOMAIN calls = 1 .. n, Len(calls) = n
  PROVE  Named(calls) = {} /\ DistinctBegins(calls)
BY DEF Named, DistinctBegins, ToSet

\* What one or two calls begin.
LEMMA PlainCalls ==
  /\ Named(<<>>) = {} /\ DistinctBegins(<<>>)
  /\ \A x : ~Begins(x) => Named(<<x>>) = {} /\ DistinctBegins(<<x>>)
  /\ \A x, y : ~Begins(x) /\ ~Begins(y) => Named(<<x, y>>) = {} /\ DistinctBegins(<<x, y>>)
  /\ \A x : Begins(x) => Named(<<x>>) = {x.id} /\ DistinctBegins(<<x>>)
<1>1. Named(<<>>) = {} /\ DistinctBegins(<<>>)
  BY ShortElements DEF Named, DistinctBegins
<1>2. ASSUME NEW x PROVE DistinctBegins(<<x>>) /\ (~Begins(x) => Named(<<x>>) = {})
                         /\ (Begins(x) => Named(<<x>>) = {x.id})
  <2>1. Len(<<x>>) = 1
    OBVIOUS
  <2>2. \A k, l \in 1 .. 1 : k = l
    OBVIOUS
  <2> QED
    BY <2>1, <2>2, ShortElements DEF Named, DistinctBegins
<1>3. ASSUME NEW x, NEW y, ~Begins(x), ~Begins(y)
      PROVE  Named(<<x, y>>) = {} /\ DistinctBegins(<<x, y>>)
  <2>1. Named(<<x, y>>) = {}
    BY <1>3, ShortElements DEF Named
  <2>2. Len(<<x, y>>) = 2 /\ <<x, y>>[1] = x /\ <<x, y>>[2] = y
    OBVIOUS
  <2>3. \A k \in 1 .. 2 : k = 1 \/ k = 2
    OBVIOUS
  <2>4. DistinctBegins(<<x, y>>)
    BY <1>3, <2>2, <2>3 DEF DistinctBegins
  <2> QED
    BY <2>1, <2>4
<1> QED
  BY <1>1, <1>2, <1>3

\* A stack that begins what `rest` begins, or less.
Within(calls, rest) == Named(calls) \subseteq Named(rest) /\ (DistinctBegins(rest) => DistinctBegins(calls))

\* Calls that begin nothing may be made on any stack.
LEMMA WithinPlain ==
  ASSUME NEW calls \in Seq(Items), NEW rest \in Seq(Items), NEW whole,
         Named(calls) = {}, DistinctBegins(calls), Within(rest, whole)
  PROVE  Within(calls \o rest, whole)
BY NamedOfConcat DEF Within

\* A returned call leaves a stack that begins no more.
LEMMA WithinTail ==
  ASSUME Types, stack # <<>>
  PROVE  Within(Tail(stack), stack) /\ Tail(stack) \in Seq(Items) /\ stack \in Seq(Items)
<1>1. stack \in Seq(Items)
  BY DEF Types, StackTypes, StackOfItems
<1> QED
  BY <1>1, NamedOfTail, TailElements DEF Within

\* A throw leaves calls unmade; it makes none.
LEMMA WithinThrow ==
  ASSUME Types, stack # <<>>, Throw(Tail(stack))
  PROVE  Within(stack', Tail(stack))
<1>1. StackOfItems(Tail(stack)) /\ Tail(stack) \in Seq(Items)
  BY StackPopped DEF Types, StackTypes, StackOfItems
<1>2. CASE stack' = <<>>
  BY <1>2, PlainCalls DEF Within
<1>3. ASSUME NEW k \in 1 .. Len(Tail(stack)), stack' = SubSeq(Tail(stack), k + 1, Len(Tail(stack)))
      PROVE  Within(stack', Tail(stack))
  <2>1. k \in Nat
    OBVIOUS
  <2> QED
    BY <1>1, <1>3, <2>1, NamedOfSuffix DEF Within
<1> QED
  BY <1>1, <1>2, <1>3, ThrowGoes

\* A stack begins what it begins.
LEMMA WithinItself == \A calls : Within(calls, calls)
BY DEF Within

\* A step that registers nobody, frees no owner's context and begins no more than before.
LEMMA RegistryKept ==
  ASSUME RegistryInv, Within(stack', stack), DrivesNotOwned', NamesOfThePast',
         UNCHANGED <<deferredInvokes, inv, slotOf, genOf, waiter>>,
         \A s \in Slots : waiter[s] # None => exec'[s] # "free" /\ generation'[s] = generation[s]
  PROVE  RegistryInv'
<1>1. BeginsOnce'
  BY DEF RegistryInv, BeginsOnce, Within
<1>2. StillToBegin'
  BY DEF RegistryInv, StillToBegin, Within, NoContext
<1>3. OwnerRegistry'
  BY DEF RegistryInv, OwnerRegistry, OwnsSlot
<1> QED
  BY <1>1, <1>2, <1>3 DEF RegistryInv

\* No context of now or before gets an owner.
OwnedKept == \A s \in Slots : \A g \in Nat : g <= generation[s] /\ Owned(s, g)' => Owned(s, g)
Later == \A s \in Slots : generation[s] <= generation'[s]

\* Drives stay unowned, and names of the past, while no drive starts and owners only go.
LEMMA DrivesKept ==
  ASSUME Types, Types', RegistryInv, OwnedKept, Later, UNCHANGED <<driving, by>>, jobs' \subseteq jobs
  PROVE  DrivesNotOwned' /\ NamesOfThePast'
<1>1. \A s \in Slots : driving[s] \in Nat /\ generation[s] \in Nat /\ generation'[s] \in Nat
  BY DEF Types, ContextTypes, DriveTypes
<1>2. \A j \in jobs : j.slot \in Slots /\ j.gen \in Nat
  BY DEF Types, DriveTypes, Jobs
<1>3. DrivesNotOwned'
  <2>1. \A s \in Slots : by'[s][1] \in {"background", "closure"} => ~Owned(s, driving[s])'
    BY <1>1 DEF RegistryInv, DrivesNotOwned, NamesOfThePast, OwnedKept
  <2>2. \A j \in jobs' : j.by[1] \in {"background", "closure"} => ~Owned(j.slot, j.gen)'
    BY <1>2 DEF RegistryInv, DrivesNotOwned, NamesOfThePast, OwnedKept
  <2> QED
    BY <2>1, <2>2 DEF DrivesNotOwned, Owned
<1>4. NamesOfThePast'
  BY <1>1, <1>2 DEF RegistryInv, NamesOfThePast, Later
<1> QED
  BY <1>3, <1>4

\* A drive that starts on nobody's behalf, for no owner's context, keeps them so.
LEMMA DriveRegistered ==
  ASSUME Types, Types', RegistryInv, OwnedKept, Later,
         NEW s \in Slots, NEW g \in Nat, NEW who, NEW rest, DriveSlot(s, g, who, rest),
         g <= generation'[s], who[1] \in {"background", "closure"} => ~Owned(s, g)'
  PROVE  DrivesNotOwned' /\ NamesOfThePast'
<1>1. \A t \in Slots : driving[t] \in Nat /\ generation[t] \in Nat /\ generation'[t] \in Nat
  BY DEF Types, ContextTypes, DriveTypes
<1>2. \A j \in jobs : j.slot \in Slots /\ j.gen \in Nat
  BY DEF Types, DriveTypes, Jobs
<1>3. CASE quiesced
  <2> DEFINE e == [by |-> who, slot |-> s, gen |-> g, result |-> "quiesced"]
  <2>1. UNCHANGED <<driving, by>> /\ jobs' = jobs \cup Continuation(who, s, g, "quiesced")
    BY <1>3 DEF DriveSlot
  <2>2. Continuation(who, s, g, "quiesced") \subseteq {e}
    BY DEF Continuation
  <2>3. e.by = who /\ e.slot = s /\ e.gen = g
    OBVIOUS
  <2> HIDE DEF e
  <2>4. DrivesNotOwned'
    <3>1. \A t \in Slots : by'[t][1] \in {"background", "closure"} => ~Owned(t, driving[t])'
      BY <1>1, <2>1 DEF RegistryInv, DrivesNotOwned, NamesOfThePast, OwnedKept
    <3>2. \A j \in jobs : j.by[1] \in {"background", "closure"} => ~Owned(j.slot, j.gen)'
      BY <1>2 DEF RegistryInv, DrivesNotOwned, NamesOfThePast, OwnedKept
    <3>3. e.by[1] \in {"background", "closure"} => ~Owned(e.slot, e.gen)'
      BY <2>3 DEF Owned
    <3> QED
      BY <2>1, <2>2, <3>1, <3>2, <3>3 DEF DrivesNotOwned, Owned
  <2>5. NamesOfThePast'
    BY <1>1, <1>2, <2>1, <2>2, <2>3 DEF RegistryInv, NamesOfThePast, Later
  <2> QED
    BY <2>4, <2>5
<1>4. CASE ~quiesced
  <2>1. driving' = [driving EXCEPT ![s] = g] /\ by' = [by EXCEPT ![s] = who] /\ jobs' = jobs
    BY <1>4 DEF DriveSlot
  <2>2. \A t \in Slots : t # s => driving'[t] = driving[t] /\ by'[t] = by[t]
    BY <2>1 DEF Types, DriveTypes
  <2>3. driving'[s] = g /\ by'[s] = who
    BY <2>1 DEF Types, DriveTypes
  <2>4. DrivesNotOwned'
    <3>1. \A t \in Slots : by'[t][1] \in {"background", "closure"} => ~Owned(t, driving[t])'
      <4> TAKE t \in Slots
      <4>1. CASE t = s
        BY <2>3, <4>1 DEF Owned
      <4>2. CASE t # s
        BY <1>1, <2>2, <4>2 DEF RegistryInv, DrivesNotOwned, NamesOfThePast, OwnedKept, Owned
      <4> QED
        BY <4>1, <4>2
    <3>2. \A j \in jobs : j.by[1] \in {"background", "closure"} => ~Owned(j.slot, j.gen)'
      BY <1>2 DEF RegistryInv, DrivesNotOwned, NamesOfThePast, OwnedKept
    <3> QED
      BY <2>1, <3>1, <3>2 DEF DrivesNotOwned, Owned
  <2>5. NamesOfThePast'
    <3>1. \A t \in Slots : driving'[t] <= generation'[t]
      BY <1>1, <2>2, <2>3 DEF RegistryInv, NamesOfThePast, Later
    <3>2. \A j \in jobs' : j.gen <= generation'[j.slot]
      BY <1>1, <1>2, <2>1 DEF RegistryInv, NamesOfThePast, Later
    <3> QED
      BY <3>1, <3>2 DEF NamesOfThePast
  <2> QED
    BY <2>4, <2>5
<1> QED
  BY <1>3, <1>4

\* A step that leaves the registry and the generations alone brings no owner.
LEMMA NobodyNew ==
  ASSUME Types, UNCHANGED <<genOf, waiter, generation>>
  PROVE  OwnedKept /\ Later
BY DEF OwnedKept, Owned, Later, Types, ContextTypes

\* A slot's next generation: the slot was free, so nobody owns what it held.
LEMMA FreshContext ==
  ASSUME Types, RegistryInv, CanAllocate, generation' = [generation EXCEPT ![NextSlot] = @ + 1]
  PROVE  /\ NextSlot \in Slots /\ exec[NextSlot] = "free" /\ waiter[NextSlot] = None
         /\ NextGeneration \in Nat /\ generation'[NextSlot] = NextGeneration
         /\ generation[NextSlot] < NextGeneration
         /\ \A s \in Slots : s # NextSlot => generation'[s] = generation[s]
         /\ Later
<1>1. NextSlot \in Slots /\ exec[NextSlot] = "free"
  BY NextSlotIsFree DEF CanAllocate
<1> DEFINE n == NextSlot
<1> HIDE DEF n
<1>2. n \in Slots /\ exec[n] = "free" /\ generation' = [generation EXCEPT ![n] = @ + 1]
      /\ NextGeneration = generation[n] + 1
  BY <1>1 DEF n, NextGeneration
<1>3. waiter[n] = None
  BY <1>2 DEF RegistryInv, OwnerRegistry
<1>4. \A s \in Slots : generation[s] \in Nat
  BY DEF Types, ContextTypes
<1>5. generation'[n] = generation[n] + 1 /\ \A s \in Slots : s # n => generation'[s] = generation[s]
  BY <1>2 DEF Types, ContextTypes
<1>6. Later
  BY <1>2, <1>4, <1>5 DEF Later
<1> QED
  BY <1>2, <1>3, <1>4, <1>5, <1>6 DEF n

\* Runs of contexts keep the registry.
LEMMA RegistryOfRuns ==
  ASSUME Types, Types', RegistryInv, NEW s \in Slots,
         \/ RunEnds(s) \/ RunParks(s) \/ RunPauses(s) \/ RunCompletes(s)
         \/ RunReturns(s) \/ RunStrays(s) \/ LoopTerminated(s)
         \/ DriveThen(s) \/ HookResolves(s)
  PROVE  RegistryInv'
<1>1. UNCHANGED <<by, driving, jobs, deferredInvokes, inv, slotOf, genOf, waiter, generation>>
  BY DEF RunEnds, RunParks, RunPauses, RunCompletes, RunReturns, RunStrays,
     LoopTerminated, DriveThen, HookResolves, context, invokes
<1>2. \A t \in Slots : exec[t] # "free" => exec'[t] # "free"
  <2>1. CASE RunEnds(s)
    BY <2>1 DEF RunEnds, Types, ContextTypes
  <2>2. CASE RunParks(s) \/ RunPauses(s)
    BY <2>2 DEF RunParks, RunPauses, Types, ContextTypes
  <2>3. CASE RunCompletes(s)
    BY <2>3 DEF RunCompletes, Types, ContextTypes
  <2>4. CASE RunReturns(s) \/ RunStrays(s) \/ LoopTerminated(s) \/ DriveThen(s) \/ HookResolves(s)
    BY <2>4 DEF RunReturns, RunStrays, LoopTerminated, DriveThen, HookResolves, context
  <2> QED
    BY <2>1, <2>2, <2>3, <2>4
<1>3. Within(stack', stack)
  <2>0. /\ \A g, r : ~Begins(Item("return", s, g, r)) /\ ~Begins(Item("loop", s, g, r))
        /\ \A t, g : ~Begins(Wake(t, g)) /\ ~Begins(Drain)
    BY DEF Begins, Item, Wake, Drain
  <2>1. ASSUME NEW r \in Results, LoopReturn(s, r), stack # <<>> PROVE Within(stack', stack)
    BY <2>1, WithinTail DEF LoopReturn
  <2>2. CASE DriveThen(s)
    BY <2>2, WithinItself DEF DriveThen
  <2>3. CASE HookResolves(s)
    <3>1. stack' = stack \/ stack' = <<Item("loop", s, driving[s], None)>>
      BY <2>3 DEF HookResolves
    <3> QED
      BY <2>0, <3>1, WithinItself, PlainCalls DEF Within
  <2>4. CASE RunPauses(s)
    <3>1. stack # <<>> /\ (stack' = stack \/ stack' = Tail(stack))
      BY <2>4 DEF RunPauses, Run, Calling, LoopReturn
    <3> QED
      BY <3>1, WithinTail, WithinItself
  <2>5. CASE RunParks(s) \/ RunReturns(s) \/ RunStrays(s) \/ LoopTerminated(s)
    <3>1. stack # <<>> /\ stack' = Tail(stack)
      BY <2>5 DEF RunParks, RunReturns, RunStrays, LoopTerminated, Run, Calling, LoopReturn
    <3> QED
      BY <3>1, WithinTail
  <2>6. ASSUME NEW calls, StackOfItems(calls), Named(calls) = {}, DistinctBegins(calls),
               NEW r \in Results, ReturnAfter(calls, s, r), stack # <<>>
        PROVE  Within(stack', stack)
    <3> DEFINE ret == <<Item("return", s, Top.gen, r)>>
    <3>0. Top.gen \in Nat
      BY <2>6, StackPopped DEF Types, StackTypes, Top
    <3>1. Item("return", s, Top.gen, r) \in Items
      BY <3>0, ItemsTyped DEF Ops
    <3>2. ret \in Seq(Items) /\ Named(ret) = {} /\ DistinctBegins(ret) /\ calls \in Seq(Items)
      BY <2>0, <2>6, <3>1, PlainCalls DEF StackOfItems
    <3>3. stack' = calls \o ret \o Tail(stack)
      BY <2>6 DEF ReturnAfter
    <3> HIDE DEF ret
    <3>4. /\ calls \o ret \in Seq(Items) /\ Named(calls \o ret) = {} /\ DistinctBegins(calls \o ret)
      BY <2>6, <3>2, ConcatElements, NamedOfConcat
    <3> QED
      BY <2>6, <3>3, <3>4, WithinTail, WithinPlain
  <2>7. CASE RunEnds(s)
    <3>1. PICK r \in {"done", "error"} : ReturnAfter(<<Drain>>, s, r)
      BY <2>7 DEF RunEnds
    <3>2. StackOfItems(<<Drain>>)
      BY ItemsTyped, RootIsSlot, StackOfOne DEF Drain, Ops
    <3>3. stack # <<>>
      BY <2>7 DEF RunEnds, Run, Calling
    <3> QED
      BY <2>0, <2>6, <3>1, <3>2, <3>3, PlainCalls DEF Results
  <2>8. CASE RunCompletes(s)
    <3>1. PICK id \in promises : ReturnAfter(<<Wake(id.slot, id.gen), Drain>>, s, "done")
      BY <2>8 DEF RunCompletes
    <3>2. id.slot \in Slots /\ id.gen \in Nat
      BY DEF Types, ContextTypes, Identities
    <3>3. StackOfItems(<<Wake(id.slot, id.gen), Drain>>)
      BY <3>2, ItemsTyped, RootIsSlot, StackOfTwo DEF Drain, Wake, Ops
    <3>4. stack # <<>>
      BY <2>8 DEF RunCompletes, Run, Calling
    <3> QED
      BY <2>0, <2>6, <3>1, <3>3, <3>4, PlainCalls DEF Results
  <2> QED
    BY <2>2, <2>3, <2>4, <2>5, <2>7, <2>8
<1>4. DrivesNotOwned' /\ NamesOfThePast'
  BY <1>1, NobodyNew, DrivesKept
<1> QED
  BY <1>1, <1>2, <1>3, <1>4, RegistryKept DEF RegistryInv, OwnerRegistry

\* So do the steps that touch neither owners nor drives.
LEMMA RegistryOfRest ==
  ASSUME Types, Types', RegistryInv,
         \/ TrackDrive \/ FinallyRest \/ DrainSpawned \/ Settle \/ Quiesce \/ Resume
         \/ ResumeRedispatches \/ (\E c \in Calls : Schedule(c)) \/ KickClosureDrainer
         \/ DrainerNext \/ UNCHANGED vars
  PROVE  RegistryInv'
<1>1. UNCHANGED <<by, driving, jobs, deferredInvokes, inv, slotOf, genOf, waiter, generation>>
  <2>1. CASE TrackDrive \/ FinallyRest \/ DrainSpawned \/ Settle \/ Quiesce \/ Resume
    BY <2>1 DEF TrackDrive, FinallyRest, DrainSpawned, Settle, Quiesce, Resume, context, drives, invokes
  <2>2. CASE ResumeRedispatches
    BY <2>2 DEF ResumeRedispatches, context, drives, invokes
  <2>3. CASE (\E c \in Calls : Schedule(c)) \/ KickClosureDrainer \/ DrainerNext
    BY <2>3 DEF Schedule, KickClosureDrainer, DrainerNext, context, drives, invokes
  <2>4. CASE UNCHANGED vars
    BY <2>4 DEF vars, context, drives, invokes
  <2> QED
    BY <2>1, <2>2, <2>3, <2>4
<1>2. \A t \in Slots : exec[t] # "free" => exec'[t] # "free"
  <2>1. CASE Settle
    BY <2>1 DEF Settle, Types, ContextTypes
  <2>2. CASE TrackDrive \/ FinallyRest \/ DrainSpawned \/ Quiesce \/ Resume
    BY <2>2 DEF TrackDrive, FinallyRest, DrainSpawned, Quiesce, Resume, context
  <2>3. CASE ResumeRedispatches
    BY <2>3 DEF ResumeRedispatches, context
  <2>4. CASE (\E c \in Calls : Schedule(c)) \/ KickClosureDrainer \/ DrainerNext
    BY <2>4 DEF Schedule, KickClosureDrainer, DrainerNext, context
  <2>5. CASE UNCHANGED vars
    BY <2>5 DEF vars, context
  <2> QED
    BY <2>1, <2>2, <2>3, <2>4, <2>5
<1>3. Within(stack', stack)
  <2>0. stack \in Seq(Items)
    BY DEF Types, StackTypes, StackOfItems
  <2>1. CASE stack' = stack
    BY <2>1, WithinItself
  <2>2. CASE stack # <<>> /\ stack' = Tail(stack)
    BY <2>2, WithinTail
  <2>3. CASE Settle
    <3>1. ~Begins(Drain)
      BY DEF Drain, Item, Begins
    <3>2. stack' = stack \/ stack' = <<Drain>>
      BY <2>3 DEF Settle
    <3> QED
      BY <3>1, <3>2, PlainCalls, WithinItself DEF Within
  <2>4. CASE DrainSpawned
    <3> DEFINE calls == [k \in DOMAIN spawned |-> Wake(spawned[k].slot, spawned[k].gen)]
    <3>1. stack # <<>> /\ (stack' = Tail(stack) \/ stack' = calls \o Tail(stack))
      BY <2>4 DEF DrainSpawned, Calling
    <3>2. Len(spawned) \in Nat /\ DOMAIN spawned = 1 .. Len(spawned)
          /\ \A k \in 1 .. Len(spawned) : spawned[k] \in Identities
      BY DEF Types, ContextTypes
    <3>3. \A k \in 1 .. Len(spawned) :
            /\ Wake(spawned[k].slot, spawned[k].gen) \in Items
            /\ ~Begins(Wake(spawned[k].slot, spawned[k].gen))
      BY <3>2, ItemsTyped DEF Wake, Ops, Identities, Begins, Item
    <3>4. calls \in [1 .. Len(spawned) -> Items] /\ \A k \in 1 .. Len(spawned) : ~Begins(calls[k])
      BY <3>2, <3>3
    <3> HIDE DEF calls
    <3>5. calls \in Seq(Items) /\ DOMAIN calls = 1 .. Len(spawned) /\ Len(calls) = Len(spawned)
      BY <3>2, <3>4, SeqDef
    <3>6. Named(calls) = {} /\ DistinctBegins(calls)
      BY <3>2, <3>4, <3>5, NothingNamed
    <3> QED
      BY <3>1, <3>5, <3>6, WithinTail, WithinPlain
  <2>5. CASE Resume
    <3> DEFINE calls == [k \in DOMAIN deferredCancels |-> Item("cancel", Root, 0, deferredCancels[k])]
               then == <<Item("redispatch", Root, 0, None)>>
    <3>1. stack' = calls \o then \o stack
      BY <2>5 DEF Resume
    <3>2. Len(deferredCancels) \in Nat /\ DOMAIN deferredCancels = 1 .. Len(deferredCancels)
      BY DEF Types, InvokeTypes
    <3>3. calls \in Seq(Items)
      BY CallsFor DEF Types, InvokeTypes, StackOfItems
    <3>4. \A k \in DOMAIN calls : ~Begins(calls[k])
      BY DEF Begins, Item
    <3>5. DOMAIN calls = 1 .. Len(deferredCancels)
      BY <3>2
    <3> HIDE DEF calls
    <3>6. Len(calls) = Len(deferredCancels)
      BY <3>2, <3>3, <3>5
    <3>7. Named(calls) = {} /\ DistinctBegins(calls)
      BY <3>2, <3>4, <3>5, <3>6, NothingNamed
    <3>8. then \in Seq(Items)
      BY Called DEF StackOfItems
    <3>9. Named(then) = {} /\ DistinctBegins(then)
      BY PlainCalls DEF Begins, Item
    <3> HIDE DEF then
    <3>10. calls \o then \in Seq(Items) /\ Named(calls \o then) = {} /\ DistinctBegins(calls \o then)
      BY <3>3, <3>7, <3>8, <3>9, ConcatElements, NamedOfConcat
    <3> QED
      BY <2>0, <3>1, <3>10, WithinItself, WithinPlain
  <2>6. CASE ResumeRedispatches
    <3> DEFINE H == {s \in Slots : deferredWakes[s] # 0}
               n == Cardinality(H)
               woken(order) == [k \in DOMAIN order |-> Wake(order[k], deferredWakes[order[k]])]
               then == <<Drain, Item("reinvoke", Root, 0, None)>>
    <3>0. stack # <<>>
      BY <2>6 DEF ResumeRedispatches, Calling
    <3>1. PICK order \in SetToSeqs(H) : stack' = woken(order) \o then \o Tail(stack)
      BY <2>6 DEF ResumeRedispatches
    <3>2. order \in [1 .. n -> H] /\ n \in Nat
      BY SlotsFinite, FS_Subset, FS_CardinalityType DEF SetToSeqs
    <3> DEFINE calls == woken(order)
    <3>3. \A k \in 1 .. n : order[k] \in Slots /\ deferredWakes[order[k]] \in Nat
      BY <3>2 DEF Types, ContextTypes
    <3>4. \A k \in 1 .. n : /\ Wake(order[k], deferredWakes[order[k]]) \in Items
                            /\ ~Begins(Wake(order[k], deferredWakes[order[k]]))
      BY <3>3, ItemsTyped DEF Wake, Ops, Begins, Item
    <3>5. calls \in [1 .. n -> Items] /\ \A k \in 1 .. n : ~Begins(calls[k])
      BY <3>2, <3>4
    <3>6. stack' = calls \o then \o Tail(stack)
      BY <3>1
    <3> HIDE DEF calls, n
    <3>7. calls \in Seq(Items) /\ DOMAIN calls = 1 .. n /\ Len(calls) = n
      BY <3>2, <3>5, SeqDef
    <3>8. Named(calls) = {} /\ DistinctBegins(calls)
      BY <3>2, <3>5, <3>7, NothingNamed
    <3>9. then \in Seq(Items)
      BY Called DEF StackOfItems
    <3>10. Named(then) = {} /\ DistinctBegins(then)
      BY PlainCalls DEF Begins, Item, Drain
    <3> HIDE DEF then
    <3>11. calls \o then \in Seq(Items) /\ Named(calls \o then) = {} /\ DistinctBegins(calls \o then)
      BY <3>7, <3>8, <3>9, <3>10, ConcatElements, NamedOfConcat
    <3> QED
      BY <3>0, <3>6, <3>11, WithinTail, WithinPlain
  <2>7. CASE \E c \in Calls : Schedule(c)
    <3>1. stack' = <<Item("kick", Root, 0, None)>> \o stack
      BY <2>7 DEF Schedule
    <3>2. <<Item("kick", Root, 0, None)>> \in Seq(Items)
      BY Called DEF StackOfItems
    <3>3. Named(<<Item("kick", Root, 0, None)>>) = {} /\ DistinctBegins(<<Item("kick", Root, 0, None)>>)
      BY PlainCalls DEF Begins, Item
    <3> QED
      BY <2>0, <3>1, <3>2, <3>3, WithinItself, WithinPlain
  <2>8. CASE TrackDrive \/ FinallyRest \/ KickClosureDrainer
    BY <2>2, <2>8 DEF TrackDrive, FinallyRest, KickClosureDrainer, Calling
  <2>9. CASE Quiesce \/ DrainerNext \/ UNCHANGED vars
    BY <2>1, <2>9 DEF Quiesce, DrainerNext, vars
  <2> QED
    BY <2>3, <2>4, <2>5, <2>6, <2>7, <2>8, <2>9
<1>4. DrivesNotOwned' /\ NamesOfThePast'
  BY <1>1, NobodyNew, DrivesKept
<1> QED
  BY <1>1, <1>2, <1>3, <1>4, RegistryKept DEF RegistryInv, OwnerRegistry

\* So does the birth of a child context: its slot had no owner.
LEMMA RegistryOfSpawn ==
  ASSUME Types, Types', RegistryInv, NEW s \in Slots, RunSpawns(s)
  PROVE  RegistryInv'
<1>1. /\ CanAllocate /\ generation' = [generation EXCEPT ![NextSlot] = @ + 1]
      /\ exec' = [exec EXCEPT ![NextSlot] = "ready"]
      /\ stack' = <<Wake(NextSlot, NextGeneration)>> \o stack
      /\ UNCHANGED <<by, driving, jobs, deferredInvokes, inv, slotOf, genOf, waiter>>
  BY DEF RunSpawns, drives, invokes
<1>2. /\ NextSlot \in Slots /\ waiter[NextSlot] = None /\ NextGeneration \in Nat /\ Later
      /\ \A t \in Slots : t # NextSlot => generation'[t] = generation[t]
  BY <1>1, FreshContext
<1>3. \A t \in Slots : waiter[t] # None => exec'[t] # "free" /\ generation'[t] = generation[t]
  BY <1>1, <1>2 DEF RegistryInv, OwnerRegistry, Types, ContextTypes
<1>4. Within(stack', stack)
  <2> DEFINE w == <<Wake(NextSlot, NextGeneration)>>
  <2>1. w \in Seq(Items) /\ Named(w) = {} /\ DistinctBegins(w)
    BY <1>2, PlainCalls, ItemsTyped, StackOfOne DEF Wake, Ops, Begins, Item, StackOfItems
  <2>2. stack \in Seq(Items) /\ stack' = w \o stack
    BY <1>1 DEF Types, StackTypes, StackOfItems
  <2> HIDE DEF w
  <2> QED
    BY <2>1, <2>2, WithinItself, WithinPlain
<1>5. OwnedKept
  BY <1>1 DEF OwnedKept, Owned
<1>6. DrivesNotOwned' /\ NamesOfThePast'
  BY <1>1, <1>2, <1>5, DrivesKept
<1> QED
  BY <1>1, <1>3, <1>4, <1>6, RegistryKept

\* A wake drives its slot for the slot's owner, if it has one: never for nobody.
LEMMA RegistryOfDrives ==
  ASSUME Types, Types', RegistryInv, NEW s \in Slots, NEW who, NEW rest \in Seq(Items), Within(rest, stack),
         DriveSlot(s, generation[s], who, rest),
         who[1] \in {"background", "closure"} => ~Owned(s, generation[s]),
         UNCHANGED <<context, deferredInvokes, inv, slotOf, genOf, waiter>>
  PROVE  RegistryInv'
<1>1. generation[s] \in Nat /\ generation[s] <= generation'[s] /\ UNCHANGED <<generation, exec>>
  BY DEF Types, ContextTypes, context
<1>2. OwnedKept /\ Later
  BY <1>1, NobodyNew
<1>3. who[1] \in {"background", "closure"} => ~Owned(s, generation[s])'
  BY <1>1 DEF Owned
<1>5. DrivesNotOwned' /\ NamesOfThePast'
  <2>1. PICK g \in Nat : g = generation[s]
    BY <1>1
  <2>2. g <= generation'[s] /\ g = generation'[s] /\ DriveSlot(s, g, who, rest)
    BY <1>1, <2>1
  <2>3. who[1] \in {"background", "closure"} => ~Owned(s, g)'
    BY <1>3, <2>2 DEF Owned
  <2> QED
    BY <1>2, <2>2, <2>3, DriveRegistered
<1>6. Within(stack', stack)
  <2>1. CASE quiesced
    BY <2>1 DEF DriveSlot
  <2>2. CASE ~quiesced
    <3> DEFINE pair == <<Item("loop", s, generation[s], None), Item("track", s, generation[s], None)>>
    <3>1. pair \in Seq(Items) /\ Named(pair) = {} /\ DistinctBegins(pair)
      <4>1. Item("loop", s, generation[s], None) \in Items /\ Item("track", s, generation[s], None) \in Items
        BY <1>1, ItemsTyped DEF Ops
      <4> QED
        BY <4>1, PlainCalls DEF Begins, Item
    <3>2. stack' = pair \o rest
      BY <2>2 DEF DriveSlot
    <3> HIDE DEF pair
    <3> QED
      BY <3>1, <3>2, WithinPlain
  <2> QED
    BY <2>1, <2>2
<1> QED
  BY <1>1, <1>5, <1>6, RegistryKept DEF RegistryInv, OwnerRegistry

\* So do the drives of wakes and of run(slot): they drive for the owner, if there is one.
LEMMA RegistryOfWakes ==
  ASSUME Types, Types', RegistryInv, DispatchWoken \/ \E s \in Slots : RunSlot(s)
  PROVE  RegistryInv'
<1>1. CASE DispatchWoken
  <2> DEFINE s == Top.slot
             g == Top.gen
  <2>1. stack # <<>> /\ s \in Slots /\ UNCHANGED <<context, invokes>>
    BY <1>1, StackPopped DEF DispatchWoken, Calling, Types, StackTypes, Top
  <2>2. Within(Tail(stack), stack) /\ Tail(stack) \in Seq(Items)
    BY <2>1, WithinTail
  <2>3. CASE stack' = Tail(stack) /\ UNCHANGED drives
    <3>1. DrivesNotOwned' /\ NamesOfThePast'
      BY <2>1, <2>3, NobodyNew, DrivesKept DEF context, invokes, drives
    <3> QED
      BY <2>1, <2>2, <2>3, <3>1, RegistryKept DEF context, invokes, RegistryInv, OwnerRegistry
  <2>4. CASE Live(s, g) /\ DriveSlot(s, g, WakeOwner(s, g), Tail(stack))
    <3>1. g = generation[s]
      BY <2>4 DEF Live
    <3>2. WakeOwner(s, g)[1] \in {"background", "closure"} => ~Owned(s, generation[s])
      BY <3>1 DEF WakeOwner, Owned
    <3>3. DriveSlot(s, generation[s], WakeOwner(s, g), Tail(stack))
      BY <2>4, <3>1
    <3> DEFINE who == WakeOwner(s, g)
    <3>4. DriveSlot(s, generation[s], who, Tail(stack))
          /\ (who[1] \in {"background", "closure"} => ~Owned(s, generation[s]))
      BY <3>2, <3>3
    <3> HIDE DEF who, s, g
    <3> QED
      BY <2>1, <2>2, <3>4, RegistryOfDrives DEF context, invokes
  <2>5. CASE Throw(Tail(stack)) /\ UNCHANGED <<driving, by, jobs>>
    <3>1. Within(stack', stack)
      BY <2>1, <2>2, <2>5, WithinThrow DEF Within
    <3>2. DrivesNotOwned' /\ NamesOfThePast'
      BY <2>1, <2>5, NobodyNew, DrivesKept DEF context, invokes
    <3> QED
      BY <2>1, <3>1, <3>2, RegistryKept DEF context, invokes, RegistryInv, OwnerRegistry
  <2> QED
    BY <1>1, <2>3, <2>4, <2>5 DEF DispatchWoken, drives
<1>2. ASSUME NEW s \in Slots, RunSlot(s) PROVE RegistryInv'
  <2> DEFINE who == IF waiter[s] # None THEN <<"invoke", waiter[s]>> ELSE <<"run", None>>
  <2>1. DriveSlot(s, generation[s], who, stack) /\ UNCHANGED <<context, invokes>>
    BY <1>2 DEF RunSlot
  <2>2. who[1] \notin {"background", "closure"}
    OBVIOUS
  <2> HIDE DEF who
  <2>3. stack \in Seq(Items)
    BY DEF Types, StackTypes, StackOfItems
  <2> QED
    BY <2>1, <2>2, <2>3, RegistryOfDrives, WithinItself DEF context, invokes
<1> QED
  BY <1>1, <1>2

\* The end of a drive hands what it was to its continuation.
LEMMA RegistryOfFinally ==
  ASSUME Types, Types', RegistryInv, NEW s \in Slots, DriveFinally(s)
  PROVE  RegistryInv'
<1>1. /\ driving' = [driving EXCEPT ![s] = 0] /\ by' = [by EXCEPT ![s] = <<"none", None>>]
      /\ jobs' = jobs \cup Continuation(by[s], s, driving[s], result[s])
      /\ UNCHANGED <<generation, exec, deferredInvokes, inv, slotOf, genOf, waiter>>
  BY DEF DriveFinally, context, invokes
<1>2. Within(stack', stack)
  <2>1. \A g : ~Begins(Wake(s, g)) /\ ~Begins(Item("finally", s, g, None))
    BY DEF Begins, Wake, Item
  <2>2. \/ stack' = <<>> \o <<Item("finally", s, driving[s], None)>>
        \/ stack' = <<Wake(s, driving[s])>> \o <<Item("finally", s, driving[s], None)>>
    BY DEF DriveFinally
  <2>3. \/ stack' = <<Item("finally", s, driving[s], None)>>
        \/ stack' = <<Wake(s, driving[s]), Item("finally", s, driving[s], None)>>
    BY <2>2
  <2> QED
    BY <2>1, <2>3, PlainCalls DEF Within
<1>3. DrivesNotOwned'
  <2>1. \A t \in Slots : by'[t][1] \in {"background", "closure"} => ~Owned(t, driving'[t])
    BY <1>1 DEF RegistryInv, DrivesNotOwned, Types, DriveTypes
  <2>2. \A j \in jobs' : j.by[1] \in {"background", "closure"} => ~Owned(j.slot, j.gen)
    BY <1>1 DEF RegistryInv, DrivesNotOwned, Continuation
  <2> QED
    BY <1>1, <2>1, <2>2 DEF DrivesNotOwned, Owned
<1>4. NamesOfThePast'
  <2>1. \A t \in Slots : driving'[t] <= generation'[t]
    BY <1>1 DEF RegistryInv, NamesOfThePast, Types, DriveTypes, ContextTypes
  <2>2. \A j \in jobs' : j.gen <= generation'[j.slot]
    BY <1>1 DEF RegistryInv, NamesOfThePast, Continuation
  <2> QED
    BY <2>1, <2>2 DEF NamesOfThePast
<1> QED
  BY <1>1, <1>2, <1>3, <1>4, RegistryKept DEF RegistryInv, OwnerRegistry

\* A step that settles owners' promises and takes them off the registry.
Shorter(list, whole) ==
  /\ ToSet(list) \subseteq ToSet(whole)
  /\ \A k, l \in 1 .. Len(list) : list[k] = list[l] => k = l

\* What a step must keep that settles invocations and takes their contexts away.
LEMMA RegistrySettled ==
  ASSUME Types, RegistryInv, Within(stack', stack), Shorter(deferredInvokes', deferredInvokes),
         DrivesNotOwned', NamesOfThePast', UNCHANGED <<slotOf, genOf>>,
         \A i \in Invocations : inv'[i] = inv[i] \/ inv'[i] \in Settled,
         \A i \in Invocations : inv'[i] = "live" => OwnsSlot(i)',
         \A s \in Slots : waiter'[s] = waiter[s] \/ waiter'[s] = None,
         \A s \in Slots : waiter'[s] # None => exec'[s] # "free" /\ generation'[s] = generation[s]
  PROVE  RegistryInv'
<1>0. ToSet(deferredInvokes) \subseteq Invocations /\ Named(stack) \subseteq Invocations
      /\ None \notin Invocations
  <2>1. \A k \in DOMAIN deferredInvokes : deferredInvokes[k] \in Invocations
    BY DEF Types, InvokeTypes
  <2> QED
    BY <2>1, SchedulerAssumption DEF Types, StackTypes, StackOfItems, Named, ItemTyped, Begins, ToSet
<1>1. BeginsOnce'
  BY DEF RegistryInv, BeginsOnce, Within, Shorter
<1>2. StillToBegin'
  <2>1. \A i \in Invocations : NoContext(i) => NoContext(i)'
    BY <1>0 DEF NoContext
  <2>2. ASSUME NEW i \in Named(stack') \cup ToSet(deferredInvokes')
        PROVE  inv'[i] \in Settled \cup {"starting", "deferred"} /\ NoContext(i)'
    <3>1. i \in Named(stack) \cup ToSet(deferredInvokes) /\ i \in Invocations
      BY <1>0, <2>2 DEF Within, Shorter
    <3>2. inv[i] \in Settled \cup {"starting", "deferred"} /\ NoContext(i)
      BY <3>1 DEF RegistryInv, StillToBegin
    <3> QED
      BY <2>1, <3>1, <3>2
  <2>3. ASSUME NEW i \in Invocations, inv'[i] = "none" PROVE NoContext(i)'
    <3>1. inv[i] = "none"
      BY <2>3 DEF Settled
    <3> QED
      BY <2>1, <3>1 DEF RegistryInv, StillToBegin
  <2> QED
    BY <2>2, <2>3 DEF StillToBegin
<1>3. OwnerRegistry'
  BY DEF RegistryInv, OwnerRegistry
<1> QED
  BY <1>1, <1>2, <1>3 DEF RegistryInv

\* The list of deferred invocations is no longer than itself.
LEMMA Deferred ==
  ASSUME RegistryInv, UNCHANGED deferredInvokes
  PROVE  Shorter(deferredInvokes', deferredInvokes)
BY DEF Shorter, RegistryInv, BeginsOnce

\* An outcome is an invocation's first, and nobody else's.
LEMMA OutcomeIs ==
  ASSUME Types, NEW i \in Invocations, NEW r
  PROVE  /\ \A j \in Invocations : j # i => Outcome(i, r)[j] = inv[j]
         /\ Outcome(i, r)[i] = IF inv[i] \in Settled THEN inv[i] ELSE r
BY DEF Types, InvokeTypes, Outcome

\* Fewer owners: nobody new.
LEMMA FewerOwners ==
  ASSUME Types, NEW n, n = None, UNCHANGED genOf,
         \A s \in Slots : waiter'[s] = waiter[s] \/ waiter'[s] = n
  PROVE  OwnedKept
BY DEF OwnedKept, Owned

\* An invocation that is called has no context; begun or deferred, it is named once.
LEMMA RegistryOfInvoke ==
  ASSUME Types, Types', RegistryInv, NEW i \in Invocations, Invoke(i)
  PROVE  RegistryInv'
<1>1. inv[i] = "none" /\ UNCHANGED <<generation, exec, by, driving, jobs, slotOf, genOf, waiter>>
  BY DEF Invoke, context, drives
<1>2. NoContext(i) /\ i \notin Named(stack) /\ i \notin ToSet(deferredInvokes)
  BY <1>1 DEF RegistryInv, StillToBegin, Settled
<1>3. DrivesNotOwned' /\ NamesOfThePast'
  BY <1>1, NobodyNew, DrivesKept
<1>4. PICK r \in {"terminated", "deferred", "starting"} : inv' = Outcome(i, r)
  BY DEF Invoke
<1>5. /\ \A j \in Invocations : j # i => inv'[j] = inv[j]
      /\ inv'[i] = r
  BY <1>1, <1>4, OutcomeIs DEF Settled
<1>6. OwnerRegistry'
  BY <1>1, <1>5 DEF RegistryInv, OwnerRegistry, OwnsSlot
<1>7. stack \in Seq(Items) /\ deferredInvokes \in Seq(Invocations)
  BY DEF Types, StackTypes, StackOfItems, InvokeTypes
<1>8. BeginsOnce' /\ Named(stack') \cup ToSet(deferredInvokes')
                     \subseteq Named(stack) \cup ToSet(deferredInvokes) \cup {i}
  <2>1. CASE UNCHANGED <<stack, deferredInvokes>>
    BY <2>1 DEF RegistryInv, BeginsOnce
  <2>2. CASE deferredInvokes' = Append(deferredInvokes, i) /\ UNCHANGED stack
    <3>1. /\ ToSet(deferredInvokes') = ToSet(deferredInvokes) \cup {i}
          /\ Len(deferredInvokes') = Len(deferredInvokes) + 1
          /\ \A k \in 1 .. Len(deferredInvokes) : deferredInvokes'[k] = deferredInvokes[k]
          /\ deferredInvokes'[Len(deferredInvokes) + 1] = i
      BY <1>7, <2>2, AppendElements
    <3>2. Len(deferredInvokes) \in Nat /\ DOMAIN deferredInvokes = 1 .. Len(deferredInvokes)
      BY <1>7
    <3>3. \A k \in 1 .. Len(deferredInvokes) : deferredInvokes[k] # i
      BY <1>2, <3>2 DEF ToSet
    <3>4. \A k \in 1 .. Len(deferredInvokes') : k \in 1 .. Len(deferredInvokes) \/ k = Len(deferredInvokes) + 1
      BY <3>1, <3>2
    <3>5. \A k, l \in 1 .. Len(deferredInvokes') : deferredInvokes'[k] = deferredInvokes'[l] => k = l
      BY <3>1, <3>3, <3>4 DEF RegistryInv, BeginsOnce
    <3> QED
      BY <1>2, <2>2, <3>1, <3>5 DEF RegistryInv, BeginsOnce
  <2>3. CASE stack' = <<Item("begin", Root, 0, i)>> \o stack /\ UNCHANGED deferredInvokes
    <3> DEFINE b == Item("begin", Root, 0, i)
    <3>1. b \in Items /\ Begins(b) /\ b.id = i
      BY ItemsTyped, RootIsSlot DEF Ops, Begins, Item
    <3> HIDE DEF b
    <3>2. Named(<<b>>) = {i} /\ DistinctBegins(<<b>>) /\ <<b>> \in Seq(Items)
      BY <3>1, PlainCalls
    <3>3. Named(<<b>> \o stack) = {i} \cup Named(stack) /\ DistinctBegins(<<b>> \o stack)
      BY <1>2, <1>7, <3>2, NamedOfConcat DEF RegistryInv, BeginsOnce
    <3> QED
      BY <1>2, <2>3, <3>3 DEF RegistryInv, BeginsOnce, b
  <2> QED
    BY <2>1, <2>2, <2>3 DEF Invoke
<1>9. StillToBegin'
  <2>1. \A j : NoContext(j)' <=> NoContext(j)
    BY <1>1 DEF NoContext
  <2>2. Named(stack) \cup ToSet(deferredInvokes) \subseteq Invocations
    <3>1. \A k \in DOMAIN deferredInvokes : deferredInvokes[k] \in Invocations
      BY <1>7
    <3> QED
      BY <3>1 DEF Types, StackTypes, StackOfItems, Named, ItemTyped, Begins, ToSet
  <2>3. r \in Settled \cup {"starting", "deferred"}
    BY DEF Settled
  <2>4. r # "none"
    OBVIOUS
  <2> QED
    BY <1>2, <1>5, <1>8, <2>1, <2>2, <2>3, <2>4 DEF RegistryInv, StillToBegin
<1> QED
  BY <1>3, <1>6, <1>8, <1>9 DEF RegistryInv

\* cancelContext settles the owner it takes out of the registry, and no other.
LEMMA Cancelled ==
  ASSUME Types, RegistryInv, NEW i \in Invocations, OwnsSlot(i), CancelContext(i),
         UNCHANGED <<slotOf, genOf, generation>>
  PROVE  /\ \A j \in Invocations : inv'[j] = inv[j] \/ inv'[j] \in Settled
         /\ \A j \in Invocations : inv'[j] = "live" => OwnsSlot(j)'
         /\ \A s \in Slots : waiter'[s] = waiter[s] \/ waiter'[s] = None
         /\ \A s \in Slots : waiter'[s] # None => exec'[s] # "free" /\ generation'[s] = generation[s]
<1>1. slotOf[i] \in Slots /\ waiter[slotOf[i]] = i
  BY DEF Types, InvokeTypes, OwnsSlot
<1>2. /\ waiter' = [waiter EXCEPT ![slotOf[i]] = None] /\ inv' = Outcome(i, "aborted")
      /\ \/ exec' = exec \/ exec' = [exec EXCEPT ![slotOf[i]] = "free"]
  BY DEF CancelContext
<1>3. \A s \in Slots : s # slotOf[i] => waiter'[s] = waiter[s] /\ exec'[s] = exec[s]
  BY <1>1, <1>2 DEF Types, ContextTypes, InvokeTypes
<1>4. waiter'[slotOf[i]] = None
  BY <1>1, <1>2 DEF Types, InvokeTypes
<1>5. /\ \A j \in Invocations : j # i => inv'[j] = inv[j]
      /\ inv'[i] \in Settled
  BY <1>2, OutcomeIs DEF Settled
<1>6. ASSUME NEW j \in Invocations, inv'[j] = "live" PROVE OwnsSlot(j)'
  <2>1. j # i /\ inv[j] = "live"
    BY <1>5, <1>6 DEF Settled
  <2>2. OwnsSlot(j) /\ slotOf[j] \in Slots /\ waiter[slotOf[j]] = j
    BY <2>1 DEF RegistryInv, OwnerRegistry, OwnsSlot, Types, InvokeTypes
  <2>3. slotOf[j] # slotOf[i]
    BY <1>1, <2>1, <2>2
  <2> QED
    BY <1>3, <2>2, <2>3 DEF OwnsSlot
<1> QED
  BY <1>3, <1>4, <1>5, <1>6 DEF RegistryInv, OwnerRegistry

\* The signal takes the owner out of the registry, or out of the deferred ones.
LEMMA RegistryOfAbort ==
  ASSUME Types, Types', RegistryInv, ResumeCancels \/ \E i \in Invocations : Abort(i)
  PROVE  RegistryInv'
<1>1. CASE ResumeCancels
  <2>1. /\ stack # <<>> /\ stack' = Tail(stack) /\ Top.op = "cancel"
        /\ UNCHANGED <<generation, by, driving, jobs, slotOf, genOf, deferredInvokes>>
    BY <1>1 DEF ResumeCancels, Calling, drives
  <2>2. Top.id \in Invocations
    BY <2>1, StackPopped DEF Types, StackTypes, Top, ItemTyped
  <2>3. Within(stack', stack)
    BY <2>1, WithinTail
  <2>4. CASE OwnsSlot(Top.id) /\ CancelContext(Top.id)
    <3>1. /\ \A j \in Invocations : inv'[j] = inv[j] \/ inv'[j] \in Settled
          /\ \A j \in Invocations : inv'[j] = "live" => OwnsSlot(j)'
          /\ \A s \in Slots : waiter'[s] = waiter[s] \/ waiter'[s] = None
          /\ \A s \in Slots : waiter'[s] # None => exec'[s] # "free" /\ generation'[s] = generation[s]
      BY <2>1, <2>2, <2>4, Cancelled
    <3>2. OwnedKept /\ Later
      BY <2>1, <3>1, FewerOwners DEF Later, Types, ContextTypes
    <3>3. DrivesNotOwned' /\ NamesOfThePast'
      BY <2>1, <3>2, DrivesKept
    <3> QED
      BY <2>1, <2>3, <3>1, <3>3, Deferred, RegistrySettled
  <2>5. CASE UNCHANGED <<exec, waiter, inv>>
    <3>1. DrivesNotOwned' /\ NamesOfThePast'
      BY <2>1, <2>5, NobodyNew, DrivesKept
    <3> QED
      BY <2>1, <2>3, <2>5, <3>1, RegistryKept DEF RegistryInv, OwnerRegistry
  <2> QED
    BY <1>1, <2>4, <2>5 DEF ResumeCancels
<1>2. ASSUME NEW i \in Invocations, Abort(i) PROVE RegistryInv'
  <2>1. UNCHANGED <<stack, generation, by, driving, jobs, slotOf, genOf>>
    BY <1>2 DEF Abort, drives
  <2>2. Within(stack', stack)
    BY <2>1, WithinItself
  <2>3. CASE /\ UNCHANGED <<exec, waiter>> /\ inv' = Outcome(i, "aborted")
             /\ UNCHANGED deferredInvokes
                \/ \E k \in DOMAIN deferredInvokes : deferredInvokes' = RemoveAt(deferredInvokes, k)
    <3>1. DrivesNotOwned' /\ NamesOfThePast'
      BY <2>1, <2>3, NobodyNew, DrivesKept
    <3>2. deferredInvokes \in Seq(Invocations) /\ DOMAIN deferredInvokes = 1 .. Len(deferredInvokes)
          /\ Len(deferredInvokes) \in Nat
      BY DEF Types, InvokeTypes
    <3>3. ASSUME NEW k \in 1 .. Len(deferredInvokes), deferredInvokes' = RemoveAt(deferredInvokes, k)
          PROVE  Shorter(deferredInvokes', deferredInvokes)
      <4>1. /\ Len(deferredInvokes') = Len(deferredInvokes) - 1
            /\ \A m \in 1 .. Len(deferredInvokes) - 1 :
                 deferredInvokes'[m] = IF m < k THEN deferredInvokes[m] ELSE deferredInvokes[m + 1]
            /\ ToSet(deferredInvokes') \subseteq ToSet(deferredInvokes)
        BY <3>2, <3>3, RemoveAtElements
      <4> SUFFICES ASSUME NEW m \in 1 .. Len(deferredInvokes'), NEW n \in 1 .. Len(deferredInvokes'),
                          deferredInvokes'[m] = deferredInvokes'[n]
                   PROVE  m = n
        BY <4>1 DEF Shorter
      <4>2. /\ m \in 1 .. Len(deferredInvokes) - 1 /\ n \in 1 .. Len(deferredInvokes) - 1
            /\ m \in 1 .. Len(deferredInvokes) /\ n \in 1 .. Len(deferredInvokes)
            /\ m + 1 \in 1 .. Len(deferredInvokes) /\ n + 1 \in 1 .. Len(deferredInvokes)
        BY <3>2, <4>1
      <4>3. \A a, b \in 1 .. Len(deferredInvokes) : deferredInvokes[a] = deferredInvokes[b] => a = b
        BY DEF RegistryInv, BeginsOnce
      <4>4. CASE m < k /\ n < k
        BY <4>1, <4>2, <4>3, <4>4
      <4>5. CASE ~(m < k) /\ ~(n < k)
        <5>1. m + 1 = n + 1
          BY <4>1, <4>2, <4>3, <4>5
        <5> QED
          BY <4>2, <5>1
      <4>6. CASE m < k /\ ~(n < k)
        <5>1. m = n + 1
          BY <4>1, <4>2, <4>3, <4>6
        <5> QED
          BY <3>3, <4>2, <4>6, <5>1
      <4>7. CASE ~(m < k) /\ n < k
        <5>1. m + 1 = n
          BY <4>1, <4>2, <4>3, <4>7
        <5> QED
          BY <3>3, <4>2, <4>7, <5>1
      <4> QED
        BY <4>4, <4>5, <4>6, <4>7
    <3>4. Shorter(deferredInvokes', deferredInvokes)
      BY <2>3, <3>2, <3>3, Deferred
    <3>5. /\ \A j \in Invocations : j # i => inv'[j] = inv[j]
          /\ inv'[i] \in Settled
      BY <2>3, OutcomeIs DEF Settled
    <3>6. \A j \in Invocations : inv'[j] = "live" => OwnsSlot(j)'
      BY <2>1, <2>3, <3>5 DEF RegistryInv, OwnerRegistry, OwnsSlot, Settled
    <3>7. \A s \in Slots : waiter'[s] # None => exec'[s] # "free" /\ generation'[s] = generation[s]
      BY <2>1, <2>3 DEF RegistryInv, OwnerRegistry
    <3>8. /\ \A j \in Invocations : inv'[j] = inv[j] \/ inv'[j] \in Settled
          /\ \A s \in Slots : waiter'[s] = waiter[s] \/ waiter'[s] = None
      BY <2>3, <3>5
    <3> QED
      BY <2>1, <2>2, <3>1, <3>4, <3>6, <3>7, <3>8, RegistrySettled
  <2>4. CASE UNCHANGED <<exec, waiter, inv, deferredInvokes>>
    <3>1. DrivesNotOwned' /\ NamesOfThePast'
      BY <2>1, <2>4, NobodyNew, DrivesKept
    <3> QED
      BY <2>1, <2>2, <2>4, <3>1, RegistryKept DEF RegistryInv, OwnerRegistry
  <2>5. CASE OwnsSlot(i) /\ CancelContext(i) /\ UNCHANGED deferredInvokes
    <3>1. /\ \A j \in Invocations : inv'[j] = inv[j] \/ inv'[j] \in Settled
          /\ \A j \in Invocations : inv'[j] = "live" => OwnsSlot(j)'
          /\ \A s \in Slots : waiter'[s] = waiter[s] \/ waiter'[s] = None
          /\ \A s \in Slots : waiter'[s] # None => exec'[s] # "free" /\ generation'[s] = generation[s]
      BY <2>1, <2>5, Cancelled
    <3>2. OwnedKept /\ Later
      BY <2>1, <3>1, FewerOwners DEF Later, Types, ContextTypes
    <3>3. DrivesNotOwned' /\ NamesOfThePast'
      BY <2>1, <3>2, DrivesKept
    <3> QED
      BY <2>1, <2>2, <2>5, <3>1, <3>3, Deferred, RegistrySettled
  <2> QED
    BY <1>2, <2>3, <2>4, <2>5 DEF Abort
<1> QED
  BY <1>1, <1>2

\* resume() starts the deferred invocations: the same ones, on the stack now.
LEMMA RegistryOfReinvokes ==
  ASSUME Types, Types', RegistryInv, ResumeReinvokes
  PROVE  RegistryInv'
<1> DEFINE calls == [k \in DOMAIN deferredInvokes |-> Item("rebegin", Root, 0, deferredInvokes[k])]
           kick == <<Item("kick", Root, 0, None)>>
           n == Len(deferredInvokes)
<1>1. /\ stack # <<>> /\ deferredInvokes' = <<>> /\ stack' = calls \o kick \o Tail(stack)
      /\ UNCHANGED <<by, driving, jobs, inv, slotOf, genOf, waiter, generation, exec>>
  BY DEF ResumeReinvokes, Calling, context, drives
<1>2. n \in Nat /\ DOMAIN deferredInvokes = 1 .. n /\ \A k \in 1 .. n : deferredInvokes[k] \in Invocations
  BY DEF Types, InvokeTypes
<1>3. calls \in Seq(Items) /\ DOMAIN calls = 1 .. n
  <2>1. StackOfItems(calls)
    BY CallsFor DEF Types, InvokeTypes
  <2> QED
    BY <1>2, <2>1 DEF StackOfItems
<1>4. \A k \in 1 .. n : Begins(calls[k]) /\ calls[k].id = deferredInvokes[k]
  BY <1>2 DEF Begins, Item
<1> HIDE DEF calls
<1>5. Len(calls) = n
  BY <1>2, <1>3
<1>6. Named(calls) = ToSet(deferredInvokes)
  BY <1>2, <1>3, <1>4 DEF Named, ToSet
<1>7. DistinctBegins(calls)
  BY <1>4, <1>5 DEF DistinctBegins, RegistryInv, BeginsOnce
<1>8. kick \in Seq(Items) /\ Named(kick) = {} /\ DistinctBegins(kick)
  BY Called, PlainCalls DEF StackOfItems, Begins, Item
<1> HIDE DEF kick
<1>9. Within(Tail(stack), stack) /\ Tail(stack) \in Seq(Items)
  BY <1>1, WithinTail
<1>10. /\ calls \o kick \in Seq(Items) /\ Named(calls \o kick) = ToSet(deferredInvokes)
       /\ DistinctBegins(calls \o kick)
  <2>1. calls \o kick \in Seq(Items)
    BY <1>3, <1>8, ConcatElements
  <2>2. Named(calls \o kick) = Named(calls) \cup Named(kick) /\ DistinctBegins(calls \o kick)
    BY <1>3, <1>7, <1>8, NamedOfConcat
  <2> QED
    BY <1>6, <1>8, <2>1, <2>2
<1>11. /\ Named(stack') \subseteq ToSet(deferredInvokes) \cup Named(stack)
       /\ DistinctBegins(stack')
  <2>1. Named(calls \o kick) \cap Named(Tail(stack)) = {} /\ DistinctBegins(Tail(stack))
    BY <1>9, <1>10 DEF RegistryInv, BeginsOnce, Within
  <2> DEFINE c == calls \o kick
             t == Tail(stack)
  <2>2. stack' = c \o t
    BY <1>1
  <2>3. c \in Seq(Items) /\ t \in Seq(Items) /\ DistinctBegins(c) /\ DistinctBegins(t)
        /\ Named(c) = ToSet(deferredInvokes) /\ Named(t) \subseteq Named(stack)
        /\ Named(c) \cap Named(t) = {}
    BY <1>9, <1>10, <2>1 DEF Within
  <2> HIDE DEF c, t
  <2>4. Named(c \o t) = Named(c) \cup Named(t) /\ DistinctBegins(c \o t)
    BY <2>3, NamedOfConcat
  <2> QED
    BY <2>2, <2>3, <2>4
<1>12. Len(deferredInvokes') = 0 /\ ToSet(deferredInvokes') = {}
  BY <1>1, ShortElements
<1>13. BeginsOnce'
  BY <1>11, <1>12 DEF BeginsOnce
<1>14. StillToBegin'
  BY <1>1, <1>11, <1>12 DEF RegistryInv, StillToBegin, NoContext
<1>15. DrivesNotOwned' /\ NamesOfThePast'
  BY <1>1, NobodyNew, DrivesKept
<1>16. OwnerRegistry'
  BY <1>1 DEF RegistryInv, OwnerRegistry, OwnsSlot
<1> QED
  BY <1>13, <1>14, <1>15, <1>16 DEF RegistryInv

\* terminate() empties the registry, and settles everyone who was in it.
LEMMA RegistryOfTerminate ==
  ASSUME Types, Types', RegistryInv, Terminate
  PROVE  RegistryInv'
<1>1. /\ waiter' = [s \in Slots |-> None] /\ deferredInvokes' = <<>>
      /\ inv' = [i \in Invocations |->
                   IF inv[i] \notin Settled /\ (OwnsSlot(i) \/ Contains(deferredInvokes, i))
                     THEN "terminated" ELSE inv[i]]
      /\ UNCHANGED <<stack, by, driving, jobs, slotOf, genOf, generation, exec>>
  BY DEF Terminate, context, drives
<1>2. Shorter(deferredInvokes', deferredInvokes)
  BY <1>1, ShortElements DEF Shorter
<1>3. \A i \in Invocations : inv'[i] = inv[i] \/ inv'[i] \in Settled
  BY <1>1 DEF Settled
<1>4. \A i \in Invocations : inv'[i] # "live"
  BY <1>1 DEF Settled, RegistryInv, OwnerRegistry
<1>5. \A s \in Slots : waiter'[s] = None
  BY <1>1
<1>6. OwnedKept /\ Later
  BY <1>1, <1>5, FewerOwners DEF Later, Types, ContextTypes
<1>7. DrivesNotOwned' /\ NamesOfThePast'
  BY <1>1, <1>6, DrivesKept
<1>8. Within(stack', stack)
  BY <1>1, WithinItself
<1> QED
  BY <1>1, <1>2, <1>3, <1>4, <1>5, <1>7, <1>8, RegistrySettled

\* The end of a drive for nobody frees a context that has no owner.
LEMMA RegistryOfContinue ==
  ASSUME Types, Types', RegistryInv, Continue
  PROVE  RegistryInv'
<1>1. PICK j \in jobs :
        /\ jobs' = jobs \ {j}
        /\ \/ j.by[1] = "invoke" /\ InvokeContinues(j)
           \/ /\ j.by[1] \in {"background", "closure"} /\ (FreeIfLive(j.slot, j.gen) \/ UNCHANGED exec)
              /\ UNCHANGED <<inv, waiter>>
  BY DEF Continue, BackgroundContinues, ClosureContinues
<1>2. UNCHANGED <<stack, generation, by, driving, slotOf, genOf, deferredInvokes>>
  BY DEF Continue
<1>3. Within(stack', stack) /\ Shorter(deferredInvokes', deferredInvokes) /\ Later
  BY <1>2, WithinItself, Deferred DEF Later, Types, ContextTypes
<1>4. j.slot \in Slots /\ j.by \in Drivers
  BY DEF Types, DriveTypes, Jobs
<1>5. CASE j.by[1] = "invoke" /\ InvokeContinues(j)
  <2> DEFINE i == j.by[2]
  <2>0. i \in Invocations
    BY <1>4, <1>5, WhoDrives
  <2>1. CASE OwnsSlot(i)
    <3> DEFINE r == CASE j.result = "done" -> "value" [] j.result = "error" -> "error"
                      [] OTHER -> "terminated"
    <3>1. /\ inv' = Outcome(i, r) /\ waiter' = [waiter EXCEPT ![slotOf[i]] = None]
          /\ exec' = exec \/ exec' = [exec EXCEPT ![slotOf[i]] = "free"]
      BY <1>5, <2>1 DEF InvokeContinues, FreeIfLive
    <3>2. r \in Settled
      BY DEF Settled
    <3> HIDE DEF r, i
    <3>3. slotOf[i] \in Slots /\ waiter[slotOf[i]] = i
      BY <2>0, <2>1 DEF Types, InvokeTypes, OwnsSlot
    <3>4. \A s \in Slots : s # slotOf[i] => waiter'[s] = waiter[s] /\ exec'[s] = exec[s]
      BY <3>1, <3>3 DEF Types, ContextTypes, InvokeTypes
    <3>5. waiter'[slotOf[i]] = None
      BY <3>1, <3>3 DEF Types, InvokeTypes
    <3>6. /\ \A k \in Invocations : k # i => inv'[k] = inv[k]
          /\ inv'[i] \in Settled
      BY <2>0, <3>1, <3>2, OutcomeIs
    <3>7. ASSUME NEW k \in Invocations, inv'[k] = "live" PROVE OwnsSlot(k)'
      <4>1. k # i /\ inv[k] = "live"
        BY <3>6, <3>7 DEF Settled
      <4>2. OwnsSlot(k) /\ slotOf[k] \in Slots /\ waiter[slotOf[k]] = k
        BY <4>1 DEF RegistryInv, OwnerRegistry, OwnsSlot, Types, InvokeTypes
      <4>3. slotOf[k] # slotOf[i]
        BY <3>3, <4>1, <4>2
      <4> QED
        BY <1>2, <3>4, <4>2, <4>3 DEF OwnsSlot
    <3>8. \A s \in Slots : waiter'[s] = waiter[s] \/ waiter'[s] = None
      BY <3>4, <3>5
    <3>9. \A s \in Slots : waiter'[s] # None => exec'[s] # "free" /\ generation'[s] = generation[s]
      BY <1>2, <3>4, <3>5 DEF RegistryInv, OwnerRegistry
    <3>10. OwnedKept
      BY <1>2, <3>8, FewerOwners
    <3>11. DrivesNotOwned' /\ NamesOfThePast'
      BY <1>1, <1>2, <1>3, <3>10, DrivesKept
    <3> QED
      BY <1>2, <1>3, <3>6, <3>7, <3>8, <3>9, <3>11, RegistrySettled
  <2>2. CASE ~OwnsSlot(i)
    <3>1. UNCHANGED <<inv, waiter, exec>>
      BY <1>5, <2>2 DEF InvokeContinues
    <3>2. DrivesNotOwned' /\ NamesOfThePast'
      BY <1>1, <1>2, <3>1, NobodyNew, DrivesKept
    <3> QED
      BY <1>2, <1>3, <3>1, <3>2, RegistryKept DEF RegistryInv, OwnerRegistry
  <2> QED
    BY <2>1, <2>2
<1>6. CASE /\ j.by[1] \in {"background", "closure"} /\ (FreeIfLive(j.slot, j.gen) \/ UNCHANGED exec)
           /\ UNCHANGED <<inv, waiter>>
  <2>1. \A s \in Slots : waiter[s] # None => exec'[s] # "free" /\ generation'[s] = generation[s]
    <3> SUFFICES ASSUME NEW s \in Slots, waiter[s] # None PROVE exec'[s] # "free"
      BY <1>2
    <3>1. exec[s] # "free" /\ genOf[waiter[s]] = generation[s]
      BY DEF RegistryInv, OwnerRegistry
    <3>2. CASE UNCHANGED exec
      BY <3>1, <3>2
    <3>3. CASE j.by[1] \in {"background", "closure"} /\ FreeIfLive(j.slot, j.gen)
      <4>1. ~Owned(j.slot, j.gen)
        BY <3>3 DEF RegistryInv, DrivesNotOwned
      <4>2. CASE s # j.slot
        BY <3>1, <3>3, <4>2 DEF FreeIfLive, Types, ContextTypes
      <4>3. CASE s = j.slot
        <5>1. ~Live(j.slot, j.gen)
          BY <3>1, <4>1, <4>3 DEF Live, Owned
        <5> QED
          BY <3>1, <3>3, <5>1 DEF FreeIfLive
      <4> QED
        BY <4>2, <4>3
    <3> QED
      BY <1>6, <3>2, <3>3
  <2>2. DrivesNotOwned' /\ NamesOfThePast'
    BY <1>1, <1>2, <1>6, NobodyNew, DrivesKept
  <2> QED
    BY <1>2, <1>3, <1>6, <2>1, <2>2, RegistryKept
<1> QED
  BY <1>1, <1>5, <1>6

\* A closure call's context is nobody's.
LEMMA RegistryOfCall ==
  ASSUME Types, Types', RegistryInv, current # None => current \in Calls, RunClosureCall
  PROVE  RegistryInv'
<1>1. stack = <<>> /\ UNCHANGED <<inv, slotOf, genOf, waiter, deferredInvokes>>
  BY DEF RunClosureCall, BetweenJobs, invokes
<1>2. OwnedKept
  BY <1>1 DEF OwnedKept, Owned
\* No drive: at most a generation of a free slot is used up.
<1>3. ASSUME UNCHANGED <<stack, exec, by, driving, jobs>>,
             \/ UNCHANGED generation
             \/ CanAllocate /\ generation' = [generation EXCEPT ![NextSlot] = @ + 1]
      PROVE  RegistryInv'
  <2>1. Later /\ \A s \in Slots : waiter[s] # None => generation'[s] = generation[s]
    BY <1>1, <1>3, NobodyNew, FreshContext
  <2>2. DrivesNotOwned' /\ NamesOfThePast'
    BY <1>2, <1>3, <2>1, DrivesKept
  <2> QED
    BY <1>1, <1>3, <2>1, <2>2, RegistryKept, WithinItself DEF RegistryInv, OwnerRegistry
<1>4. CASE CallAbandoned \/ CallRefused
  BY <1>3, <1>4 DEF CallAbandoned, CallRefused, context, drives
<1>5. CASE CallDelivered
  <2>1. CASE Allocate("ready") /\ CanAllocate
             /\ DriveSlot(NextSlot, NextGeneration, <<"closure", current>>, <<>>)
    <3>1. /\ generation' = [generation EXCEPT ![NextSlot] = @ + 1]
          /\ exec' = [exec EXCEPT ![NextSlot] = "ready"]
      BY <2>1 DEF Allocate
    <3>2. PICK s \in Slots, g \in Nat : s = NextSlot /\ g = NextGeneration
      BY <2>1, <3>1, FreshContext
    <3>3. /\ waiter[s] = None /\ generation'[s] = g /\ g <= generation'[s] /\ Later
          /\ \A t \in Slots : t # s => generation'[t] = generation[t]
          /\ exec' = [exec EXCEPT ![s] = "ready"]
          /\ DriveSlot(s, g, <<"closure", current>>, <<>>)
      BY <2>1, <3>1, <3>2, FreshContext
    <3>4. ~Owned(s, g)'
      BY <1>1, <3>3 DEF Owned
    <3>5. DrivesNotOwned' /\ NamesOfThePast'
      BY <1>2, <3>2, <3>3, <3>4, DriveRegistered
    <3>6. Within(stack', stack)
      <4>1. stack' = <<>> \/ stack' = <<Item("loop", s, g, None), Item("track", s, g, None)>> \o <<>>
        BY <3>3 DEF DriveSlot
      <4>2. stack' = <<>> \/ stack' = <<Item("loop", s, g, None), Item("track", s, g, None)>>
        BY <4>1
      <4>3. ~Begins(Item("loop", s, g, None)) /\ ~Begins(Item("track", s, g, None))
        BY DEF Begins, Item
      <4> QED
        BY <4>2, <4>3, PlainCalls DEF Within
    <3>7. \A t \in Slots : waiter[t] # None => exec'[t] # "free" /\ generation'[t] = generation[t]
      BY <3>3 DEF RegistryInv, OwnerRegistry, Types, ContextTypes
    <3> QED
      BY <1>1, <3>5, <3>6, <3>7, RegistryKept
  <2>2. CASE /\ CanAllocate /\ generation' = [generation EXCEPT ![NextSlot] = @ + 1]
             /\ UNCHANGED <<exec, drives, stack>>
    BY <1>3, <2>2 DEF drives
  <2> QED
    BY <1>5, <2>1, <2>2 DEF CallDelivered
<1> QED
  BY <1>4, <1>5 DEF RunClosureCall

\* An invocation that begins owns the context allocated for it, and only that.
LEMMA RegistryOfBegin ==
  ASSUME Types, Types', RegistryInv, BeginInvoke
  PROVE  RegistryInv'
<1> DEFINE i == Top.id
<1>1. /\ stack # <<>> /\ Begins(Head(stack)) /\ i = Head(stack).id /\ UNCHANGED deferredInvokes
      /\ BeginInvokeFails(i) \/ BeginInvokeDrives(i)
  BY DEF BeginInvoke, Begins, Top
<1>2. i \in Invocations
  BY <1>1, StackPopped DEF Types, StackTypes, ItemTyped, Begins
<1> HIDE DEF i
<1>3. Within(Tail(stack), stack) /\ Tail(stack) \in Seq(Items) /\ stack \in Seq(Items)
  BY <1>1, WithinTail
<1>4. /\ i \in Named(stack) /\ i \notin Named(Tail(stack))
      /\ i \notin ToSet(deferredInvokes)
  BY <1>1, <1>3, NamedOfTail DEF RegistryInv, BeginsOnce
<1>5. NoContext(i)
  BY <1>4 DEF RegistryInv, StillToBegin
<1>6. Shorter(deferredInvokes', deferredInvokes)
  BY <1>1, Deferred
<1>7. CASE BeginInvokeFails(i)
  <2>1. /\ stack' = Tail(stack) /\ UNCHANGED <<exec, slotOf, genOf, waiter, driving, by, jobs>>
        /\ \/ UNCHANGED generation
           \/ CanAllocate /\ generation' = [generation EXCEPT ![NextSlot] = @ + 1]
    BY <1>7 DEF BeginInvokeFails, drives
  <2>2. PICK r \in Settled : inv' = Outcome(i, r)
    BY <1>7 DEF BeginInvokeFails, Settled
  <2>3. (\A j \in Invocations : j # i => inv'[j] = inv[j]) /\ inv'[i] \in Settled
    BY <1>2, <2>2, OutcomeIs
  <2>4. Later /\ \A s \in Slots : waiter[s] # None => generation'[s] = generation[s]
    BY <2>1, NobodyNew, FreshContext
  <2>5. OwnedKept
    BY <2>1 DEF OwnedKept, Owned
  <2>6. DrivesNotOwned' /\ NamesOfThePast'
    BY <2>1, <2>4, <2>5, DrivesKept
  <2>7. \A j \in Invocations : inv'[j] = "live" => OwnsSlot(j)'
    BY <2>1, <2>3 DEF Settled, RegistryInv, OwnerRegistry, OwnsSlot
  <2>8. /\ \A j \in Invocations : inv'[j] = inv[j] \/ inv'[j] \in Settled
        /\ \A s \in Slots : waiter'[s] = waiter[s] \/ waiter'[s] = None
        /\ \A s \in Slots : waiter'[s] # None => exec'[s] # "free" /\ generation'[s] = generation[s]
    BY <2>1, <2>3, <2>4 DEF RegistryInv, OwnerRegistry
  <2> QED
    BY <1>3, <1>6, <2>1, <2>6, <2>7, <2>8, RegistrySettled
<1>8. CASE BeginInvokeDrives(i)
  <2>1. /\ inv[i] \notin Settled /\ CanAllocate
        /\ generation' = [generation EXCEPT ![NextSlot] = @ + 1]
        /\ exec' = [exec EXCEPT ![NextSlot] = "ready"]
        /\ slotOf' = [slotOf EXCEPT ![i] = NextSlot] /\ genOf' = [genOf EXCEPT ![i] = NextGeneration]
        /\ waiter' = [waiter EXCEPT ![NextSlot] = i]
        /\ \/ DriveSlot(NextSlot, NextGeneration, <<"invoke", i>>, Tail(stack)) /\ inv' = Outcome(i, "live")
           \/ /\ inv' = Outcome(i, "refused") /\ stack' = Tail(stack)
              /\ UNCHANGED <<driving, by, jobs>>
           \/ /\ inv' = Outcome(i, "live") /\ Throw(Tail(stack))
              /\ UNCHANGED <<driving, by, jobs>>
    BY <1>8 DEF BeginInvokeDrives, Allocate
  <2>2. PICK s \in Slots, g \in Nat : s = NextSlot /\ g = NextGeneration
    BY <2>1, FreshContext
  <2>3. /\ waiter[s] = None /\ generation[s] < g /\ generation'[s] = g /\ Later
        /\ \A t \in Slots : t # s => generation'[t] = generation[t]
    BY <2>1, <2>2, FreshContext
  <2>4. /\ slotOf'[i] = s /\ genOf'[i] = g /\ waiter'[s] = i /\ exec'[s] = "ready"
        /\ \A t \in Slots : t # s => waiter'[t] = waiter[t] /\ exec'[t] = exec[t]
        /\ \A j \in Invocations : j # i => slotOf'[j] = slotOf[j] /\ genOf'[j] = genOf[j]
    BY <1>2, <2>1, <2>2 DEF Types, ContextTypes, InvokeTypes
  <2>5. \A t \in Slots : waiter[t] # i /\ (waiter[t] # None => waiter[t] \in Invocations)
    BY <1>5 DEF NoContext, Types, InvokeTypes
  <2>6. (\A j \in Invocations : j # i => inv'[j] = inv[j]) /\ inv'[i] \in {"live", "refused"}
    BY <1>2, <2>1, OutcomeIs
  <2>7. OwnedKept
    <3> SUFFICES ASSUME NEW t \in Slots, NEW h \in Nat, h <= generation[t], Owned(t, h)'
                 PROVE  Owned(t, h)
      BY DEF OwnedKept
    <3>1. waiter'[t] # None /\ genOf'[waiter'[t]] = h
      BY DEF Owned
    <3>2. t # s
      BY <2>3, <2>4, <3>1 DEF Types, ContextTypes
    <3>3. waiter'[t] = waiter[t] /\ waiter[t] \in Invocations /\ waiter[t] # i
      BY <2>4, <2>5, <3>1, <3>2
    <3> QED
      BY <2>4, <3>1, <3>3 DEF Owned
  <2>8. DrivesNotOwned' /\ NamesOfThePast' /\ Within(stack', Tail(stack))
    <3>1. CASE DriveSlot(s, g, <<"invoke", i>>, Tail(stack))
      <4>1. DrivesNotOwned' /\ NamesOfThePast'
        BY <2>3, <2>7, <3>1, DriveRegistered
      <4>2. CASE quiesced
        BY <3>1, <4>1, <4>2, WithinItself DEF DriveSlot
      <4>3. CASE ~quiesced
        <5> DEFINE pair == <<Item("loop", s, g, None), Item("track", s, g, None)>>
        <5>1. pair \in Seq(Items) /\ Named(pair) = {} /\ DistinctBegins(pair)
          <6>1. Item("loop", s, g, None) \in Items /\ Item("track", s, g, None) \in Items
            BY ItemsTyped DEF Ops
          <6> QED
            BY <6>1, PlainCalls DEF Begins, Item
        <5>2. stack' = pair \o Tail(stack)
          BY <3>1, <4>3 DEF DriveSlot
        <5> HIDE DEF pair
        <5> QED
          BY <1>3, <4>1, <5>1, <5>2, WithinPlain, WithinItself
      <4> QED
        BY <4>2, <4>3
    <3>2. CASE UNCHANGED <<driving, by, jobs>>
      <4>1. DrivesNotOwned' /\ NamesOfThePast'
        BY <2>3, <2>7, <3>2, DrivesKept
      <4>2. CASE stack' = Tail(stack)
        BY <4>1, <4>2, WithinItself
      <4>3. CASE Throw(Tail(stack))
        BY <1>1, <4>1, <4>3, WithinThrow
      <4>4. CASE DriveSlot(s, g, <<"invoke", i>>, Tail(stack))
        BY <3>1, <4>4
      <4> QED
        BY <2>1, <2>2, <4>2, <4>3, <4>4
    <3> QED
      BY <2>1, <2>2, <3>1, <3>2
  <2>9. BeginsOnce'
    BY <1>1, <1>3, <2>8 DEF RegistryInv, BeginsOnce, Within
  <2>10. StillToBegin'
    <3>1. ASSUME NEW j \in Named(stack') \cup ToSet(deferredInvokes')
          PROVE  inv'[j] \in Settled \cup {"starting", "deferred"} /\ NoContext(j)'
      <4>1. j # i /\ j \in Named(stack) \cup ToSet(deferredInvokes)
        BY <1>1, <1>3, <1>4, <2>8 DEF Within
      <4>2. j \in Invocations
        <5>1. deferredInvokes \in Seq(Invocations)
          BY DEF Types, InvokeTypes
        <5>2. \A k \in DOMAIN deferredInvokes : deferredInvokes[k] \in Invocations
          BY <5>1
        <5> QED
          BY <4>1, <5>2 DEF Types, StackTypes, StackOfItems, Named, ItemTyped, Begins, ToSet
      <4>3. inv[j] \in Settled \cup {"starting", "deferred"} /\ NoContext(j)
        BY <4>1 DEF RegistryInv, StillToBegin
      <4> QED
        BY <2>4, <2>6, <4>1, <4>2, <4>3 DEF NoContext
    <3>2. ASSUME NEW j \in Invocations, inv'[j] = "none" PROVE NoContext(j)'
      <4>1. j # i /\ inv[j] = "none"
        BY <2>6, <3>2
      <4>2. NoContext(j)
        BY <4>1 DEF RegistryInv, StillToBegin
      <4> QED
        BY <2>4, <4>1, <4>2 DEF NoContext
    <3> QED
      BY <3>1, <3>2 DEF StillToBegin
  <2>11. OwnerRegistry'
    <3>1. ASSUME NEW t \in Slots, waiter'[t] # None
          PROVE  slotOf'[waiter'[t]] = t /\ genOf'[waiter'[t]] = generation'[t] /\ exec'[t] # "free"
      <4>1. CASE t = s
        BY <2>3, <2>4, <4>1
      <4>2. CASE t # s
        <5>1. waiter'[t] = waiter[t] /\ waiter[t] # None /\ waiter[t] \in Invocations /\ waiter[t] # i
          BY <2>4, <2>5, <3>1, <4>2
        <5>2. slotOf[waiter[t]] = t /\ genOf[waiter[t]] = generation[t] /\ exec[t] # "free"
          BY <5>1 DEF RegistryInv, OwnerRegistry
        <5> QED
          BY <2>3, <2>4, <4>2, <5>1, <5>2
      <4> QED
        BY <4>1, <4>2
    <3>2. ASSUME NEW j \in Invocations, inv'[j] = "live" PROVE OwnsSlot(j)'
      <4>1. CASE j = i
        BY <2>4, <4>1 DEF OwnsSlot, Slots
      <4>2. CASE j # i
        <5>1. OwnsSlot(j) /\ slotOf[j] \in Slots /\ waiter[slotOf[j]] = j
          BY <2>6, <3>2, <4>2 DEF RegistryInv, OwnerRegistry, OwnsSlot, Types, InvokeTypes
        <5>2. slotOf[j] # s
          BY <2>3, <5>1, SchedulerAssumption
        <5> QED
          BY <2>4, <4>2, <5>1, <5>2 DEF OwnsSlot
      <4> QED
        BY <4>1, <4>2
    <3> QED
      BY <3>1, <3>2 DEF OwnerRegistry
  <2> QED
    BY <2>8, <2>9, <2>10, <2>11 DEF RegistryInv
<1> QED
  BY <1>1, <1>7, <1>8

\* At first nobody owns a context and nobody is to begin.
LEMMA RegistryInit == Init => RegistryInv
<1> SUFFICES ASSUME Init PROVE RegistryInv
  OBVIOUS
<1>1. /\ stack = <<>> /\ deferredInvokes = <<>> /\ jobs = {} /\ waiter = [s \in Slots |-> None]
      /\ inv = [i \in Invocations |-> "none"] /\ driving = [s \in Slots |-> 0]
      /\ by = [s \in Slots |-> <<"none", None>>]
      /\ generation = [s \in Slots |-> IF s = Root THEN 1 ELSE 0]
  BY DEF Init
<1>2. BeginsOnce
  BY <1>1, PlainCalls, ShortElements DEF BeginsOnce
<1>3. None \notin Invocations
  BY SchedulerAssumption
<1>4. StillToBegin
  BY <1>1, <1>3, PlainCalls, ShortElements DEF StillToBegin, NoContext
<1>5. DrivesNotOwned /\ NamesOfThePast
  BY <1>1 DEF DrivesNotOwned, NamesOfThePast
<1>6. OwnerRegistry
  BY <1>1 DEF OwnerRegistry
<1> QED
  BY <1>2, <1>4, <1>5, <1>6 DEF RegistryInv

\* Every step keeps the registry.
LEMMA RegistryStep ==
  ASSUME Types, OrderInv, RegistryInv, [Next]_vars
  PROVE  RegistryInv'
<1>1. Types' /\ (current # None => current \in Calls)
  BY OrderStep DEF OrderInv, QueueInOrder
<1>2. CASE UNCHANGED vars
  BY <1>1, <1>2, RegistryOfRest
<1>3. CASE Synchronous
  BY <1>1, <1>3, RegistryOfRuns, RegistryOfSpawn, RegistryOfRest, RegistryOfWakes,
     RegistryOfBegin, RegistryOfAbort, RegistryOfReinvokes DEF Synchronous
<1>4. CASE Continuations
  BY <1>1, <1>4, RegistryOfRuns, RegistryOfFinally, RegistryOfContinue, RegistryOfCall,
     RegistryOfRest DEF Continuations
<1>5. CASE Embedder
  BY <1>1, <1>5, RegistryOfInvoke, RegistryOfAbort, RegistryOfRest, RegistryOfTerminate
     DEF Embedder
<1>6. CASE Settle
  BY <1>1, <1>6, RegistryOfRest
<1>7. CASE \E s \in Slots : HookResolves(s) \/ RunSlot(s)
  BY <1>1, <1>7, RegistryOfRuns, RegistryOfWakes
<1> QED
  BY <1>2, <1>3, <1>4, <1>5, <1>6, <1>7 DEF Next

\* The registry of owners and the context table agree: a registered owner's context is
\* its own and alive, and an unsettled owner is registered (_activeInvokes and the context
\* table, through abort, quiesce, resume, terminate and throws out of resume()).
THEOREM OwnersAndContextsAgree == Spec => []OwnerRegistry
<1>1. Init => Types /\ OrderInv /\ RegistryInv
  BY OrderInit, RegistryInit
<1>2. Types /\ OrderInv /\ RegistryInv /\ [Next]_vars => Types' /\ OrderInv' /\ RegistryInv'
  BY OrderStep, RegistryStep
<1>3. RegistryInv => OwnerRegistry
  BY DEF RegistryInv
<1> QED
  BY <1>1, <1>2, <1>3, PTL DEF Spec

(***************************************************************************)
(* Quiet: a quiesce that has resolved is quiet, where capability handlers  *)
(* do not call the runtime (HandlerCalls = FALSE; with them it is not so,  *)
(* see README.md).                                                         *)
(*                                                                         *)
(* The runtime resolves quiesce() when _inFlightDrives is empty, and that  *)
(* is not the set of the drives in flight: a drive enters it only once its *)
(* loop has yielded, and is still in it when it has left _driving.         *)
(* QuietInv relates the two counts, the slots with a drive, and the calls  *)
(* on the stack: each drive is counted, is still to be tracked by one call *)
(* on the stack, or is the one whose end is being called; and a call to    *)
(* track a drive stands right behind the frame of its loop, which is why a *)
(* throw, which unwinds to the innermost frame, never skips one.           *)
(***************************************************************************)
IsFrame(x) == x.op \in {"loop", "return"}

\* The drives the calls are still to track, each in one call; whether they end with a
\* drive's end; the drives whose loops they are in.
TracksOf(calls) == {x.slot : x \in {y \in ToSet(calls) : y.op = "track"}}
DistinctTracks(calls) ==
  \A k, l \in 1 .. Len(calls) :
    calls[k].op = "track" /\ calls[l].op = "track" /\ calls[k].slot = calls[l].slot => k = l
Ends(calls) == IF \E x \in ToSet(calls) : x.op = "finally" THEN 1 ELSE 0
FramesOf(calls) == {x.slot : x \in {y \in ToSet(calls) : IsFrame(y)}}

\* A drive's end stands beneath everything, a drive is tracked right behind its loop.
Sound(calls) ==
  /\ DistinctTracks(calls)
  /\ \A k \in 1 .. Len(calls) : calls[k].op = "finally" => k = Len(calls)
  /\ \A k \in 1 .. Len(calls) : calls[k].op = "track" => k = 1 \/ IsFrame(calls[k - 1])

Driven == {s \in Slots : driving[s] # 0}
PhasesAgree == \A s \in Slots : driving[s] = 0 <=> phase[s] = "none"
StackAgrees ==
  /\ Sound(stack)
  /\ TracksOf(stack) \subseteq Driven /\ FramesOf(stack) \subseteq Driven
CountsAgree ==
  /\ inFlightDrives \in Nat
  /\ inFlight = inFlightDrives + Cardinality(TracksOf(stack))
  /\ inFlightDrives >= Cardinality(Driven \ TracksOf(stack)) + Ends(stack)
Generated == \A s \in Slots : exec[s] # "free" => generation[s] # 0

QuietInv ==
  /\ PhasesAgree /\ StackAgrees /\ CountsAgree /\ Generated
  /\ quiet => quiesced
  /\ QuiesceIsQuiet


\* Calls that drive nothing, and a stack that does not start with a drive to be tracked.
Plain(calls) == \A x \in ToSet(calls) : x.op \notin {"loop", "return", "track", "finally"}
Loose(calls) == calls = <<>> \/ calls[1].op # "track"
SameTracks(calls, rest) ==
  /\ Sound(calls) /\ TracksOf(calls) = TracksOf(rest)
  /\ Ends(calls) <= Ends(rest) /\ FramesOf(calls) \subseteq FramesOf(rest)

\* A stack ends in a drive's end or not.
LEMMA EndsCounts == \A calls : Ends(calls) \in {0, 1}
BY DEF Ends

\* Calls that drive nothing, made on a loose stack, leave its drives as they were.
LEMMA PlainPushed ==
  ASSUME NEW calls \in Seq(Items), NEW rest \in Seq(Items), Plain(calls), Sound(rest), Loose(rest)
  PROVE  SameTracks(calls \o rest, rest) /\ Loose(calls \o rest)
<1> DEFINE u == calls \o rest
           m == Len(calls)
           n == Len(rest)
<1>1. /\ Len(u) = m + n /\ m \in Nat /\ n \in Nat
      /\ \A i \in 1 .. m + n : u[i] = IF i <= m THEN calls[i] ELSE rest[i - m]
      /\ u \in Seq(Items)
  BY ConcatProperties
<1>2. ToSet(u) = ToSet(calls) \cup ToSet(rest)
  BY ConcatElements
<1>3. DOMAIN calls = 1 .. m
  OBVIOUS
<1>4. \A i \in 1 .. m : calls[i].op \notin {"loop", "return", "track", "finally"}
  BY <1>3 DEF Plain, ToSet
<1> HIDE DEF u, m, n
<1>5. \A i \in 1 .. m : u[i].op \notin {"loop", "return", "track", "finally"}
  <2>1. \A i \in 1 .. m : i \in 1 .. m + n /\ i <= m
    BY <1>1
  <2>2. \A i \in 1 .. m : u[i] = calls[i]
    BY <1>1, <2>1
  <2> QED
    BY <1>4, <2>2
<1>6. \A i \in 1 .. m + n : i \in 1 .. m \/ (i - m \in 1 .. n /\ u[i] = rest[i - m])
  BY <1>1
<1>7. TracksOf(u) = TracksOf(rest) /\ FramesOf(u) = FramesOf(rest) /\ Ends(u) = Ends(rest)
  <2>1. \A x \in ToSet(calls) : x.op \notin {"loop", "return", "track", "finally"}
    BY DEF Plain
  <2> QED
    BY <1>2, <2>1 DEF TracksOf, FramesOf, Ends, IsFrame
<1>8. DistinctTracks(u)
  <2> SUFFICES ASSUME NEW k \in 1 .. m + n, NEW l \in 1 .. m + n,
                      u[k].op = "track", u[l].op = "track", u[k].slot = u[l].slot
               PROVE  k = l
    BY <1>1 DEF DistinctTracks
  <2>1. /\ k - m \in 1 .. n /\ u[k] = rest[k - m]
        /\ l - m \in 1 .. n /\ u[l] = rest[l - m]
    BY <1>5, <1>6
  <2>2. k - m = l - m
    BY <2>1 DEF Sound, DistinctTracks, n
  <2> QED
    BY <1>1, <2>2
<1>9. \A k \in 1 .. m + n : u[k].op = "finally" => k = m + n
  <2> SUFFICES ASSUME NEW k \in 1 .. m + n, u[k].op = "finally" PROVE k = m + n
    OBVIOUS
  <2>1. k - m \in 1 .. n /\ u[k] = rest[k - m]
    BY <1>5, <1>6
  <2>2. k - m = n
    BY <2>1 DEF Sound, n
  <2> QED
    BY <1>1, <2>2
<1>10. \A k \in 1 .. m + n : u[k].op = "track" => k = 1 \/ IsFrame(u[k - 1])
  <2> SUFFICES ASSUME NEW k \in 1 .. m + n, u[k].op = "track", k # 1 PROVE IsFrame(u[k - 1])
    OBVIOUS
  <2>1. k - m \in 1 .. n /\ u[k] = rest[k - m]
    BY <1>5, <1>6
  <2>2. k - m = 1 \/ IsFrame(rest[k - m - 1])
    BY <2>1 DEF Sound, n
  <2>3. n # 0
    BY <1>1, <2>1
  <2>4. rest # <<>>
    BY <2>3 DEF n
  <2>5. k - m # 1
    BY <2>1, <2>4 DEF Loose
  <2>6. k - 1 \in 1 .. m + n /\ ~(k - 1 <= m) /\ k - 1 - m = k - m - 1
    BY <1>1, <2>1, <2>5
  <2>7. u[k - 1] = rest[k - 1 - m]
    BY <1>1, <2>6
  <2> QED
    BY <2>2, <2>5, <2>6, <2>7
<1>11. Sound(u)
  BY <1>1, <1>8, <1>9, <1>10 DEF Sound
<1>12. Loose(u)
  <2>1. CASE m = 0
    <3>1. n = 0 \/ u[1] = rest[1]
      <4>1. n # 0 => 1 \in 1 .. m + n /\ ~(1 <= m) /\ 1 - m = 1
        BY <1>1, <2>1
      <4> QED
        BY <1>1, <4>1
    <3>2. CASE n = 0
      <4>1. Len(u) = 0
        BY <1>1, <2>1, <3>2
      <4> QED
        BY <1>1, <4>1 DEF Loose
    <3>3. CASE n # 0
      <4>1. rest # <<>>
        BY <3>3 DEF n
      <4> QED
        BY <3>1, <3>3, <4>1 DEF Loose
    <3> QED
      BY <3>2, <3>3
  <2>2. CASE m # 0
    <3>1. 1 \in 1 .. m
      BY <1>1, <2>2
    <3> QED
      BY <1>5, <3>1 DEF Loose
  <2> QED
    BY <2>1, <2>2
<1> QED
  BY <1>7, <1>11, <1>12, EndsCounts DEF SameTracks, u

\* One call put on a stack.
LEMMA OnePushed ==
  ASSUME NEW x \in Items, NEW rest \in Seq(Items)
  PROVE  LET u == <<x>> \o rest
         IN /\ u \in Seq(Items) /\ Len(u) = Len(rest) + 1 /\ u[1] = x
            /\ \A i \in 1 .. Len(rest) : u[i + 1] = rest[i]
            /\ \A i \in 1 .. Len(rest) + 1 : i = 1 \/ (i - 1 \in 1 .. Len(rest) /\ u[i] = rest[i - 1])
            /\ ToSet(u) = {x} \cup ToSet(rest)
<1> DEFINE u == <<x>> \o rest
           n == Len(rest)
<1>1. <<x>> \in Seq(Items) /\ Len(<<x>>) = 1 /\ <<x>>[1] = x
  OBVIOUS
<1>2. ToSet(u) = {x} \cup ToSet(rest)
  <2>1. ToSet(u) = ToSet(<<x>>) \cup ToSet(rest)
    BY <1>1, ConcatElements
  <2>2. ToSet(<<x>>) = {x}
    BY ShortElements
  <2> QED
    BY <2>1, <2>2
<1>3. /\ Len(u) = 1 + n /\ n \in Nat /\ u \in Seq(Items)
      /\ \A i \in 1 .. 1 + n : u[i] = IF i <= 1 THEN <<x>>[i] ELSE rest[i - 1]
  BY <1>1, ConcatProperties
<1> HIDE DEF u, n
<1>4. u[1] = x
  BY <1>1, <1>3
<1>5. \A i \in 1 .. n : u[i + 1] = rest[i]
  BY <1>3
<1>6. \A i \in 1 .. n + 1 : i = 1 \/ (i - 1 \in 1 .. n /\ u[i] = rest[i - 1])
  BY <1>3
<1>7. Len(u) = n + 1
  BY <1>3
<1> QED
  BY <1>2, <1>3, <1>4, <1>5, <1>6, <1>7 DEF u, n

\* A frame may stand on anything, a drive to be tracked on anything loose.
LEMMA FramePushed ==
  ASSUME NEW x \in Items, NEW rest \in Seq(Items), IsFrame(x), Sound(rest)
  PROVE  LET u == <<x>> \o rest
         IN /\ u \in Seq(Items) /\ Sound(u) /\ TracksOf(u) = TracksOf(rest) /\ Ends(u) = Ends(rest)
            /\ FramesOf(u) = FramesOf(rest) \cup {x.slot} /\ Loose(u)
<1> DEFINE u == <<x>> \o rest
           n == Len(rest)
<1>1. /\ u \in Seq(Items) /\ Len(u) = n + 1 /\ u[1] = x
      /\ \A i \in 1 .. n + 1 : i = 1 \/ (i - 1 \in 1 .. n /\ u[i] = rest[i - 1])
      /\ ToSet(u) = {x} \cup ToSet(rest) /\ n \in Nat
  BY OnePushed
<1>2. x.op \notin {"track", "finally"}
  BY DEF IsFrame
<1> HIDE DEF u, n
<1>3. TracksOf(u) = TracksOf(rest) /\ Ends(u) = Ends(rest) /\ FramesOf(u) = FramesOf(rest) \cup {x.slot}
  <2>1. TracksOf(u) = TracksOf(rest)
    BY <1>1, <1>2 DEF TracksOf
  <2>2. Ends(u) = Ends(rest)
    BY <1>1, <1>2 DEF Ends
  <2>3. FramesOf(u) = FramesOf(rest) \cup {x.slot}
    BY <1>1 DEF FramesOf
  <2> QED
    BY <2>1, <2>2, <2>3
<1>4. DistinctTracks(u)
  <2> SUFFICES ASSUME NEW k \in 1 .. n + 1, NEW l \in 1 .. n + 1,
                      u[k].op = "track", u[l].op = "track", u[k].slot = u[l].slot
               PROVE  k = l
    BY <1>1 DEF DistinctTracks
  <2>1. k - 1 \in 1 .. n /\ u[k] = rest[k - 1] /\ l - 1 \in 1 .. n /\ u[l] = rest[l - 1]
    BY <1>1, <1>2
  <2>2. k - 1 = l - 1
    BY <2>1 DEF Sound, DistinctTracks, n
  <2> QED
    BY <2>2
<1>5. \A k \in 1 .. n + 1 : u[k].op = "finally" => k = n + 1
  <2> SUFFICES ASSUME NEW k \in 1 .. n + 1, u[k].op = "finally" PROVE k = n + 1
    OBVIOUS
  <2>1. k - 1 \in 1 .. n /\ u[k] = rest[k - 1]
    BY <1>1, <1>2
  <2>2. k - 1 = n
    BY <2>1 DEF Sound, n
  <2> QED
    BY <1>1, <2>2
<1>6. \A k \in 1 .. n + 1 : u[k].op = "track" => k = 1 \/ IsFrame(u[k - 1])
  <2> SUFFICES ASSUME NEW k \in 1 .. n + 1, u[k].op = "track" PROVE IsFrame(u[k - 1])
    OBVIOUS
  <2>1. k - 1 \in 1 .. n /\ u[k] = rest[k - 1]
    BY <1>1, <1>2
  <2>2. k - 1 = 1 \/ IsFrame(rest[k - 1 - 1])
    BY <2>1 DEF Sound, n
  <2>3. CASE k - 1 = 1
    BY <1>1, <2>3
  <2>4. CASE k - 1 # 1
    <3>1. k - 1 \in 1 .. n + 1 /\ k - 1 # 1
      BY <1>1, <2>1, <2>4
    <3> QED
      BY <1>1, <2>2, <2>4, <3>1
  <2> QED
    BY <2>3, <2>4
<1>7. Sound(u)
  BY <1>1, <1>4, <1>5, <1>6 DEF Sound
<1>8. Loose(u)
  BY <1>1, <1>2 DEF Loose
<1> QED
  BY <1>1, <1>3, <1>7, <1>8 DEF u

\* A call to track a drive that no other call is to track, made on a loose stack.
LEMMA TrackPushed ==
  ASSUME NEW x \in Items, NEW rest \in Seq(Items), x.op = "track", Sound(rest), Loose(rest),
         x.slot \notin TracksOf(rest)
  PROVE  LET u == <<x>> \o rest
         IN /\ u \in Seq(Items) /\ Sound(u) /\ TracksOf(u) = TracksOf(rest) \cup {x.slot}
            /\ Ends(u) = Ends(rest) /\ FramesOf(u) = FramesOf(rest)
<1> DEFINE u == <<x>> \o rest
           n == Len(rest)
<1>1. /\ u \in Seq(Items) /\ Len(u) = n + 1 /\ u[1] = x
      /\ \A i \in 1 .. n + 1 : i = 1 \/ (i - 1 \in 1 .. n /\ u[i] = rest[i - 1])
      /\ ToSet(u) = {x} \cup ToSet(rest) /\ n \in Nat
  BY OnePushed
<1>2. DOMAIN rest = 1 .. n
  OBVIOUS
<1>3. \A i \in 1 .. n : rest[i].op = "track" => rest[i].slot # x.slot
  BY <1>2 DEF TracksOf, ToSet
<1> HIDE DEF u, n
<1>4. TracksOf(u) = TracksOf(rest) \cup {x.slot} /\ Ends(u) = Ends(rest) /\ FramesOf(u) = FramesOf(rest)
  <2>1. TracksOf(u) = TracksOf(rest) \cup {x.slot}
    BY <1>1 DEF TracksOf
  <2>2. Ends(u) = Ends(rest)
    BY <1>1 DEF Ends
  <2>3. FramesOf(u) = FramesOf(rest)
    BY <1>1 DEF FramesOf, IsFrame
  <2> QED
    BY <2>1, <2>2, <2>3
<1>5. DistinctTracks(u)
  <2> SUFFICES ASSUME NEW k \in 1 .. n + 1, NEW l \in 1 .. n + 1,
                      u[k].op = "track", u[l].op = "track", u[k].slot = u[l].slot
               PROVE  k = l
    BY <1>1 DEF DistinctTracks
  <2>1. CASE k = 1 \/ l = 1
    BY <1>1, <1>3, <2>1
  <2>2. CASE k # 1 /\ l # 1
    <3>1. k - 1 \in 1 .. n /\ u[k] = rest[k - 1] /\ l - 1 \in 1 .. n /\ u[l] = rest[l - 1]
      BY <1>1, <2>2
    <3>2. k - 1 = l - 1
      BY <3>1 DEF Sound, DistinctTracks, n
    <3> QED
      BY <3>2
  <2> QED
    BY <2>1, <2>2
<1>6. \A k \in 1 .. n + 1 : u[k].op = "finally" => k = n + 1
  <2> SUFFICES ASSUME NEW k \in 1 .. n + 1, u[k].op = "finally" PROVE k = n + 1
    OBVIOUS
  <2>1. k - 1 \in 1 .. n /\ u[k] = rest[k - 1]
    BY <1>1
  <2>2. k - 1 = n
    BY <2>1 DEF Sound, n
  <2> QED
    BY <1>1, <2>2
<1>7. \A k \in 1 .. n + 1 : u[k].op = "track" => k = 1 \/ IsFrame(u[k - 1])
  <2> SUFFICES ASSUME NEW k \in 1 .. n + 1, u[k].op = "track", k # 1 PROVE IsFrame(u[k - 1])
    OBVIOUS
  <2>1. k - 1 \in 1 .. n /\ u[k] = rest[k - 1]
    BY <1>1
  <2>2. k - 1 = 1 \/ IsFrame(rest[k - 1 - 1])
    BY <2>1 DEF Sound, n
  <2>3. k - 1 # 1
    <3> SUFFICES ASSUME k - 1 = 1 PROVE FALSE
      OBVIOUS
    <3>1. n # 0 /\ rest[1].op = "track"
      BY <1>1, <2>1
    <3>2. rest # <<>>
      BY <3>1 DEF n
    <3> QED
      BY <3>1, <3>2 DEF Loose
  <2>4. k - 1 \in 1 .. n + 1
    BY <1>1
  <2> QED
    BY <1>1, <2>2, <2>3, <2>4
<1>8. Sound(u)
  BY <1>1, <1>5, <1>6, <1>7 DEF Sound
<1> QED
  BY <1>1, <1>4, <1>8 DEF u

\* What is left when the innermost call returns.
LEMMA SoundPopped ==
  ASSUME NEW s \in Seq(Items), s # <<>>, Sound(s)
  PROVE  LET t == Tail(s)
             x == Head(s)
         IN /\ t \in Seq(Items) /\ Sound(t) /\ FramesOf(t) \subseteq FramesOf(s)
            /\ IsFrame(x) => x.slot \in FramesOf(s)
            /\ ~IsFrame(x) => Loose(t)
            /\ x.op # "track" => TracksOf(t) = TracksOf(s)
            /\ x.op = "track" => x.slot \in TracksOf(s) /\ TracksOf(t) = TracksOf(s) \ {x.slot}
            /\ x.op # "finally" => Ends(t) = Ends(s)
            /\ x.op = "finally" => t = <<>> /\ Ends(s) = 1 /\ TracksOf(s) = {}
<1> DEFINE t == Tail(s)
           x == Head(s)
           n == Len(s)
<1>1. /\ t \in Seq(Items) /\ x = s[1] /\ n \in Nat /\ n >= 1 /\ Len(t) = n - 1
      /\ \A i \in 1 .. n - 1 : t[i] = s[i + 1]
      /\ ToSet(s) = {x} \cup ToSet(t)
  BY TailElements
<1> HIDE DEF t, x, n
<1>2. DOMAIN t = 1 .. n - 1
  BY <1>1
<1>3. FramesOf(t) \subseteq FramesOf(s) /\ (IsFrame(x) => x.slot \in FramesOf(s))
  BY <1>1 DEF FramesOf
<1>4. x.op # "track" => TracksOf(t) = TracksOf(s)
  BY <1>1 DEF TracksOf
<1>5. ASSUME x.op = "track" PROVE x.slot \in TracksOf(s) /\ TracksOf(t) = TracksOf(s) \ {x.slot}
  <2>1. TracksOf(s) = TracksOf(t) \cup {x.slot}
    BY <1>1, <1>5 DEF TracksOf
  <2>2. x.slot \notin TracksOf(t)
    <3> SUFFICES ASSUME x.slot \in TracksOf(t) PROVE FALSE
      OBVIOUS
    <3>1. PICK i \in 1 .. n - 1 : t[i].op = "track" /\ t[i].slot = x.slot
      BY <1>2 DEF TracksOf, ToSet
    <3>2. i + 1 \in 1 .. n /\ 1 \in 1 .. n /\ s[i + 1] = t[i]
      BY <1>1
    <3>3. i + 1 = 1
      BY <1>1, <1>5, <3>1, <3>2 DEF Sound, DistinctTracks, n
    <3> QED
      BY <3>3
  <2> QED
    BY <2>1, <2>2
<1>6. x.op # "finally" => Ends(t) = Ends(s)
  BY <1>1 DEF Ends
<1>7. ASSUME x.op = "finally" PROVE t = <<>> /\ Ends(s) = 1 /\ TracksOf(s) = {}
  <2>1. n = 1
    BY <1>1, <1>7 DEF Sound, n
  <2>2. t = <<>>
    BY <1>1, <2>1
  <2>3. ToSet(s) = {x}
    BY <1>1, <2>2, ShortElements
  <2> QED
    BY <1>7, <2>2, <2>3 DEF Ends, TracksOf
<1>8. DistinctTracks(t)
  <2> SUFFICES ASSUME NEW k \in 1 .. n - 1, NEW l \in 1 .. n - 1,
                      t[k].op = "track", t[l].op = "track", t[k].slot = t[l].slot
               PROVE  k = l
    BY <1>1 DEF DistinctTracks
  <2>1. k + 1 \in 1 .. n /\ l + 1 \in 1 .. n /\ t[k] = s[k + 1] /\ t[l] = s[l + 1]
    BY <1>1
  <2>2. k + 1 = l + 1
    BY <2>1 DEF Sound, DistinctTracks, n
  <2> QED
    BY <2>2
<1>9. \A k \in 1 .. n - 1 : t[k].op = "finally" => k = n - 1
  <2> SUFFICES ASSUME NEW k \in 1 .. n - 1, t[k].op = "finally" PROVE k = n - 1
    OBVIOUS
  <2>1. k + 1 \in 1 .. n /\ t[k] = s[k + 1]
    BY <1>1
  <2>2. k + 1 = n
    BY <2>1 DEF Sound, n
  <2> QED
    BY <1>1, <2>2
<1>10. \A k \in 1 .. n - 1 : t[k].op = "track" => IsFrame(IF k = 1 THEN x ELSE t[k - 1])
  <2> SUFFICES ASSUME NEW k \in 1 .. n - 1, t[k].op = "track"
               PROVE  IsFrame(IF k = 1 THEN x ELSE t[k - 1])
    OBVIOUS
  <2>1. k + 1 \in 1 .. n /\ t[k] = s[k + 1] /\ k + 1 # 1 /\ k + 1 - 1 = k
    BY <1>1
  <2>2. IsFrame(s[k])
    BY <2>1 DEF Sound, n
  <2>3. k # 1 => k - 1 \in 1 .. n - 1 /\ t[k - 1] = s[k - 1 + 1] /\ k - 1 + 1 = k
    BY <1>1
  <2> QED
    BY <1>1, <2>2, <2>3
<1>11. Sound(t)
  BY <1>1, <1>8, <1>9, <1>10 DEF Sound
<1>12. ASSUME ~IsFrame(x) PROVE Loose(t)
  <2>1. CASE n = 1
    BY <1>1, <2>1 DEF Loose
  <2>2. CASE n # 1
    <3>1. 1 \in 1 .. n - 1
      BY <1>1, <2>2
    <3> QED
      BY <1>10, <1>12, <3>1 DEF Loose
  <2> QED
    BY <2>1, <2>2
<1> QED
  BY <1>1, <1>3, <1>4, <1>5, <1>6, <1>7, <1>11, <1>12 DEF t, x

\* A throw loses no drive that is still to be tracked.
LEMMA SoundThrown ==
  ASSUME NEW calls, StackOfItems(calls), Sound(calls), Loose(calls), Throw(calls)
  PROVE  SameTracks(stack', calls)
<1> DEFINE n == Len(calls)
<1>1. /\ n \in Nat /\ DOMAIN calls = 1 .. n /\ calls \in Seq(Items)
      /\ \A k \in 1 .. n : calls[k] \in Items
  BY DEF StackOfItems
<1>2. \A x : x \in ToSet(calls) <=> \E i \in 1 .. n : calls[i] = x
  BY <1>1 DEF ToSet
<1> HIDE DEF n
\* A drive to be tracked is behind a frame.
<1>3. ASSUME NEW l \in 1 .. n, calls[l].op = "track"
      PROVE  l - 1 \in 1 .. n /\ IsFrame(calls[l - 1])
  <2>1. calls # <<>>
    BY <1>1 DEF n
  <2>2. l # 1
    BY <1>3, <2>1 DEF Loose
  <2>3. l - 1 \in 1 .. n
    BY <1>1, <2>2
  <2> QED
    BY <1>3, <2>2, <2>3 DEF Sound, n
<1>4. CASE stack' = <<>> /\ Frames(calls) = {}
  <2>1. \A k \in 1 .. n : ~IsFrame(calls[k])
    BY <1>1, <1>4 DEF Frames, IsFrame
  <2>2. TracksOf(calls) = {}
    BY <1>2, <1>3, <2>1 DEF TracksOf
  <2>3. Len(stack') = 0 /\ ToSet(stack') = {}
    BY <1>4, ShortElements
  <2>4. Sound(stack') /\ TracksOf(stack') = {} /\ Ends(stack') = 0 /\ FramesOf(stack') = {}
    BY <2>3 DEF Sound, DistinctTracks, TracksOf, Ends, FramesOf
  <2> QED
    BY <2>2, <2>4, EndsCounts DEF SameTracks
<1>5. ASSUME NEW k \in 1 .. n,
             \A l \in 1 .. k - 1 : calls[l].op \notin {"loop", "return"},
             calls[k].op \in {"loop", "return"}, stack' = SubSeq(calls, k + 1, n)
      PROVE  SameTracks(stack', calls)
  <2> DEFINE t == SubSeq(calls, k + 1, Len(calls))
  <2>0. k \in Nat /\ k <= n
    BY <1>1
  <2>1. /\ t \in Seq(Items) /\ ToSet(t) \subseteq ToSet(calls)
        /\ Len(t) = IF k <= Len(calls) THEN Len(calls) - k ELSE 0
        /\ \A i \in 1 .. Len(t) : i + k \in 1 .. Len(calls) /\ t[i] = calls[i + k]
    BY <1>1, <2>0, SuffixElements
  <2>2. t = stack'
    BY <1>5 DEF n
  <2> HIDE DEF t
  <2>3. Len(t) = n - k /\ \A i \in 1 .. n - k : i + k \in 1 .. n /\ t[i] = calls[i + k]
    BY <1>1, <2>0, <2>1 DEF n
  <2>4. DOMAIN t = 1 .. n - k
    BY <2>1, <2>3
  <2>5. \A x : x \in ToSet(t) <=> \E i \in 1 .. n - k : t[i] = x
    BY <2>4 DEF ToSet
  <2>6. \A l \in 1 .. n : calls[l].op = "track" => l - k \in 1 .. n - k /\ t[l - k] = calls[l]
    <3> SUFFICES ASSUME NEW l \in 1 .. n, calls[l].op = "track"
                 PROVE  l - k \in 1 .. n - k /\ t[l - k] = calls[l]
      OBVIOUS
    <3>1. l - 1 \in 1 .. n /\ IsFrame(calls[l - 1])
      BY <1>3
    <3>2. l - 1 \notin 1 .. k - 1
      BY <1>5, <3>1 DEF IsFrame
    <3>3. l - k \in 1 .. n - k /\ l - k + k = l
      BY <1>1, <3>1, <3>2
    <3> QED
      BY <2>3, <3>3
  <2>7. TracksOf(t) = TracksOf(calls)
    <3>1. TracksOf(t) \subseteq TracksOf(calls)
      BY <2>1 DEF TracksOf
    <3>2. TracksOf(calls) \subseteq TracksOf(t)
      BY <1>2, <2>5, <2>6 DEF TracksOf
    <3> QED
      BY <3>1, <3>2
  <2>8. Ends(t) <= Ends(calls) /\ FramesOf(t) \subseteq FramesOf(calls)
    BY <2>1 DEF Ends, FramesOf
  <2>9. DistinctTracks(t)
    <3> SUFFICES ASSUME NEW i \in 1 .. n - k, NEW j \in 1 .. n - k,
                        t[i].op = "track", t[j].op = "track", t[i].slot = t[j].slot
                 PROVE  i = j
      BY <2>3 DEF DistinctTracks
    <3>1. i + k \in 1 .. n /\ j + k \in 1 .. n /\ t[i] = calls[i + k] /\ t[j] = calls[j + k]
      BY <2>3
    <3>2. i + k = j + k
      BY <3>1 DEF Sound, DistinctTracks, n
    <3> QED
      BY <2>0, <3>2
  <2>10. \A i \in 1 .. n - k : t[i].op = "finally" => i = n - k
    <3> SUFFICES ASSUME NEW i \in 1 .. n - k, t[i].op = "finally" PROVE i = n - k
      OBVIOUS
    <3>1. i + k \in 1 .. n /\ t[i] = calls[i + k]
      BY <2>3
    <3>2. i + k = n
      BY <3>1 DEF Sound, n
    <3> QED
      BY <2>0, <3>2
  <2>11. \A i \in 1 .. n - k : t[i].op = "track" => i = 1 \/ IsFrame(t[i - 1])
    <3> SUFFICES ASSUME NEW i \in 1 .. n - k, t[i].op = "track", i # 1 PROVE IsFrame(t[i - 1])
      OBVIOUS
    <3>1. i + k \in 1 .. n /\ t[i] = calls[i + k]
      BY <2>3
    <3>2. IsFrame(calls[i + k - 1])
      BY <1>3, <3>1
    <3>3. i - 1 \in 1 .. n - k /\ i - 1 + k = i + k - 1
      BY <1>1, <2>0
    <3>4. t[i - 1] = calls[i - 1 + k]
      BY <2>3, <3>3
    <3> QED
      BY <3>2, <3>3, <3>4
  <2>12. Sound(t)
    BY <2>3, <2>9, <2>10, <2>11 DEF Sound
  <2> QED
    BY <2>2, <2>7, <2>8, <2>12 DEF SameTracks
<1>6. \/ Frames(calls) = {} /\ stack' = <<>>
      \/ \E k \in 1 .. n :
            /\ calls[k].op \in {"loop", "return"}
            /\ \A l \in 1 .. k - 1 : calls[l].op \notin {"loop", "return"}
            /\ stack' = SubSeq(calls, k + 1, n)
  BY ThrowGoes DEF n
<1> QED
  BY <1>4, <1>5, <1>6

\* The slots with a drive can be counted.
LEMMA DrivenFinite ==
  /\ IsFiniteSet(Driven) /\ Cardinality(Driven) \in Nat
  /\ \A T : IsFiniteSet(Driven \ T) /\ Cardinality(Driven \ T) \in Nat
  /\ \A T \in SUBSET Driven : IsFiniteSet(T) /\ Cardinality(T) \in Nat
<1>1. \A T \in SUBSET Driven : IsFiniteSet(T) /\ Cardinality(T) \in Nat
  <2> TAKE T \in SUBSET Driven
  <2>1. T \in SUBSET Slots
    BY DEF Driven
  <2>2. IsFiniteSet(T)
    BY <2>1, SlotsFinite, FS_Subset
  <2> QED
    BY <2>2, FS_CardinalityType
<1> QED
  BY <1>1

\* What a step must do for the counts to go on agreeing when it starts and ends no drive.
LEMMA QuietKept ==
  ASSUME QuietInv, SameTracks(stack', stack),
         UNCHANGED <<driving, inFlight, inFlightDrives, quiesced, quiet>>,
         PhasesAgree', Generated'
  PROVE  QuietInv'
<1>1. Driven' = Driven
  BY DEF Driven
<1>2. /\ Sound(stack') /\ TracksOf(stack') = TracksOf(stack)
      /\ Ends(stack') <= Ends(stack) /\ FramesOf(stack') \subseteq FramesOf(stack)
  BY DEF SameTracks
<1>3. StackAgrees'
  BY <1>1, <1>2 DEF QuietInv, StackAgrees
<1>4. CountsAgree'
  <2>1. /\ inFlightDrives' = inFlightDrives /\ inFlight' = inFlight /\ inFlightDrives \in Nat
        /\ inFlight = inFlightDrives + Cardinality(TracksOf(stack))
        /\ inFlightDrives >= Cardinality(Driven \ TracksOf(stack)) + Ends(stack)
    BY DEF QuietInv, CountsAgree
  <2>2. Ends(stack) \in Nat /\ Ends(stack') \in Nat
    BY EndsCounts
  <2>3. Cardinality(Driven \ TracksOf(stack)) \in Nat
    BY DrivenFinite
  <2>4. inFlightDrives >= Cardinality(Driven \ TracksOf(stack)) + Ends(stack')
    BY <1>2, <2>1, <2>2, <2>3
  <2> QED
    BY <1>1, <1>2, <2>1, <2>4 DEF CountsAgree
<1>5. QuiesceIsQuiet' /\ (quiet' => quiesced')
  BY DEF QuietInv, QuiesceIsQuiet, PhasesAgree
<1> QED
  BY <1>3, <1>4, <1>5 DEF QuietInv

\* A driven slot's drive may go through its phases.
LEMMA PhaseKept ==
  ASSUME Types, PhasesAgree, driving' = driving, NEW s \in Slots, driving[s] # 0,
         NEW p, p # "none", phase' = [phase EXCEPT ![s] = p]
  PROVE  PhasesAgree'
BY DEF PhasesAgree, Types, DriveTypes

\* Contexts keep a generation while slots are freed, kept or allocated.
LEMMA GeneratedKept ==
  ASSUME Generated, \A s \in Slots : generation'[s] = generation[s] \/ generation'[s] # 0,
         \A s \in Slots : exec'[s] # "free" => exec[s] # "free" \/ generation'[s] # 0
  PROVE  Generated'
BY DEF Generated

\* A stack tracks what it tracks.
LEMMA SameTracksHere == QuietInv => SameTracks(stack, stack)
<1> SUFFICES ASSUME QuietInv PROVE SameTracks(stack, stack)
  OBVIOUS
<1>1. Ends(stack) <= Ends(stack)
  BY EndsCounts
<1> QED
  BY <1>1 DEF QuietInv, StackAgrees, SameTracks

\* Calls that drive nothing, made on what is left of the stack.
LEMMA PlainMade ==
  ASSUME NEW calls \in Seq(Items), NEW rest \in Seq(Items), NEW whole,
         Plain(calls), SameTracks(rest, whole), Loose(rest)
  PROVE  SameTracks(calls \o rest, whole) /\ Loose(calls \o rest)
<1>1. SameTracks(calls \o rest, rest) /\ Loose(calls \o rest)
  BY PlainPushed DEF SameTracks
<1>2. Ends(whole) \in Nat /\ Ends(rest) \in Nat /\ Ends(calls \o rest) \in Nat
  BY EndsCounts
<1> QED
  BY <1>1, <1>2 DEF SameTracks

\* A call that is no loop returns.
LEMMA CallReturned ==
  ASSUME Types, QuietInv, stack # <<>>, Top.op \notin {"track", "finally"}
  PROVE  /\ SameTracks(Tail(stack), stack) /\ Tail(stack) \in Seq(Items)
         /\ StackOfItems(Tail(stack))
         /\ IsFrame(Top) => Top.slot \in Slots /\ driving[Top.slot] # 0
         /\ ~IsFrame(Top) => Loose(Tail(stack))
<1>1. stack \in Seq(Items) /\ StackOfItems(Tail(stack)) /\ Top.slot \in Slots
  BY StackPopped DEF Types, StackTypes, StackOfItems, Top
<1>2. Sound(stack) /\ FramesOf(stack) \subseteq Driven
  BY DEF QuietInv, StackAgrees
<1>3. /\ Tail(stack) \in Seq(Items) /\ Sound(Tail(stack)) /\ FramesOf(Tail(stack)) \subseteq FramesOf(stack)
      /\ IsFrame(Top) => Top.slot \in FramesOf(stack)
      /\ ~IsFrame(Top) => Loose(Tail(stack))
      /\ TracksOf(Tail(stack)) = TracksOf(stack)
      /\ Ends(Tail(stack)) = Ends(stack)
  BY <1>1, <1>2, SoundPopped DEF Top
<1>4. Ends(stack) <= Ends(stack)
  BY EndsCounts
<1>5. IsFrame(Top) => driving[Top.slot] # 0
  BY <1>2, <1>3 DEF Driven
<1> QED
  BY <1>1, <1>3, <1>4, <1>5 DEF SameTracks

\* One or two calls that drive nothing.
LEMMA PlainOnes ==
  /\ Plain(<<>>)
  /\ \A x : x.op \notin {"loop", "return", "track", "finally"} => Plain(<<x>>)
  /\ \A x, y : x.op \notin {"loop", "return", "track", "finally"}
               /\ y.op \notin {"loop", "return", "track", "finally"} => Plain(<<x, y>>)
BY ShortElements DEF Plain

\* A loop that returns leaves its drive driven and tracked.
LEMMA QuietOfRuns ==
  ASSUME Types, QuietInv, NEW s \in Slots,
         \/ RunEnds(s) \/ RunParks(s) \/ RunPauses(s) \/ RunCompletes(s)
         \/ RunReturns(s) \/ RunStrays(s) \/ LoopTerminated(s)
  PROVE  QuietInv'
<1>1. /\ stack # <<>> /\ Top.slot = s /\ IsFrame(Top)
      /\ UNCHANGED <<driving, inFlight, inFlightDrives, quiesced, quiet>>
  BY DEF RunEnds, RunParks, RunPauses, RunCompletes, RunReturns, RunStrays, LoopTerminated, Run,
         Calling, IsFrame, quiescence
<1>2. /\ SameTracks(Tail(stack), stack) /\ driving[s] # 0
      /\ Tail(stack) \in Seq(Items) /\ Sound(Tail(stack))
  BY <1>1, CallReturned DEF IsFrame, SameTracks
<1>3. Generated'
  <2>1. generation' = generation
    BY DEF RunEnds, RunParks, RunPauses, RunCompletes, RunReturns, RunStrays, LoopTerminated,
           context
  <2>2. \A t \in Slots : exec'[t] # "free" => exec[t] # "free"
    BY DEF RunEnds, RunParks, RunPauses, RunCompletes, RunReturns, RunStrays, LoopTerminated,
           context, Run, Runnable, Live, Types, ContextTypes
  <2> QED
    BY <2>1, <2>2, GeneratedKept DEF QuietInv
<1>4. ASSUME NEW p, p # "none", phase' = [phase EXCEPT ![s] = p], stack' = Tail(stack)
      PROVE  QuietInv'
  <2>1. PhasesAgree'
    BY <1>1, <1>2, <1>4, PhaseKept DEF QuietInv
  <2> QED
    BY <1>1, <1>2, <1>3, <1>4, <2>1, QuietKept
<1>5. ASSUME NEW r, LoopReturn(s, r) PROVE QuietInv'
  <2>1. "returned" # "none"
    OBVIOUS
  <2> QED
    BY <1>4, <1>5, <2>1 DEF LoopReturn
<1>6. ASSUME NEW r \in Results, NEW calls, StackOfItems(calls), Plain(calls), ReturnAfter(calls, s, r)
      PROVE  QuietInv'
  <2> DEFINE x == Item("return", s, Top.gen, r)
             u == <<x>> \o Tail(stack)
  <2>1. x \in Items /\ IsFrame(x) /\ x.slot = s
    <3>1. Top.gen \in Nat
      BY <1>1, StackPopped DEF Types, StackTypes, Top
    <3> QED
      BY <3>1, ItemsTyped DEF Ops, IsFrame
  <2>2. stack' = (calls \o <<x>>) \o Tail(stack) /\ phase' = phase
    BY <1>6 DEF ReturnAfter
  <2> HIDE DEF x
  <2>3. <<x>> \in Seq(Items) /\ calls \in Seq(Items)
    BY <1>6, <2>1 DEF StackOfItems
  <2>4. stack' = calls \o u
    BY <1>2, <2>2, <2>3, ConcatAssociative
  <2>5. /\ u \in Seq(Items) /\ Sound(u) /\ TracksOf(u) = TracksOf(Tail(stack))
        /\ Ends(u) = Ends(Tail(stack)) /\ FramesOf(u) = FramesOf(Tail(stack)) \cup {s} /\ Loose(u)
    BY <1>2, <2>1, FramePushed
  <2>6. s \in FramesOf(stack)
    BY <1>1, SoundPopped DEF QuietInv, StackAgrees, Top, Types, StackTypes, StackOfItems
  <2> HIDE DEF u
  <2>7. SameTracks(u, stack)
    BY <1>2, <2>5, <2>6 DEF SameTracks
  <2>8. SameTracks(stack', stack)
    BY <1>6, <2>3, <2>4, <2>5, <2>7, PlainMade
  <2>9. PhasesAgree'
    BY <1>1, <2>2 DEF QuietInv, PhasesAgree
  <2> QED
    BY <1>1, <1>3, <2>8, <2>9, QuietKept
<1>7. Drain \in Items /\ ItemTyped(Drain) /\ Drain.op = "drain"
  BY ItemsTyped, RootIsSlot DEF Drain, Ops
<1>8. StackOfItems(<<Drain>>) /\ Plain(<<Drain>>)
  BY <1>7, StackOfOne, PlainOnes
<1>9. CASE RunEnds(s)
  BY <1>6, <1>8, <1>9 DEF RunEnds, Results
<1>10. CASE RunParks(s)
  BY <1>5, <1>10 DEF RunParks
<1>11. CASE RunPauses(s)
  <2>1. CASE UNCHANGED <<stack, phase, result>>
    <3>1. PhasesAgree'
      BY <1>1, <2>1 DEF QuietInv, PhasesAgree
    <3>2. SameTracks(stack', stack)
      BY <2>1, SameTracksHere
    <3> QED
      BY <1>1, <1>3, <3>1, <3>2, QuietKept
  <2>2. CASE LoopReturn(s, "paused")
    BY <1>5, <2>2
  <2>3. CASE phase' = [phase EXCEPT ![s] = "hook"] /\ stack' = Tail(stack)
    <3>1. "hook" # "none"
      OBVIOUS
    <3> QED
      BY <1>4, <2>3, <3>1
  <2> QED
    BY <1>11, <2>1, <2>2, <2>3 DEF RunPauses
<1>12. CASE RunCompletes(s)
  <2>1. PICK id \in promises : ReturnAfter(<<Wake(id.slot, id.gen), Drain>>, s, "done")
    BY <1>12 DEF RunCompletes
  <2>2. id.slot \in Slots /\ id.gen \in Nat
    BY DEF Types, ContextTypes, Identities
  <2>3. Wake(id.slot, id.gen) \in Items /\ ItemTyped(Wake(id.slot, id.gen))
        /\ Wake(id.slot, id.gen).op = "wake"
    BY <2>2, ItemsTyped DEF Wake, Ops
  <2>4. StackOfItems(<<Wake(id.slot, id.gen), Drain>>) /\ Plain(<<Wake(id.slot, id.gen), Drain>>)
    BY <1>7, <2>3, StackOfTwo, PlainOnes
  <2> QED
    BY <1>6, <2>1, <2>4 DEF Results
<1>13. CASE RunReturns(s)
  BY <1>5, <1>13 DEF RunReturns
<1>14. CASE RunStrays(s)
  BY <1>5, <1>14 DEF RunStrays
<1>15. CASE LoopTerminated(s)
  BY <1>5, <1>15 DEF LoopTerminated
<1> QED
  BY <1>9, <1>10, <1>11, <1>12, <1>13, <1>14, <1>15

\* So does the birth of a child context, whose wake is called from the loop.
LEMMA QuietOfSpawn ==
  ASSUME Types, QuietInv, NEW s \in Slots, RunSpawns(s)
  PROVE  QuietInv'
<1>1. /\ stack # <<>> /\ IsFrame(Top) /\ CanAllocate
      /\ UNCHANGED <<driving, phase, inFlight, inFlightDrives, quiesced, quiet>>
      /\ generation' = [generation EXCEPT ![NextSlot] = @ + 1]
      /\ exec' = [exec EXCEPT ![NextSlot] = "ready"]
      /\ stack' = <<Wake(NextSlot, NextGeneration)>> \o stack
  BY DEF RunSpawns, Run, Calling, IsFrame, drives, quiescence
<1>2. NextSlot \in Slots /\ generation[NextSlot] \in Nat
  BY <1>1, NextSlotIsFree DEF CanAllocate, Types, ContextTypes
<1>3. NextGeneration \in Nat /\ NextGeneration # 0
  BY <1>2 DEF NextGeneration
<1>4. Generated'
  <2>1. \A t \in Slots : generation'[t] = generation[t] \/ generation'[t] # 0
    BY <1>1, <1>2 DEF Types, ContextTypes
  <2>2. \A t \in Slots : exec'[t] # "free" => exec[t] # "free" \/ generation'[t] # 0
    BY <1>1, <1>2 DEF Types, ContextTypes
  <2> QED
    BY <2>1, <2>2, GeneratedKept DEF QuietInv
<1>5. PhasesAgree'
  BY <1>1 DEF QuietInv, PhasesAgree
<1>6. Wake(NextSlot, NextGeneration) \in Items /\ Wake(NextSlot, NextGeneration).op = "wake"
  BY <1>2, <1>3, ItemsTyped DEF Wake, Ops
<1>7. stack \in Seq(Items) /\ Top = stack[1]
  BY <1>1, TailElements DEF Types, StackTypes, StackOfItems, Top
<1>8. Loose(stack)
  BY <1>1, <1>7 DEF Loose, IsFrame
<1>9. SameTracks(stack', stack)
  <2>1. <<Wake(NextSlot, NextGeneration)>> \in Seq(Items) /\ Plain(<<Wake(NextSlot, NextGeneration)>>)
    BY <1>6, PlainOnes
  <2> QED
    BY <1>1, <1>7, <1>8, <2>1, PlainMade, SameTracksHere
<1> QED
  BY <1>1, <1>4, <1>5, <1>9, QuietKept

\* A drive's promise joins those in flight as the call to track it leaves the stack.
LEMMA QuietOfTrack ==
  ASSUME Types, QuietInv, TrackDrive
  PROVE  QuietInv'
<1> DEFINE s == Top.slot
           before == TracksOf(stack)
           after == TracksOf(Tail(stack))
<1>1. /\ stack # <<>> /\ Top.op = "track" /\ stack' = Tail(stack)
      /\ inFlightDrives' = inFlightDrives + 1
      /\ UNCHANGED <<driving, phase, inFlight, quiesced, quiet, generation, exec>>
  BY DEF TrackDrive, Calling, quiescence, context
<1>2. stack \in Seq(Items) /\ Sound(stack)
  BY DEF Types, StackTypes, StackOfItems, QuietInv, StackAgrees
<1>3. /\ Sound(Tail(stack)) /\ FramesOf(Tail(stack)) \subseteq FramesOf(stack)
      /\ s \in before /\ after = before \ {s} /\ Ends(Tail(stack)) = Ends(stack)
  BY <1>1, <1>2, SoundPopped DEF Top
<1>4. before \subseteq Driven /\ Driven' = Driven
  BY <1>1 DEF QuietInv, StackAgrees, Driven
<1>5. StackAgrees'
  <2>1. Sound(stack') /\ TracksOf(stack') \subseteq Driven' /\ FramesOf(stack') \subseteq Driven'
    BY <1>1, <1>3, <1>4 DEF QuietInv, StackAgrees
  <2> QED
    BY <2>1 DEF StackAgrees
<1>6. /\ inFlightDrives \in Nat /\ inFlight = inFlightDrives + Cardinality(before)
      /\ inFlightDrives >= Cardinality(Driven \ before) + Ends(stack)
  BY DEF QuietInv, CountsAgree
<1> HIDE DEF s, before, after
<1>7. Cardinality(after) = Cardinality(before) - 1 /\ Cardinality(before) \in Nat
  BY <1>3, <1>4, DrivenFinite, FS_RemoveElement
<1>8. Cardinality(Driven \ after) = Cardinality(Driven \ before) + 1
      /\ Cardinality(Driven \ before) \in Nat
  <2>1. Driven \ after = (Driven \ before) \cup {s} /\ s \notin Driven \ before
    BY <1>3, <1>4
  <2> QED
    BY <2>1, DrivenFinite, FS_AddElement
<1>9. Ends(stack) \in Nat
  BY EndsCounts
<1>10. CountsAgree'
  <2>1. /\ inFlightDrives' \in Nat /\ inFlight' = inFlightDrives' + Cardinality(after)
        /\ inFlightDrives' >= Cardinality(Driven \ after) + Ends(stack)
    BY <1>1, <1>6, <1>7, <1>8, <1>9
  <2> QED
    BY <1>1, <1>3, <1>4, <2>1 DEF CountsAgree, after
<1>11. PhasesAgree' /\ Generated' /\ QuiesceIsQuiet' /\ (quiet' => quiesced')
  BY <1>1 DEF QuietInv, PhasesAgree, Generated, QuiesceIsQuiet
<1> QED
  BY <1>5, <1>10, <1>11 DEF QuietInv

\* Two calls, one after the other.
LEMMA TwoCalls ==
  ASSUME NEW x \in Items, NEW y \in Items
  PROVE  <<x>> \o <<y>> = <<x, y>>
<1> DEFINE u == <<x>> \o <<y>>
           v == <<x, y>>
<1>1. /\ <<x>> \in Seq(Items) /\ Len(<<x>>) = 1 /\ <<x>>[1] = x
      /\ <<y>> \in Seq(Items) /\ Len(<<y>>) = 1 /\ <<y>>[1] = y
  OBVIOUS
<1>2. u \in Seq(Items) /\ Len(u) = 2 /\ u[1] = x /\ u[2] = y
  BY <1>1
<1>3. v \in Seq(Items) /\ Len(v) = 2 /\ v[1] = x /\ v[2] = y
  OBVIOUS
<1> HIDE DEF u, v
<1>4. \A i \in 1 .. Len(u) : u[i] = v[i]
  BY <1>2, <1>3
<1>5. u = v
  BY <1>2, <1>3, <1>4, SeqEqual
<1> QED
  BY <1>5 DEF u, v

\* _driveSlot: a drive starts, on what the caller leaves of the stack.
LEMMA QuietOfDrive ==
  ASSUME Types, QuietInv, NEW s \in Slots, NEW g \in Nat, g # 0, NEW who,
         NEW rest, StackOfItems(rest), SameTracks(rest, stack), Loose(rest),
         DriveSlot(s, g, who, rest), UNCHANGED <<quiesced, quiet>>, Generated'
  PROVE  QuietInv'
<1>1. CASE quiesced
  <2>1. stack' = rest /\ UNCHANGED <<driving, phase, inFlight, inFlightDrives>>
    BY <1>1 DEF DriveSlot
  <2>2. PhasesAgree'
    BY <2>1 DEF QuietInv, PhasesAgree
  <2> QED
    BY <2>1, <2>2, QuietKept
<1>2. CASE ~quiesced
  <2> DEFINE loop == Item("loop", s, g, None)
             track == Item("track", s, g, None)
             u == <<track>> \o rest
  <2>1. /\ driving[s] = 0 /\ driving' = [driving EXCEPT ![s] = g]
        /\ phase' = [phase EXCEPT ![s] = "loop"]
        /\ inFlight' = inFlight + 1 /\ inFlightDrives' = inFlightDrives
        /\ stack' = <<loop, track>> \o rest
    BY <1>2 DEF DriveSlot
  <2>2. /\ loop \in Items /\ IsFrame(loop) /\ loop.slot = s
        /\ track \in Items /\ track.op = "track" /\ track.slot = s
    BY ItemsTyped DEF Ops, IsFrame
  <2> HIDE DEF loop, track
  <2>3. stack' = <<loop>> \o u
    <3>1. <<loop>> \in Seq(Items) /\ <<track>> \in Seq(Items) /\ rest \in Seq(Items)
      BY <2>2 DEF StackOfItems
    <3>2. <<loop, track>> = <<loop>> \o <<track>>
      BY <2>2, TwoCalls
    <3> QED
      BY <2>1, <3>1, <3>2, ConcatAssociative
  <2>4. /\ Sound(rest) /\ TracksOf(rest) = TracksOf(stack)
        /\ Ends(rest) <= Ends(stack) /\ FramesOf(rest) \subseteq FramesOf(stack)
    BY DEF SameTracks
  <2>5. s \notin Driven /\ TracksOf(stack) \subseteq Driven /\ FramesOf(stack) \subseteq Driven
        /\ Driven' = Driven \cup {s}
    BY <2>1 DEF QuietInv, StackAgrees, Driven, Types, DriveTypes
  <2>6. /\ u \in Seq(Items) /\ Sound(u) /\ TracksOf(u) = TracksOf(stack) \cup {s}
        /\ Ends(u) = Ends(rest) /\ FramesOf(u) = FramesOf(rest)
    BY <2>2, <2>4, <2>5, TrackPushed DEF StackOfItems
  <2> HIDE DEF u
  <2>7. /\ Sound(stack') /\ TracksOf(stack') = TracksOf(stack) \cup {s} /\ Ends(stack') = Ends(rest)
        /\ FramesOf(stack') = FramesOf(rest) \cup {s}
    BY <2>2, <2>3, <2>6, FramePushed
  <2>8. StackAgrees'
    BY <2>4, <2>5, <2>7 DEF StackAgrees
  <2>9. CountsAgree'
    <3>1. /\ inFlightDrives \in Nat /\ inFlight = inFlightDrives + Cardinality(TracksOf(stack))
          /\ inFlightDrives >= Cardinality(Driven \ TracksOf(stack)) + Ends(stack)
      BY DEF QuietInv, CountsAgree
    <3>2. Cardinality(TracksOf(stack)) \in Nat
          /\ Cardinality(TracksOf(stack) \cup {s}) = Cardinality(TracksOf(stack)) + 1
      BY <2>5, DrivenFinite, FS_AddElement
    <3>3. (Driven \cup {s}) \ (TracksOf(stack) \cup {s}) = Driven \ TracksOf(stack)
      BY <2>5
    <3>4. Ends(rest) \in Nat /\ Ends(stack) \in Nat /\ Cardinality(Driven \ TracksOf(stack)) \in Nat
      BY EndsCounts, DrivenFinite
    <3>5. inFlight' = inFlightDrives' + Cardinality(TracksOf(stack) \cup {s})
      BY <2>1, <3>1, <3>2
    <3>6. inFlightDrives' >= Cardinality(Driven \ TracksOf(stack)) + Ends(rest)
      BY <2>1, <2>4, <3>1, <3>4
    <3> QED
      BY <2>1, <2>5, <2>7, <3>1, <3>3, <3>5, <3>6 DEF CountsAgree
  <2>10. PhasesAgree'
    BY <2>1 DEF QuietInv, PhasesAgree, Types, DriveTypes
  <2>11. ~quiet'
    BY <1>2 DEF QuietInv
  <2> QED
    BY <2>8, <2>9, <2>10, <2>11 DEF QuietInv, QuiesceIsQuiet
<1> QED
  BY <1>1, <1>2

\* A throw ends the drive of the innermost loop, which is driven.
LEMMA QuietOfThrow ==
  ASSUME Types, QuietInv, NEW calls, StackOfItems(calls), SameTracks(calls, stack), Loose(calls),
         Throw(calls), UNCHANGED <<driving, inFlight, inFlightDrives, quiesced, quiet>>, Generated'
  PROVE  QuietInv'
<1>1. SameTracks(stack', stack)
  <2>1. SameTracks(stack', calls)
    BY SoundThrown DEF SameTracks
  <2>2. Ends(stack) \in Nat /\ Ends(calls) \in Nat /\ Ends(stack') \in Nat
    BY EndsCounts
  <2> QED
    BY <2>1, <2>2 DEF SameTracks
<1>2. PhasesAgree'
  <2>1. CASE UNCHANGED phase
    BY <2>1 DEF QuietInv, PhasesAgree
  <2>2. ASSUME NEW k \in 1 .. Len(calls), calls[k].op \in {"loop", "return"}, calls[k].slot \in Slots,
               phase' = [phase EXCEPT ![calls[k].slot] = "returned"]
        PROVE  PhasesAgree'
    <3>1. k \in DOMAIN calls
      BY DEF StackOfItems
    <3>2. calls[k].slot \in FramesOf(calls)
      BY <2>2, <3>1 DEF FramesOf, IsFrame, ToSet
    <3>3. driving[calls[k].slot] # 0
      BY <3>2 DEF SameTracks, QuietInv, StackAgrees, Driven
    <3>4. "returned" # "none"
      OBVIOUS
    <3> QED
      BY <2>2, <3>3, <3>4, PhaseKept DEF QuietInv
  <2> QED
    BY <2>1, <2>2, ThrowGoes
<1> QED
  BY <1>1, <1>2, QuietKept

\* A wake is dropped, held back, driven, or throws out of the innermost loop.
LEMMA QuietOfWake ==
  ASSUME Types, QuietInv, DispatchWoken
  PROVE  QuietInv'
<1> DEFINE s == Top.slot
           g == Top.gen
<1>1. /\ stack # <<>> /\ Top.op = "wake"
      /\ UNCHANGED <<quiesced, quiet, generation, exec>>
  BY DEF DispatchWoken, Calling, quiescence, context
<1>2. s \in Slots /\ g \in Nat
  BY <1>1, StackPopped DEF Types, StackTypes, Top
<1>3. SameTracks(Tail(stack), stack) /\ StackOfItems(Tail(stack)) /\ Loose(Tail(stack))
  BY <1>1, CallReturned DEF IsFrame
<1>4. Generated'
  BY <1>1 DEF QuietInv, Generated
<1>5. CASE stack' = Tail(stack) /\ UNCHANGED drives
  <2>1. PhasesAgree'
    BY <1>5 DEF QuietInv, PhasesAgree, drives
  <2> QED
    BY <1>1, <1>3, <1>4, <1>5, <2>1, QuietKept DEF drives
<1>6. CASE Live(s, g) /\ DriveSlot(s, g, WakeOwner(s, g), Tail(stack))
  <2>1. g # 0
    BY <1>2, <1>6 DEF Live, QuietInv, Generated
  <2> QED
    BY <1>1, <1>2, <1>3, <1>4, <1>6, <2>1, QuietOfDrive
<1>7. CASE Throw(Tail(stack)) /\ UNCHANGED <<driving, inFlight, inFlightDrives>>
  BY <1>1, <1>3, <1>4, <1>7, QuietOfThrow
<1> QED
  BY <1>5, <1>6, <1>7 DEF DispatchWoken

\* So is the context of an invocation that begins.
LEMMA QuietOfBegin ==
  ASSUME Types, QuietInv, BeginInvoke
  PROVE  QuietInv'
<1>1. /\ stack # <<>> /\ Top.op \in {"begin", "rebegin"} /\ UNCHANGED <<quiesced, quiet>>
      /\ BeginInvokeFails(Top.id) \/ BeginInvokeDrives(Top.id)
  BY DEF BeginInvoke, quiescence
<1>2. SameTracks(Tail(stack), stack) /\ StackOfItems(Tail(stack)) /\ Loose(Tail(stack))
  BY <1>1, CallReturned DEF IsFrame
<1>3. CanAllocate => NextSlot \in Slots /\ generation[NextSlot] \in Nat
                     /\ NextGeneration \in Nat /\ NextGeneration # 0
  <2> SUFFICES ASSUME CanAllocate
               PROVE  NextSlot \in Slots /\ generation[NextSlot] \in Nat
                      /\ NextGeneration \in Nat /\ NextGeneration # 0
    OBVIOUS
  <2>1. NextSlot \in Slots /\ generation[NextSlot] \in Nat
    BY NextSlotIsFree DEF CanAllocate, Types, ContextTypes
  <2> QED
    BY <2>1 DEF NextGeneration
<1>4. CASE BeginInvokeFails(Top.id)
  <2>1. stack' = Tail(stack) /\ UNCHANGED <<driving, phase, inFlight, inFlightDrives, exec>>
    BY <1>4 DEF BeginInvokeFails, drives
  <2>2. \A t \in Slots : generation'[t] = generation[t] \/ generation'[t] # 0
    BY <1>3, <1>4 DEF BeginInvokeFails, Types, ContextTypes
  <2>3. Generated'
    BY <2>1, <2>2, GeneratedKept DEF QuietInv
  <2>4. PhasesAgree'
    BY <2>1 DEF QuietInv, PhasesAgree
  <2> QED
    BY <1>1, <1>2, <2>1, <2>3, <2>4, QuietKept
<1>5. CASE BeginInvokeDrives(Top.id)
  <2>1. CanAllocate /\ Allocate("ready")
    BY <1>5 DEF BeginInvokeDrives
  <2>2. Generated'
    <3>1. \A t \in Slots : generation'[t] = generation[t] \/ generation'[t] # 0
      BY <1>3, <2>1 DEF Allocate, Types, ContextTypes
    <3>2. \A t \in Slots : exec'[t] # "free" => exec[t] # "free" \/ generation'[t] # 0
      BY <1>3, <2>1 DEF Allocate, Types, ContextTypes
    <3> QED
      BY <3>1, <3>2, GeneratedKept DEF QuietInv
  <2>3. CASE DriveSlot(NextSlot, NextGeneration, <<"invoke", Top.id>>, Tail(stack))
    BY <1>1, <1>2, <1>3, <2>1, <2>2, <2>3, QuietOfDrive
  <2>4. CASE stack' = Tail(stack) /\ UNCHANGED <<phase, driving, inFlight, inFlightDrives>>
    <3>1. PhasesAgree'
      BY <2>4 DEF QuietInv, PhasesAgree
    <3> QED
      BY <1>1, <1>2, <2>2, <2>4, <3>1, QuietKept
  <2>5. CASE Throw(Tail(stack)) /\ UNCHANGED <<driving, inFlight, inFlightDrives>>
    BY <1>1, <1>2, <2>2, <2>5, QuietOfThrow
  <2> QED
    BY <1>5, <2>3, <2>4, <2>5 DEF BeginInvokeDrives
<1> QED
  BY <1>1, <1>4, <1>5

\* Where no handler calls the runtime, the embedder's turn is between two jobs.
LEMMA HostBetweenJobs ==
  ASSUME HandlerCalls = FALSE, HostTurn
  PROVE  stack = <<>>
BY DEF HostTurn, BetweenJobs

\* What an empty stack says.
LEMMA NothingCalled ==
  /\ Sound(<<>>) /\ Loose(<<>>) /\ TracksOf(<<>>) = {} /\ Ends(<<>>) = 0 /\ FramesOf(<<>>) = {}
  /\ SameTracks(<<>>, <<>>) /\ StackOfItems(<<>>)
<1>1. Len(<<>>) = 0 /\ ToSet(<<>>) = {}
  BY ShortElements
<1>2. Sound(<<>>)
  BY <1>1 DEF Sound, DistinctTracks
<1>3. TracksOf(<<>>) = {} /\ Ends(<<>>) = 0 /\ FramesOf(<<>>) = {}
  BY <1>1 DEF TracksOf, Ends, FramesOf
<1> QED
  BY <1>2, <1>3, EmptyStack DEF SameTracks, Loose

\* run(slot) drives a slot that is not driven.
LEMMA QuietOfRunSlot ==
  ASSUME HandlerCalls = FALSE, Types, QuietInv, NEW s \in Slots, RunSlot(s)
  PROVE  QuietInv'
<1>1. stack = <<>>
  BY HostBetweenJobs DEF RunSlot
<1>2. /\ exec[s] # "free" /\ UNCHANGED <<quiesced, quiet, generation, exec>>
      /\ DriveSlot(s, generation[s],
           IF waiter[s] # None THEN <<"invoke", waiter[s]>> ELSE <<"run", None>>, stack)
  BY DEF RunSlot, quiescence, context
<1>3. generation[s] \in Nat /\ generation[s] # 0
  BY <1>2 DEF Types, ContextTypes, QuietInv, Generated
<1>4. Generated'
  BY <1>2 DEF QuietInv, Generated
<1>5. StackOfItems(stack) /\ SameTracks(stack, stack) /\ Loose(stack)
  BY <1>1, NothingCalled
<1> QED
  BY <1>2, <1>3, <1>4, <1>5, QuietOfDrive

\* A closure call is abandoned, refused, or driven in a slot that is not.
LEMMA QuietOfCall ==
  ASSUME Types, QuietInv, RunClosureCall
  PROVE  QuietInv'
<1>1. stack = <<>> /\ UNCHANGED <<quiesced, quiet>>
  BY DEF RunClosureCall, BetweenJobs, quiescence
<1>2. CanAllocate => NextSlot \in Slots /\ generation[NextSlot] \in Nat
                     /\ NextGeneration \in Nat /\ NextGeneration # 0
  <2> SUFFICES ASSUME CanAllocate
               PROVE  NextSlot \in Slots /\ generation[NextSlot] \in Nat
                      /\ NextGeneration \in Nat /\ NextGeneration # 0
    OBVIOUS
  <2>1. NextSlot \in Slots /\ generation[NextSlot] \in Nat
    BY NextSlotIsFree DEF CanAllocate, Types, ContextTypes
  <2> QED
    BY <2>1 DEF NextGeneration
<1>3. ASSUME UNCHANGED <<drives, stack, exec>>,
             \/ UNCHANGED generation
             \/ CanAllocate /\ generation' = [generation EXCEPT ![NextSlot] = @ + 1]
      PROVE  QuietInv'
  <2>1. \A t \in Slots : generation'[t] = generation[t] \/ generation'[t] # 0
    BY <1>2, <1>3 DEF Types, ContextTypes
  <2>2. Generated'
    BY <1>3, <2>1, GeneratedKept DEF QuietInv
  <2>3. PhasesAgree'
    BY <1>3 DEF QuietInv, PhasesAgree, drives
  <2> QED
    BY <1>1, <1>3, <2>2, <2>3, QuietKept, SameTracksHere DEF drives
<1>4. CASE CallAbandoned
  BY <1>3, <1>4 DEF CallAbandoned, context
<1>5. CASE CallRefused
  BY <1>3, <1>5 DEF CallRefused
<1>6. CASE CallDelivered
  <2>1. CanAllocate
    BY <1>6 DEF CallDelivered
  <2>2. CASE /\ Allocate("ready")
             /\ DriveSlot(NextSlot, NextGeneration, <<"closure", current>>, <<>>)
    <3>1. \A t \in Slots : generation'[t] = generation[t] \/ generation'[t] # 0
      BY <1>2, <2>1, <2>2 DEF Allocate, Types, ContextTypes
    <3>2. \A t \in Slots : exec'[t] # "free" => exec[t] # "free" \/ generation'[t] # 0
      BY <1>2, <2>1, <2>2 DEF Allocate, Types, ContextTypes
    <3>3. Generated'
      BY <3>1, <3>2, GeneratedKept DEF QuietInv
    <3> QED
      BY <1>1, <1>2, <2>1, <2>2, <3>3, NothingCalled, QuietOfDrive
  <2>3. CASE /\ generation' = [generation EXCEPT ![NextSlot] = @ + 1]
             /\ UNCHANGED <<drives, stack, exec>>
    BY <1>3, <2>1, <2>3
  <2> QED
    BY <1>6, <2>2, <2>3 DEF CallDelivered
<1> QED
  BY <1>4, <1>5, <1>6 DEF RunClosureCall

\* The end of a drive leaves _driving and enters the stack as one call.
LEMMA QuietOfFinally ==
  ASSUME Types, QuietInv, NEW s \in Slots, DriveFinally(s)
  PROVE  QuietInv'
<1> DEFINE x == Item("finally", s, driving[s], None)
           w == Wake(s, driving[s])
<1>1. /\ stack = <<>> /\ phase[s] = "unwound"
      /\ driving' = [driving EXCEPT ![s] = 0] /\ phase' = [phase EXCEPT ![s] = "none"]
      /\ stack' = <<>> \o <<x>> \/ stack' = <<w>> \o <<x>>
      /\ UNCHANGED <<inFlight, inFlightDrives, quiesced, quiet, generation, exec>>
  BY DEF DriveFinally, BetweenJobs, quiescence, context
<1>2. driving[s] \in Nat /\ driving[s] # 0
  BY <1>1 DEF Types, DriveTypes, QuietInv, PhasesAgree
<1>3. /\ x \in Items /\ x.op = "finally"
      /\ w \in Items /\ w.op \notin {"loop", "return", "track", "finally"}
  BY <1>2, ItemsTyped DEF Wake, Ops
<1> HIDE DEF x, w
<1>4. /\ Sound(<<x>>) /\ Loose(<<x>>) /\ TracksOf(<<x>>) = {} /\ Ends(<<x>>) = 1
      /\ FramesOf(<<x>>) = {}
  <2>1. Len(<<x>>) = 1 /\ <<x>>[1] = x /\ ToSet(<<x>>) = {x}
    BY ShortElements
  <2>2. \A k \in 1 .. 1 : k = 1
    OBVIOUS
  <2>3. TracksOf(<<x>>) = {}
    BY <1>3, <2>1 DEF TracksOf
  <2>4. FramesOf(<<x>>) = {}
    BY <1>3, <2>1 DEF FramesOf, IsFrame
  <2>5. Ends(<<x>>) = 1
    BY <1>3, <2>1 DEF Ends
  <2>6. Sound(<<x>>) /\ Loose(<<x>>)
    BY <1>3, <2>1, <2>2 DEF Sound, DistinctTracks, Loose
  <2> QED
    BY <2>3, <2>4, <2>5, <2>6
<1>5. SameTracks(<<x>>, <<x>>)
  BY <1>4 DEF SameTracks
<1>6. SameTracks(stack', <<x>>)
  <2>1. <<x>> \in Seq(Items) /\ <<w>> \in Seq(Items) /\ <<>> \in Seq(Items)
    BY <1>3
  <2>2. Plain(<<>>) /\ Plain(<<w>>)
    BY <1>3, PlainOnes
  <2>3. SameTracks(<<>> \o <<x>>, <<x>>) /\ SameTracks(<<w>> \o <<x>>, <<x>>)
    BY <1>4, <1>5, <2>1, <2>2, PlainMade
  <2> QED
    BY <1>1, <2>3
<1>7. /\ Sound(stack') /\ TracksOf(stack') = {} /\ FramesOf(stack') = {} /\ Ends(stack') <= 1
  BY <1>4, <1>6 DEF SameTracks
<1>8. s \in Driven /\ Driven' = Driven \ {s}
  BY <1>1, <1>2 DEF Driven, Types, DriveTypes
<1>9. StackAgrees'
  BY <1>7 DEF StackAgrees
<1>10. CountsAgree'
  <2>1. /\ inFlightDrives \in Nat /\ inFlight = inFlightDrives + 0
        /\ inFlightDrives >= Cardinality(Driven) + 0
    <3>1. TracksOf(stack) = {} /\ Ends(stack) = 0 /\ Driven \ {} = Driven
      BY <1>1, NothingCalled
    <3> QED
      BY <3>1, FS_EmptySet DEF QuietInv, CountsAgree
  <2>2. Cardinality(Driven \ {s}) = Cardinality(Driven) - 1 /\ Cardinality(Driven) \in Nat
    BY <1>8, DrivenFinite, FS_RemoveElement
  <2>3. Ends(stack') \in Nat
    BY EndsCounts
  <2>4. inFlightDrives >= Cardinality(Driven \ {s}) + Ends(stack')
    BY <1>7, <2>1, <2>2, <2>3
  <2>5. Driven' \ TracksOf(stack') = Driven \ {s} /\ Cardinality(TracksOf(stack')) = 0
    BY <1>7, <1>8, FS_EmptySet
  <2> QED
    BY <1>1, <2>1, <2>4, <2>5 DEF CountsAgree
<1>11. PhasesAgree'
  BY <1>1 DEF QuietInv, PhasesAgree, Types, DriveTypes
<1>12. Generated' /\ QuiesceIsQuiet' /\ (quiet' => quiesced')
  BY <1>1 DEF QuietInv, Generated, QuiesceIsQuiet, Types, DriveTypes
<1> QED
  BY <1>9, <1>10, <1>11, <1>12 DEF QuietInv

\* Where no slot has a drive, every phase is none.
LEMMA NothingDriven == Cardinality(Driven) = 0 /\ PhasesAgree => \A s \in Slots : phase[s] = "none"
<1> SUFFICES ASSUME Cardinality(Driven) = 0, PhasesAgree PROVE \A s \in Slots : phase[s] = "none"
  OBVIOUS
<1>1. Driven = {}
  BY DrivenFinite, FS_EmptySet
<1> QED
  BY <1>1 DEF PhasesAgree, Driven

\* The counts drop, and the promises of quiesce() resolve if none is left.
LEMMA QuietOfFinallyRest ==
  ASSUME Types, QuietInv, FinallyRest
  PROVE  QuietInv'
<1>1. /\ stack # <<>> /\ Top.op = "finally" /\ stack' = Tail(stack)
      /\ inFlight' = inFlight - 1 /\ inFlightDrives' = inFlightDrives - 1
      /\ \/ quiesced /\ inFlightDrives' = 0 /\ quiet' = TRUE
         \/ quiet' = quiet
      /\ UNCHANGED <<driving, phase, quiesced, generation, exec>>
  BY DEF FinallyRest, Calling, context
<1>2. stack' = <<>> /\ Ends(stack) = 1 /\ TracksOf(stack) = {}
  BY <1>1, SoundPopped DEF QuietInv, StackAgrees, Top, Types, StackTypes, StackOfItems
<1>3. /\ inFlightDrives \in Nat /\ inFlight = inFlightDrives
      /\ inFlightDrives >= Cardinality(Driven) + 1 /\ Cardinality(Driven) \in Nat
  <2>1. Driven \ {} = Driven /\ Cardinality({}) = 0
    BY FS_EmptySet
  <2>2. /\ inFlightDrives \in Nat /\ inFlight = inFlightDrives + 0
        /\ inFlightDrives >= Cardinality(Driven) + 1
    BY <1>2, <2>1 DEF QuietInv, CountsAgree
  <2> QED
    BY <2>2, DrivenFinite
<1>4. ~quiet
  <2>1. inFlight # 0
    BY <1>3
  <2> QED
    BY <2>1 DEF QuietInv, QuiesceIsQuiet
<1>5. Driven' = Driven
  BY <1>1 DEF Driven
<1>6. PhasesAgree' /\ Generated'
  BY <1>1 DEF QuietInv, PhasesAgree, Generated
<1>7. StackAgrees'
  <2>1. Sound(stack') /\ TracksOf(stack') = {} /\ FramesOf(stack') = {}
    BY <1>2, NothingCalled
  <2> QED
    BY <2>1 DEF StackAgrees
<1>8. CountsAgree'
  <2>1. TracksOf(stack') = {} /\ Ends(stack') = 0 /\ Cardinality({}) = 0 /\ Driven \ {} = Driven
    BY <1>2, NothingCalled, FS_EmptySet
  <2>2. /\ inFlightDrives' \in Nat /\ inFlight' = inFlightDrives' + 0
        /\ inFlightDrives' >= Cardinality(Driven) + 0
    BY <1>1, <1>3
  <2> QED
    BY <1>5, <2>1, <2>2 DEF CountsAgree
<1>9. QuiesceIsQuiet' /\ (quiet' => quiesced')
  <2>1. CASE ~quiet'
    BY <2>1 DEF QuiesceIsQuiet
  <2>2. CASE quiet'
    <3>1. quiesced /\ inFlightDrives' = 0
      BY <1>1, <1>4, <2>2
    <3>2. Cardinality(Driven) = 0 /\ inFlight' = 0
      BY <1>1, <1>3, <3>1
    <3>3. \A t \in Slots : phase[t] = "none"
      BY <3>2, NothingDriven DEF QuietInv
    <3> QED
      BY <1>1, <3>1, <3>2, <3>3 DEF QuiesceIsQuiet
  <2> QED
    BY <2>1, <2>2
<1> QED
  BY <1>6, <1>7, <1>8, <1>9 DEF QuietInv

\* quiesce() called between two jobs resolves at once only if no drive is in flight.
LEMMA QuietOfQuiesce ==
  ASSUME HandlerCalls = FALSE, Types, QuietInv, Quiesce
  PROVE  QuietInv'
<1>1. /\ stack = <<>> /\ quiesced' = TRUE
      /\ (inFlightDrives = 0 /\ quiet' = TRUE) \/ quiet' = quiet
      /\ UNCHANGED <<stack, driving, phase, inFlight, inFlightDrives, generation, exec>>
  BY HostBetweenJobs DEF Quiesce, drives, context
<1>2. Driven' = Driven
  BY <1>1 DEF Driven
<1>3. PhasesAgree' /\ Generated'
  BY <1>1 DEF QuietInv, PhasesAgree, Generated
<1>4. StackAgrees' /\ CountsAgree'
  BY <1>1, <1>2 DEF QuietInv, StackAgrees, CountsAgree
<1>5. QuiesceIsQuiet'
  <2>1. CASE quiet' = quiet
    BY <1>1, <2>1 DEF QuietInv, QuiesceIsQuiet
  <2>2. CASE inFlightDrives = 0
    <3>1. TracksOf(stack) = {} /\ Ends(stack) = 0 /\ Cardinality({}) = 0 /\ Driven \ {} = Driven
      BY <1>1, NothingCalled, FS_EmptySet
    <3>2. inFlight = 0 + 0 /\ 0 >= Cardinality(Driven) + 0
      BY <2>2, <3>1 DEF QuietInv, CountsAgree
    <3>3. Cardinality(Driven) = 0 /\ inFlight = 0
      BY <3>2, DrivenFinite
    <3>4. \A t \in Slots : phase[t] = "none"
      BY <3>3, NothingDriven DEF QuietInv
    <3> QED
      BY <1>1, <3>3, <3>4 DEF QuiesceIsQuiet
  <2> QED
    BY <1>1, <2>1, <2>2
<1> QED
  BY <1>1, <1>3, <1>4, <1>5 DEF QuietInv

\* Steps that leave the drives and the two flags alone.
LEMMA QuietUnmoved ==
  ASSUME QuietInv, SameTracks(stack', stack),
         UNCHANGED <<driving, phase, inFlight, inFlightDrives, quiesced, quiet, generation>>,
         \A s \in Slots : exec'[s] # "free" => exec[s] # "free"
  PROVE  QuietInv'
<1>1. Generated'
  BY GeneratedKept DEF QuietInv
<1>2. PhasesAgree'
  BY DEF QuietInv, PhasesAgree
<1> QED
  BY <1>1, <1>2, QuietKept

\* Calls that drive nothing take the place of the call that returned.
LEMMA PlainInstead ==
  ASSUME Types, QuietInv, stack # <<>>, ~IsFrame(Top), Top.op \notin {"track", "finally"},
         NEW calls \in Seq(Items), Plain(calls), stack' = calls \o Tail(stack)
  PROVE  SameTracks(stack', stack)
BY CallReturned, PlainMade

\* A tuple of calls none of which drives.
LEMMA PlainMapped ==
  ASSUME NEW calls, StackOfItems(calls), NEW n, DOMAIN calls = 1 .. n,
         \A k \in 1 .. n : calls[k].op \notin {"loop", "return", "track", "finally"}
  PROVE  Plain(calls) /\ calls \in Seq(Items)
BY DEF Plain, ToSet, StackOfItems

\* Calls that drive nothing, after calls that drive nothing.
LEMMA PlainTwice ==
  ASSUME NEW calls \in Seq(Items), NEW more \in Seq(Items), Plain(calls), Plain(more)
  PROVE  Plain(calls \o more) /\ calls \o more \in Seq(Items)
BY ConcatElements DEF Plain

\* One call that drives nothing, made on an empty stack.
LEMMA PlainAlone ==
  ASSUME NEW x \in Items, x.op \notin {"loop", "return", "track", "finally"}
  PROVE  SameTracks(<<x>>, <<>>)
<1>1. Len(<<x>>) = 1 /\ <<x>>[1] = x /\ ToSet(<<x>>) = {x}
  BY ShortElements
<1>2. TracksOf(<<x>>) = {} /\ FramesOf(<<x>>) = {} /\ Ends(<<x>>) = 0
  BY <1>1 DEF TracksOf, FramesOf, Ends, IsFrame
<1>3. \A k \in 1 .. 1 : k = 1
  OBVIOUS
<1>4. Sound(<<x>>)
  BY <1>1, <1>3 DEF Sound, DistinctTracks
<1> QED
  BY <1>2, <1>4, NothingCalled DEF SameTracks

\* The calls resume() and the drainer make of their own.
LEMMA PlainCalled ==
  \A op \in {"redispatch", "reinvoke", "kick", "drain"} :
    Item(op, Root, 0, None) \in Items /\ Item(op, Root, 0, None).op = op
BY ItemsTyped, RootIsSlot DEF Ops

\* Between two jobs, one call is made, or none.
LEMMA QuietOfHost ==
  ASSUME HandlerCalls = FALSE, Types, QuietInv,
         \/ \E i \in Invocations : Invoke(i) \/ Abort(i)
         \/ \E c \in Calls : Schedule(c)
         \/ Settle \/ Terminate \/ DrainerNext \/ Continue \/ UNCHANGED vars
  PROVE  QuietInv'
<1>1. UNCHANGED <<driving, phase, inFlight, inFlightDrives, quiesced, quiet, generation>>
  BY DEF Invoke, Abort, Schedule, Settle, Terminate, DrainerNext, Continue, vars, drives,
         quiescence, context
<1>2. \A s \in Slots : exec'[s] # "free" => exec[s] # "free"
  <2>1. CASE UNCHANGED exec
    BY <2>1
  <2>2. CASE \E i \in Invocations : Abort(i)
    BY <2>2 DEF Abort, CancelContext, Types, ContextTypes
  <2>3. CASE Settle
    BY <2>3 DEF Settle, Live, Types, ContextTypes
  <2>4. CASE Continue
    BY <2>4 DEF Continue, InvokeContinues, BackgroundContinues, ClosureContinues, FreeIfLive,
                Types, ContextTypes
  <2> QED
    BY <2>1, <2>2, <2>3, <2>4 DEF Invoke, Schedule, Terminate, DrainerNext, vars, context
<1>3. SameTracks(stack', stack)
  <2>1. CASE UNCHANGED stack
    BY <2>1, SameTracksHere
  <2>2. ASSUME NEW i \in Invocations, Invoke(i), stack' = <<Item("begin", Root, 0, i)>> \o stack
        PROVE  SameTracks(stack', stack)
    <3> DEFINE x == Item("begin", Root, 0, i)
    <3>1. x \in Items /\ x.op = "begin"
      BY ItemsTyped, RootIsSlot DEF Ops
    <3> HIDE DEF x
    <3>2. stack = <<>> /\ stack' = <<x>> \o stack
      BY <2>2, HostBetweenJobs DEF Invoke, x
    <3>3. <<x>> \in Seq(Items) /\ Plain(<<x>>)
      BY <3>1, PlainOnes
    <3> QED
      BY <3>2, <3>3, PlainMade, NothingCalled, EmptySeq
  <2>3. ASSUME NEW c \in Calls, Schedule(c) PROVE SameTracks(stack', stack)
    <3> DEFINE x == Item("kick", Root, 0, None)
    <3>1. x \in Items /\ x.op = "kick"
      BY PlainCalled
    <3>2. stack = <<>> /\ stack' = <<x>> \o stack
      BY <2>3, HostBetweenJobs DEF Schedule
    <3> HIDE DEF x
    <3>3. <<x>> \in Seq(Items) /\ Plain(<<x>>)
      BY <3>1, PlainOnes
    <3> QED
      BY <3>2, <3>3, PlainMade, NothingCalled, EmptySeq
  <2>4. CASE Settle /\ stack' = <<Drain>>
    <3>1. stack = <<>>
      BY <2>4 DEF Settle, BetweenJobs
    <3> QED
      BY <2>4, <3>1, PlainAlone, PlainCalled DEF Drain
  <2> QED
    BY <2>1, <2>2, <2>3, <2>4 DEF Invoke, Abort, Settle, Terminate, DrainerNext, Continue, vars
<1> QED
  BY <1>1, <1>2, <1>3, QuietUnmoved

\* Calls of a job that drive nothing.
LEMMA QuietOfCalls ==
  ASSUME Types, QuietInv,
         DrainSpawned \/ ResumeCancels \/ ResumeRedispatches \/ ResumeReinvokes \/ KickClosureDrainer
  PROVE  QuietInv'
<1>1. UNCHANGED <<driving, phase, inFlight, inFlightDrives, quiesced, quiet, generation>>
  BY DEF DrainSpawned, ResumeCancels, ResumeRedispatches, ResumeReinvokes, KickClosureDrainer,
         drives, quiescence, context
<1>2. \A s \in Slots : exec'[s] # "free" => exec[s] # "free"
  BY DEF DrainSpawned, ResumeCancels, ResumeRedispatches, ResumeReinvokes, KickClosureDrainer,
         context, CancelContext, Types, ContextTypes
<1>3. stack # <<>> /\ ~IsFrame(Top) /\ Top.op \notin {"track", "finally"}
  BY DEF DrainSpawned, ResumeCancels, ResumeRedispatches, ResumeReinvokes, KickClosureDrainer,
         Calling, IsFrame
<1>4. CASE stack' = Tail(stack)
  <2>1. SameTracks(stack', stack)
    BY <1>3, <1>4, CallReturned
  <2> QED
    BY <1>1, <1>2, <2>1, QuietUnmoved
<1>5. ASSUME NEW calls \in Seq(Items), Plain(calls), stack' = calls \o Tail(stack)
      PROVE  QuietInv'
  BY <1>1, <1>2, <1>3, <1>5, PlainInstead, QuietUnmoved
<1>6. CASE DrainSpawned
  <2> DEFINE calls == [k \in DOMAIN spawned |-> Wake(spawned[k].slot, spawned[k].gen)]
             n == Len(spawned)
  <2>1. n \in Nat /\ DOMAIN spawned = 1 .. n /\ \A k \in 1 .. n : spawned[k] \in Identities
    BY DEF Types, ContextTypes
  <2>2. \A k \in 1 .. n : /\ Wake(spawned[k].slot, spawned[k].gen) \in Items
                          /\ ItemTyped(Wake(spawned[k].slot, spawned[k].gen))
                          /\ Wake(spawned[k].slot, spawned[k].gen).op = "wake"
    BY <2>1, ItemsTyped DEF Wake, Ops, Identities
  <2>3. /\ calls \in [1 .. n -> Items] /\ DOMAIN calls = 1 .. n
        /\ \A k \in 1 .. n : ItemTyped(calls[k]) /\ calls[k].op = "wake"
    BY <2>1, <2>2
  <2>4. stack' = Tail(stack) \/ stack' = calls \o Tail(stack)
    BY <1>6 DEF DrainSpawned
  <2> HIDE DEF calls, n
  <2>5. Plain(calls) /\ calls \in Seq(Items)
    BY <2>1, <2>3, StackMapped, PlainMapped
  <2> QED
    BY <1>4, <1>5, <2>4, <2>5
<1>7. CASE ResumeCancels
  BY <1>4, <1>7 DEF ResumeCancels
<1>8. CASE ResumeRedispatches
  <2> DEFINE H == {s \in Slots : deferredWakes[s] # 0}
             more == <<Drain, Item("reinvoke", Root, 0, None)>>
  <2>1. PICK order \in SetToSeqs(H) :
          stack' = [k \in DOMAIN order |-> Wake(order[k], deferredWakes[order[k]])]
                   \o more \o Tail(stack)
    BY <1>8 DEF ResumeRedispatches
  <2>2. order \in [1 .. Cardinality(H) -> H]
    BY DEF SetToSeqs
  <2>3. Cardinality(H) \in Nat
    BY SlotsFinite, FS_Subset, FS_CardinalityType
  <2> DEFINE n == Cardinality(H)
             calls == [k \in DOMAIN order |-> Wake(order[k], deferredWakes[order[k]])]
  <2>4. \A k \in 1 .. n : order[k] \in Slots /\ deferredWakes[order[k]] \in Nat
    BY <2>2 DEF Types, ContextTypes
  <2>5. \A k \in 1 .. n : /\ Wake(order[k], deferredWakes[order[k]]) \in Items
                          /\ ItemTyped(Wake(order[k], deferredWakes[order[k]]))
                          /\ Wake(order[k], deferredWakes[order[k]]).op = "wake"
    BY <2>4, ItemsTyped DEF Wake, Ops
  <2>6. /\ calls \in [1 .. n -> Items] /\ DOMAIN calls = 1 .. n
        /\ \A k \in 1 .. n : ItemTyped(calls[k]) /\ calls[k].op = "wake"
    BY <2>2, <2>5
  <2>7. stack' = (calls \o more) \o Tail(stack)
    BY <2>1
  <2>8. Drain \in Items /\ Drain.op = "drain"
        /\ Item("reinvoke", Root, 0, None) \in Items /\ Item("reinvoke", Root, 0, None).op = "reinvoke"
    BY PlainCalled DEF Drain
  <2>9. more \in Seq(Items) /\ Plain(more)
    BY <2>8, PlainOnes
  <2> HIDE DEF calls, n, more, H
  <2>10. Plain(calls) /\ calls \in Seq(Items)
    BY <2>3, <2>6, StackMapped, PlainMapped DEF n
  <2>11. Plain(calls \o more) /\ calls \o more \in Seq(Items)
    BY <2>9, <2>10, PlainTwice
  <2> QED
    BY <1>5, <2>7, <2>11
<1>9. CASE ResumeReinvokes
  <2> DEFINE calls == [k \in DOMAIN deferredInvokes |-> Item("rebegin", Root, 0, deferredInvokes[k])]
             more == <<Item("kick", Root, 0, None)>>
             n == Len(deferredInvokes)
  <2>1. stack' = (calls \o more) \o Tail(stack)
    BY <1>9 DEF ResumeReinvokes
  <2>2. n \in Nat /\ DOMAIN deferredInvokes = 1 .. n
    BY DEF Types, InvokeTypes
  <2>3. StackOfItems(calls)
    BY CallsFor DEF Types, InvokeTypes
  <2>4. DOMAIN calls = 1 .. n /\ \A k \in 1 .. n : calls[k].op = "rebegin"
    BY <2>2 DEF Item
  <2>5. more \in Seq(Items) /\ Plain(more)
    BY PlainCalled, PlainOnes
  <2> HIDE DEF calls, n, more
  <2>6. Plain(calls) /\ calls \in Seq(Items)
    BY <2>3, <2>4, PlainMapped
  <2>7. Plain(calls \o more) /\ calls \o more \in Seq(Items)
    BY <2>5, <2>6, PlainTwice
  <2> QED
    BY <1>5, <2>1, <2>7
<1>10. CASE KickClosureDrainer
  BY <1>4, <1>10 DEF KickClosureDrainer
<1> QED
  BY <1>6, <1>7, <1>8, <1>9, <1>10

\* resume() ends the quiet, and makes calls that drive nothing yet.
LEMMA QuietOfResume ==
  ASSUME HandlerCalls = FALSE, Types, QuietInv, Resume
  PROVE  QuietInv'
<1> DEFINE calls == [k \in DOMAIN deferredCancels |-> Item("cancel", Root, 0, deferredCancels[k])]
           more == <<Item("redispatch", Root, 0, None)>>
           n == Len(deferredCancels)
<1>1. /\ stack = <<>> /\ stack' = (calls \o more) \o stack /\ ~quiet'
      /\ UNCHANGED <<driving, phase, inFlight, inFlightDrives, generation, exec>>
  BY HostBetweenJobs DEF Resume, drives, context
<1>2. n \in Nat /\ DOMAIN deferredCancels = 1 .. n
  BY DEF Types, InvokeTypes
<1>3. StackOfItems(calls)
  BY CallsFor DEF Types, InvokeTypes
<1>4. DOMAIN calls = 1 .. n /\ \A k \in 1 .. n : calls[k].op = "cancel"
  BY <1>2 DEF Item
<1>5. more \in Seq(Items) /\ Plain(more)
  BY PlainCalled, PlainOnes
<1> HIDE DEF calls, n, more
<1>6. Plain(calls) /\ calls \in Seq(Items)
  BY <1>3, <1>4, PlainMapped
<1>7. Plain(calls \o more) /\ calls \o more \in Seq(Items)
  BY <1>5, <1>6, PlainTwice
<1>8. SameTracks(stack', stack)
  BY <1>1, <1>7, PlainMade, NothingCalled, EmptySeq
<1>9. /\ Sound(stack') /\ TracksOf(stack') = {} /\ Ends(stack') <= 0 /\ FramesOf(stack') = {}
  BY <1>1, <1>8, NothingCalled DEF SameTracks
<1>10. Driven' = Driven
  BY <1>1 DEF Driven
<1>11. StackAgrees'
  BY <1>9 DEF StackAgrees
<1>12. CountsAgree'
  <2>1. TracksOf(stack) = {} /\ Ends(stack) = 0
    BY <1>1, NothingCalled
  <2>2. Ends(stack') = 0
    BY <1>9, EndsCounts
  <2> QED
    BY <1>1, <1>9, <1>10, <2>1, <2>2 DEF QuietInv, CountsAgree
<1>13. PhasesAgree' /\ Generated'
  BY <1>1 DEF QuietInv, PhasesAgree, Generated
<1> QED
  BY <1>1, <1>11, <1>12, <1>13 DEF QuietInv, QuiesceIsQuiet

\* A drive's continuations move its phase; the fuel hook starts its loop again.
LEMMA QuietOfPhases ==
  ASSUME Types, QuietInv, NEW s \in Slots, DriveThen(s) \/ HookResolves(s)
  PROVE  QuietInv'
<1>1. /\ stack = <<>> /\ phase[s] # "none"
      /\ UNCHANGED <<driving, inFlight, inFlightDrives, quiesced, quiet, generation, exec>>
  BY DEF DriveThen, HookResolves, BetweenJobs, quiescence, context
<1>2. driving[s] \in Nat /\ driving[s] # 0
  BY <1>1 DEF Types, DriveTypes, QuietInv, PhasesAgree
<1>3. Generated'
  BY <1>1 DEF QuietInv, Generated
<1>4. PhasesAgree'
  <2>1. PICK p : p # "none" /\ phase' = [phase EXCEPT ![s] = p]
    BY DEF DriveThen, HookResolves
  <2> QED
    BY <1>1, <1>2, <2>1, PhaseKept DEF QuietInv
<1>5. CASE UNCHANGED stack
  BY <1>1, <1>3, <1>4, <1>5, SameTracksHere, QuietKept
<1>6. CASE stack' = <<Item("loop", s, driving[s], None)>>
  <2> DEFINE x == Item("loop", s, driving[s], None)
  <2>1. x \in Items /\ x.op = "loop" /\ x.slot = s
    BY <1>2, ItemsTyped DEF Ops
  <2>2. stack' = <<x>>
    BY <1>6
  <2> HIDE DEF x
  <2>3. Len(<<x>>) = 1 /\ <<x>>[1] = x /\ ToSet(<<x>>) = {x}
    BY ShortElements
  <2>4. \A k \in 1 .. 1 : k = 1
    OBVIOUS
  <2>5. TracksOf(<<x>>) = {} /\ Ends(<<x>>) = 0
    BY <2>1, <2>3 DEF TracksOf, Ends
  <2>6. FramesOf(<<x>>) = {s}
    BY <2>1, <2>3 DEF FramesOf, IsFrame
  <2>7. Sound(<<x>>)
    BY <2>1, <2>3, <2>4 DEF Sound, DistinctTracks
  <2>8. Driven' = Driven /\ s \in Driven
    BY <1>1, <1>2 DEF Driven
  <2>9. StackAgrees'
    BY <2>2, <2>5, <2>6, <2>7, <2>8 DEF StackAgrees
  <2>10. TracksOf(stack) = {} /\ Ends(stack) = 0 /\ TracksOf(stack') = {} /\ Ends(stack') = 0
    BY <1>1, <2>2, <2>5, NothingCalled
  <2>11. CountsAgree'
    BY <1>1, <2>8, <2>10 DEF QuietInv, CountsAgree
  <2>12. QuiesceIsQuiet' /\ (quiet' => quiesced')
    BY <1>1, <1>4 DEF QuietInv, QuiesceIsQuiet, PhasesAgree
  <2> QED
    BY <1>3, <1>4, <2>9, <2>11, <2>12 DEF QuietInv
<1> QED
  BY <1>5, <1>6 DEF DriveThen, HookResolves

\* At first no drive is counted and none is in flight.
LEMMA QuietInit == Init => QuietInv
<1> SUFFICES ASSUME Init PROVE QuietInv
  OBVIOUS
<1>1. /\ stack = <<>> /\ driving = [s \in Slots |-> 0] /\ phase = [s \in Slots |-> "none"]
      /\ inFlight = 0 /\ inFlightDrives = 0 /\ quiet = FALSE
      /\ generation = [s \in Slots |-> IF s = Root THEN 1 ELSE 0]
      /\ exec = [s \in Slots |-> IF s = Root THEN "ready" ELSE "free"]
  BY DEF Init
<1>2. Driven = {}
  BY <1>1 DEF Driven
<1>3. StackAgrees
  BY <1>1, NothingCalled DEF StackAgrees
<1>4. CountsAgree
  <2>1. TracksOf(stack) = {} /\ Ends(stack) = 0 /\ Cardinality({}) = 0
    BY <1>1, NothingCalled, FS_EmptySet
  <2>2. Driven \ TracksOf(stack) = {}
    BY <1>2
  <2>3. inFlight = 0 /\ inFlightDrives = 0
    BY <1>1
  <2> QED
    BY <2>1, <2>2, <2>3 DEF CountsAgree
<1>5. PhasesAgree /\ Generated
  BY <1>1 DEF PhasesAgree, Generated
<1> QED
  BY <1>1, <1>3, <1>4, <1>5 DEF QuietInv, QuiesceIsQuiet

\* Every step keeps the counts in agreement with the drives.
LEMMA QuietStep ==
  ASSUME HandlerCalls = FALSE, Types, QuietInv, [Next]_vars
  PROVE  QuietInv'
<1>1. CASE Synchronous
  BY <1>1, QuietOfRuns, QuietOfSpawn, QuietOfTrack, QuietOfFinallyRest, QuietOfCalls, QuietOfWake,
     QuietOfBegin DEF Synchronous
<1>2. CASE Continuations
  BY <1>2, QuietOfPhases, QuietOfFinally, QuietOfHost, QuietOfCall DEF Continuations
<1>3. CASE Embedder
  BY <1>3, QuietOfHost, QuietOfQuiesce, QuietOfResume DEF Embedder
<1>4. CASE Settle \/ UNCHANGED vars
  BY <1>4, QuietOfHost
<1>5. CASE \E s \in Slots : HookResolves(s) \/ RunSlot(s)
  BY <1>5, QuietOfPhases, QuietOfRunSlot
<1> QED
  BY <1>1, <1>2, <1>3, <1>4, <1>5 DEF Next

\* Where handlers do not call the runtime, a quiesce that has resolved is quiet: no drive
\* is in flight or unwinding until resume() (runtime.js quiesce, _driveSlot's finally).
THEOREM QuiescedIsQuiet ==
  ASSUME HandlerCalls = FALSE
  PROVE  Spec => []QuiesceIsQuiet
<1>1. Init => Types /\ OrderInv /\ QuietInv
  BY OrderInit, QuietInit
<1>2. Types /\ OrderInv /\ QuietInv /\ [Next]_vars => Types' /\ OrderInv' /\ QuietInv'
  BY OrderStep, QuietStep
<1>3. QuietInv => QuiesceIsQuiet
  BY DEF QuietInv
<1> QED
  BY <1>1, <1>2, <1>3, PTL DEF Spec

=============================================================================
