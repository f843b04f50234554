---------------------------- MODULE Airlock_proofs ----------------------------
(***************************************************************************)
(* Theorems about Airlock, for every number of contexts and promises, every *)
(* size of the membrane's tables and every bound: what only JavaScript      *)
(* holds is never reaped.                                                   *)
(*                                                                         *)
(* The inductive invariant says why each place that holds a handle is an    *)
(* anchor of every compaction: most of them are walked themselves; what the *)
(* running code registered and what a parked context will be given lie in   *)
(* the bucket of the context, or of the callback, that registered them;     *)
(* what a promise will deliver lies in the snapshot taken when it was       *)
(* linked.  The rest is that no operation disturbs a slot an anchor keeps,  *)
(* which the lemmas of Membrane_proofs say (Reaped).                        *)
(***************************************************************************)
EXTENDS Airlock, Membrane_proofs

(***************************************************************************)
(* Who holds what.                                                         *)
(***************************************************************************)
HeldBy(a, n) ==
  \/ n \in a.heapRefs \/ n \in a.fresh \/ n \in a.pinnedHandles \/ n \in a.queued
  \/ \E c \in Contexts : n \in a.pending[c] \/ n \in a.stash[c]
  \/ \E p \in Promises : n \in a.promised[p]

GrantHeldBy(a, n) ==
  \/ n \in a.pinnedGrants
  \/ \E c \in Contexts : n \in a.windows[c] \/ n \in ToSet(a.stacks[c])

(***************************************************************************)
(* The inductive invariant, in parts.                                      *)
(***************************************************************************)
AirFields == {"turn", "phase", "fresh", "buckets", "pending", "stash", "linked",
              "promised", "snapshots", "queued", "heapRefs", "stacks", "windows",
              "pinnedHandles", "pinnedGrants"}

AirShape(a) ==
  /\ DOMAIN a = AirFields
  /\ DOMAIN a.buckets = Contexts \cup {Detached}
  /\ DOMAIN a.phase = Contexts /\ DOMAIN a.pending = Contexts
  /\ DOMAIN a.stash = Contexts /\ DOMAIN a.stacks = Contexts
  /\ DOMAIN a.windows = Contexts
  /\ DOMAIN a.promised = Promises /\ DOMAIN a.snapshots = Promises
  /\ a.turn \in Contexts \cup {Idle, Callback}

\* What the running code registered is in its bucket, and what a context will
\* be given in the context's, until the context runs again.
BucketsCover(a) ==
  /\ a.turn = Idle => a.fresh = {}
  /\ a.turn \in Contexts => a.fresh \subseteq a.buckets[a.turn]
                            /\ a.phase[a.turn] = "ready"
  /\ a.turn = Callback => a.fresh \subseteq a.buckets[Detached]
  /\ \A c \in Contexts : a.pending[c] # {} =>
       a.pending[c] \subseteq a.buckets[c] /\ a.phase[c] = "parked"

SnapshotsCover(a) == \A p \in Promises : a.promised[p] \subseteq a.snapshots[p]

ValuesSmall(a) ==
  \A c \in Contexts :
    /\ IsFiniteSet(a.stash[c])
    /\ a.stacks[c] = <<>> \/ \E n : a.stacks[c] = <<n>>

RootsExact(m) ==
  \A g \in GrantSlots : g \in m.rootGrants <=> m.grants[g].live /\ m.grants[g].root

\* A slot without a tenant has nothing registered.
DispatchClean(m) ==
  \A map \in Maps, s \in HandleSlots :
    IF m.handles[s].live THEN m.dispatch[map][s] \in {0, m.handles[s].ver}
    ELSE m.dispatch[map][s] = 0

MemSide(m) ==
  /\ MemOK(m)
  /\ RootsExact(m)
  /\ Maps \subseteq PrunedMaps => DispatchClean(m)

\* A linked promise resolved with a handle registered by the very callback that
\* resolves it is not covered; see the constant.
HandlesHeld(m, a) ==
  \A n : HeldBy(a, n) =>
    /\ n \in HandleSlots \X Nat
    /\ FreshResolution = FALSE => HandleCurrent(m, n)

GrantsHeld(m, a) ==
  \A n : GrantHeldBy(a, n) => n \in GrantSlots \X Nat /\ GrantCurrent(m, n)

AirInv(m, a) ==
  /\ MemSide(m)
  /\ AirShape(a) /\ BucketsCover(a) /\ ValuesSmall(a)
  /\ FreshResolution = FALSE => SnapshotsCover(a)
  /\ HandlesHeld(m, a) /\ GrantsHeld(m, a)

(***************************************************************************)
(* Tagging a value is a series of appends, each of which may compact.      *)
(***************************************************************************)
LEMMA TaggedOK ==
  ASSUME NEW c, NEW names, IsFiniteSet(names), names \subseteq HandleSlots \X Nat,
         MemOK(mem), ActiveGrants(mem, c) \subseteq GrantSlots
  PROVE  /\ MemOK(Tagged(c, names))
         /\ Reaped(mem, Tagged(c, names), AirAnchors(TRUE))
<1> DEFINE S == ActiveGrants(mem, c) \X names
           pairs == SetToSeq(S)
           Next1(f, k) == IF k = 0 THEN mem
                         ELSE TaggedOnce(f[k - 1], pairs[k][1], pairs[k][2])
           Run(f, j) == f = [k \in 0 .. j |-> Next1(f, k)]
           after == CHOOSE f : Run(f, Len(pairs))
<1>1. Tagged(c, names) = after[Len(pairs)]
  BY DEF Tagged
<1>2. pairs \in Seq(S)
  <2>1. IsFiniteSet(ActiveGrants(mem, c))
    <3>1. IsFiniteSet(GrantSlots)
      BY FS_Interval, MembraneAssumption DEF GrantSlots
    <3> QED
      BY <3>1, FS_Subset
  <2>2. IsFiniteSet(S)
    BY <2>1, FS_Product
  <2> HIDE DEF S
  <2>3. Cardinality(S) \in Nat /\ \E f \in [1 .. Cardinality(S) -> S] : IsInjective(f)
    BY <2>2, FS_CardinalityType DEF ExistsBijection, Bijection, Injection
  <2>4. pairs \in [1 .. Cardinality(S) -> S]
    BY <2>3 DEF SetToSeq
  <2> HIDE DEF pairs
  <2> QED
    BY <2>3, <2>4
<1>3. Len(pairs) \in Nat /\ \A k \in 1 .. Len(pairs) :
        pairs[k][1] \in ActiveGrants(mem, c) /\ pairs[k][2] \in names
  <2>1. Len(pairs) \in Nat /\ \A k \in 1 .. Len(pairs) : pairs[k] \in S
    <3> HIDE DEF S, pairs
    <3> QED
      BY <1>2
  <2> HIDE DEF pairs
  <2> QED
    BY <2>1
<1> HIDE DEF pairs
<1>4. \A j \in Nat : \E f : Run(f, j)
  <2> DEFINE T == {j \in Nat : ~ \E f : Run(f, j)}
  <2> SUFFICES ASSUME T # {} PROVE FALSE
    <3> HIDE DEF Run
    <3> QED
      OBVIOUS
  <2>1. PICK n \in T : \A k \in T : n <= k
    <3>1. T \in SUBSET Nat
      <4> HIDE DEF Run
      <4> QED
        OBVIOUS
    <3> HIDE DEF T
    <3> QED
      BY <3>1, LeastNat
  <2>2. CASE n = 0
    <3> DEFINE g == [k \in 0 .. 0 |-> mem]
    <3>1. Run(g, 0)
      OBVIOUS
    <3> QED
      BY <2>1, <2>2, <3>1
  <2>3. CASE n # 0
    <3>1. n \in Nat /\ n - 1 \in Nat /\ n - 1 \notin T
      BY <2>1, <2>3
    <3>2. PICK f : Run(f, n - 1)
      BY <3>1
    <3> DEFINE g == [k \in 0 .. n |-> IF k < n THEN f[k] ELSE Next1(f, n)]
    <3>3. \A k \in 0 .. n - 1 : f[k] = Next1(f, k)
      BY <3>2
    <3>4. \A k \in 0 .. n : g[k] = Next1(g, k)
      <4> TAKE k \in 0 .. n
      <4>1. CASE k < n
        BY <3>1, <3>3, <4>1
      <4>2. CASE k = n
        BY <3>1, <2>3, <4>2
      <4> QED
        BY <3>1, <4>1, <4>2
    <3>5. Run(g, n)
      BY <3>4
    <3> QED
      BY <2>1, <3>5
  <2> QED
    BY <2>2, <2>3
<1>5. Run(after, Len(pairs))
  BY <1>3, <1>4
<1> HIDE DEF after
<1>6. \A k \in 0 .. Len(pairs) : after[k] = Next1(after, k)
  BY <1>5
<1> DEFINE Good(x) == MemOK(x) /\ Reaped(mem, x, AirAnchors(TRUE))
<1>7. \A k \in 0 .. Len(pairs) : Good(after[k])
  <2> DEFINE T == {k \in 0 .. Len(pairs) : ~Good(after[k])}
  <2> SUFFICES ASSUME T # {} PROVE FALSE
    <3> HIDE DEF Good
    <3> QED
      OBVIOUS
  <2>1. PICK n \in T : \A k \in T : n <= k
    <3>1. T \in SUBSET Nat
      <4> HIDE DEF Good
      <4> QED
        BY <1>3
    <3> HIDE DEF T
    <3> QED
      BY <3>1, LeastNat
  <2>2. CASE n = 0
    <3>1. after[0] = mem /\ SameMembrane(mem, mem)
      BY <1>3, <1>6 DEF SameMembrane, SameTenants
    <3> QED
      BY <2>1, <2>2, <3>1, SameReaped
  <2>3. CASE n # 0
    <3>1. n \in 1 .. Len(pairs) /\ n - 1 \in 0 .. Len(pairs) /\ n - 1 \notin T
      <4> HIDE DEF Good
      <4>1. n \in 0 .. Len(pairs)
        BY <2>1
      <4>2. n \in 1 .. Len(pairs) /\ n - 1 \in 0 .. Len(pairs) /\ ~(n <= n - 1)
        BY <1>3, <2>3, <4>1
      <4> HIDE DEF T
      <4> QED
        BY <2>1, <4>2
    <3> DEFINE x == after[n - 1]
               g == pairs[n][1]
               s == pairs[n][2]
    <3>2. Good(x) /\ g \in GrantSlots /\ s[1] \in HandleSlots
      BY <1>3, <3>1
    <3>3. after[n] = TaggedOnce(x, g, s)
      BY <1>6, <2>3, <3>1
    <3> HIDE DEF x, g, s
    <3>4. Good(TaggedOnce(x, g, s))
      <4>1. /\ MemOK(HandleAdded(x, g, s[1], AirAnchors(TRUE)))
            /\ Reaped(x, HandleAdded(x, g, s[1], AirAnchors(TRUE)), AirAnchors(TRUE))
        BY <3>2, HandleAddedOK
      <4>2. Good(HandleAdded(x, g, s[1], AirAnchors(TRUE)))
        BY <3>2, <4>1, ReapedTwice
      <4> QED
        BY <3>2, <4>2 DEF TaggedOnce
    <3> QED
      BY <2>1, <3>3, <3>4
  <2> QED
    BY <2>2, <2>3
<1>8. Len(pairs) \in 0 .. Len(pairs)
  BY <1>3
<1> QED
  BY <1>1, <1>7, <1>8

(***************************************************************************)
(* What is held is an anchor, so it survives whatever compacts.            *)
(***************************************************************************)
LEMMA OneOnStack == \A n : ToSet(<<n>>) = {n} /\ ToSet(<<>>) = {}
BY DEF ToSet

\* Every place that holds a handle leads to an anchor,
LEMMA HandlesAnchored ==
  ASSUME AirInv(mem, air), FreshResolution = FALSE, NEW n, HeldBy(air, n),
         NEW pressure \in BOOLEAN, pressure = FALSE => air.turn = Idle
  PROVE  n[1] \in AirAnchors(pressure).handles
<1>1. n[1] \in HandleSlots /\ mem.handles[n[1]].live
  BY DEF AirInv, HandlesHeld, HandleCurrent
<1>2. n[1] \in LiveHandles(mem)
  BY <1>1 DEF LiveHandles
<1>3. AirShape(air) /\ BucketsCover(air) /\ SnapshotsCover(air)
  BY DEF AirInv
<1>4. CASE n \in air.heapRefs
  BY <1>4 DEF AirAnchors, SlotsOf
<1>5. CASE \E c \in Contexts : n \in air.stash[c]
  <2>1. \E c \in Contexts : n[1] \in SlotsOf(air.stash[c])
    BY <1>5 DEF SlotsOf
  <2> QED
    BY <2>1 DEF AirAnchors
<1>6. ASSUME \/ n \in air.pinnedHandles \/ n \in air.queued
             \/ n \in InFlight(pressure)
             \/ \E p \in Promises : n \in air.snapshots[p]
      PROVE  n[1] \in AirAnchors(pressure).handles
  <2>1. n \in KeptNames(pressure)
    BY <1>6 DEF KeptNames
  <2>2. n[1] \in SlotsOf(KeptNames(pressure))
    BY <2>1 DEF SlotsOf
  <2> QED
    BY <1>2, <2>2 DEF AirAnchors
<1>7. CASE \E p \in Promises : n \in air.promised[p]
  BY <1>3, <1>6, <1>7 DEF SnapshotsCover
<1>8. CASE \E c \in Contexts : n \in air.pending[c]
  <2>1. PICK c \in Contexts : n \in air.pending[c]
    BY <1>8
  <2>2. n \in air.buckets[c] /\ c \in (DOMAIN air.buckets) \ {Detached}
    BY <1>3, <2>1, AirlockAssumption DEF BucketsCover, AirShape
  <2>3. n \in InFlight(pressure)
    BY <2>2 DEF InFlight
  <2> QED
    BY <1>6, <2>3
<1>9. CASE n \in air.fresh
  <2>1. air.turn # Idle /\ pressure = TRUE
    BY <1>3, <1>9 DEF BucketsCover
  <2>2. \E k \in DOMAIN air.buckets : n \in air.buckets[k]
    <3>1. CASE air.turn \in Contexts
      BY <1>3, <1>9, <3>1 DEF BucketsCover, AirShape
    <3>2. CASE air.turn = Callback
      BY <1>3, <1>9, <3>2 DEF BucketsCover, AirShape
    <3> QED
      BY <1>3, <2>1, <3>1, <3>2 DEF AirShape
  <2>3. n \in InFlight(pressure)
    BY <2>1, <2>2 DEF InFlight
  <2> QED
    BY <1>6, <2>3
<1> QED
  BY <1>4, <1>5, <1>6, <1>7, <1>8, <1>9 DEF HeldBy

\* and every place that holds a grant.
LEMMA GrantsAnchored ==
  ASSUME AirInv(mem, air), NEW n, GrantHeldBy(air, n), NEW pressure \in BOOLEAN
  PROVE  n[1] \in AirAnchors(pressure).grants
<1>1. n[1] \in LiveGrants(mem)
  BY DEF AirInv, GrantsHeld, GrantCurrent, LiveGrants
<1>2. CASE n \in air.pinnedGrants
  BY <1>1, <1>2 DEF AirAnchors, SlotsOf
<1>3. CASE \E c \in Contexts : n \in air.windows[c]
  BY <1>1, <1>3 DEF AirAnchors, SlotsOf
<1>4. CASE \E c \in Contexts : n \in ToSet(air.stacks[c])
  BY <1>4 DEF AirAnchors, SlotsOf, StackedGrants
<1> QED
  BY <1>2, <1>3, <1>4 DEF GrantHeldBy

\* Hence, whatever an operation reaped, all of it stands.
LEMMA HeldSurvives ==
  ASSUME AirInv(mem, air), NEW x, MemOK(x),
         NEW pressure \in BOOLEAN, pressure = FALSE => air.turn = Idle,
         Reaped(mem, x, AirAnchors(pressure))
  PROVE  AirInv(x, air)
<1>1. RootsExact(x)
  <2>1. RootsExact(mem)
    BY DEF AirInv, MemSide
  <2> QED
    BY <2>1 DEF Reaped, RootsExact
<1>2. ASSUME Maps \subseteq PrunedMaps PROVE DispatchClean(x)
  <2>1. DispatchClean(mem)
    BY <1>2 DEF AirInv, MemSide
  <2> SUFFICES ASSUME NEW map \in Maps, NEW s \in HandleSlots
               PROVE  IF x.handles[s].live THEN x.dispatch[map][s] \in {0, x.handles[s].ver}
                      ELSE x.dispatch[map][s] = 0
    BY DEF DispatchClean
  <2>2. /\ x.dispatch[map][s] =
             IF mem.handles[s].live /\ ~x.handles[s].live THEN 0 ELSE mem.dispatch[map][s]
        /\ x.handles[s].live => mem.handles[s].live /\ x.handles[s].ver = mem.handles[s].ver
    BY <1>2 DEF Reaped
  <2>3. IF mem.handles[s].live THEN mem.dispatch[map][s] \in {0, mem.handles[s].ver}
        ELSE mem.dispatch[map][s] = 0
    BY <2>1 DEF DispatchClean
  <2> QED
    BY <2>2, <2>3
<1>3. HandlesHeld(x, air)
  <2> SUFFICES ASSUME NEW n, HeldBy(air, n)
               PROVE  /\ n \in HandleSlots \X Nat
                      /\ FreshResolution = FALSE => HandleCurrent(x, n)
    BY DEF HandlesHeld
  <2>1. /\ n \in HandleSlots \X Nat
        /\ FreshResolution = FALSE => HandleCurrent(mem, n)
    BY DEF AirInv, HandlesHeld
  <2>2. ASSUME FreshResolution = FALSE PROVE HandleCurrent(x, n)
    <3>1. n[1] \in AirAnchors(pressure).handles /\ n[1] \in HandleSlots
      BY <2>1, <2>2, HandlesAnchored
    <3> QED
      BY <2>1, <2>2, <3>1 DEF Reaped, HandleCurrent
  <2> QED
    BY <2>1, <2>2
<1>4. GrantsHeld(x, air)
  <2> SUFFICES ASSUME NEW n, GrantHeldBy(air, n)
               PROVE  n \in GrantSlots \X Nat /\ GrantCurrent(x, n)
    BY DEF GrantsHeld
  <2>1. n \in GrantSlots \X Nat /\ GrantCurrent(mem, n)
    BY DEF AirInv, GrantsHeld
  <2>2. n[1] \in AirAnchors(pressure).grants /\ n[1] \in GrantSlots
    BY <2>1, GrantsAnchored
  <2> QED
    BY <2>1, <2>2 DEF Reaped, GrantCurrent
<1> QED
  BY <1>1, <1>2, <1>3, <1>4 DEF AirInv, MemSide

\* The grants a context acts under are slots of the table.
LEMMA ActiveGrantsAreSlots ==
  ASSUME AirInv(mem, air), NEW c \in Contexts
  PROVE  ActiveGrants(mem, c) \subseteq GrantSlots
<1>1. mem.rootGrants \subseteq GrantSlots
  BY DEF AirInv, MemSide, MemOK, MemShape
<1>2. \A n \in ToSet(air.stacks[c]) : n[1] \in GrantSlots
  BY DEF AirInv, GrantsHeld, GrantHeldBy
<1> QED
  BY <1>1, <1>2 DEF ActiveGrants, SlotsOf

\* Forgetting the words nobody reads disturbs nothing that is held.
LEMMA SettledKeepsInv ==
  ASSUME NEW m, NEW a, AirInv(m, a)
  PROVE  AirInv(Settled(m), a)
<1>1. MemOK(m) /\ MemOK(Settled(m)) /\ SameMembrane(m, Settled(m))
  BY SettledOK DEF AirInv, MemSide
<1> DEFINE x == Settled(m)
<1> HIDE DEF x
<1>2. /\ \A s \in HandleSlots :
           x.handles[s].ver = m.handles[s].ver /\ x.handles[s].live = m.handles[s].live
      /\ \A g \in GrantSlots :
           /\ x.grants[g].ver = m.grants[g].ver /\ x.grants[g].live = m.grants[g].live
           /\ x.grants[g].root = m.grants[g].root
      /\ x.rootGrants = m.rootGrants /\ x.dispatch = m.dispatch
  BY <1>1 DEF SameMembrane, SameTenants, x
<1>3. RootsExact(x)
  BY <1>2 DEF AirInv, MemSide, RootsExact
<1>4. Maps \subseteq PrunedMaps => DispatchClean(x)
  BY <1>2 DEF AirInv, MemSide, DispatchClean
<1>5. HandlesHeld(x, a)
  BY <1>2 DEF AirInv, HandlesHeld, HandleCurrent
<1>6. GrantsHeld(x, a)
  BY <1>2 DEF AirInv, GrantsHeld, GrantCurrent
<1> QED
  BY <1>1, <1>3, <1>4, <1>5, <1>6 DEF AirInv, MemSide, x

\* Nor does tagging a value, append after append.
LEMMA TaggedKeepsInv ==
  ASSUME AirInv(mem, air), NEW c \in Contexts, NEW names, IsFiniteSet(names),
         names \subseteq HandleSlots \X Nat
  PROVE  AirInv(Settled(Tagged(c, names)), air)
<1>1. MemOK(mem)
  BY DEF AirInv, MemSide
<1>2. /\ MemOK(Tagged(c, names))
      /\ Reaped(mem, Tagged(c, names), AirAnchors(TRUE))
  BY <1>1, ActiveGrantsAreSlots, TaggedOK
<1>3. AirInv(Tagged(c, names), air)
  BY <1>2, HeldSurvives
<1> QED
  BY <1>3, SettledKeepsInv

(***************************************************************************)
(* The steps that leave the membrane alone.                                *)
(***************************************************************************)
LEMMA RunContextKeeps ==
  ASSUME AirInv(mem, air), NEW c \in Contexts, RunContext(c)
  PROVE  AirInv(mem', air')
<1>1. AirInv(mem', air) /\ mem' = mem /\ air.turn = Idle /\ air.phase[c] = "ready"
  BY DEF RunContext, Entered
<1>2. /\ DOMAIN air' = AirFields /\ air'.turn = c /\ air'.phase = air.phase
      /\ air'.fresh = {}
      /\ air'.buckets = [air.buckets EXCEPT ![c] = {}, ![Detached] = {}]
      /\ air'.pending = air.pending /\ air'.stash = air.stash
      /\ air'.linked = air.linked /\ air'.promised = air.promised
      /\ air'.snapshots = air.snapshots /\ air'.queued = air.queued
      /\ air'.heapRefs = air.heapRefs /\ air'.stacks = air.stacks
      /\ air'.windows = air.windows /\ air'.pinnedHandles = air.pinnedHandles
      /\ air'.pinnedGrants = air.pinnedGrants
  BY DEF RunContext, Entered, AirInv, AirShape, AirFields
<1>3. AirShape(air')
  BY <1>1, <1>2 DEF AirInv, AirShape, AirFields
<1>4. BucketsCover(air')
  BY <1>1, <1>2, AirlockAssumption
  DEF AirInv, AirShape, BucketsCover, Idle, Callback, Detached
<1>5. ValuesSmall(air')
  BY <1>1, <1>2 DEF AirInv, AirShape, ValuesSmall
<1>6. FreshResolution = FALSE => SnapshotsCover(air')
  BY <1>1, <1>2 DEF AirInv, AirShape, SnapshotsCover
<1>7. HandlesHeld(mem', air')
  BY <1>1, <1>2 DEF AirInv, AirShape, HandlesHeld, HeldBy
<1>8. GrantsHeld(mem', air')
  BY <1>1, <1>2 DEF AirInv, AirShape, GrantsHeld, GrantHeldBy
<1> QED
  BY <1>1, <1>3, <1>4, <1>5, <1>6, <1>7, <1>8 DEF AirInv

\* The host is called, with nothing registered yet,
LEMMA StartCallbackKeeps ==
  ASSUME AirInv(mem, air), StartCallback
  PROVE  AirInv(mem', air')
<1>1. AirInv(mem', air) /\ mem' = mem
  BY DEF StartCallback
<1>2. /\ DOMAIN air' = AirFields /\ air'.turn = Callback
      /\ air'.phase = air.phase /\ air'.fresh = {}
      /\ air'.buckets = air.buckets /\ air'.pending = air.pending
      /\ air'.stash = air.stash /\ air'.linked = air.linked
      /\ air'.promised = air.promised /\ air'.snapshots = air.snapshots
      /\ air'.queued = air.queued /\ air'.heapRefs = air.heapRefs
      /\ air'.stacks = air.stacks /\ air'.windows = air.windows
      /\ air'.pinnedHandles = air.pinnedHandles
      /\ air'.pinnedGrants = air.pinnedGrants
  BY DEF StartCallback, AirInv, AirShape, AirFields
<1>3. AirShape(air')
  BY <1>1, <1>2 DEF AirInv, AirShape, AirFields
<1>4. BucketsCover(air')
  BY <1>1, <1>2, AirlockAssumption
  DEF AirInv, AirShape, BucketsCover, Idle, Callback, Detached
<1>5. ValuesSmall(air')
  BY <1>1, <1>2 DEF AirInv, AirShape, ValuesSmall
<1>6. FreshResolution = FALSE => SnapshotsCover(air')
  BY <1>1, <1>2 DEF AirInv, AirShape, SnapshotsCover
<1>7. HandlesHeld(mem', air')
  BY <1>1, <1>2 DEF AirInv, AirShape, HandlesHeld, HeldBy
<1>8. GrantsHeld(mem', air')
  BY <1>1, <1>2 DEF AirInv, AirShape, GrantsHeld, GrantHeldBy
<1> QED
  BY <1>1, <1>3, <1>4, <1>5, <1>6, <1>7, <1>8 DEF AirInv

\* and returns: what it registered and kept nowhere is let go.
LEMMA EndCallbackKeeps ==
  ASSUME AirInv(mem, air), EndCallback
  PROVE  AirInv(mem', air')
<1>1. AirInv(mem', air) /\ mem' = mem
  BY DEF EndCallback, Yielded
<1>2. /\ DOMAIN air' = AirFields /\ air'.turn = Idle /\ air'.phase = air.phase
      /\ air'.fresh = {} /\ air'.buckets = air.buckets
      /\ air'.pending = air.pending /\ air'.stash = air.stash
      /\ air'.linked = air.linked /\ air'.promised = air.promised
      /\ air'.snapshots = air.snapshots /\ air'.queued = air.queued
      /\ air'.heapRefs = air.heapRefs /\ air'.stacks = air.stacks
      /\ air'.windows = air.windows /\ air'.pinnedHandles = air.pinnedHandles
      /\ air'.pinnedGrants = air.pinnedGrants
  BY DEF EndCallback, Yielded, AirInv, AirShape, AirFields
<1>3. AirShape(air')
  BY <1>1, <1>2 DEF AirInv, AirShape, AirFields
<1>4. BucketsCover(air')
  BY <1>1, <1>2, AirlockAssumption
  DEF AirInv, AirShape, BucketsCover, Idle, Callback, Detached
<1>5. ValuesSmall(air')
  BY <1>1, <1>2 DEF AirInv, AirShape, ValuesSmall
<1>6. FreshResolution = FALSE => SnapshotsCover(air')
  BY <1>1, <1>2 DEF AirInv, AirShape, SnapshotsCover
<1>7. HandlesHeld(mem', air')
  BY <1>1, <1>2 DEF AirInv, AirShape, HandlesHeld, HeldBy
<1>8. GrantsHeld(mem', air')
  BY <1>1, <1>2 DEF AirInv, AirShape, GrantsHeld, GrantHeldBy
<1> QED
  BY <1>1, <1>3, <1>4, <1>5, <1>6, <1>7, <1>8 DEF AirInv

\* A promise that settles gives up its snapshot once the heap has the value.
LEMMA SettlePromiseKeeps ==
  ASSUME AirInv(mem, air), NEW p \in Promises, SettlePromise(p)
  PROVE  AirInv(mem', air')
<1>1. AirInv(mem', air) /\ mem' = mem
  BY DEF SettlePromise
<1>2. /\ DOMAIN air' = AirFields /\ air'.turn = air.turn
      /\ air'.phase = air.phase /\ air'.fresh = air.fresh
      /\ air'.buckets = air.buckets /\ air'.pending = air.pending
      /\ air'.stash = air.stash /\ air'.linked = air.linked \ {p}
      /\ air'.promised = [air.promised EXCEPT ![p] = {}]
      /\ air'.snapshots = [air.snapshots EXCEPT ![p] = {}]
      /\ air'.queued = air.queued
      /\ air'.heapRefs = air.heapRefs \cup Delivered(mem, air.promised[p])
      /\ air'.stacks = air.stacks /\ air'.windows = air.windows
      /\ air'.pinnedHandles = air.pinnedHandles
      /\ air'.pinnedGrants = air.pinnedGrants
  BY DEF SettlePromise, AirInv, AirShape, AirFields
<1>3. AirShape(air')
  BY <1>1, <1>2 DEF AirInv, AirShape, AirFields
<1>4. BucketsCover(air')
  BY <1>1, <1>2, AirlockAssumption
  DEF AirInv, AirShape, BucketsCover, Idle, Callback, Detached
<1>5. ValuesSmall(air')
  BY <1>1, <1>2 DEF AirInv, AirShape, ValuesSmall
<1>6. FreshResolution = FALSE => SnapshotsCover(air')
  BY <1>1, <1>2 DEF AirInv, AirShape, SnapshotsCover
<1>7. HandlesHeld(mem', air')
  BY <1>1, <1>2 DEF AirInv, AirShape, HandlesHeld, HeldBy, Delivered
<1>8. GrantsHeld(mem', air')
  BY <1>1, <1>2 DEF AirInv, AirShape, GrantsHeld, GrantHeldBy
<1> QED
  BY <1>1, <1>3, <1>4, <1>5, <1>6, <1>7, <1>8 DEF AirInv

\* A cancelled context gives up what it was to be given.
LEMMA CancelKeeps ==
  ASSUME AirInv(mem, air), NEW c \in Contexts, Cancel(c)
  PROVE  AirInv(mem', air')
<1>1. AirInv(mem', air) /\ mem' = mem /\ air.turn = Idle
  BY DEF Cancel
<1>2. /\ DOMAIN air' = AirFields /\ air'.turn = air.turn
      /\ air'.phase = [air.phase EXCEPT ![c] = "ready"]
      /\ air'.fresh = air.fresh
      /\ air'.buckets = [air.buckets EXCEPT ![c] = {}]
      /\ air'.pending = [air.pending EXCEPT ![c] = {}]
      /\ air'.stash = [air.stash EXCEPT ![c] = {}] /\ air'.linked = air.linked
      /\ air'.promised = air.promised /\ air'.snapshots = air.snapshots
      /\ air'.queued = air.queued /\ air'.heapRefs = air.heapRefs
      /\ air'.stacks = [air.stacks EXCEPT ![c] = <<>>]
      /\ air'.windows = [air.windows EXCEPT ![c] = {}]
      /\ air'.pinnedHandles = air.pinnedHandles
      /\ air'.pinnedGrants = air.pinnedGrants
  BY DEF Cancel, AirInv, AirShape, AirFields
<1>3. AirShape(air')
  BY <1>1, <1>2, OneOnStack, FS_EmptySet DEF AirInv, AirShape, AirFields
<1>4. BucketsCover(air')
  BY <1>1, <1>2, OneOnStack, FS_EmptySet, AirlockAssumption
  DEF AirInv, AirShape, BucketsCover, Idle, Callback, Detached
<1>5. ValuesSmall(air')
  BY <1>1, <1>2, OneOnStack, FS_EmptySet DEF AirInv, AirShape, ValuesSmall
<1>6. FreshResolution = FALSE => SnapshotsCover(air')
  BY <1>1, <1>2, OneOnStack, FS_EmptySet DEF AirInv, AirShape, SnapshotsCover
<1>7. HandlesHeld(mem', air')
  BY <1>1, <1>2, OneOnStack, FS_EmptySet
  DEF AirInv, AirShape, HandlesHeld, HeldBy
<1>8. GrantsHeld(mem', air')
  BY <1>1, <1>2, OneOnStack, FS_EmptySet
  DEF AirInv, AirShape, GrantsHeld, GrantHeldBy
<1> QED
  BY <1>1, <1>3, <1>4, <1>5, <1>6, <1>7, <1>8 DEF AirInv

\* The script lets go of a reference.
LEMMA DropReferenceKeeps ==
  ASSUME AirInv(mem, air), NEW n, DropReference(n)
  PROVE  AirInv(mem', air')
<1>1. AirInv(mem', air) /\ mem' = mem
  BY DEF DropReference
<1>2. /\ DOMAIN air' = AirFields /\ air'.turn = air.turn
      /\ air'.phase = air.phase /\ air'.fresh = air.fresh
      /\ air'.buckets = air.buckets /\ air'.pending = air.pending
      /\ air'.stash = air.stash /\ air'.linked = air.linked
      /\ air'.promised = air.promised /\ air'.snapshots = air.snapshots
      /\ air'.queued = air.queued /\ air'.heapRefs = air.heapRefs \ {n}
      /\ air'.stacks = air.stacks /\ air'.windows = air.windows
      /\ air'.pinnedHandles = air.pinnedHandles
      /\ air'.pinnedGrants = air.pinnedGrants
  BY DEF DropReference, AirInv, AirShape, AirFields
<1>3. AirShape(air')
  BY <1>1, <1>2 DEF AirInv, AirShape, AirFields
<1>4. BucketsCover(air')
  BY <1>1, <1>2, AirlockAssumption
  DEF AirInv, AirShape, BucketsCover, Idle, Callback, Detached
<1>5. ValuesSmall(air')
  BY <1>1, <1>2 DEF AirInv, AirShape, ValuesSmall
<1>6. FreshResolution = FALSE => SnapshotsCover(air')
  BY <1>1, <1>2 DEF AirInv, AirShape, SnapshotsCover
<1>7. HandlesHeld(mem', air')
  BY <1>1, <1>2 DEF AirInv, AirShape, HandlesHeld, HeldBy
<1>8. GrantsHeld(mem', air')
  BY <1>1, <1>2 DEF AirInv, AirShape, GrantsHeld, GrantHeldBy
<1> QED
  BY <1>1, <1>3, <1>4, <1>5, <1>6, <1>7, <1>8 DEF AirInv

\* A context that requests a grant waits for the approval,
LEMMA RequestGrantKeeps ==
  ASSUME AirInv(mem, air), NEW c \in Contexts, RequestGrant(c)
  PROVE  AirInv(mem', air')
<1>1. AirInv(mem', air) /\ mem' = mem /\ air.turn = Idle /\ air.phase[c] = "ready"
  BY DEF RequestGrant
<1>2. /\ DOMAIN air' = AirFields /\ air'.turn = air.turn
      /\ air'.phase = [air.phase EXCEPT ![c] = "approving"]
      /\ air'.fresh = air.fresh /\ air'.buckets = air.buckets
      /\ air'.pending = air.pending /\ air'.stash = air.stash
      /\ air'.linked = air.linked /\ air'.promised = air.promised
      /\ air'.snapshots = air.snapshots /\ air'.queued = air.queued
      /\ air'.heapRefs = air.heapRefs /\ air'.stacks = air.stacks
      /\ air'.windows = air.windows /\ air'.pinnedHandles = air.pinnedHandles
      /\ air'.pinnedGrants = air.pinnedGrants
  BY DEF RequestGrant, AirInv, AirShape, AirFields
<1>3. AirShape(air')
  BY <1>1, <1>2 DEF AirInv, AirShape, AirFields
<1>4. BucketsCover(air')
  BY <1>1, <1>2, AirlockAssumption
  DEF AirInv, AirShape, BucketsCover, Idle, Callback, Detached
<1>5. ValuesSmall(air')
  BY <1>1, <1>2 DEF AirInv, AirShape, ValuesSmall
<1>6. FreshResolution = FALSE => SnapshotsCover(air')
  BY <1>1, <1>2 DEF AirInv, AirShape, SnapshotsCover
<1>7. HandlesHeld(mem', air')
  BY <1>1, <1>2 DEF AirInv, AirShape, HandlesHeld, HeldBy
<1>8. GrantsHeld(mem', air')
  BY <1>1, <1>2 DEF AirInv, AirShape, GrantsHeld, GrantHeldBy
<1> QED
  BY <1>1, <1>3, <1>4, <1>5, <1>6, <1>7, <1>8 DEF AirInv

\* which leaves it the grant of its window, a pinned one, or none,
LEMMA FinishRequestKeeps ==
  ASSUME AirInv(mem, air), NEW c \in Contexts, NEW stack, FinishRequest(c, stack),
         stack = <<>> \/ \E n \in air.windows[c] \cup air.pinnedGrants : stack = <<n>>
  PROVE  AirInv(mem', air')
<1>1. AirInv(mem', air) /\ mem' = mem /\ air.turn = Callback /\ air.phase[c] = "approving"
  BY DEF FinishRequest
<1>2. /\ DOMAIN air' = AirFields /\ air'.turn = air.turn
      /\ air'.phase = [air.phase EXCEPT ![c] = "ready"]
      /\ air'.fresh = air.fresh /\ air'.buckets = air.buckets
      /\ air'.pending = air.pending /\ air'.stash = air.stash
      /\ air'.linked = air.linked /\ air'.promised = air.promised
      /\ air'.snapshots = air.snapshots /\ air'.queued = air.queued
      /\ air'.heapRefs = air.heapRefs
      /\ air'.stacks = [air.stacks EXCEPT ![c] = stack]
      /\ air'.windows = [air.windows EXCEPT ![c] = {}]
      /\ air'.pinnedHandles = air.pinnedHandles
      /\ air'.pinnedGrants = air.pinnedGrants
  BY DEF FinishRequest, AirInv, AirShape, AirFields
<1>3. AirShape(air')
  BY <1>1, <1>2, OneOnStack DEF AirInv, AirShape, AirFields
<1>4. BucketsCover(air')
  BY <1>1, <1>2, OneOnStack, AirlockAssumption
  DEF AirInv, AirShape, BucketsCover, Idle, Callback, Detached
<1>5. ValuesSmall(air')
  BY <1>1, <1>2, OneOnStack DEF AirInv, AirShape, ValuesSmall
<1>6. FreshResolution = FALSE => SnapshotsCover(air')
  BY <1>1, <1>2, OneOnStack DEF AirInv, AirShape, SnapshotsCover
<1>7. HandlesHeld(mem', air')
  BY <1>1, <1>2, OneOnStack DEF AirInv, AirShape, HandlesHeld, HeldBy
<1>8. GrantsHeld(mem', air')
  BY <1>1, <1>2, OneOnStack DEF AirInv, AirShape, GrantsHeld, GrantHeldBy
<1> QED
  BY <1>1, <1>3, <1>4, <1>5, <1>6, <1>7, <1>8 DEF AirInv

\* until its block ends.
LEMMA EndGrantBlockKeeps ==
  ASSUME AirInv(mem, air), NEW c \in Contexts, EndGrantBlock(c)
  PROVE  AirInv(mem', air')
<1>1. AirInv(mem', air) /\ mem' = mem
  BY DEF EndGrantBlock
<1>2. /\ DOMAIN air' = AirFields /\ air'.turn = air.turn
      /\ air'.phase = air.phase /\ air'.fresh = air.fresh
      /\ air'.buckets = air.buckets /\ air'.pending = air.pending
      /\ air'.stash = air.stash /\ air'.linked = air.linked
      /\ air'.promised = air.promised /\ air'.snapshots = air.snapshots
      /\ air'.queued = air.queued /\ air'.heapRefs = air.heapRefs
      /\ air'.stacks = [air.stacks EXCEPT ![c] = <<>>]
      /\ air'.windows = air.windows /\ air'.pinnedHandles = air.pinnedHandles
      /\ air'.pinnedGrants = air.pinnedGrants
  BY DEF EndGrantBlock, AirInv, AirShape, AirFields
<1>3. AirShape(air')
  BY <1>1, <1>2, OneOnStack DEF AirInv, AirShape, AirFields
<1>4. BucketsCover(air')
  BY <1>1, <1>2, OneOnStack, AirlockAssumption
  DEF AirInv, AirShape, BucketsCover, Idle, Callback, Detached
<1>5. ValuesSmall(air')
  BY <1>1, <1>2, OneOnStack DEF AirInv, AirShape, ValuesSmall
<1>6. FreshResolution = FALSE => SnapshotsCover(air')
  BY <1>1, <1>2, OneOnStack DEF AirInv, AirShape, SnapshotsCover
<1>7. HandlesHeld(mem', air')
  BY <1>1, <1>2, OneOnStack DEF AirInv, AirShape, HandlesHeld, HeldBy
<1>8. GrantsHeld(mem', air')
  BY <1>1, <1>2, OneOnStack DEF AirInv, AirShape, GrantsHeld, GrantHeldBy
<1> QED
  BY <1>1, <1>3, <1>4, <1>5, <1>6, <1>7, <1>8 DEF AirInv

\* A value holds at most one handle.
LEMMA ValuesSmallSets ==
  ASSUME NEW names, NEW value \in Values(names)
  PROVE  value \subseteq names /\ IsFiniteSet(value)
BY FS_EmptySet, FS_Singleton DEF Values

\* A queued call takes its arguments into the heap.
LEMMA DeliverArgumentsKeeps ==
  ASSUME AirInv(mem, air), DeliverArguments
  PROVE  AirInv(mem', air')
<1>0. PICK n \in air.queued :
        air' = [air EXCEPT !.queued = @ \ {n}, !.heapRefs = @ \cup Delivered(mem, {n})]
  BY DEF DeliverArguments
<1>1. AirInv(mem', air) /\ mem' = mem
  BY DEF DeliverArguments
<1>2. /\ DOMAIN air' = AirFields /\ air'.turn = air.turn
      /\ air'.phase = air.phase /\ air'.fresh = air.fresh
      /\ air'.buckets = air.buckets /\ air'.pending = air.pending
      /\ air'.stash = air.stash /\ air'.linked = air.linked
      /\ air'.promised = air.promised /\ air'.snapshots = air.snapshots
      /\ air'.queued = air.queued \ {n}
      /\ air'.heapRefs = air.heapRefs \cup Delivered(mem, {n})
      /\ air'.stacks = air.stacks /\ air'.windows = air.windows
      /\ air'.pinnedHandles = air.pinnedHandles
      /\ air'.pinnedGrants = air.pinnedGrants
  BY <1>0 DEF AirInv, AirShape, AirFields
<1>3. AirShape(air')
  BY <1>1, <1>2, <1>0 DEF AirInv, AirShape, AirFields
<1>4. BucketsCover(air')
  BY <1>1, <1>2, <1>0, AirlockAssumption
  DEF AirInv, AirShape, BucketsCover, Idle, Callback, Detached
<1>5. ValuesSmall(air')
  BY <1>1, <1>2, <1>0 DEF AirInv, AirShape, ValuesSmall
<1>6. FreshResolution = FALSE => SnapshotsCover(air')
  BY <1>1, <1>2, <1>0 DEF AirInv, AirShape, SnapshotsCover
<1>7. HandlesHeld(mem', air')
  BY <1>1, <1>2, <1>0 DEF AirInv, AirShape, HandlesHeld, HeldBy, Delivered
<1>8. GrantsHeld(mem', air')
  BY <1>1, <1>2, <1>0 DEF AirInv, AirShape, GrantsHeld, GrantHeldBy
<1> QED
  BY <1>1, <1>3, <1>4, <1>5, <1>6, <1>7, <1>8 DEF AirInv

\* A context parks with its value in its own bucket,
LEMMA SuspendKeeps ==
  ASSUME AirInv(mem, air), NEW c \in Contexts, Suspend(c)
  PROVE  AirInv(mem', air')
<1>0. PICK names \in Values(air.fresh) :
        air' = [[air EXCEPT !.turn = Idle, !.fresh = {}] EXCEPT
                 !.pending[c] = names, !.phase[c] = "parked"]
  BY DEF Suspend, Yielded
<1>1. AirInv(mem', air) /\ mem' = mem /\ air.turn = c
  BY DEF Suspend, Yielded
<1>2. /\ DOMAIN air' = AirFields /\ air'.turn = Idle
      /\ air'.phase = [air.phase EXCEPT ![c] = "parked"] /\ air'.fresh = {}
      /\ air'.buckets = air.buckets
      /\ air'.pending = [air.pending EXCEPT ![c] = names]
      /\ air'.stash = air.stash /\ air'.linked = air.linked
      /\ air'.promised = air.promised /\ air'.snapshots = air.snapshots
      /\ air'.queued = air.queued /\ air'.heapRefs = air.heapRefs
      /\ air'.stacks = air.stacks /\ air'.windows = air.windows
      /\ air'.pinnedHandles = air.pinnedHandles
      /\ air'.pinnedGrants = air.pinnedGrants
  BY <1>0 DEF AirInv, AirShape, AirFields
<1>3. AirShape(air')
  BY <1>1, <1>2, <1>0, ValuesSmallSets DEF AirInv, AirShape, AirFields
<1>4. BucketsCover(air')
  BY <1>1, <1>2, <1>0, ValuesSmallSets, AirlockAssumption
  DEF AirInv, AirShape, BucketsCover, Idle, Callback, Detached
<1>5. ValuesSmall(air')
  BY <1>1, <1>2, <1>0, ValuesSmallSets DEF AirInv, AirShape, ValuesSmall
<1>6. FreshResolution = FALSE => SnapshotsCover(air')
  BY <1>1, <1>2, <1>0, ValuesSmallSets DEF AirInv, AirShape, SnapshotsCover
<1>7. HandlesHeld(mem', air')
  BY <1>1, <1>2, <1>0, ValuesSmallSets
  DEF AirInv, AirShape, HandlesHeld, HeldBy
<1>8. GrantsHeld(mem', air')
  BY <1>1, <1>2, <1>0, ValuesSmallSets
  DEF AirInv, AirShape, GrantsHeld, GrantHeldBy
<1> QED
  BY <1>1, <1>3, <1>4, <1>5, <1>6, <1>7, <1>8 DEF AirInv

\* or is given a promise, whose snapshot holds the value it will deliver.
LEMMA LinkPromiseKeeps ==
  ASSUME AirInv(mem, air), NEW c \in Contexts, NEW p \in Promises, LinkPromise(c, p)
  PROVE  AirInv(mem', air')
<1>0. PICK names \in Values(air.fresh) :
        air' = [[air EXCEPT !.turn = Idle, !.fresh = {}] EXCEPT
                 !.linked = @ \cup {p}, !.promised[p] = names,
                 !.snapshots[p] = UNION {air.buckets[k] : k \in DOMAIN air.buckets}]
  BY DEF LinkPromise, Yielded
<1>1. AirInv(mem', air) /\ mem' = mem /\ air.turn = c
  BY DEF LinkPromise, Yielded
<1>2. /\ DOMAIN air' = AirFields /\ air'.turn = Idle /\ air'.phase = air.phase
      /\ air'.fresh = {} /\ air'.buckets = air.buckets
      /\ air'.pending = air.pending /\ air'.stash = air.stash
      /\ air'.linked = air.linked \cup {p}
      /\ air'.promised = [air.promised EXCEPT ![p] = names]
      /\ air'.snapshots = [air.snapshots EXCEPT ![p] = UNION {air.buckets[k] : k \in DOMAIN air.buckets}]
      /\ air'.queued = air.queued /\ air'.heapRefs = air.heapRefs
      /\ air'.stacks = air.stacks /\ air'.windows = air.windows
      /\ air'.pinnedHandles = air.pinnedHandles
      /\ air'.pinnedGrants = air.pinnedGrants
  BY <1>0 DEF AirInv, AirShape, AirFields
<1>9. names \subseteq UNION {air.buckets[k] : k \in DOMAIN air.buckets}
  BY <1>0, <1>1, ValuesSmallSets DEF AirInv, AirShape, BucketsCover
<1>3. AirShape(air')
  BY <1>1, <1>2, <1>0, <1>9, ValuesSmallSets DEF AirInv, AirShape, AirFields
<1>4. BucketsCover(air')
  BY <1>1, <1>2, <1>0, <1>9, ValuesSmallSets, AirlockAssumption
  DEF AirInv, AirShape, BucketsCover, Idle, Callback, Detached
<1>5. ValuesSmall(air')
  BY <1>1, <1>2, <1>0, <1>9, ValuesSmallSets DEF AirInv, AirShape, ValuesSmall
<1>6. FreshResolution = FALSE => SnapshotsCover(air')
  BY <1>1, <1>2, <1>0, <1>9, ValuesSmallSets
  DEF AirInv, AirShape, SnapshotsCover
<1>7. HandlesHeld(mem', air')
  BY <1>1, <1>2, <1>0, <1>9, ValuesSmallSets
  DEF AirInv, AirShape, HandlesHeld, HeldBy
<1>8. GrantsHeld(mem', air')
  BY <1>1, <1>2, <1>0, <1>9, ValuesSmallSets
  DEF AirInv, AirShape, GrantsHeld, GrantHeldBy
<1> QED
  BY <1>1, <1>3, <1>4, <1>5, <1>6, <1>7, <1>8 DEF AirInv

\* A linked promise comes by its value within the snapshot.
LEMMA FulfilKeeps ==
  ASSUME AirInv(mem, air), NEW p \in Promises, Fulfil(p)
  PROVE  AirInv(mem', air')
<1>0. PICK names \in Values(air.promised[p] \cup IF FreshResolution THEN air.fresh ELSE {}) :
        air' = [air EXCEPT !.promised[p] = names]
  BY DEF Fulfil
<1>1. AirInv(mem', air) /\ mem' = mem /\ air.turn = Callback
  BY DEF Fulfil
<1>2. /\ DOMAIN air' = AirFields /\ air'.turn = air.turn
      /\ air'.phase = air.phase /\ air'.fresh = air.fresh
      /\ air'.buckets = air.buckets /\ air'.pending = air.pending
      /\ air'.stash = air.stash /\ air'.linked = air.linked
      /\ air'.promised = [air.promised EXCEPT ![p] = names]
      /\ air'.snapshots = air.snapshots /\ air'.queued = air.queued
      /\ air'.heapRefs = air.heapRefs /\ air'.stacks = air.stacks
      /\ air'.windows = air.windows /\ air'.pinnedHandles = air.pinnedHandles
      /\ air'.pinnedGrants = air.pinnedGrants
  BY <1>0 DEF AirInv, AirShape, AirFields
<1>3. AirShape(air')
  BY <1>1, <1>2, <1>0, ValuesSmallSets DEF AirInv, AirShape, AirFields
<1>4. BucketsCover(air')
  BY <1>1, <1>2, <1>0, ValuesSmallSets, AirlockAssumption
  DEF AirInv, AirShape, BucketsCover, Idle, Callback, Detached
<1>5. ValuesSmall(air')
  BY <1>1, <1>2, <1>0, ValuesSmallSets DEF AirInv, AirShape, ValuesSmall
<1>6. FreshResolution = FALSE => SnapshotsCover(air')
  BY <1>1, <1>2, <1>0, ValuesSmallSets DEF AirInv, AirShape, SnapshotsCover
<1>7. HandlesHeld(mem', air')
  BY <1>1, <1>2, <1>0, ValuesSmallSets
  DEF AirInv, AirShape, HandlesHeld, HeldBy
<1>8. GrantsHeld(mem', air')
  BY <1>1, <1>2, <1>0, ValuesSmallSets
  DEF AirInv, AirShape, GrantsHeld, GrantHeldBy
<1> QED
  BY <1>1, <1>3, <1>4, <1>5, <1>6, <1>7, <1>8 DEF AirInv

\* The host queues a call with a handle it holds.
LEMMA EnqueueKeeps ==
  ASSUME AirInv(mem, air), Enqueue
  PROVE  AirInv(mem', air')
<1>0. PICK n \in air.fresh :
        air' = [air EXCEPT !.queued = @ \cup {n}]
  BY DEF Enqueue
<1>1. AirInv(mem', air) /\ mem' = mem
  BY DEF Enqueue
<1>2. /\ DOMAIN air' = AirFields /\ air'.turn = air.turn
      /\ air'.phase = air.phase /\ air'.fresh = air.fresh
      /\ air'.buckets = air.buckets /\ air'.pending = air.pending
      /\ air'.stash = air.stash /\ air'.linked = air.linked
      /\ air'.promised = air.promised /\ air'.snapshots = air.snapshots
      /\ air'.queued = air.queued \cup {n} /\ air'.heapRefs = air.heapRefs
      /\ air'.stacks = air.stacks /\ air'.windows = air.windows
      /\ air'.pinnedHandles = air.pinnedHandles
      /\ air'.pinnedGrants = air.pinnedGrants
  BY <1>0 DEF AirInv, AirShape, AirFields
<1>3. AirShape(air')
  BY <1>1, <1>2, <1>0 DEF AirInv, AirShape, AirFields
<1>4. BucketsCover(air')
  BY <1>1, <1>2, <1>0, AirlockAssumption
  DEF AirInv, AirShape, BucketsCover, Idle, Callback, Detached
<1>5. ValuesSmall(air')
  BY <1>1, <1>2, <1>0 DEF AirInv, AirShape, ValuesSmall
<1>6. FreshResolution = FALSE => SnapshotsCover(air')
  BY <1>1, <1>2, <1>0 DEF AirInv, AirShape, SnapshotsCover
<1>7. HandlesHeld(mem', air')
  BY <1>1, <1>2, <1>0 DEF AirInv, AirShape, HandlesHeld, HeldBy
<1>8. GrantsHeld(mem', air')
  BY <1>1, <1>2, <1>0 DEF AirInv, AirShape, GrantsHeld, GrantHeldBy
<1> QED
  BY <1>1, <1>3, <1>4, <1>5, <1>6, <1>7, <1>8 DEF AirInv

\* A call returns to the context that made it, which goes on with the value,
LEMMA ReturnDelivers ==
  ASSUME AirInv(mem', air),
         NEW c \in Contexts,
         NEW names,
         IsFiniteSet(names),
         \A n \in names : HeldBy(air, n),
         air.turn = c,
         air' = [Yielded EXCEPT !.phase[c] = "ready",
                            !.heapRefs = @ \cup Delivered(mem', names)]
  PROVE  AirInv(mem', air')
<1>1. AirInv(mem', air)
  OBVIOUS
<1>2. /\ DOMAIN air' = AirFields /\ air'.turn = Idle
      /\ air'.phase = [air.phase EXCEPT ![c] = "ready"] /\ air'.fresh = {}
      /\ air'.buckets = air.buckets /\ air'.pending = air.pending
      /\ air'.stash = air.stash /\ air'.linked = air.linked
      /\ air'.promised = air.promised /\ air'.snapshots = air.snapshots
      /\ air'.queued = air.queued
      /\ air'.heapRefs = air.heapRefs \cup Delivered(mem', names)
      /\ air'.stacks = air.stacks /\ air'.windows = air.windows
      /\ air'.pinnedHandles = air.pinnedHandles
      /\ air'.pinnedGrants = air.pinnedGrants
  BY DEF AirInv, AirShape, AirFields, Yielded, Entered
<1>3. AirShape(air')
  BY <1>1, <1>2 DEF AirInv, AirShape, AirFields
<1>4. BucketsCover(air')
  BY <1>1, <1>2, AirlockAssumption
  DEF AirInv, AirShape, BucketsCover, Idle, Callback, Detached
<1>5. ValuesSmall(air')
  BY <1>1, <1>2 DEF AirInv, AirShape, ValuesSmall
<1>6. FreshResolution = FALSE => SnapshotsCover(air')
  BY <1>1, <1>2 DEF AirInv, AirShape, SnapshotsCover
<1>7. HandlesHeld(mem', air')
  BY <1>1, <1>2 DEF AirInv, AirShape, HandlesHeld, HeldBy, Delivered
<1>8. GrantsHeld(mem', air')
  BY <1>1, <1>2 DEF AirInv, AirShape, GrantsHeld, GrantHeldBy
<1> QED
  BY <1>1, <1>3, <1>4, <1>5, <1>6, <1>7, <1>8 DEF AirInv

\* or finds no room for it, and keeps it in the stash.
LEMMA ReturnStashes ==
  ASSUME AirInv(mem', air),
         NEW c \in Contexts,
         NEW names,
         IsFiniteSet(names),
         \A n \in names : HeldBy(air, n),
         air.turn = c,
         air' = [Yielded EXCEPT !.phase[c] = "stashed", !.stash[c] = names]
  PROVE  AirInv(mem', air')
<1>1. AirInv(mem', air)
  OBVIOUS
<1>2. /\ DOMAIN air' = AirFields /\ air'.turn = Idle
      /\ air'.phase = [air.phase EXCEPT ![c] = "stashed"] /\ air'.fresh = {}
      /\ air'.buckets = air.buckets /\ air'.pending = air.pending
      /\ air'.stash = [air.stash EXCEPT ![c] = names]
      /\ air'.linked = air.linked /\ air'.promised = air.promised
      /\ air'.snapshots = air.snapshots /\ air'.queued = air.queued
      /\ air'.heapRefs = air.heapRefs /\ air'.stacks = air.stacks
      /\ air'.windows = air.windows /\ air'.pinnedHandles = air.pinnedHandles
      /\ air'.pinnedGrants = air.pinnedGrants
  BY DEF AirInv, AirShape, AirFields, Yielded, Entered
<1>3. AirShape(air')
  BY <1>1, <1>2 DEF AirInv, AirShape, AirFields
<1>4. BucketsCover(air')
  BY <1>1, <1>2, AirlockAssumption
  DEF AirInv, AirShape, BucketsCover, Idle, Callback, Detached
<1>5. ValuesSmall(air')
  BY <1>1, <1>2 DEF AirInv, AirShape, ValuesSmall
<1>6. FreshResolution = FALSE => SnapshotsCover(air')
  BY <1>1, <1>2 DEF AirInv, AirShape, SnapshotsCover
<1>7. HandlesHeld(mem', air')
  BY <1>1, <1>2 DEF AirInv, AirShape, HandlesHeld, HeldBy
<1>8. GrantsHeld(mem', air')
  BY <1>1, <1>2 DEF AirInv, AirShape, GrantsHeld, GrantHeldBy
<1> QED
  BY <1>1, <1>3, <1>4, <1>5, <1>6, <1>7, <1>8 DEF AirInv

\* A resolver wakes its context with the value,
LEMMA ResolveDelivers ==
  ASSUME AirInv(mem', air),
         NEW c \in Contexts,
         NEW names,
         IsFiniteSet(names),
         \A n \in names : HeldBy(air, n),
         air.turn = Callback,
         air' = [[air EXCEPT !.pending[c] = {}, !.phase[c] = "ready"] EXCEPT
                   !.phase[c] = "ready", !.heapRefs = @ \cup Delivered(mem', names)]
  PROVE  AirInv(mem', air')
<1>1. AirInv(mem', air)
  OBVIOUS
<1>2. /\ DOMAIN air' = AirFields /\ air'.turn = air.turn
      /\ air'.phase = [air.phase EXCEPT ![c] = "ready"]
      /\ air'.fresh = air.fresh /\ air'.buckets = air.buckets
      /\ air'.pending = [air.pending EXCEPT ![c] = {}]
      /\ air'.stash = air.stash /\ air'.linked = air.linked
      /\ air'.promised = air.promised /\ air'.snapshots = air.snapshots
      /\ air'.queued = air.queued
      /\ air'.heapRefs = air.heapRefs \cup Delivered(mem', names)
      /\ air'.stacks = air.stacks /\ air'.windows = air.windows
      /\ air'.pinnedHandles = air.pinnedHandles
      /\ air'.pinnedGrants = air.pinnedGrants
  BY DEF AirInv, AirShape, AirFields, Yielded, Entered
<1>3. AirShape(air')
  BY <1>1, <1>2 DEF AirInv, AirShape, AirFields
<1>4. BucketsCover(air')
  BY <1>1, <1>2, AirlockAssumption
  DEF AirInv, AirShape, BucketsCover, Idle, Callback, Detached
<1>5. ValuesSmall(air')
  BY <1>1, <1>2 DEF AirInv, AirShape, ValuesSmall
<1>6. FreshResolution = FALSE => SnapshotsCover(air')
  BY <1>1, <1>2 DEF AirInv, AirShape, SnapshotsCover
<1>7. HandlesHeld(mem', air')
  BY <1>1, <1>2 DEF AirInv, AirShape, HandlesHeld, HeldBy, Delivered
<1>8. GrantsHeld(mem', air')
  BY <1>1, <1>2 DEF AirInv, AirShape, GrantsHeld, GrantHeldBy
<1> QED
  BY <1>1, <1>3, <1>4, <1>5, <1>6, <1>7, <1>8 DEF AirInv

\* or leaves the value in the stash,
LEMMA ResolveStashes ==
  ASSUME AirInv(mem', air),
         NEW c \in Contexts,
         NEW names,
         IsFiniteSet(names),
         \A n \in names : HeldBy(air, n),
         air.turn = Callback,
         air' = [[air EXCEPT !.pending[c] = {}, !.phase[c] = "ready"] EXCEPT
                   !.phase[c] = "stashed", !.stash[c] = names]
  PROVE  AirInv(mem', air')
<1>1. AirInv(mem', air)
  OBVIOUS
<1>2. /\ DOMAIN air' = AirFields /\ air'.turn = air.turn
      /\ air'.phase = [air.phase EXCEPT ![c] = "stashed"]
      /\ air'.fresh = air.fresh /\ air'.buckets = air.buckets
      /\ air'.pending = [air.pending EXCEPT ![c] = {}]
      /\ air'.stash = [air.stash EXCEPT ![c] = names]
      /\ air'.linked = air.linked /\ air'.promised = air.promised
      /\ air'.snapshots = air.snapshots /\ air'.queued = air.queued
      /\ air'.heapRefs = air.heapRefs /\ air'.stacks = air.stacks
      /\ air'.windows = air.windows /\ air'.pinnedHandles = air.pinnedHandles
      /\ air'.pinnedGrants = air.pinnedGrants
  BY DEF AirInv, AirShape, AirFields, Yielded, Entered
<1>3. AirShape(air')
  BY <1>1, <1>2 DEF AirInv, AirShape, AirFields
<1>4. BucketsCover(air')
  BY <1>1, <1>2, AirlockAssumption
  DEF AirInv, AirShape, BucketsCover, Idle, Callback, Detached
<1>5. ValuesSmall(air')
  BY <1>1, <1>2 DEF AirInv, AirShape, ValuesSmall
<1>6. FreshResolution = FALSE => SnapshotsCover(air')
  BY <1>1, <1>2 DEF AirInv, AirShape, SnapshotsCover
<1>7. HandlesHeld(mem', air')
  BY <1>1, <1>2 DEF AirInv, AirShape, HandlesHeld, HeldBy
<1>8. GrantsHeld(mem', air')
  BY <1>1, <1>2 DEF AirInv, AirShape, GrantsHeld, GrantHeldBy
<1> QED
  BY <1>1, <1>3, <1>4, <1>5, <1>6, <1>7, <1>8 DEF AirInv

\* or wakes it with nothing, its grants revoked.
LEMMA ResolveDenies ==
  ASSUME AirInv(mem', air),
         NEW c \in Contexts,
         air.turn = Callback,
         air' = [air EXCEPT !.pending[c] = {}, !.phase[c] = "ready"]
  PROVE  AirInv(mem', air')
<1>1. AirInv(mem', air)
  OBVIOUS
<1>2. /\ DOMAIN air' = AirFields /\ air'.turn = air.turn
      /\ air'.phase = [air.phase EXCEPT ![c] = "ready"]
      /\ air'.fresh = air.fresh /\ air'.buckets = air.buckets
      /\ air'.pending = [air.pending EXCEPT ![c] = {}]
      /\ air'.stash = air.stash /\ air'.linked = air.linked
      /\ air'.promised = air.promised /\ air'.snapshots = air.snapshots
      /\ air'.queued = air.queued /\ air'.heapRefs = air.heapRefs
      /\ air'.stacks = air.stacks /\ air'.windows = air.windows
      /\ air'.pinnedHandles = air.pinnedHandles
      /\ air'.pinnedGrants = air.pinnedGrants
  BY DEF AirInv, AirShape, AirFields, Yielded, Entered
<1>3. AirShape(air')
  BY <1>1, <1>2 DEF AirInv, AirShape, AirFields
<1>4. BucketsCover(air')
  BY <1>1, <1>2, AirlockAssumption
  DEF AirInv, AirShape, BucketsCover, Idle, Callback, Detached
<1>5. ValuesSmall(air')
  BY <1>1, <1>2 DEF AirInv, AirShape, ValuesSmall
<1>6. FreshResolution = FALSE => SnapshotsCover(air')
  BY <1>1, <1>2 DEF AirInv, AirShape, SnapshotsCover
<1>7. HandlesHeld(mem', air')
  BY <1>1, <1>2 DEF AirInv, AirShape, HandlesHeld, HeldBy
<1>8. GrantsHeld(mem', air')
  BY <1>1, <1>2 DEF AirInv, AirShape, GrantsHeld, GrantHeldBy
<1> QED
  BY <1>1, <1>3, <1>4, <1>5, <1>6, <1>7, <1>8 DEF AirInv

\* A stashed context that is driven takes its value,
LEMMA DrainDelivers ==
  ASSUME AirInv(mem', air),
         NEW c \in Contexts,
         air.turn = Idle,
         air.phase[c] = "stashed",
         air' = [Entered(c) EXCEPT
                   !.turn = c, !.phase[c] = "ready", !.stash[c] = {},
                   !.heapRefs = @ \cup Delivered(mem', air.stash[c])]
  PROVE  AirInv(mem', air')
<1>1. AirInv(mem', air)
  OBVIOUS
<1>2. /\ DOMAIN air' = AirFields /\ air'.turn = c
      /\ air'.phase = [air.phase EXCEPT ![c] = "ready"] /\ air'.fresh = {}
      /\ air'.buckets = [air.buckets EXCEPT ![c] = {}, ![Detached] = {}]
      /\ air'.pending = air.pending
      /\ air'.stash = [air.stash EXCEPT ![c] = {}] /\ air'.linked = air.linked
      /\ air'.promised = air.promised /\ air'.snapshots = air.snapshots
      /\ air'.queued = air.queued
      /\ air'.heapRefs = air.heapRefs \cup Delivered(mem', air.stash[c])
      /\ air'.stacks = air.stacks /\ air'.windows = air.windows
      /\ air'.pinnedHandles = air.pinnedHandles
      /\ air'.pinnedGrants = air.pinnedGrants
  BY DEF AirInv, AirShape, AirFields, Yielded, Entered
<1>3. AirShape(air')
  BY <1>1, <1>2, FS_EmptySet DEF AirInv, AirShape, AirFields
<1>4. BucketsCover(air')
  BY <1>1, <1>2, FS_EmptySet, AirlockAssumption
  DEF AirInv, AirShape, BucketsCover, Idle, Callback, Detached
<1>5. ValuesSmall(air')
  BY <1>1, <1>2, FS_EmptySet DEF AirInv, AirShape, ValuesSmall
<1>6. FreshResolution = FALSE => SnapshotsCover(air')
  BY <1>1, <1>2, FS_EmptySet DEF AirInv, AirShape, SnapshotsCover
<1>7. HandlesHeld(mem', air')
  BY <1>1, <1>2, FS_EmptySet
  DEF AirInv, AirShape, HandlesHeld, HeldBy, Delivered
<1>8. GrantsHeld(mem', air')
  BY <1>1, <1>2, FS_EmptySet DEF AirInv, AirShape, GrantsHeld, GrantHeldBy
<1> QED
  BY <1>1, <1>3, <1>4, <1>5, <1>6, <1>7, <1>8 DEF AirInv

\* or keeps it for the next drive.
LEMMA DrainYields ==
  ASSUME AirInv(mem', air),
         NEW c \in Contexts,
         air.turn = Idle,
         air.phase[c] = "stashed",
         air' = Entered(c)
  PROVE  AirInv(mem', air')
<1>1. AirInv(mem', air)
  OBVIOUS
<1>2. /\ DOMAIN air' = AirFields /\ air'.turn = air.turn
      /\ air'.phase = air.phase /\ air'.fresh = {}
      /\ air'.buckets = [air.buckets EXCEPT ![c] = {}, ![Detached] = {}]
      /\ air'.pending = air.pending /\ air'.stash = air.stash
      /\ air'.linked = air.linked /\ air'.promised = air.promised
      /\ air'.snapshots = air.snapshots /\ air'.queued = air.queued
      /\ air'.heapRefs = air.heapRefs /\ air'.stacks = air.stacks
      /\ air'.windows = air.windows /\ air'.pinnedHandles = air.pinnedHandles
      /\ air'.pinnedGrants = air.pinnedGrants
  BY DEF AirInv, AirShape, AirFields, Yielded, Entered
<1>3. AirShape(air')
  BY <1>1, <1>2 DEF AirInv, AirShape, AirFields
<1>4. BucketsCover(air')
  BY <1>1, <1>2, AirlockAssumption
  DEF AirInv, AirShape, BucketsCover, Idle, Callback, Detached
<1>5. ValuesSmall(air')
  BY <1>1, <1>2 DEF AirInv, AirShape, ValuesSmall
<1>6. FreshResolution = FALSE => SnapshotsCover(air')
  BY <1>1, <1>2 DEF AirInv, AirShape, SnapshotsCover
<1>7. HandlesHeld(mem', air')
  BY <1>1, <1>2 DEF AirInv, AirShape, HandlesHeld, HeldBy
<1>8. GrantsHeld(mem', air')
  BY <1>1, <1>2 DEF AirInv, AirShape, GrantsHeld, GrantHeldBy
<1> QED
  BY <1>1, <1>3, <1>4, <1>5, <1>6, <1>7, <1>8 DEF AirInv

(***************************************************************************)
(* The operations on the membrane.                                         *)
(***************************************************************************)
\* A compaction that pressure asks for, or none.
LEMMA RoomKeeps ==
  ASSUME AirInv(mem, air), NEW base \in {mem, CompactedFor(mem, AirAnchors(TRUE))}
  PROVE  AirInv(base, air)
<1>1. MemOK(mem)
  BY DEF AirInv, MemSide
<1>2. MemOK(base) /\ Reaped(mem, base, AirAnchors(TRUE))
  BY <1>1, WithRoomOK
<1> QED
  BY <1>2, HeldSurvives

\* A version is a number.
LEMMA VersionsTyped ==
  ASSUME NEW m, MemOK(m)
  PROVE  /\ \A s \in HandleSlots : m.handles[s].ver \in Nat
         /\ \A g \in GrantSlots : m.grants[g].ver \in Nat
BY DEF MemOK, TableOK, HandleSlots, GrantSlots

\* A handle registered lies in the bucket of the code that runs.
LEMMA AirRegisterKeeps ==
  ASSUME AirInv(mem, air), AirRegister
  PROVE  AirInv(mem', air')
<1> DEFINE base == IF HandleRoom(mem) THEN mem ELSE CompactedFor(mem, AirAnchors(TRUE))
           s == HandleSlotTaken(base)
           name == <<s, base.handles[s].ver + 1>>
           x == Registered(base)
<1>1. AirInv(base, air)
  BY RoomKeeps
<1>2. /\ air.turn # Idle
      /\ mem' = Settled(x)
      /\ s = NoSlot => air' = air
      /\ s # NoSlot => air' = [air EXCEPT !.fresh = @ \cup {name},
                                          !.buckets[BucketKey] = @ \cup {name}]
  BY DEF AirRegister, Running, WithRoom
<1> HIDE DEF base
<1>3. CASE s = NoSlot
  <2>1. x = base
    BY <1>3 DEF Registered
  <2> QED
    BY <1>1, <1>2, <1>3, <2>1, SettledKeepsInv
<1>4. CASE s # NoSlot
  <2>1. MemOK(base)
    BY <1>1 DEF AirInv, MemSide
  <2>2. /\ MemOK(x)
        /\ s \in HandleSlots /\ ~base.handles[s].live
        /\ x.handles[s].live = TRUE /\ x.handles[s].ver = base.handles[s].ver + 1
        /\ \A i \in HandleSlots \ {s} : x.handles[i] = base.handles[i]
        /\ x.grants = base.grants /\ x.rootGrants = base.rootGrants
        /\ x.dispatch = base.dispatch
    BY <1>4, <2>1, RegisteredOK
  <2>3. name \in HandleSlots \X Nat
    BY <2>1, <2>2, VersionsTyped
  <2> HIDE DEF x, s
  <2>4. AirShape(air) /\ BucketKey \in DOMAIN air.buckets
    BY <1>1 DEF AirInv, AirShape, BucketKey
  <2>5. /\ DOMAIN air' = AirFields /\ air'.turn = air.turn
        /\ air'.phase = air.phase /\ air'.fresh = air.fresh \cup {name}
        /\ air'.buckets = [air.buckets EXCEPT ![BucketKey] = air.buckets[BucketKey] \cup {name}]
        /\ air'.pending = air.pending /\ air'.stash = air.stash
        /\ air'.linked = air.linked /\ air'.promised = air.promised
        /\ air'.snapshots = air.snapshots /\ air'.queued = air.queued
        /\ air'.heapRefs = air.heapRefs /\ air'.stacks = air.stacks
        /\ air'.windows = air.windows
        /\ air'.pinnedHandles = air.pinnedHandles
        /\ air'.pinnedGrants = air.pinnedGrants
    BY <1>2, <1>4, <2>4 DEF AirShape, AirFields
  <2>6. HandleCurrent(x, name) /\ \A n \in HandleSlots \X Nat :
          HandleCurrent(base, n) => HandleCurrent(x, n)
    BY <2>2 DEF HandleCurrent
  <2> HIDE DEF name
  <2>7. MemSide(x)
    <3>1. RootsExact(x)
      BY <1>1, <2>2 DEF AirInv, MemSide, RootsExact
    <3>2. Maps \subseteq PrunedMaps => DispatchClean(x)
      <4> SUFFICES ASSUME Maps \subseteq PrunedMaps, NEW map \in Maps, NEW i \in HandleSlots
                   PROVE  IF x.handles[i].live
                          THEN x.dispatch[map][i] \in {0, x.handles[i].ver}
                          ELSE x.dispatch[map][i] = 0
        BY DEF DispatchClean
      <4>1. IF base.handles[i].live
            THEN base.dispatch[map][i] \in {0, base.handles[i].ver}
            ELSE base.dispatch[map][i] = 0
        BY <1>1 DEF AirInv, MemSide, DispatchClean
      <4>2. CASE i = s
        BY <2>2, <4>1, <4>2
      <4>3. CASE i # s
        BY <2>2, <4>1, <4>3
      <4> QED
        BY <4>2, <4>3
    <3> QED
      BY <2>2, <3>1, <3>2 DEF MemSide
  <2>8. AirShape(air')
    BY <2>4, <2>5 DEF AirShape, AirFields
  <2>9. BucketsCover(air')
    <3>1. BucketsCover(air) /\ \A k \in DOMAIN air.buckets : air.buckets[k] \subseteq air'.buckets[k]
      BY <1>1, <2>5 DEF AirInv
    <3>2. name \in air'.buckets[BucketKey]
      BY <2>4, <2>5
    <3> QED
      BY <1>2, <2>4, <2>5, <3>1, <3>2, AirlockAssumption
      DEF BucketsCover, BucketKey, AirShape, Idle, Callback, Detached
  <2>10. ValuesSmall(air') /\ (FreshResolution = FALSE => SnapshotsCover(air'))
    BY <1>1, <2>5 DEF AirInv, ValuesSmall, SnapshotsCover
  <2>11. HandlesHeld(x, air')
    BY <1>1, <2>3, <2>5, <2>6 DEF AirInv, HandlesHeld, HeldBy
  <2>12. GrantsHeld(x, air')
    BY <1>1, <2>2, <2>5 DEF AirInv, GrantsHeld, GrantHeldBy, GrantCurrent
  <2>13. AirInv(x, air')
    BY <2>7, <2>8, <2>9, <2>10, <2>11, <2>12 DEF AirInv
  <2> QED
    BY <1>2, <2>13, SettledKeepsInv
<1> QED
  BY <1>3, <1>4

\* A grant created joins the window of every approval under way.
LEMMA AirCreateGrantKeeps ==
  ASSUME AirInv(mem, air), AirCreateGrant
  PROVE  AirInv(mem', air')
<1> DEFINE base == IF GrantRoom(mem) THEN mem ELSE CompactedFor(mem, AirAnchors(TRUE))
           g == GrantSlotTaken(base)
           name == <<g, base.grants[g].ver + 1>>
           x == Created(base)
           opened == [c \in Contexts |-> IF air.phase[c] = "approving"
                                         THEN air.windows[c] \cup {name} ELSE air.windows[c]]
<1>1. AirInv(base, air)
  BY RoomKeeps
<1>2. /\ mem' = Settled(x)
      /\ g = NoSlot => air' = air
      /\ g # NoSlot => air' = [air EXCEPT !.windows = opened]
  BY DEF AirCreateGrant, WithRoom
<1> HIDE DEF base
<1>3. CASE g = NoSlot
  <2>1. x = base
    BY <1>3 DEF Created
  <2> QED
    BY <1>1, <1>2, <1>3, <2>1, SettledKeepsInv
<1>4. CASE g # NoSlot
  <2>1. MemOK(base)
    BY <1>1 DEF AirInv, MemSide
  <2>2. /\ MemOK(x)
        /\ g \in GrantSlots /\ ~base.grants[g].live
        /\ x.grants[g].live = TRUE /\ x.grants[g].ver = base.grants[g].ver + 1
        /\ x.grants[g].root = FALSE
        /\ \A i \in GrantSlots \ {g} : x.grants[i] = base.grants[i]
        /\ x.handles = base.handles /\ x.rootGrants = base.rootGrants
        /\ x.dispatch = base.dispatch
    BY <1>4, <2>1, CreatedOK
  <2>3. name \in GrantSlots \X Nat
    BY <2>1, <2>2, VersionsTyped
  <2> HIDE DEF x, g
  <2>4. GrantCurrent(x, name) /\ \A n \in GrantSlots \X Nat :
          GrantCurrent(base, n) => GrantCurrent(x, n)
    BY <2>2 DEF GrantCurrent
  <2> HIDE DEF name
  <2>5. /\ DOMAIN air' = AirFields /\ air'.turn = air.turn
        /\ air'.phase = air.phase /\ air'.fresh = air.fresh
        /\ air'.buckets = air.buckets /\ air'.pending = air.pending
        /\ air'.stash = air.stash /\ air'.linked = air.linked
        /\ air'.promised = air.promised /\ air'.snapshots = air.snapshots
        /\ air'.queued = air.queued /\ air'.heapRefs = air.heapRefs
        /\ air'.stacks = air.stacks /\ air'.windows = opened
        /\ air'.pinnedHandles = air.pinnedHandles
        /\ air'.pinnedGrants = air.pinnedGrants
    BY <1>1, <1>2, <1>4 DEF AirInv, AirShape, AirFields
  <2>6. MemSide(x)
    <3>1. RootsExact(x)
      <4> SUFFICES ASSUME NEW i \in GrantSlots
                   PROVE  i \in x.rootGrants <=> x.grants[i].live /\ x.grants[i].root
        BY DEF RootsExact
      <4>1. i \in base.rootGrants <=> base.grants[i].live /\ base.grants[i].root
        BY <1>1 DEF AirInv, MemSide, RootsExact
      <4>2. CASE i = g
        BY <2>2, <4>1, <4>2
      <4>3. CASE i # g
        BY <2>2, <4>1, <4>3
      <4> QED
        BY <4>2, <4>3
    <3>2. Maps \subseteq PrunedMaps => DispatchClean(x)
      BY <1>1, <2>2 DEF AirInv, MemSide, DispatchClean
    <3> QED
      BY <2>2, <3>1, <3>2 DEF MemSide
  <2>7. AirShape(air') /\ BucketsCover(air') /\ ValuesSmall(air')
        /\ (FreshResolution = FALSE => SnapshotsCover(air'))
    <3>1. AirShape(air')
      BY <1>1, <2>5 DEF AirInv, AirShape
    <3>2. BucketsCover(air')
      BY <1>1, <2>5 DEF AirInv, BucketsCover
    <3>3. ValuesSmall(air') /\ (FreshResolution = FALSE => SnapshotsCover(air'))
      BY <1>1, <2>5 DEF AirInv, ValuesSmall, SnapshotsCover
    <3> QED
      BY <3>1, <3>2, <3>3
  <2>8. HandlesHeld(x, air')
    BY <1>1, <2>2, <2>5 DEF AirInv, HandlesHeld, HeldBy, HandleCurrent
  <2>9. GrantsHeld(x, air')
    <3>1. \A c \in Contexts : \A n : n \in air'.windows[c] => n \in air.windows[c] \/ n = name
      BY <2>5
    <3> QED
      BY <1>1, <2>3, <2>4, <2>5, <3>1 DEF AirInv, GrantsHeld, GrantHeldBy
  <2>10. AirInv(x, air')
    BY <2>6, <2>7, <2>8, <2>9 DEF AirInv
  <2> QED
    BY <1>2, <2>10, SettledKeepsInv
<1> QED
  BY <1>3, <1>4

\* A handle joins a grant.
LEMMA AirAddHandleKeeps ==
  ASSUME AirInv(mem, air), NEW g \in GrantSlots, NEW s \in HandleSlots, AirAddHandle(g, s)
  PROVE  AirInv(mem', air')
<1> DEFINE x == HandleAdded(mem, g, s, AirAnchors(TRUE))
<1>1. mem' = Settled(x) /\ air' = air
  BY DEF AirAddHandle, OnMembrane
<1>2. MemOK(x) /\ Reaped(mem, x, AirAnchors(TRUE))
  BY HandleAddedOK DEF AirInv, MemSide
<1>3. AirInv(x, air)
  BY <1>2, HeldSurvives
<1> QED
  BY <1>1, <1>3, SettledKeepsInv

\* Revoking a grant and marking it root leave the membrane sound,
LEMMA MemFlagsOK ==
  ASSUME MemOK(mem), NEW g \in GrantSlots
  PROVE  /\ MemOK([mem EXCEPT !.grants[g].revoked = TRUE])
         /\ MemOK([mem EXCEPT !.grants[g].root = TRUE, !.rootGrants = @ \cup {g}])
BY FlagsOK

\* and every tenant in place.
LEMMA AirFlagsKeep ==
  ASSUME AirInv(mem, air), NEW g \in GrantSlots, AirRevoke(g) \/ AirMarkRoot(g)
  PROVE  AirInv(mem', air')
<1>1. MemOK(mem) /\ MemShape(mem) /\ RootsExact(mem) /\ mem.grants[g].live
  BY DEF AirInv, MemSide, MemOK, AirRevoke, AirMarkRoot
<1>2. PICK x : /\ mem' = Settled(x) /\ air' = air
               /\ \/ x = [mem EXCEPT !.grants[g].revoked = TRUE]
                  \/ x = [mem EXCEPT !.grants[g].root = TRUE, !.rootGrants = @ \cup {g}]
  BY DEF AirRevoke, AirMarkRoot, OnMembrane
<1>3. MemOK(x)
  BY <1>1, <1>2, MemFlagsOK
<1>4. /\ x.handles = mem.handles /\ x.dispatch = mem.dispatch
      /\ \A i \in GrantSlots : /\ x.grants[i].ver = mem.grants[i].ver
                               /\ x.grants[i].live = mem.grants[i].live
      /\ RootsExact(x)
  <2>1. CASE x = [mem EXCEPT !.grants[g].revoked = TRUE]
    <3> DEFINE e == [mem.grants[g] EXCEPT !.revoked = TRUE]
    <3>1. /\ x.handles = mem.handles /\ x.dispatch = mem.dispatch
          /\ x.rootGrants = mem.rootGrants /\ x.grants = [mem.grants EXCEPT ![g] = e]
      BY <1>1, <2>1 DEF MemShape, MemFields
    <3>2. /\ e.ver = mem.grants[g].ver /\ e.live = mem.grants[g].live
          /\ e.root = mem.grants[g].root
      BY <1>1 DEF MemShape
    <3> HIDE DEF e
    <3>3. \A i \in GrantSlots : x.grants[i] = IF i = g THEN e ELSE mem.grants[i]
      BY <1>1, <3>1 DEF MemShape
    <3> QED
      BY <1>1, <3>1, <3>2, <3>3 DEF RootsExact
  <2>2. CASE x = [mem EXCEPT !.grants[g].root = TRUE, !.rootGrants = @ \cup {g}]
    <3> DEFINE e == [mem.grants[g] EXCEPT !.root = TRUE]
    <3>1. /\ x.handles = mem.handles /\ x.dispatch = mem.dispatch
          /\ x.rootGrants = mem.rootGrants \cup {g}
          /\ x.grants = [mem.grants EXCEPT ![g] = e]
      BY <1>1, <2>2 DEF MemShape, MemFields
    <3>2. e.ver = mem.grants[g].ver /\ e.live = mem.grants[g].live /\ e.root = TRUE
      BY <1>1 DEF MemShape
    <3> HIDE DEF e
    <3>3. \A i \in GrantSlots : x.grants[i] = IF i = g THEN e ELSE mem.grants[i]
      BY <1>1, <3>1 DEF MemShape
    <3>4. RootsExact(x)
      <4> SUFFICES ASSUME NEW i \in GrantSlots
                   PROVE  i \in x.rootGrants <=> x.grants[i].live /\ x.grants[i].root
        BY DEF RootsExact
      <4>1. CASE i = g
        BY <1>1, <3>1, <3>2, <3>3, <4>1
      <4>2. CASE i # g
        BY <1>1, <3>1, <3>3, <4>2 DEF RootsExact
      <4> QED
        BY <4>1, <4>2
    <3> QED
      BY <3>1, <3>2, <3>3, <3>4
  <2> QED
    BY <1>2, <2>1, <2>2
<1>5. MemSide(x)
  <2>1. Maps \subseteq PrunedMaps => DispatchClean(x)
    BY <1>4 DEF AirInv, MemSide, DispatchClean
  <2> QED
    BY <1>3, <1>4, <2>1 DEF MemSide
<1>6. HandlesHeld(x, air)
  BY <1>4 DEF AirInv, HandlesHeld, HandleCurrent
<1>7. GrantsHeld(x, air)
  BY <1>4 DEF AirInv, GrantsHeld, GrantCurrent
<1>8. AirInv(x, air)
  BY <1>5, <1>6, <1>7 DEF AirInv
<1> QED
  BY <1>2, <1>8, SettledKeepsInv

\* What a host registers for a handle bears its version.
LEMMA AirSetDispatchKeeps ==
  ASSUME AirInv(mem, air), NEW map \in Maps, NEW s \in HandleSlots, AirSetDispatch(map, s)
  PROVE  AirInv(mem', air')
<1> DEFINE x == [mem EXCEPT !.dispatch[map][s] = mem.handles[s].ver]
<1>1. /\ MemOK(mem) /\ MemShape(mem) /\ mem.handles[s].live
      /\ mem' = Settled(x) /\ air' = air
  BY DEF AirInv, MemSide, MemOK, AirSetDispatch, OnMembrane
<1>2. /\ DOMAIN x = MemFields /\ x.grants = mem.grants /\ x.handles = mem.handles
      /\ x.handleFree = mem.handleFree /\ x.grantFree = mem.grantFree
      /\ x.nextHandle = mem.nextHandle /\ x.nextGrant = mem.nextGrant
      /\ x.rootGrants = mem.rootGrants
      /\ x.dispatch = [mem.dispatch EXCEPT ![map] =
                         [mem.dispatch[map] EXCEPT ![s] = mem.handles[s].ver]]
  BY <1>1 DEF MemShape, MemFields
<1> HIDE DEF x
<1>3. /\ DOMAIN x.dispatch = Maps /\ \A k \in Maps : DOMAIN x.dispatch[k] = HandleSlots
      /\ \A k \in Maps, i \in HandleSlots :
           x.dispatch[k][i] = IF k = map /\ i = s THEN mem.handles[s].ver
                              ELSE mem.dispatch[k][i]
  BY <1>1, <1>2 DEF MemShape
<1>4. MemShape(x)
  BY <1>1, <1>2, <1>3 DEF MemShape
<1>5. MemOK(x)
  BY <1>1, <1>2, <1>4 DEF MemOK
<1>6. Maps \subseteq PrunedMaps => DispatchClean(x)
  <2> SUFFICES ASSUME Maps \subseteq PrunedMaps, NEW k \in Maps, NEW i \in HandleSlots
               PROVE  IF x.handles[i].live THEN x.dispatch[k][i] \in {0, x.handles[i].ver}
                      ELSE x.dispatch[k][i] = 0
    BY DEF DispatchClean
  <2>1. IF mem.handles[i].live THEN mem.dispatch[k][i] \in {0, mem.handles[i].ver}
        ELSE mem.dispatch[k][i] = 0
    BY DEF AirInv, MemSide, DispatchClean
  <2>2. CASE k = map /\ i = s
    BY <1>1, <1>2, <1>3, <2>2
  <2>3. CASE ~(k = map /\ i = s)
    BY <1>2, <1>3, <2>1, <2>3
  <2> QED
    BY <2>2, <2>3
<1>7. RootsExact(x)
  BY <1>2 DEF AirInv, MemSide, RootsExact
<1>8. HandlesHeld(x, air)
  BY <1>2 DEF AirInv, HandlesHeld, HandleCurrent
<1>9. GrantsHeld(x, air)
  BY <1>2 DEF AirInv, GrantsHeld, GrantCurrent
<1>10. AirInv(x, air)
  BY <1>5, <1>6, <1>7, <1>8, <1>9 DEF AirInv, MemSide
<1> QED
  BY <1>1, <1>10, SettledKeepsInv

\* The membrane is compacted between turns, when nothing is held by the code.
LEMMA CompactMembraneKeeps ==
  ASSUME AirInv(mem, air), CompactMembrane
  PROVE  AirInv(mem', air')
<1> DEFINE x == CompactedFor(mem, AirAnchors(FALSE))
<1>1. air.turn = Idle /\ mem' = Settled(x) /\ air' = air
  BY DEF CompactMembrane
<1>2. MemOK(x) /\ Reaped(mem, x, AirAnchors(FALSE))
  BY CompactedForOK, CompactedForReaps DEF AirInv, MemSide
<1>3. AirInv(x, air)
  BY <1>1, <1>2, HeldSurvives
<1> QED
  BY <1>1, <1>3, SettledKeepsInv

(***************************************************************************)
(* Answers: the value is tagged, then delivered or kept.                   *)
(***************************************************************************)
LEMMA ReturnValueKeeps ==
  ASSUME AirInv(mem, air), NEW c \in Contexts, ReturnValue(c)
  PROVE  AirInv(mem', air')
<1>1. PICK names \in Values(air.fresh) : Answer(c, names, Yielded)
  BY DEF ReturnValue
<1>2. names \subseteq air.fresh /\ IsFiniteSet(names)
  BY ValuesSmallSets
<1>3. /\ \A n \in names : HeldBy(air, n)
      /\ names \subseteq HandleSlots \X Nat
  BY <1>2 DEF AirInv, HandlesHeld, HeldBy
<1>4. AirInv(mem', air) /\ air.turn = c
  BY <1>1, <1>2, <1>3, TaggedKeepsInv DEF Answer, ReturnValue
<1> QED
  BY <1>1, <1>2, <1>3, <1>4, ReturnDelivers, ReturnStashes DEF Answer

\* The three ways a resolver ends.
LEMMA ResolveKeeps ==
  ASSUME AirInv(mem, air), NEW c \in Contexts, Resolve(c)
  PROVE  AirInv(mem', air')
<1> DEFINE woken == [air EXCEPT !.pending[c] = {}, !.phase[c] = "ready"]
<1>1. CASE \A n \in ToSet(air.stacks[c]) : GrantActive(mem, n[1])
  <2>1. PICK names \in Values(air.pending[c] \cup air.fresh) : Answer(c, names, woken)
    BY <1>1 DEF Resolve
  <2>2. names \subseteq air.pending[c] \cup air.fresh /\ IsFiniteSet(names)
    BY ValuesSmallSets
  <2>3. /\ \A n \in names : HeldBy(air, n)
        /\ names \subseteq HandleSlots \X Nat
    BY <2>2 DEF AirInv, HandlesHeld, HeldBy
  <2>4. AirInv(mem', air) /\ air.turn = Callback
    BY <2>1, <2>2, <2>3, TaggedKeepsInv DEF Answer, Resolve
  <2> QED
    BY <2>1, <2>2, <2>3, <2>4, ResolveDelivers, ResolveStashes DEF Answer
<1>2. CASE ~ \A n \in ToSet(air.stacks[c]) : GrantActive(mem, n[1])
  <2>1. air' = woken /\ mem' = mem /\ air.turn = Callback
    BY <1>2 DEF Resolve
  <2> QED
    BY <2>1, ResolveDenies
<1> QED
  BY <1>1, <1>2

\* The two ways a stashed context is driven.
LEMMA DrainStashKeeps ==
  ASSUME AirInv(mem, air), NEW c \in Contexts, DrainStash(c)
  PROVE  AirInv(mem', air')
<1>1. air.turn = Idle /\ air.phase[c] = "stashed" /\ mem' = Settled(Tagged(c, air.stash[c]))
  BY DEF DrainStash
<1>2. IsFiniteSet(air.stash[c]) /\ air.stash[c] \subseteq HandleSlots \X Nat
  BY DEF AirInv, ValuesSmall, HandlesHeld, HeldBy
<1>3. AirInv(mem', air)
  BY <1>1, <1>2, TaggedKeepsInv
<1> QED
  BY <1>1, <1>3, DrainDelivers, DrainYields DEF DrainStash

\* A pin holds on to what the running code has; taking it away holds less.
LEMMA PinsKeep ==
  ASSUME AirInv(mem, air), Pin \/ Unpin
  PROVE  AirInv(mem', air')
<1>1. PICK handles, grants :
        /\ Pinned(handles, grants)
        /\ \A n \in handles : n \in air.pinnedHandles
             \/ \E s \in LiveHandles(mem) : n = HandleName(mem, s)
        /\ \A n \in grants : n \in air.pinnedGrants
             \/ \E g \in LiveGrants(mem) : n = GrantName(mem, g)
  <2>1. CASE Pin
    BY <2>1 DEF Pin
  <2>2. CASE Unpin
    BY <2>2 DEF Unpin
  <2> QED
    BY <2>1, <2>2
<1>2. AirInv(mem', air) /\ mem' = mem
  BY <1>1 DEF Pinned
<1>3. /\ DOMAIN air' = AirFields /\ air'.turn = air.turn
      /\ air'.phase = air.phase /\ air'.fresh = air.fresh
      /\ air'.buckets = air.buckets /\ air'.pending = air.pending
      /\ air'.stash = air.stash /\ air'.linked = air.linked
      /\ air'.promised = air.promised /\ air'.snapshots = air.snapshots
      /\ air'.queued = air.queued /\ air'.heapRefs = air.heapRefs
      /\ air'.stacks = air.stacks /\ air'.windows = air.windows
      /\ air'.pinnedHandles = handles /\ air'.pinnedGrants = grants
  BY <1>1 DEF Pinned, AirInv, AirShape, AirFields
<1>4. \A s \in LiveHandles(mem) : HandleName(mem, s) \in HandleSlots \X Nat
                                  /\ HandleCurrent(mem, HandleName(mem, s))
  BY VersionsTyped DEF AirInv, MemSide, LiveHandles, HandleName, HandleCurrent
<1>5. \A g \in LiveGrants(mem) : GrantName(mem, g) \in GrantSlots \X Nat
                                 /\ GrantCurrent(mem, GrantName(mem, g))
  BY VersionsTyped DEF AirInv, MemSide, LiveGrants, GrantName, GrantCurrent
<1>6. AirShape(air') /\ BucketsCover(air') /\ ValuesSmall(air')
      /\ (FreshResolution = FALSE => SnapshotsCover(air'))
  <2>1. AirShape(air')
    BY <1>2, <1>3 DEF AirInv, AirShape
  <2>2. BucketsCover(air')
    BY <1>2, <1>3 DEF AirInv, BucketsCover
  <2>3. ValuesSmall(air') /\ (FreshResolution = FALSE => SnapshotsCover(air'))
    BY <1>2, <1>3 DEF AirInv, ValuesSmall, SnapshotsCover
  <2> QED
    BY <2>1, <2>2, <2>3
<1>7. HandlesHeld(mem', air')
  BY <1>1, <1>2, <1>3, <1>4 DEF AirInv, HandlesHeld, HeldBy
<1>8. GrantsHeld(mem', air')
  BY <1>1, <1>2, <1>3, <1>5 DEF AirInv, GrantsHeld, GrantHeldBy
<1> QED
  BY <1>2, <1>6, <1>7, <1>8 DEF AirInv

(***************************************************************************)
(* The invariant, and the theorems.                                        *)
(***************************************************************************)
LEMMA AirInvInit == AirlockInit => AirInv(mem, air)
<1> SUFFICES ASSUME AirlockInit PROVE AirInv(mem, air)
  OBVIOUS
<1>1. mem = EmptyMembrane /\ MemOK(mem)
  BY EmptyOK DEF AirlockInit
<1>2. /\ DOMAIN air = AirFields /\ air.turn = Idle
      /\ air.phase = [c \in Contexts |-> "ready"] /\ air.fresh = {}
      /\ air.buckets = [k \in Contexts \cup {Detached} |-> {}]
      /\ air.pending = [c \in Contexts |-> {}]
      /\ air.stash = [c \in Contexts |-> {}] /\ air.linked = {}
      /\ air.promised = [p \in Promises |-> {}]
      /\ air.snapshots = [p \in Promises |-> {}] /\ air.queued = {}
      /\ air.heapRefs = {} /\ air.stacks = [c \in Contexts |-> <<>>]
      /\ air.windows = [c \in Contexts |-> {}] /\ air.pinnedHandles = {}
      /\ air.pinnedGrants = {}
  BY DEF AirlockInit, AirFields
<1>3. RootsExact(mem) /\ DispatchClean(mem)
  BY <1>1 DEF EmptyMembrane, EmptyEntry, EmptyGrant, RootsExact, DispatchClean
<1>4. AirShape(air) /\ BucketsCover(air) /\ SnapshotsCover(air)
  <2>1. AirShape(air) /\ SnapshotsCover(air)
    BY <1>2 DEF AirShape, SnapshotsCover
  <2>2. BucketsCover(air)
    BY <1>2, AirlockAssumption DEF BucketsCover, Idle, Callback
  <2> QED
    BY <2>1, <2>2
<1>5. ValuesSmall(air)
  BY <1>2, FS_EmptySet DEF ValuesSmall
<1>6. \A n : ~HeldBy(air, n) /\ ~GrantHeldBy(air, n)
  BY <1>2, OneOnStack DEF HeldBy, GrantHeldBy
<1> QED
  BY <1>1, <1>3, <1>4, <1>5, <1>6 DEF AirInv, MemSide, HandlesHeld, GrantsHeld

\* The invariant is inductive: one case for each operation of the airlock.
LEMMA AirInvStep == AirInv(mem, air) /\ [AirlockNext]_airlockVars => AirInv(mem', air')
<1> SUFFICES ASSUME AirInv(mem, air), [AirlockNext]_airlockVars
             PROVE  AirInv(mem', air')
  OBVIOUS
<1>1. CASE HostOperation
  BY <1>1, AirRegisterKeeps, AirCreateGrantKeeps, AirAddHandleKeeps, AirFlagsKeep,
     AirSetDispatchKeeps, PinsKeep, EnqueueKeeps DEF HostOperation
<1>2. ASSUME NEW c \in Contexts,
             \/ RunContext(c) \/ DrainStash(c) \/ ReturnValue(c) \/ Suspend(c)
             \/ Resolve(c) \/ Cancel(c) \/ RequestGrant(c) \/ EndGrantBlock(c)
      PROVE  AirInv(mem', air')
  BY <1>2, RunContextKeeps, DrainStashKeeps, ReturnValueKeeps, SuspendKeeps,
     ResolveKeeps, CancelKeeps, RequestGrantKeeps, EndGrantBlockKeeps
<1>3. ASSUME NEW c \in Contexts, Approve(c) \/ Deny(c)
      PROVE  AirInv(mem', air')
  BY <1>3, FinishRequestKeeps DEF Approve, Deny
<1>4. ASSUME NEW c \in Contexts, NEW p \in Promises, LinkPromise(c, p)
      PROVE  AirInv(mem', air')
  BY <1>4, LinkPromiseKeeps
<1>5. ASSUME NEW p \in Promises, SettlePressure(p) \/ SettlePromise(p) \/ Fulfil(p)
      PROVE  AirInv(mem', air')
  BY <1>5, CompactMembraneKeeps, SettlePromiseKeeps, FulfilKeeps DEF SettlePressure
<1>6. CASE DeliverArguments \/ StartCallback \/ EndCallback \/ CompactMembrane
  BY <1>6, DeliverArgumentsKeeps, StartCallbackKeeps, EndCallbackKeeps,
     CompactMembraneKeeps
<1>7. ASSUME NEW n \in air.heapRefs, DropReference(n)
      PROVE  AirInv(mem', air')
  BY <1>7, DropReferenceKeeps
<1>8. CASE UNCHANGED airlockVars
  BY <1>8 DEF airlockVars
<1> QED
  BY <1>1, <1>2, <1>3, <1>4, <1>5, <1>6, <1>7, <1>8 DEF AirlockNext

\* Hence it always holds.
LEMMA AirInvAlways == AirlockSpec => []AirInv(mem, air)
<1>1. AirInv(mem, air) /\ [AirlockNext]_airlockVars => AirInv(mem, air)'
  BY AirInvStep
<1> QED
  BY <1>1, AirInvInit, PTL DEF AirlockSpec

\* For every number of contexts and promises and every size of the tables, and
\* whatever the host does between the drives and in its handlers: no handle
\* that the heap, a parked context, a pending promise, a queued call, a stash,
\* a pin or the running code holds is reaped.  The one thing the hypothesis
\* leaves out is a promise resolved with a handle that the resolving callback
\* has only just registered.
THEOREM HandlesNeverReaped ==
  ASSUME FreshResolution = FALSE
  PROVE  AirlockSpec => []HeldHandlesCurrent
<1>1. AirInv(mem, air) => HeldHandlesCurrent
  <2> SUFFICES ASSUME AirInv(mem, air),
                      NEW n \in air.heapRefs \cup air.fresh \cup air.pinnedHandles
                          \cup air.queued
                          \cup (UNION {air.pending[c] \cup air.stash[c] : c \in Contexts})
                          \cup (UNION {air.promised[p] : p \in Promises})
               PROVE  HandleCurrent(mem, n)
    BY DEF HeldHandlesCurrent
  <2>1. HeldBy(air, n)
    BY DEF HeldBy
  <2> QED
    BY <2>1 DEF AirInv, HandlesHeld
<1> QED
  BY <1>1, AirInvAlways, PTL

\* For every value of the constants: a grant on a context's stack, pinned, or
\* made for an approval under way keeps its slot, and the list of root grants
\* names exactly the live grants marked as roots.
THEOREM GrantsNeverReaped == AirlockSpec => []HeldGrantsCurrent
<1>1. AirInv(mem, air) => HeldGrantsCurrent
  <2> SUFFICES ASSUME AirInv(mem, air) PROVE HeldGrantsCurrent
    OBVIOUS
  <2>1. ASSUME NEW n \in air.pinnedGrants
                 \cup UNION {air.windows[c] \cup ToSet(air.stacks[c]) : c \in Contexts}
        PROVE  GrantCurrent(mem, n)
    <3>1. GrantHeldBy(air, n)
      BY <2>1 DEF GrantHeldBy
    <3> QED
      BY <3>1 DEF AirInv, GrantsHeld
  <2>2. mem.rootGrants = {g \in LiveGrants(mem) : mem.grants[g].root}
    BY DEF AirInv, MemSide, MemOK, MemShape, RootsExact, LiveGrants
  <2> QED
    BY <2>1, <2>2 DEF HeldGrantsCurrent
<1> QED
  BY <1>1, AirInvAlways, PTL

\* If every map followed is one the airlock prunes, what is registered for a
\* handle's slot was registered by the slot's present tenant, never inherited
\* from an earlier one.
THEOREM DispatchNeverInherited ==
  ASSUME Maps \subseteq PrunedMaps
  PROVE  AirlockSpec => []DispatchOfTenant
<1>1. AirInv(mem, air) => DispatchOfTenant
  BY DEF AirInv, MemSide, DispatchClean, DispatchOfTenant, LiveHandles
<1> QED
  BY <1>1, AirInvAlways, PTL

\* The membrane keeps its slots in order under the airlock too, whose anchors
\* and series of appends are particular ones.
THEOREM AirlockKeepsSlots == AirlockSpec => []FreeListsSound
<1>1. AirInv(mem, air) => FreeListsSound
  <2>1. HandleCapacity \in Nat /\ GrantCapacity \in Nat
    BY MembraneAssumption
  <2> QED
    BY <2>1 DEF AirInv, MemSide, MemOK, TableOK, FreeListsSound, FreeListSound
<1> QED
  BY <1>1, AirInvAlways, PTL
=============================================================================
