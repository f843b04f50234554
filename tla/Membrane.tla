------------------------------ MODULE Membrane ------------------------------
(***************************************************************************)
(* The capability membrane (src/src/membrane/index.js).  It keeps two      *)
(* tables: HANDLES name host objects, GRANTS authorise them.  Each entry   *)
(* carries a version, odd while the slot has a tenant, and a list of ids   *)
(* held as a run of words in one bump-allocated pool.  Nothing frees an    *)
(* entry but a compaction: it frees every entry outside the sets it is     *)
(* given, repacks the pool and prunes the airlock's dispatch maps.  An     *)
(* allocation that finds its table or the pool full compacts in the middle *)
(* of the operation and tries once more.                                   *)
(*                                                                         *)
(* The lists are modelled down to their words, because a compaction moves  *)
(* a run under an operation that still holds its old offset.  Which slots  *)
(* a compaction must keep is the caller's business: here any choice of     *)
(* anchors (module Airlock computes them).  Left out: the value arena, the *)
(* mutation log, the counters and the state cells.                         *)
(***************************************************************************)
EXTENDS Integers, Sequences, FiniteSets, SequencesExt

CONSTANTS
  HandleCapacity,  \* handleTableCapacity
  GrantCapacity,   \* grantTableCapacity
  PoolWords,       \* idListPoolSize, in words, without the reserved first one
  Maps,            \* the dispatch maps keyed by handle slot that are followed
  MaxHandleVersion, MaxGrantVersion   \* bound: the versions of the slots

ASSUME MembraneAssumption ==
  /\ HandleCapacity \in Nat /\ GrantCapacity \in Nat /\ PoolWords \in Nat
  /\ MaxHandleVersion \in Nat /\ MaxGrantVersion \in Nat
  /\ Maps \subseteq STRING

HandleSlots == 0 .. HandleCapacity - 1
GrantSlots == 0 .. GrantCapacity - 1
Words == 1 .. PoolWords
NoSlot == -1                \* a table that stayed full after the compaction

VARIABLE mem                \* the membrane buffer and the dispatch maps

(***************************************************************************)
(* Entries, names and id lists.  A name is a slot with the version its     *)
(* wrapper carries.                                                        *)
(***************************************************************************)
EmptyEntry == [ver |-> 0, live |-> FALSE, off |-> 0, cnt |-> 0]

EmptyGrant ==
  [ver |-> 0, live |-> FALSE, off |-> 0, cnt |-> 0, revoked |-> FALSE, root |-> FALSE]

HandleName(m, s) == <<s, m.handles[s].ver>>
GrantName(m, g) == <<g, m.grants[g].ver>>

\* unwrapHandle and unwrapGrant: a wrapper is good while its version is the
\* slot's.  A slot without a tenant has an even version, which no wrapper has.
HandleCurrent(m, n) == m.handles[n[1]].ver = n[2] /\ m.handles[n[1]].live
GrantCurrent(m, n) == m.grants[n[1]].ver = n[2] /\ m.grants[n[1]].live

\* _readIdList
ListOf(m, entry) ==
  IF entry.off = 0 THEN <<>>
  ELSE [i \in 1 .. entry.cnt |-> m.pool[entry.off + i - 1]]

HandleList(m, s) == ListOf(m, m.handles[s])
GrantList(m, g) == ListOf(m, m.grants[g])

LiveHandles(m) == {s \in HandleSlots : m.handles[s].live}
LiveGrants(m) == {g \in GrantSlots : m.grants[g].live}

\* _isGrantActive
GrantActive(m, g) == m.grants[g].live /\ ~m.grants[g].revoked

\* checkBySlot: every grant on the handle's list must stand, and one of them
\* must be active in the caller.
Callable(m, s, active) ==
  /\ m.handles[s].live
  /\ \A g \in ToSet(HandleList(m, s)) : GrantActive(m, g)
  /\ ToSet(HandleList(m, s)) \cap active # {}

(***************************************************************************)
(* compact(): the entries of the live sets keep their lists, filtered to   *)
(* what lives; the rest go to the free lists with the next version; the    *)
(* lists are written from the start of the pool again, handles first.      *)
(* What lies behind the new end keeps its old words.                       *)
(***************************************************************************)
\* A compaction sweeps a table upwards and puts each slot it frees in front.
Descending(S) ==
  CHOOSE list \in [1 .. Cardinality(S) -> S] :
    \A i, j \in 1 .. Cardinality(S) : i < j => list[i] > list[j]

KeepingMutant(list, live) == list

Keeping(list, live) ==
  LET kept[n \in 0 .. Len(list)] ==
        IF n = 0 THEN <<>>
        ELSE IF list[n] \in live THEN Append(kept[n - 1], list[n]) ELSE kept[n - 1]
  IN kept[Len(list)]

FreedEntryMutant(entry) == [EmptyEntry EXCEPT !.ver = entry.ver]

\* The next tenant resets the list fields; nothing reads them until then.
FreedEntry(entry) == [EmptyEntry EXCEPT !.ver = entry.ver + 1]

PrunedMapsMutant == {"handlerOptions", "getters", "setters"}

\* The maps the airlock prunes for the freed slots.
PrunedMaps == {"handlers", "handlerOptions", "getters", "setters",
               "constructibleRegistrations", "hasPropertyHandlers",
               "deletePropertyHandlers"}

\* What is written to the pool: a run for each kept entry, handles first.
KeptRuns(m, liveHandles, liveGrants) ==
  [i \in 1 .. HandleCapacity |->
     IF i - 1 \in LiveHandles(m) \cap liveHandles
     THEN Keeping(HandleList(m, i - 1), liveGrants) ELSE <<>>]
  \o
  [i \in 1 .. GrantCapacity |->
     IF i - 1 \in LiveGrants(m) \cap liveGrants
     THEN Keeping(GrantList(m, i - 1), liveHandles) ELSE <<>>]

Compacted(m, liveHandles, liveGrants) ==
  LET keptHandles == LiveHandles(m) \cap liveHandles
      keptGrants == LiveGrants(m) \cap liveGrants
      freedHandles == LiveHandles(m) \ liveHandles
      freedGrants == LiveGrants(m) \ liveGrants
      runs == KeptRuns(m, liveHandles, liveGrants)
      packed == FlattenSeq(runs)
      placed(entry, i) ==
        [entry EXCEPT !.off = IF runs[i] = <<>> THEN 0
                              ELSE Len(FlattenSeq(SubSeq(runs, 1, i - 1))) + 1,
                      !.cnt = Len(runs[i])]
  IN [m EXCEPT
        !.handles = [s \in HandleSlots |->
           IF s \in keptHandles THEN placed(@[s], s + 1)
           ELSE IF s \in freedHandles THEN FreedEntry(@[s]) ELSE @[s]],
        !.grants = [g \in GrantSlots |->
           IF g \in keptGrants THEN placed(@[g], HandleCapacity + g + 1)
           ELSE IF g \in freedGrants
           THEN [EmptyGrant EXCEPT !.ver = FreedEntry(m.grants[g]).ver]
           ELSE @[g]],
        !.handleFree = Descending(freedHandles) \o @,
        !.grantFree = Descending(freedGrants) \o @,
        !.rootGrants = @ \ freedGrants,
        !.pool = [w \in Words |-> IF w <= Len(packed) THEN packed[w] ELSE @[w]],
        !.poolUsed = Len(packed),
        !.dispatch = [map \in Maps |-> [s \in HandleSlots |->
           IF map \in PrunedMaps /\ s \in freedHandles THEN 0 ELSE @[map][s]]]]

(***************************************************************************)
(* What a compaction keeps: the anchored handles, the anchored grants, the *)
(* root grants, and the grants on the list of any kept handle.  A grant    *)
(* keeps no handle.                                                        *)
(***************************************************************************)
Anchors(m) == [handles : SUBSET LiveHandles(m), grants : SUBSET LiveGrants(m)]

CompactedForMutant(m, anchors) ==
  Compacted(m, anchors.handles, anchors.grants \cup m.rootGrants)

\* MembraneWalker.walkFrom and the sets the airlock adds around it
CompactedFor(m, anchors) ==
  LET liveHandles == anchors.handles
  IN Compacted(m, liveHandles,
               anchors.grants
                 \cup m.rootGrants
                 \cup UNION {ToSet(HandleList(m, s)) :
                               s \in liveHandles \cap LiveHandles(m)})

(***************************************************************************)
(* Allocation.  Each of these is one operation's transformer of `mem': it  *)
(* tries, compacts when the table or the pool is full, and tries again.    *)
(***************************************************************************)
HandleRoom(m) == m.handleFree # <<>> \/ m.nextHandle < HandleCapacity
GrantRoom(m) == m.grantFree # <<>> \/ m.nextGrant < GrantCapacity

\* _retryOnPressure
WithRoom(m, Room(_), anchors) == IF Room(m) THEN m ELSE CompactedFor(m, anchors)

HandleSlotTakenMutant(m) ==
  IF ~HandleRoom(m) THEN NoSlot
  ELSE IF m.handleFree # <<>> THEN Last(m.handleFree) ELSE m.nextHandle

\* _allocateHandleSlot and register
HandleSlotTaken(m) ==
  IF ~HandleRoom(m) THEN NoSlot
  ELSE IF m.handleFree # <<>> THEN Head(m.handleFree) ELSE m.nextHandle

Registered(m) ==
  LET s == HandleSlotTaken(m)
  IN IF s = NoSlot THEN m
     ELSE [m EXCEPT
             !.handleFree = IF @ # <<>> THEN Tail(@) ELSE @,
             !.nextHandle = IF m.handleFree # <<>> THEN @ ELSE @ + 1,
             !.handles[s] = [EmptyEntry EXCEPT !.ver = m.handles[s].ver + 1,
                                               !.live = TRUE],
             !.joined[s] = {}]

\* _allocateGrantSlot and createGrant
GrantSlotTaken(m) ==
  IF ~GrantRoom(m) THEN NoSlot
  ELSE IF m.grantFree # <<>> THEN Head(m.grantFree) ELSE m.nextGrant

Created(m) ==
  LET g == GrantSlotTaken(m)
  IN IF g = NoSlot THEN m
     ELSE [m EXCEPT
             !.grantFree = IF @ # <<>> THEN Tail(@) ELSE @,
             !.nextGrant = IF m.grantFree # <<>> THEN @ ELSE @ + 1,
             !.grants[g] = [EmptyGrant EXCEPT !.ver = m.grants[g].ver + 1,
                                              !.live = TRUE]]

\* _appendToIdList: the old run is located BEFORE the new one is allocated,
\* and copied word by word, lowest first, from wherever it was.
Appended(m, table, s, id, anchors) ==
  LET old == m[table][s]
      RunFits(x) == x.poolUsed + old.cnt + 1 <= PoolWords
      base == WithRoom(m, RunFits, anchors)
      new == base.poolUsed + 1
      word[i \in 0 .. old.cnt] ==
        IF i = old.cnt THEN id
        ELSE LET from == old.off + i
             IN IF from \in new .. new + i - 1 THEN word[from - new]
                ELSE base.pool[from]
  IN [ok |-> RunFits(base),
      m |-> IF ~RunFits(base) THEN base
            ELSE [base EXCEPT
                    ![table][s].off = new,
                    ![table][s].cnt = old.cnt + 1,
                    !.poolUsed = new + old.cnt,
                    !.pool = [w \in Words |->
                       IF w \in new .. new + old.cnt THEN word[w - new] ELSE @[w]]]]

HandleAddedMutant(m, g, s, anchors) ==
  LET first == Appended(m, "handles", s, g, anchors)
  IN IF ~first.ok THEN first.m
     ELSE Appended([first.m EXCEPT !.joined[s] = @ \cup {GrantName(m, g)}],
                   "grants", g, s, anchors).m

\* _addHandleToGrant, for wrappers that unwrap
HandleAdded(m, g, s, anchors) ==
  IF g \in ToSet(HandleList(m, s)) THEN m
  ELSE LET first == Appended(m, "handles", s, g, anchors)
           noted == [first.m EXCEPT !.joined[s] = @ \cup {GrantName(m, g)}]
       IN IF ~first.ok THEN first.m
          ELSE Appended(noted, "grants", g, s, anchors).m

\* Between operations only the words of the tenants' runs can still be read;
\* the others are forgotten here, so that layouts that differ in garbage are one.
RunWords(entry) == entry.off .. entry.off + entry.cnt - 1

Settled(m) ==
  LET used == (UNION {RunWords(m.handles[s]) : s \in LiveHandles(m)})
                \cup (UNION {RunWords(m.grants[g]) : g \in LiveGrants(m)})
  IN [m EXCEPT !.pool = [w \in Words |-> IF w \in used THEN @[w] ELSE 0]]

(***************************************************************************)
(* The membrane on its own: every operation, with any anchors that keep    *)
(* the operation's own operands (the host holds them pinned or in flight). *)
(* The dispatch maps are filled by the airlock (module Airlock).           *)
(***************************************************************************)
EmptyMembrane ==
  [handles |-> [s \in HandleSlots |-> EmptyEntry],
   grants |-> [g \in GrantSlots |-> EmptyGrant],
   handleFree |-> <<>>, grantFree |-> <<>>, nextHandle |-> 0, nextGrant |-> 0,
   pool |-> [w \in Words |-> 0], poolUsed |-> 0, rootGrants |-> {},
   dispatch |-> [map \in Maps |-> [s \in HandleSlots |-> 0]],
   joined |-> [s \in HandleSlots |-> {}]]

Init == mem = EmptyMembrane

\* Anchors matter only to an operation that comes under pressure.
PressureAnchors(fits) ==
  IF fits THEN {[handles |-> LiveHandles(mem), grants |-> LiveGrants(mem)]}
  ELSE Anchors(mem)

AppendsFit(m, g, s) ==
  m.poolUsed + m.handles[s].cnt + m.grants[g].cnt + 2 <= PoolWords

Register ==
  \E anchors \in PressureAnchors(HandleRoom(mem)) :
    LET base == WithRoom(mem, HandleRoom, anchors)
        s == HandleSlotTaken(base)
    IN /\ s # NoSlot => base.handles[s].ver < MaxHandleVersion
       /\ mem' = Settled(Registered(base))

CreateGrant ==
  \E anchors \in PressureAnchors(GrantRoom(mem)) :
    LET base == WithRoom(mem, GrantRoom, anchors)
        g == GrantSlotTaken(base)
    IN /\ g # NoSlot => base.grants[g].ver < MaxGrantVersion
       /\ mem' = Settled(Created(base))

\* Operations on a wrapper the host kept: a stale one throws and does nothing.
AddHandle(g, s) ==
  /\ mem.grants[g].live /\ mem.handles[s].live
  /\ \E anchors \in PressureAnchors(AppendsFit(mem, g, s)) :
       /\ s \in anchors.handles /\ g \in anchors.grants
       /\ mem' = Settled(HandleAdded(mem, g, s, anchors))

Revoke(g) ==
  /\ mem.grants[g].live
  /\ mem' = [mem EXCEPT !.grants[g].revoked = TRUE]

\* markAsRootGrant, with room in the list of root grants
MarkRoot(g) ==
  /\ mem.grants[g].live
  /\ mem' = [mem EXCEPT !.grants[g].root = TRUE, !.rootGrants = @ \cup {g}]

Compact == \E anchors \in Anchors(mem) : mem' = Settled(CompactedFor(mem, anchors))

Next ==
  \/ Register
  \/ CreateGrant
  \/ \E g \in GrantSlots, s \in HandleSlots : AddHandle(g, s)
  \/ \E g \in GrantSlots : Revoke(g) \/ MarkRoot(g)
  \/ Compact

Spec == Init /\ [][Next]_mem

(***************************************************************************)
(* Properties.                                                             *)
(***************************************************************************)
EntryOK(entry, maxVersion) ==
  /\ entry.ver \in 0 .. maxVersion + 1
  /\ entry.live = (entry.ver % 2 = 1)
  /\ entry.off \in 0 .. PoolWords /\ entry.cnt \in 0 .. PoolWords

\* Every entry is well formed: its version is odd exactly while its slot has a
\* tenant, and its run lies in the pool.
TypeOK ==
  /\ \A s \in HandleSlots : EntryOK(mem.handles[s], MaxHandleVersion)
  /\ \A g \in GrantSlots : EntryOK(mem.grants[g], MaxGrantVersion)
  /\ mem.poolUsed \in 0 .. PoolWords
  /\ mem.rootGrants \subseteq GrantSlots

FreeListSound(entries, free, next, capacity) ==
  /\ IsInjective(free)
  /\ next <= capacity
  /\ ToSet(free) = {s \in 0 .. next - 1 : ~entries[s].live}
  /\ \A s \in next .. capacity - 1 : entries[s].ver = 0

\* A free list holds each dead slot once and no slot with a tenant: no slot is
\* given out twice or lost, whatever compactions and registrations did.
FreeListsSound ==
  /\ FreeListSound(mem.handles, mem.handleFree, mem.nextHandle, HandleCapacity)
  /\ FreeListSound(mem.grants, mem.grantFree, mem.nextGrant, GrantCapacity)

\* The list of a live handle names exactly the grants its tenant was added to,
\* each still in the slot it had.
GrantListsExact ==
  \A s \in LiveHandles(mem) :
    /\ IsInjective(HandleList(mem, s))
    /\ {GrantName(mem, g) : g \in ToSet(HandleList(mem, s))} = mem.joined[s]

\* The two halves of the inverse index agree on everything alive.
InverseIndexAgrees ==
  \A s \in LiveHandles(mem), g \in LiveGrants(mem) :
    g \in ToSet(HandleList(mem, s)) <=> s \in ToSet(GrantList(mem, g))

\* A handle that was ever added to a grant since revoked (or reaped) is dead:
\* no later grant makes it callable again.
RevocationIsFinal ==
  \A s \in LiveHandles(mem) :
    (\E n \in mem.joined[s] : ~GrantCurrent(mem, n) \/ mem.grants[n[1]].revoked)
      => ~Callable(mem, s, GrantSlots)

\* What is registered for a handle slot was registered by its present tenant.
DispatchOfTenant ==
  \A map \in Maps, s \in LiveHandles(mem) :
    mem.dispatch[map][s] \in {0, mem.handles[s].ver}

=============================================================================
