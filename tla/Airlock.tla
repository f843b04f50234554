------------------------------ MODULE Airlock ------------------------------
(***************************************************************************)
(* What the airlock (src/src/fuel/airlock.js) does to keep handles and     *)
(* grants alive that only JavaScript holds: values a handler registered    *)
(* and has not delivered, values a parked context or a linked promise will *)
(* be given, results that wait for heap room, arguments of queued calls,   *)
(* pins, and grants in the making.  From these it computes the anchors     *)
(* every compaction of the membrane (module Membrane) must keep.           *)
(*                                                                         *)
(* The host is one JavaScript thread: `turn' says whether it is between    *)
(* drives, in the handler of an external call of a context, or in a        *)
(* callback of its own.  A value is a set of at most one handle.  The      *)
(* grant chains of a context that was cancelled and replaced, and who may  *)
(* settle what, are module Settlement's; here a cancelled context's        *)
(* request is dropped.                                                     *)
(***************************************************************************)
EXTENDS Membrane

CONSTANTS
  Contexts,         \* context slots of the drone
  Promises,         \* JavaScript promises that may be linked
  FreshResolution,  \* whether a linked promise may be resolved with a handle
                    \* that the resolving callback has just registered
  MaxPins,          \* bound: pins held at a time
  MaxQueued,        \* bound: arguments of queued closure calls
  MaxRoots          \* bound: root grants at a time

\* Whose turn it is, and where a registration is noted, is told by these names.
Detached == "detached"      \* the null bucket: registrations outside a dispatch
Idle == "idle"
Callback == "callback"

ASSUME AirlockAssumption == {Detached, Idle, Callback} \cap Contexts = {}

VARIABLE air        \* the airlock's state, a record (AirlockInit)

airlockVars == <<mem, air>>

(***************************************************************************)
(* The anchors.  The detached bucket counts only when an allocation under  *)
(* pressure asked for the compaction.                                      *)
(***************************************************************************)
SlotsOf(names) == {n[1] : n \in names}

InFlight(pressure) ==
  UNION {air.buckets[k] : k \in IF pressure THEN DOMAIN air.buckets
                                ELSE (DOMAIN air.buckets) \ {Detached}}

StackedGrantsMutant == {}

\* Every grant on a context's stack, which walkFrom collects.
StackedGrants == UNION {ToSet(air.stacks[c]) : c \in Contexts}

\* Handles the airlock keeps by name; a name whose slot died counts for nothing.
KeptNames(pressure) ==
  air.pinnedHandles \cup InFlight(pressure) \cup air.queued
    \cup UNION {air.snapshots[p] : p \in Promises}

AirAnchors(pressure) ==
  [handles |->
     SlotsOf(air.heapRefs)
       \cup (UNION {SlotsOf(air.stash[c]) : c \in Contexts})
       \cup (LiveHandles(mem) \cap SlotsOf(KeptNames(pressure))),
   grants |->
     SlotsOf(StackedGrants)
       \cup (LiveGrants(mem) \cap
               SlotsOf(air.pinnedGrants \cup UNION {air.windows[c] : c \in Contexts}))]

\* marshalResultWithGrantTagging: a handle about to enter the drone joins
\* every grant that stands in the receiving context.
ActiveGrants(m, c) == SlotsOf(ToSet(air.stacks[c])) \cup m.rootGrants

TaggedOnce(x, g, n) ==
  IF GrantActive(x, g) /\ HandleCurrent(x, n)
  THEN HandleAdded(x, g, n[1], AirAnchors(TRUE)) ELSE x

Tagged(c, names) ==
  LET pairs == SetToSeq(ActiveGrants(mem, c) \X names)
      after[k \in 0 .. Len(pairs)] ==
        IF k = 0 THEN mem ELSE TaggedOnce(after[k - 1], pairs[k][1], pairs[k][2])
  IN after[Len(pairs)]

AirlockInit ==
  /\ mem = EmptyMembrane
  /\ air = [turn |-> Idle,
            phase |-> [c \in Contexts |-> "ready"],
            fresh |-> {},            \* handles the running code registered
            buckets |-> [k \in Contexts \cup {Detached} |-> {}],
            pending |-> [c \in Contexts |-> {}],   \* what a resolver will deliver
            stash |-> [c \in Contexts |-> {}],     \* _deferredMarshals
            linked |-> {},                         \* promises linked and pending
            promised |-> [p \in Promises |-> {}],  \* what they will deliver
            snapshots |-> [p \in Promises |-> {}], \* inFlightSnapshotsByLinkedPromise
            queued |-> {},                         \* arguments of queued calls
            heapRefs |-> {},                       \* EXTERNAL values on the heap
            stacks |-> [c \in Contexts |-> <<>>],  \* grant stacks
            windows |-> [c \in Contexts |-> {}],   \* open approval windows
            pinnedHandles |-> {}, pinnedGrants |-> {}]

(***************************************************************************)
(* What a running handler or callback may ask of the membrane.             *)
(***************************************************************************)
Running == air.turn # Idle

BucketKey == IF air.turn \in Contexts THEN air.turn ELSE Detached

\* register(): the membrane's, then the in-flight bucket of the context whose
\* handler is running.
AirRegister ==
  LET base == WithRoom(mem, HandleRoom, AirAnchors(TRUE))
      s == HandleSlotTaken(base)
      name == <<s, base.handles[s].ver + 1>>
  IN /\ Running
     /\ mem' = Settled(Registered(base))
     /\ IF s = NoSlot THEN UNCHANGED air
        ELSE /\ name[2] <= MaxHandleVersion
             /\ air' = [air EXCEPT !.fresh = @ \cup {name},
                                   !.buckets[BucketKey] = @ \cup {name}]

\* createGrant: the new grant enters every open approval window.
AirCreateGrant ==
  LET base == WithRoom(mem, GrantRoom, AirAnchors(TRUE))
      g == GrantSlotTaken(base)
      name == <<g, base.grants[g].ver + 1>>
  IN /\ Running
     /\ mem' = Settled(Created(base))
     /\ IF g = NoSlot THEN UNCHANGED air
        ELSE /\ name[2] <= MaxGrantVersion
             /\ air' = [air EXCEPT !.windows = [c \in Contexts |->
                   IF air.phase[c] = "approving" THEN @[c] \cup {name} ELSE @[c]]]

\* Operations on a wrapper the host kept: a stale one throws and does nothing.
OnMembrane(m) == Running /\ mem' = Settled(m) /\ UNCHANGED air

AirAddHandle(g, s) ==
  /\ mem.grants[g].live /\ mem.handles[s].live
  /\ OnMembrane(HandleAdded(mem, g, s, AirAnchors(TRUE)))

AirRevoke(g) ==
  /\ mem.grants[g].live
  /\ OnMembrane([mem EXCEPT !.grants[g].revoked = TRUE])

AirMarkRoot(g) ==
  /\ mem.grants[g].live
  /\ Cardinality(mem.rootGrants \cup {g}) <= MaxRoots
  /\ OnMembrane([mem EXCEPT !.grants[g].root = TRUE, !.rootGrants = @ \cup {g}])

\* setHandler, setGetter, setMemberInspector and the like
AirSetDispatch(map, s) ==
  /\ mem.handles[s].live
  /\ OnMembrane([mem EXCEPT !.dispatch[map][s] = mem.handles[s].ver])

Pinned(handles, grants) ==
  /\ Running
  /\ Cardinality(handles) + Cardinality(grants) <= MaxPins
  /\ air' = [air EXCEPT !.pinnedHandles = handles, !.pinnedGrants = grants]
  /\ UNCHANGED mem

Pin ==
  \/ \E s \in LiveHandles(mem) :
       Pinned(air.pinnedHandles \cup {HandleName(mem, s)}, air.pinnedGrants)
  \/ \E g \in LiveGrants(mem) :
       Pinned(air.pinnedHandles, air.pinnedGrants \cup {GrantName(mem, g)})

Unpin ==
  \/ \E n \in air.pinnedHandles : Pinned(air.pinnedHandles \ {n}, air.pinnedGrants)
  \/ \E n \in air.pinnedGrants : Pinned(air.pinnedHandles, air.pinnedGrants \ {n})

\* scheduleClosureCall with a handle among the arguments; the queue is walked
\* by every compaction until the call is set up.
Enqueue ==
  /\ Running /\ Cardinality(air.queued) < MaxQueued
  /\ \E n \in air.fresh : air' = [air EXCEPT !.queued = @ \cup {n}]
  /\ UNCHANGED mem

(***************************************************************************)
(* Drives.  runContext expires the protection of the context's previous    *)
(* dispatch and of the detached registrations, then delivers the result    *)
(* that was waiting for room; if the heap is still full it yields without  *)
(* running.  A drive that makes no external call returns at once.          *)
(***************************************************************************)
\* What reaches the heap: the marshal of a stale wrapper throws.
Delivered(m, names) == {n \in names : HandleCurrent(m, n)}

Entered(c) == [air EXCEPT !.buckets[c] = {}, !.buckets[Detached] = {}, !.fresh = {}]

RunContext(c) ==
  /\ air.turn = Idle /\ air.phase[c] = "ready"
  /\ air' = [Entered(c) EXCEPT !.turn = c]
  /\ UNCHANGED mem

\* _drainDeferredMarshal.  The value is in the stash until it is on the heap.
DrainStash(c) ==
  /\ air.turn = Idle /\ air.phase[c] = "stashed"
  /\ mem' = Settled(Tagged(c, air.stash[c]))
  /\ \/ air' = [Entered(c) EXCEPT
                  !.turn = c, !.phase[c] = "ready", !.stash[c] = {},
                  !.heapRefs = @ \cup Delivered(mem', air.stash[c])]
     \/ air' = Entered(c)

\* The value of a call or of a resolver is tagged and marshalled; a heap
\* without room stashes it.
Answer(c, names, next) ==
  /\ mem' = Settled(Tagged(c, names))
  /\ \/ air' = [next EXCEPT !.phase[c] = "ready",
                            !.heapRefs = @ \cup Delivered(mem', names)]
     \/ air' = [next EXCEPT !.phase[c] = "stashed", !.stash[c] = names]

\* At most one handle is in a value (bound).
Values(names) == {{}} \cup {{n} : n \in names}

Yielded == [air EXCEPT !.turn = Idle, !.fresh = {}]

\* The handler returns a value.
ReturnValue(c) ==
  /\ air.turn = c
  /\ \E names \in Values(air.fresh) : Answer(c, names, Yielded)

\* The handler returns a suspension: the context is parked until the host
\* resolves, and will be given a handle the handler registered.
Suspend(c) ==
  /\ air.turn = c
  /\ \E names \in Values(air.fresh) :
       air' = [Yielded EXCEPT !.pending[c] = names, !.phase[c] = "parked"]
  /\ UNCHANGED mem

LinkPromiseMutant(c, p) ==
  /\ air.turn = c /\ p \notin air.linked
  /\ \E names \in Values(air.fresh) :
       air' = [Yielded EXCEPT !.linked = @ \cup {p}, !.promised[p] = names]
  /\ UNCHANGED mem

\* The handler returns a JavaScript promise, linked to a promise of the drone:
\* what is in flight now stays protected until it settles.
LinkPromise(c, p) ==
  /\ air.turn = c /\ p \notin air.linked
  /\ \E names \in Values(air.fresh) :
       air' = [Yielded EXCEPT
                 !.linked = @ \cup {p}, !.promised[p] = names,
                 !.snapshots[p] = UNION {air.buckets[k] : k \in DOMAIN air.buckets}]
  /\ UNCHANGED mem

\* _settleLinkedPromise, a microtask of its own
SettlePromise(p) ==
  /\ air.turn = Idle /\ p \in air.linked
  /\ air' = [air EXCEPT !.heapRefs = @ \cup Delivered(mem, air.promised[p]),
                        !.linked = @ \ {p}, !.promised[p] = {}, !.snapshots[p] = {}]
  /\ UNCHANGED mem

\* setupCallbackContext marshals the arguments of the call it dequeued.
DeliverArguments ==
  /\ air.turn = Idle
  /\ \E n \in air.queued :
       air' = [air EXCEPT !.queued = @ \ {n}, !.heapRefs = @ \cup Delivered(mem, {n})]
  /\ UNCHANGED mem

(***************************************************************************)
(* A callback of the host: a timer, a reply, the resolver of a suspension. *)
(***************************************************************************)
StartCallback ==
  /\ air.turn = Idle
  /\ air' = [air EXCEPT !.turn = Callback, !.fresh = {}]
  /\ UNCHANGED mem

EndCallback ==
  /\ air.turn = Callback
  /\ air' = Yielded
  /\ UNCHANGED mem

\* The resolver of a suspension.  A context whose grant stack lost a grant is
\* sent to its denied block instead and the value is dropped.
Resolve(c) ==
  /\ air.turn = Callback /\ air.phase[c] = "parked"
  /\ LET woken == [air EXCEPT !.pending[c] = {}, !.phase[c] = "ready"]
     IN IF \A n \in ToSet(air.stacks[c]) : GrantActive(mem, n[1])
        THEN \E names \in Values(air.pending[c] \cup air.fresh) :
               Answer(c, names, woken)
        ELSE air' = woken /\ UNCHANGED mem

\* The host resolves the JavaScript promise, with what the handler gave it for
\* that or with something new; the settlement is a later microtask.
Fulfil(p) ==
  /\ air.turn = Callback /\ p \in air.linked
  /\ \E names \in Values(air.promised[p]
                             \cup IF FreshResolution THEN air.fresh ELSE {}) :
       air' = [air EXCEPT !.promised[p] = names]
  /\ UNCHANGED mem

\* cancelContext: the slot's next tenant starts with nothing.
Cancel(c) ==
  /\ air.turn = Idle
  /\ air' = [air EXCEPT !.buckets[c] = {}, !.stash[c] = {}, !.pending[c] = {},
                        !.stacks[c] = <<>>, !.windows[c] = {}, !.phase[c] = "ready"]
  /\ UNCHANGED mem

\* The drone lets go of the last value that holds a handle.
DropReference(n) ==
  /\ air.turn = Idle
  /\ air' = [air EXCEPT !.heapRefs = @ \ {n}]
  /\ UNCHANGED mem

(***************************************************************************)
(* Grant blocks.  handleGrantRequest opens an approval window, which the   *)
(* host's answer closes after the approved grant is on the stack.          *)
(***************************************************************************)
RequestGrant(c) ==
  /\ air.turn = Idle /\ air.phase[c] = "ready" /\ air.stacks[c] = <<>>
  /\ air' = [air EXCEPT !.phase[c] = "approving"]
  /\ UNCHANGED mem

FinishRequest(c, stack) ==
  /\ air.turn = Callback /\ air.phase[c] = "approving"
  /\ air' = [air EXCEPT !.stacks[c] = stack, !.windows[c] = {}, !.phase[c] = "ready"]
  /\ UNCHANGED mem

Approve(c) == \E n \in air.windows[c] \cup air.pinnedGrants : FinishRequest(c, <<n>>)

Deny(c) == FinishRequest(c, <<>>)

EndGrantBlock(c) ==
  /\ air.turn = Idle /\ air.phase[c] = "ready" /\ air.stacks[c] # <<>>
  /\ air' = [air EXCEPT !.stacks[c] = <<>>]
  /\ UNCHANGED mem

\* compactMembrane, the membrane half of session.gc()
CompactMembrane ==
  /\ air.turn = Idle
  /\ mem' = Settled(CompactedFor(mem, AirAnchors(FALSE)))
  /\ UNCHANGED air

\* A settlement that finds no room on the heap collects, the membrane with it,
\* before it marshals; the settlement itself follows (SettlePromise).
SettlePressure(p) ==
  /\ p \in air.linked
  /\ CompactMembrane

HostOperation ==
  \/ AirRegister
  \/ AirCreateGrant
  \/ \E g \in GrantSlots, s \in HandleSlots : AirAddHandle(g, s)
  \/ \E g \in GrantSlots : AirRevoke(g) \/ AirMarkRoot(g)
  \/ \E map \in Maps, s \in HandleSlots : AirSetDispatch(map, s)
  \/ Pin
  \/ Unpin
  \/ Enqueue

AirlockNext ==
  \/ HostOperation
  \/ \E c \in Contexts :
       \/ RunContext(c) \/ DrainStash(c) \/ ReturnValue(c) \/ Suspend(c)
       \/ Resolve(c) \/ Cancel(c)
       \/ RequestGrant(c) \/ Approve(c) \/ Deny(c) \/ EndGrantBlock(c)
  \/ \E c \in Contexts, p \in Promises : LinkPromise(c, p)
  \/ \E p \in Promises : SettlePressure(p) \/ SettlePromise(p) \/ Fulfil(p)
  \/ DeliverArguments
  \/ StartCallback
  \/ EndCallback
  \/ \E n \in air.heapRefs : DropReference(n)
  \/ CompactMembrane

AirlockSpec == AirlockInit /\ [][AirlockNext]_airlockVars

(***************************************************************************)
(* Properties.                                                             *)
(***************************************************************************)
\* Every handle the drone's heap holds, a parked context, a linked promise or a
\* queued call will be given, a stash is waiting to deliver, a pin promised to
\* keep or the running code has in hand still denotes what it was registered
\* for: no compaction, explicit or in the middle of an operation, reaped it.
HeldHandlesCurrent ==
  \A n \in air.heapRefs \cup air.fresh \cup air.pinnedHandles \cup air.queued
             \cup (UNION {air.pending[c] \cup air.stash[c] : c \in Contexts})
             \cup (UNION {air.promised[p] : p \in Promises}) :
    HandleCurrent(mem, n)

\* A grant on a context's stack, pinned, or created for an approval that is not
\* finished is never reaped and reused under another authorisation; a root
\* grant keeps its slot.
HeldGrantsCurrent ==
  /\ \A n \in air.pinnedGrants
               \cup UNION {air.windows[c] \cup ToSet(air.stacks[c]) : c \in Contexts} :
       GrantCurrent(mem, n)
  /\ mem.rootGrants = {g \in LiveGrants(mem) : mem.grants[g].root}

=============================================================================
