----------------------------- MODULE Settlement -----------------------------
(***************************************************************************)
(* Who may answer a parked context (src/src/fuel/airlock.js).              *)
(*                                                                         *)
(* A context parks on an external call, on a grant request or on a promise *)
(* of the drone.  The first two leave a JavaScript continuation that will  *)
(* answer, guarded by the context's generation and continuation id, and a  *)
(* durable entry in the membrane's linked-promise table, through which an  *)
(* embedder answers when the continuation died with its process.  A        *)
(* promise keeps its waiters and handlers in the drone's heap; settling it *)
(* prepares every waiter, spawns a context for each callback and settles   *)
(* in turn the promises that depend on it.  Whoever is made ready goes to  *)
(* the wake queue.                                                         *)
(*                                                                         *)
(* A run of a context is one action, with what it ends in; the other       *)
(* actions are microtasks or calls of the embedder.  Every park has a      *)
(* number of its own, so that an answer shows which park it was meant for. *)
(* What is answered, and whether with a value or a throw, is left out.     *)
(***************************************************************************)
EXTENDS Integers, Sequences, FiniteSets, SequencesExt

CONSTANTS
  Slots,              \* context slots 1 .. Slots (bound: the code grows them)
  Entries,            \* capacity of the linked-promise table
  MaxPromises,        \* bound: promises the drone creates
  MaxTenants,         \* bound: contexts allocated, in all slots together
  MaxParks,           \* bound: parks
  LateChains,         \* whether an approval chain may outlive its context and
                      \* meet a new tenant of the slot that asks for a grant
  LateResolvers,      \* whether a resolver may be called again before its
                      \* context has parked on another call
  HurriedRestart      \* whether the image may be taken before every answer has
                      \* reached the context it is for

ASSUME SettlementAssumption ==
  /\ Slots \in Nat \ {0} /\ Entries \in Nat /\ MaxPromises \in Nat
  /\ MaxTenants \in Nat /\ MaxParks \in Nat
  /\ LateChains \in BOOLEAN /\ LateResolvers \in BOOLEAN /\ HurriedRestart \in BOOLEAN

\* What host and embedder have to see to for a context to get its own answer
Disciplined == ~LateChains /\ ~LateResolvers /\ ~HurriedRestart

Contexts == 1 .. Slots
Promises == 1 .. MaxPromises
None == 0

VARIABLE st         \* contexts, table, promises, continuations and wake queue

Unused == [gen |-> 0, live |-> FALSE, exit |-> "run", cid |-> 0, moved |-> FALSE,
           park |-> 0, inbox |-> <<>>, stash |-> 0, owes |-> None, executor |-> FALSE]

NoEntry == [live |-> FALSE, ctx |-> None, gen |-> 0, promise |-> None, park |-> 0,
            orphan |-> FALSE]

NoPromise == [status |-> "none", waiters |-> {}, handlers |-> <<>>,
              remaining |-> 0, elements |-> {}, race |-> FALSE]

Init ==
  st = [ctx |-> [c \in Contexts |->
                   IF c = 1 THEN [Unused EXCEPT !.gen = 1, !.live = TRUE] ELSE Unused],
        linked |-> [e \in 1 .. Entries |-> NoEntry],
        free |-> [e \in 1 .. Entries |-> e],
        promises |-> [p \in Promises |-> NoPromise],
        settlers |-> {}, wakes |-> {}, parks |-> 0, restarted |-> FALSE]

(***************************************************************************)
(* Contexts and the wake queue.                                            *)
(***************************************************************************)
\* isContextIdentityLive
Live(x, c, gen) == x.ctx[c].live /\ x.ctx[c].gen = gen

FreeContexts(x) == {c \in Contexts : ~x.ctx[c].live}

Tenants(x) == FoldFunction(LAMBDA k, n : k.gen + n, 0, x.ctx)
Room(x) == Min({Cardinality(FreeContexts(x)), MaxTenants - Tenants(x)})

\* allocateContext: the lowest free slot; _initializeContext zeroes the rest,
\* the continuation id among it.
NextContext(x) == CHOOSE c \in FreeContexts(x) : \A d \in FreeContexts(x) : c <= d

\* Its callers have seen to it that there is one.
Allocated(x, promise, executor) ==
  LET c == NextContext(x)
  IN IF FreeContexts(x) = {} THEN x
     ELSE [x EXCEPT !.ctx[c] = [Unused EXCEPT !.gen = x.ctx[c].gen + 1, !.live = TRUE,
                                              !.exit = "woken", !.owes = promise,
                                              !.executor = executor],
                    !.wakes = @ \cup {<<c, x.ctx[c].gen + 1>>}]

Freed(x, c) == [x EXCEPT !.ctx[c] = [Unused EXCEPT !.gen = x.ctx[c].gen]]

\* _enqueueSpawnedContexts: a dead identity is dropped, a queued one not queued
\* again.
Enqueued(x, c, gen) ==
  IF Live(x, c, gen) THEN [x EXCEPT !.wakes = @ \cup {<<c, gen>>}] ELSE x

\* An answer on the pending stack, and the exit condition cleared
Answered(x, c, park) ==
  [x EXCEPT !.ctx[c].inbox = Append(@, park), !.ctx[c].exit = "woken"]

AnsweredAll(k, parks) ==
  [k EXCEPT !.inbox = @ \o SetToSeq(parks), !.exit = "woken"]

\* What may be driven: the context has its answer, or a value that waits for room
\* and that the next run delivers first.
Ready(k) == k.exit = "woken" \/ k.moved \/ k.stash # 0

Parked(k) == k.live /\ k.exit \in {"call", "grant", "await"} /\ ~Ready(k)

(***************************************************************************)
(* The linked-promise table.  Its slots carry no version outside the       *)
(* table: whoever remembers a slot number can only ask whether some entry  *)
(* is live there.                                                          *)
(***************************************************************************)
EntryTaken(x, entry) ==
  [x EXCEPT !.linked[Head(x.free)] = entry, !.free = Tail(@)]

EntryFreed(x, e) ==
  IF ~x.linked[e].live THEN x
  ELSE [x EXCEPT !.linked[e] = NoEntry, !.free = <<e>> \o @]

\* EntryFreed for each of some live entries, the last of which is then taken first
EntriesFreed(x, entries) ==
  [x EXCEPT !.linked = [e \in 1 .. Entries |-> IF e \in entries THEN NoEntry ELSE @[e]],
            !.free = Reverse(SetToSeq(entries)) \o @]

(***************************************************************************)
(* Settling a promise: its waiters get their answer, and its handlers are  *)
(* run in order.  A handler may settle another promise, whose handlers     *)
(* then go first: a cascade keeps those that are left in a list.           *)
(* Aggregators (Promise.all, Promise.race) skip a result that is settled.  *)
(***************************************************************************)
\* _prepareWaiter on each waiter of p whose context is alive, and its wake
PopAllWaiters(x, p) ==
  LET woken == {w \in x.promises[p].waiters : Live(x, w[1], w[2])}
      parks(c) == {w[3] : w \in {v \in woken : v[1] = c}}
  IN [x EXCEPT
        !.promises[p].waiters = {},
        !.ctx = [c \in Contexts |->
                   IF parks(c) = {} THEN x.ctx[c] ELSE AnsweredAll(x.ctx[c], parks(c))],
        !.wakes = @ \cup {<<w[1], w[2]>> : w \in woken}]

\* popAllHandlers, with the status they will be told
Popped(x, p, status) ==
  [i \in DOMAIN x.promises[p].handlers |->
     [kind |-> x.promises[p].handlers[i].kind,
      child |-> x.promises[p].handlers[i].child, status |-> status]]

HandlersPopped(x, p) == [x EXCEPT !.promises[p].handlers = <<>>]

\* Some callers wake the waiters before they run the handlers and some after: a
\* handler does not look at a context that is parked.
Settling(x, p, status, todo) ==
  [drone |-> PopAllWaiters([HandlersPopped(x, p) EXCEPT !.promises[p].status = status], p),
   todo |-> Popped(x, p, status) \o todo]

HandledMutant(x, h, todo) ==
  CASE h.kind \in {"pass", "race"} -> Settling(x, h.child, h.status, todo)
    [] h.kind = "spawn" -> [drone |-> Allocated(x, h.child, FALSE), todo |-> todo]
    [] h.kind = "all" ->
         IF x.promises[h.child].remaining = 1 THEN Settling(x, h.child, "resolved", todo)
         ELSE [drone |-> [x EXCEPT !.promises[h.child].remaining = @ - 1], todo |-> todo]

Handled(x, h, todo) ==
  CASE h.kind = "pass" -> Settling(x, h.child, h.status, todo)
    [] h.kind = "spawn" -> [drone |-> Allocated(x, h.child, FALSE), todo |-> todo]
    [] h.kind \in {"race", "all"} /\ x.promises[h.child].status # "pending" ->
         [drone |-> x, todo |-> todo]
    [] h.kind = "race" /\ x.promises[h.child].status = "pending" ->
         Settling(x, h.child, h.status, todo)
    [] h.kind = "all" /\ x.promises[h.child].status = "pending" ->
         IF h.status = "rejected" THEN Settling(x, h.child, "rejected", todo)
         ELSE IF x.promises[h.child].remaining = 1
         THEN Settling(x, h.child, "resolved", todo)
         ELSE [drone |-> [x EXCEPT !.promises[h.child].remaining = @ - 1], todo |-> todo]

\* A promise brings two handlers at most, and a handler is run once.
MaxHandlers == 2 * MaxPromises

HandledNext(w) ==
  IF w.todo = <<>> THEN w ELSE Handled(w.drone, Head(w.todo), Tail(w.todo))

AllHandled(w) ==
  LET after[n \in 0 .. MaxHandlers] == IF n = 0 THEN w ELSE HandledNext(after[n - 1])
  IN after[MaxHandlers].drone

\* processHandlers, on a promise that is settled
ProcessHandlers(x, p) ==
  AllHandled([drone |-> HandlersPopped(x, p),
              todo |-> Popped(x, p, x.promises[p].status)])

SettledAs(x, p, status) == AllHandled(Settling(x, p, status, <<>>))

\* Bound: there is a slot for every handler that a settlement may spawn.
Spawns(r) == {i \in DOMAIN r.handlers : r.handlers[i].kind = "spawn"}
SpawnHandlers(x) == UNION {{p} \X Spawns(x.promises[p]) : p \in Promises}
RoomToSettle(x) == Cardinality(SpawnHandlers(x)) <= Room(x)

(***************************************************************************)
(* Runs.  A context the scheduler drives, or one that is ready and queued, *)
(* consumes its answer and runs up to one of these.                        *)
(***************************************************************************)
Runnable(c) ==
  LET k == st.ctx[c]
  IN k.live /\ (k.exit = "run" \/ (<<c, k.gen>> \in st.wakes /\ Ready(k)))

Begun(x, c) ==
  [x EXCEPT !.wakes = @ \ {<<c, x.ctx[c].gen>>},
            !.ctx[c] = [@ EXCEPT !.exit = "run", !.moved = FALSE, !.park = 0,
                                 !.inbox = <<>>, !.stash = 0]]

NextPark == st.parks + 1
CanPark == st.parks < MaxParks

\* Parks c, with an entry in the table and a continuation that will answer.
WithSettler(c, kind) ==
  LET x == Begun(st, c)
      k == x.ctx[c]
      parked == EntryTaken(x, [NoEntry EXCEPT !.live = TRUE, !.ctx = c, !.gen = k.gen,
                                              !.park = NextPark])
  IN [parked EXCEPT
        !.ctx[c].exit = kind, !.ctx[c].cid = k.cid + 1, !.ctx[c].park = NextPark,
        !.parks = NextPark,
        !.settlers = @ \cup {[kind |-> kind, slot |-> c, gen |-> k.gen,
                              cid |-> k.cid + 1, entry |-> Head(x.free),
                              park |-> NextPark, stage |-> "pending"]}]

\* _setupSuspension, for a handler's suspension or the promise it returned
Suspend(c) ==
  /\ Runnable(c) /\ CanPark /\ st.free # <<>>
  /\ st' = WithSettler(c, "call")

OpenChains(c) ==
  {s \in st.settlers : s.slot = c /\ s.kind \in {"grant", "regrant"}
                         /\ s.gen # st.ctx[c].gen}

\* handleGrantRequest and suspendOnGrantRequest, for a decision that takes time
RequestGrant(c) ==
  /\ Runnable(c) /\ CanPark /\ st.free # <<>>
  /\ LateChains \/ OpenChains(c) = {}
  /\ st' = WithSettler(c, "grant")

\* The promise created next
NextPromise == Cardinality({p \in Promises : st.promises[p].status # "none"}) + 1
CanPromise == NextPromise <= MaxPromises

\* A handler's JavaScript promise becomes a promise of the drone (linkJSPromise).
Link(c) ==
  /\ Runnable(c) /\ CanPromise /\ st.free # <<>>
  /\ LET x == Begun(st, c)
     IN st' = [EntryTaken(x, [NoEntry EXCEPT !.live = TRUE, !.promise = NextPromise])
               EXCEPT !.promises[NextPromise].status = "pending",
                      !.settlers = @ \cup {[kind |-> "js", slot |-> None, gen |-> 0,
                                            cid |-> 0, entry |-> Head(x.free),
                                            park |-> 0, stage |-> "pending"]}]

\* handleAwait.  On a settled promise the context goes on.
Await(c, p) ==
  /\ Runnable(c) /\ CanPark /\ st.promises[p].status = "pending"
  /\ LET x == Begun(st, c)
     IN st' = [x EXCEPT !.ctx[c].exit = "await", !.ctx[c].park = NextPark,
                        !.parks = NextPark,
                        !.promises[p].waiters = @ \cup {<<c, x.ctx[c].gen, NextPark>>}]

\* handleAsyncCall and _handleNewPromise: a promise and the context that owes it
Spawn(c, executor) ==
  /\ Runnable(c) /\ CanPromise
  /\ LET x == Begun(st, c)
     IN /\ Room(x) > 0
        /\ st' = Allocated([x EXCEPT !.promises[NextPromise].status = "pending"],
                           NextPromise, executor)

\* _handlePromiseInstance: a handler, run at once when the promise is settled
Then(c, p, kind) ==
  /\ Runnable(c) /\ CanPromise /\ st.promises[p].status # "none"
  /\ LET x == [Begun(st, c) EXCEPT
                 !.promises[NextPromise].status = "pending",
                 !.promises[p].handlers = Append(@, [kind |-> kind, child |-> NextPromise])]
     IN /\ RoomToSettle(x)
        /\ st' = IF x.promises[p].status = "pending" THEN x ELSE ProcessHandlers(x, p)

\* _handlePromiseAll and _handlePromiseRace: elements in order until the result
\* is settled, a handler on each pending one
Element(x, r, p) ==
  LET status == x.promises[p].status
      kind == IF x.promises[r].race THEN "race" ELSE "all"
  IN IF x.promises[r].status # "pending" THEN x
     ELSE IF status = "pending"
     THEN [x EXCEPT !.promises[p].handlers = Append(@, [kind |-> kind, child |-> r])]
     ELSE IF x.promises[r].race \/ status = "rejected"
     THEN [x EXCEPT !.promises[r].status = status]
     ELSE [x EXCEPT !.promises[r].remaining = @ - 1]

Aggregate(c, p, q, race) ==
  /\ Runnable(c) /\ CanPromise
  /\ st.promises[p].status # "none" /\ st.promises[q].status # "none"
  /\ LET r == NextPromise
         result == [NoPromise EXCEPT !.status = "pending", !.remaining = 2,
                                     !.elements = {p, q}, !.race = race]
         x == Element(Element([Begun(st, c) EXCEPT !.promises[r] = result], r, p), r, q)
     IN st' = IF ~race /\ x.promises[r].remaining = 0
              THEN [x EXCEPT !.promises[r].status = "resolved"] ELSE x

\* handlePromiseSettle: an executor's resolve or reject, called by whoever has it
SettleOwn(c, p, status) ==
  /\ Runnable(c) /\ RoomToSettle(st)
  /\ st.promises[p].status = "pending"
  /\ \E d \in Contexts : st.ctx[d].live /\ st.ctx[d].owes = p /\ st.ctx[d].executor
  /\ st' = SettledAs(Begun(st, c), p, status)

\* handleAsyncComplete and handleAsyncRejected.  An executor's return settles
\* nothing, its throw a promise that is still pending.
Finish(c, status) ==
  /\ Runnable(c) /\ RoomToSettle(st)
  /\ LET x == Begun(st, c)
         k == x.ctx[c]
         owing == k.owes # None
                    /\ (k.executor => status = "rejected"
                                        /\ x.promises[k.owes].status = "pending")
     IN st' = Freed(IF owing THEN SettledAs(x, k.owes, status) ELSE x, c)

(***************************************************************************)
(* The continuations.                                                      *)
(***************************************************************************)
Done(x, s) == [x EXCEPT !.settlers = @ \ {s}]
Stage(x, s, stage) ==
  [x EXCEPT !.settlers = (@ \ {s}) \cup {[s EXCEPT !.stage = stage]}]

SettlerCurrentMutant(s) == Live(st, s.slot, s.gen)

SettlerBeforeBump(s) == Live(st, s.slot, s.gen) /\ st.ctx[s.slot].cid + 1 = s.cid

SettlerCurrent(s) == Live(st, s.slot, s.gen) /\ st.ctx[s.slot].cid = s.cid

Woken(x, s) == Enqueued(EntryFreed(x, s.entry), s.slot, s.gen)

\* The resolver of a suspension: the value reaches the pending stack, or waits in
\* _deferredMarshals for room.  A handler may call it again, or reject after it
\* resolved (bound: once), which is ignored only when the context has parked on
\* another call or is gone: any sooner, the second value is delivered too
\* (LateResolvers).
Called(x, s) == IF s.stage = "late" THEN Done(x, s) ELSE Stage(x, s, "late")

ResolveCall(s) ==
  /\ s.kind = "call"
  /\ s.stage = "late" /\ ~LateResolvers
       => ~Live(st, s.slot, s.gen) \/ st.ctx[s.slot].cid # s.cid
  /\ \/ /\ ~SettlerCurrent(s)
        /\ st' = Done(st, s)
     \/ /\ SettlerCurrent(s)
        /\ st' = Woken(Answered(Called(st, s), s.slot, s.park), s)
     \/ /\ SettlerCurrent(s)
        /\ st' = Woken([Called(st, s) EXCEPT !.ctx[s.slot].stash = s.park], s)

\* _guardGrantFinalize: it looks at the slot, whoever has it now.
MayFinalize(s) ==
  LET k == st.ctx[s.slot]
  IN k.live /\ k.cid = s.cid /\ k.exit = "grant" /\ ~k.moved

\* The last answer of the approval chain: the context leaves its GRANT_START.
FinalizeGrant(s) ==
  /\ s.kind \in {"grant", "regrant"} /\ s.stage = "pending"
  /\ LET x == Stage(st, s, "settle")
     IN st' = IF MayFinalize(s)
              THEN [x EXCEPT !.ctx[s.slot].moved = TRUE,
                             !.ctx[s.slot].inbox = Append(@, s.park)]
              ELSE x

\* The continuation of the chain, some microtasks later.  That of a resumed
\* request asks for nothing but the identity.
SettleGrant(s) ==
  /\ s.stage = "settle"
  /\ st' = IF s.kind = "regrant" \/ SettlerCurrent(s) THEN Woken(Done(st, s), s)
           ELSE Done(st, s)

\* A hook threw: the error is thrown at the GRANT_START.  A resumed request does
\* so without looking whose the slot is (LateChains).
FailGrant(s) ==
  /\ s.kind \in {"grant", "regrant"} /\ s.stage = "pending"
  /\ s.kind = "regrant" /\ ~LateChains => Live(st, s.slot, s.gen)
  /\ st' = IF s.kind = "regrant" \/ SettlerCurrent(s)
           THEN Woken(Answered(Done(st, s), s.slot, s.park), s)
           ELSE Done(st, s)

(***************************************************************************)
(* _settleLinkedPromiseBySlot                                              *)
(***************************************************************************)
\* Nothing was spawned yet, or all of it.
SettledBySlot(x, e, status) ==
  LET entry == x.linked[e]
      waker == [slot |-> entry.ctx, gen |-> entry.gen, entry |-> e]
  IN IF ~entry.live THEN {x}
     ELSE IF entry.ctx # None
     THEN IF ~Live(x, entry.ctx, entry.gen) THEN {EntryFreed(x, e)}
          ELSE {Woken(Answered(x, entry.ctx, entry.park), waker),
                Woken([x EXCEPT !.ctx[entry.ctx].stash = entry.park], waker)}
     ELSE IF x.promises[entry.promise].status # "pending" THEN {EntryFreed(x, e)}
     ELSE {EntryFreed(SettledAs(x, entry.promise, status), e)}

SettleLinked(s, status) ==
  /\ s.kind = "js" /\ RoomToSettle(st)
  /\ st' \in SettledBySlot(Done(st, s), s.entry, status)

(***************************************************************************)
(* The embedder.                                                           *)
(***************************************************************************)
\* cancelContext: whatever the context waited on forgets it.
CancelledMutant(x, c) ==
  Freed([x EXCEPT !.wakes = {w \in @ : w[1] # c},
                  !.promises = [p \in Promises |->
                    [x.promises[p] EXCEPT !.waiters = {w \in @ : w[1] # c}]]], c)

CancelledWaiting(x, c) ==
  LET entries == {e \in 1 .. Entries : x.linked[e].live /\ x.linked[e].ctx = c}
      freed == EntriesFreed(x, entries)
  IN Freed([freed EXCEPT !.wakes = {w \in @ : w[1] # c}], c)

CancelledQueued(x, c) ==
  LET entries == {e \in 1 .. Entries : x.linked[e].live /\ x.linked[e].ctx = c}
      freed == EntriesFreed(x, entries)
  IN Freed([freed EXCEPT
              !.promises = [p \in Promises |->
                 [x.promises[p] EXCEPT !.waiters = {w \in @ : w[1] # c}]]], c)

Cancelled(x, c) ==
  LET entries == {e \in 1 .. Entries : x.linked[e].live /\ x.linked[e].ctx = c}
      freed == EntriesFreed(x, entries)
  IN Freed([freed EXCEPT
              !.wakes = {w \in @ : w[1] # c},
              !.promises = [p \in Promises |->
                 [x.promises[p] EXCEPT !.waiters = {w \in @ : w[1] # c}]]], c)

\* A resumed request that is still being decided would later free its entry by
\* number, whoever has it then (LateChains).
CancelContext(c) ==
  /\ st.ctx[c].live
  /\ LateChains \/ \A s \in st.settlers : s.kind = "regrant" => s.slot # c
  /\ st' = Cancelled(st, c)

\* A new root or invocation
Start ==
  /\ Room(st) > 0
  /\ st' = Allocated(st, None, FALSE)

\* Nothing waits in _deferredMarshals or pendingSpawnedContexts, and no approval
\* is half way to its context.
Quiet ==
  /\ st.wakes = {}
  /\ \A c \in Contexts : st.ctx[c].stash = 0
  /\ \A s \in st.settlers : s.stage # "settle"

\* The process dies (bound: once) and the image of its buffers lives on: what
\* only JavaScript held is gone.  quiesce() lets an image be taken between any
\* two jobs, not only in a quiet moment (HurriedRestart).
Restart ==
  /\ ~st.restarted
  /\ HurriedRestart \/ Quiet
  /\ st' = [st EXCEPT !.settlers = {}, !.wakes = {}, !.restarted = TRUE,
                      !.ctx = [c \in Contexts |-> [st.ctx[c] EXCEPT !.stash = 0]],
                      !.linked = [e \in 1 .. Entries |->
                                    [st.linked[e] EXCEPT !.orphan = st.linked[e].live]]]

ForGrant(e) == st.linked[e].ctx # None /\ st.ctx[st.linked[e].ctx].exit = "grant"

\* settleLinkedPromise, for an entry that a restart left without a continuation
EmbedderSettle(e, status) ==
  /\ st.linked[e].orphan /\ ~ForGrant(e) /\ RoomToSettle(st)
  /\ st' \in SettledBySlot(st, e, status)

\* resumeGrantRequest, with what the embedder kept of the request
ResumeGrant(e) ==
  /\ st.linked[e].orphan /\ ForGrant(e)
  /\ \A s \in st.settlers : s.kind = "regrant" => s.entry # e
  /\ LET entry == st.linked[e]
     IN st' = [st EXCEPT !.settlers = @ \cup {[kind |-> "regrant", slot |-> entry.ctx,
                 gen |-> entry.gen, cid |-> st.ctx[entry.ctx].cid, entry |-> e,
                 park |-> entry.park, stage |-> "pending"]}]

\* rejectOrphanedLinkedPromises, on one entry
OrphanRejected(x, e) ==
  LET entry == x.linked[e]
  IN IF ~entry.live THEN x
     ELSE IF entry.ctx # None
     THEN IF ~Live(x, entry.ctx, entry.gen) THEN x
          ELSE Enqueued(Answered(x, entry.ctx, entry.park), entry.ctx, entry.gen)
     ELSE IF x.promises[entry.promise].status # "pending" THEN x
     ELSE SettledAs(x, entry.promise, "rejected")

\* Each entry in turn; then the table is cleared (clearAllLinkedPromises).
RejectOrphans ==
  LET live == {e \in 1 .. Entries : st.linked[e].live}
      rejected[e \in 0 .. Entries] == IF e = 0 THEN st ELSE OrphanRejected(rejected[e - 1], e)
  IN /\ st.restarted /\ st.settlers = {} /\ live # {} /\ RoomToSettle(st)
     /\ st' = EntriesFreed(rejected[Entries], live)

Status == {"resolved", "rejected"}

Answer(s) ==
  \/ ResolveCall(s) \/ FinalizeGrant(s) \/ SettleGrant(s) \/ FailGrant(s)
  \/ \E status \in Status : SettleLinked(s, status)

Recover(e) == ResumeGrant(e) \/ \E status \in Status : EmbedderSettle(e, status)

Next ==
  \/ \E c \in Contexts :
       \/ Suspend(c) \/ RequestGrant(c) \/ Link(c) \/ CancelContext(c)
       \/ \E status \in Status : Finish(c, status)
       \/ \E executor \in BOOLEAN : Spawn(c, executor)
       \/ \E p \in Promises :
            \/ Await(c, p)
            \/ \E kind \in {"pass", "spawn"} : Then(c, p, kind)
            \/ \E status \in Status : SettleOwn(c, p, status)
       \/ \E p, q \in Promises, race \in BOOLEAN : p < q /\ Aggregate(c, p, q, race)
  \/ Start
  \/ \E s \in st.settlers : Answer(s)
  \/ \E e \in 1 .. Entries : Recover(e)
  \/ Restart
  \/ RejectOrphans

\* The host answers what it was asked, and an embedder what a crash left over.
Fairness ==
  /\ WF_st(\E s \in st.settlers : Answer(s))
  /\ WF_st(\E e \in 1 .. Entries : Recover(e))

Spec == Init /\ [][Next]_st /\ Fairness

(***************************************************************************)
(* Properties.                                                             *)
(***************************************************************************)
\* A context gets one answer for each park, the one meant for that park: no
\* late resolver, approval or embedder answers the park of another tenant, a
\* later park of the same one, or one that was answered.
OwnAnswer ==
  \A c \in Contexts : LET k == st.ctx[c] IN
    /\ k.inbox \in {<<>>, <<k.park>>} /\ k.stash \in {0, k.park}
    /\ k.stash # 0 => k.inbox = <<>>

\* Each context parked on a call or a grant has one live entry of its own, by
\* which a restarted embedder finds it, and no entry names anybody else.
EntriesMatchParks ==
  LET named == {e \in 1 .. Entries : st.linked[e].live /\ st.linked[e].ctx # None}
  IN /\ \A e \in named : LET k == st.ctx[st.linked[e].ctx] IN
          /\ k.live /\ k.gen = st.linked[e].gen /\ k.park = st.linked[e].park
          /\ Parked(k) \/ k.moved
     /\ \A c \in Contexts :
          Parked(st.ctx[c]) /\ st.ctx[c].exit # "await"
            => Cardinality({e \in named : st.linked[e].ctx = c}) = 1

\* The wake queue holds no context that is still parked, which a run would make
\* repeat its call, and every context that has its answer, or soon will.
WakesExact ==
  /\ \A w \in st.wakes : Live(st, w[1], w[2]) /\ Ready(st.ctx[w[1]])
  /\ \A c \in Contexts : LET k == st.ctx[c] IN
       k.live /\ Ready(k)
         => \/ <<c, k.gen>> \in st.wakes
            \/ \E s \in st.settlers : s.slot = c /\ s.gen = k.gen /\ s.stage = "settle"

\* The contexts parked in an await are the waiters of pending promises, each of
\* one; a settled promise keeps neither waiters nor handlers.
WaitersExact ==
  LET waiters == UNION {st.promises[p].waiters : p \in Promises}
  IN /\ \A p \in Promises : LET r == st.promises[p] IN
          r.status # "pending" => r.waiters = {} /\ r.handlers = <<>>
     /\ \A p, q \in Promises :
          p # q => st.promises[p].waiters \cap st.promises[q].waiters = {}
     /\ waiters = {<<c, st.ctx[c].gen, st.ctx[c].park>> :
                     c \in {d \in Contexts : Parked(st.ctx[d]) /\ st.ctx[d].exit = "await"}}

\* The result of Promise.all and Promise.race says what its elements say,
\* however many of them were settled when it was made.
AggregatesAgree ==
  \A r \in Promises : LET a == st.promises[r]
                          is(status) == {p \in a.elements : st.promises[p].status = status}
                      IN a.elements # {} =>
    IF a.race
    THEN /\ (a.status = "pending") = (is("pending") = a.elements)
         /\ a.status # "pending" => is(a.status) # {}
    ELSE /\ (a.status = "rejected") = (is("rejected") # {})
         /\ (a.status = "resolved") = (is("resolved") = a.elements)

\* A context parked on a call or a grant does not stay so: it is answered, or
\* it is cancelled.
ParkEnds ==
  \A c \in Contexts : []<>~(Parked(st.ctx[c]) /\ st.ctx[c].exit \in {"call", "grant"})

=============================================================================
