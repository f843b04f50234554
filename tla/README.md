# SandScript in TLA+

SandScript runs untrusted scripts ("drones") inside a WebAssembly interpreter
whose heap, context table and membrane live in host-owned buffers. A JavaScript
runtime drives the drones' contexts, brokers every call between them and the
host, and publishes what happens through shared memory. This directory holds
TLA+ models of the parts where several actors meet and of the compiler, the TLC
configurations that check them, and TLAPS proofs of their invariants. Paths
below are relative to the repository's `src/src/`.

## Inventory

| component | state | operations | interacts with |
|---|---|---|---|
| **Ring publication** (`ring-publication.js`, `fuel/header-event-ring.js`, `fuel/step-ring.js`, `runtime/cost-ledger.js`, `appendCostEntry` in `membrane/index.js`) | header words generation, flags, head; per slot a token and a payload | append an entry, turn over to a successor segment, exhaust; read a page from a cursor | one producer thread, readers in other realms, through atomics only |
| **Slot scheduler** (`runtime/runtime.js`) | drives in flight, held-back wakes, invocation owners, the closure-call queue, quiesced/terminated flags | run, invokeClosure, invokeExport, scheduleClosureCall, quiesce, resume, terminate, abort by signal | session, airlock, membrane, embedder hooks |
| **Context table** (`fuel/memory-image.js`) | per slot: generation, state, stacks | allocate, free, grow | scheduler, airlock, collector |
| **Airlock: suspension and wakes** (`fuel/airlock.js`) | parked contexts with generation and continuation id, the linked-promise table, the wake queue | suspend, settle, cancel, recover after a restart | scheduler, host promises, embedder |
| **Airlock: what JavaScript holds** (`fuel/airlock.js`) | in-flight buckets, deferred results, link-time snapshots, pins, grant stacks, approval windows, dispatch maps | register, deliver, park, link, pin; compute the anchors of a compaction | membrane, session |
| **In-flight ledger** (`runtime/ledger.js`) | a table of activity records in shared memory | claim, write, free, walk, rebind | runtime, airlock and embedder write; anybody walks |
| **Runtime state cell** (`runtime/runtime-state.js`) | one published word | set, get, wait | scheduler, `send`, `subscribe`; readers in other realms |
| **Membrane: handles, grants, revocation** (`membrane/index.js`) | handle and grant tables with versions, id lists in a pool, root grants | register, create, add, mark, revoke, compact | airlock, runtime, capabilities |
| **Grant requests and fanout** (`fuel/airlock.js`, `runtime/capabilities.js`) | pending requests, capabilities in dependency order | request, decide, settle, fan out | embedder policy, membrane |
| **Promises in the drone heap** (`fuel/airlock.js`) | promise cells, waiters, handlers, aggregates, links to host promises | settle, await, attach, reject | scheduler through wakes |
| **Collector and compaction** (`fuel/collector.js`) | mark bits, forwarding words, string table | mark, forward, update, move, compact strings | quiesced runtime, context table |
| **Restore** (`host-owned-session.js`, `airlock.js`, `membrane`) | a byte image from before a crash or move | validate, relocate, settle or reject orphaned promises | every other component |
| **Live patching** (`fuel/patch-apply.js`, `fuel/patch-audit.js`) | code blocks, call frames that point into them | audit, apply, roll back | parser, parked contexts |
| **Parser and code generation** (`fuel/parser.js`, `fuel/ast.js`) | the code emitted, loops, protected regions and scopes that are open | compile one construct after the other, patch jumps | interpreter |
| **Stack-depth verifier** (`fuel/codegen-verify.js`) | depth found at each instruction | walk a code block | parser |
| **Interpreter** (`fuel/interpreter.wat`) | operand, call, try and grant stacks | execute instructions with fuel | scheduler through `session.run` |
| **Schema, regex, msgpack, sessions, CLI** | none that persists, or files | pure conversions, I/O | - |

What is hard here, and what makes each part correct:

- *Rings.* The reader races the producer on every word, and heads wrap into a
  successor segment. A page must hold only whole records of one segment, must
  not lose an entry without saying so, and a read must end whatever the
  producer does.
- *Scheduler.* JavaScript has no preemption, but a drive is spread over several
  promise continuations (`driveLoop`'s return, `.then`, `.finally`, its
  caller), with promise settlements, wakes, aborts, quiesce, resume and terminate
  in between. No wake may be lost or applied to a context that took over the
  slot; ended contexts must be freed; ordered calls stay ordered; quiesce must
  mean quiet; each invocation's promise settles once.
- *In-flight ledger.* Claims race each other and the walkers: one holder per
  entry, and no leftovers taken for an activity's own words.
- *Membrane and airlock.* Any allocation may compact in the middle of an
  operation and free every slot nobody claims, and slots are reused. Much of
  what must be claimed is held by JavaScript only, and changes hands at each
  suspension and settlement.
- *Suspension.* Resolvers come late, twice, after a cancellation or in another
  process; the slot may have a new tenant that parks in just the same way.
- *Promises.* Each waiter is woken once; aggregates and links end with what
  they wait for.
- *Collector.* Three walkers over one layout must agree with the allocators and
  with each other, for every kind of block and every value type.
- *Compiler.* One pass with back-patching: each `break`, `continue`, `return`
  and throw must unwind scopes, operands, try entries and grants that other
  methods opened.

`PROJECT.json` lists the hazards line by line with the properties that watch them.

## Plan

Done: `RingPublication` and `PublishedLog`, `RuntimeScheduler`,
`InFlightLedger`, `Membrane`, `Airlock`, `Settlement`, `Collector`, and the
compiler with its machine and meaning (`Syntax` to `Compilation`). Proved: see
Proofs.

Left, in this order:

1. `RuntimeStateCell`: the published state and the idle hook.
2. Generators and async functions in the compiler's model; closure and object
   handles and the relocation of the regions in the airlock's.
3. Host construction and memory pressure in the scheduler; live patching.

## Modules

| module | models |
|---|---|
| `RingPublication` | producer and reader of a ring, one atomic access a step |
| `PublishedLog` | what the ring promises: an append-only log in segments, read in runs |
| `RuntimeScheduler` | the slot driver, its queues and its lifecycle |
| `InFlightLedger` | claim, write, free and walk, one atomic access a step |
| `Membrane` | handle and grant tables, their lists and compaction |
| `Airlock` | what JavaScript holds, as anchors of the membrane's compaction |
| `Settlement` | who may answer a parked context; promises in the drone heap; restart |
| `Collector` | mark, forward, update, move over a parked heap |
| `Syntax` | the tree of a program, the compiler's input |
| `Codegen` | the parser's methods, as transformers of the code emitted |
| `CodegenVerify` | the stack-depth verifier |
| `ScriptValues`, `BytecodeMachine` | values and scopes; the interpreter for one context |
| `SourceMeaning` | what a program means, by its tree: the compiler's specification |
| `Programs`, `CompiledPrograms`, `Compilation` | the programs compiled; their tables; the properties |
| `MC...` | values of the constants for TLC: requests, agents, symmetry, kinds of value |
| `..._proofs`; `RuntimeWakes_proofs`, `Aggregates_proofs` | theorems, see Proofs |

Definitions named `...Mutant` are plausible slips in the code, kept next to the
definition they would replace; each property is known to fail under at least one
of them.

### RingPublication

`wpc` is where the producer stands in `appendCostEntry`/`publishEntry`: reserve
(advance head), invalidate the slot's token, store payload words, publish the
token; at the last index the generation goes through zero while the head is
reset (`WBeginTransition`, `WResetHead`, `WSuccessor`), or the exhaustion flag
is set (`WExhaust`). `rpc` is where the reader stands in `readPublishedRange`:
flags and generation, head, token of the newest slot, head again, the plan
(`RPlan`: cursor arithmetic, gap, budget), then per entry token, words, token,
and the final generation and flags. Words are atomics, so the interleavings are
those of sequential consistency. A payload word carries only the identity
`<<generation, index>>` of the entry it belongs to. `MaxIndex` and
`MaxGeneration` stand for 0xffffffff; the code's `>>> 0` arithmetic is `Distance`,
modulo `MaxIndex + 1`, and its half window is scaled with it.

### RuntimeScheduler

A JavaScript job is atomic towards every other job but not inside: what a job
still has to call is the sequence `stack`, innermost first, so that a throw can
unwind it (`Throw`) and a handler can call back into the runtime (`HandlerCalls`).
Per slot, `driving` is `_drivingSlotIdentities`, `phase` says which of the
drive's continuations are still to run (`loop`, `hook` for a pending
`onFuelExhausted`, `returned` before `.then`, `unwound` before `.finally`), and
`jobs` holds the continuations of the callers (`_continueInvoke`,
`runBackgroundDrive`, `runClosureCall`). `deferredWakes`, `waiter`
(`_invokeOwners` by slot), `deferredInvokes`, `deferredCancels`, `queue`,
`quiesced`, `waiting` (`_quiesceWaiters`) and `terminated` are the fields of the
Runtime. Every ready continuation may run next, a superset of the orders of the
microtask queue. A run of a context ends as `session.run` can report: done,
error, parked on a promise, out of fuel, a child spawned, or a child's promise
completed (which hands its waiter to the dispatcher directly).

What is abstracted: values, marshalling (it may fail), handles and grants (a
call or invocation may be refused), the ledger and statistics, callbacks that
only observe. Closure calls form one ordered stream with `dropOnComplete` and a
gate (`shouldDeliver`) that the firer closes at the first call it could not
deliver; the gate is the embedder's.

### InFlightLedger

`activity` and `field` are the words of the table; each agent walks through
`claim` (`Scan`, `Fill`), `write` and `free` (`Empty`, `Release`), the walker
through `walk` (`Probe`, `Read`), in the order in which the code stores and
loads. A claim's number stands for its tag and ids. An agent is one activity at
a time; `free(-1)` and double frees, which the code's callers do not make, are
left out.

### Membrane

`mem` is the membrane buffer with the airlock's dispatch maps. Each operation
of `index.js` is a transformer of `mem`, so that a compaction in the middle of
one, and series of them, compose. An entry has a version (odd while the slot has
a tenant), its free-list link, and a list given by offset and count in the pool,
whose words are modelled because a compaction moves a run under an operation
that still holds its old offset. Words past the pool's end are garbage and
`Settled` forgets them. Any choice of anchors is allowed here.

### Airlock

`air` holds whose turn it is (between drives, a handler, a callback) and each
place that holds a handle or a grant: the heap and the stacks of the contexts,
buckets of what a dispatch registered, the stash of results that wait for heap
room, the snapshot taken when a promise is linked, arguments of queued calls,
pins, approval windows. From these `AirAnchors` computes what a
compaction must keep. `Airlock` extends `Membrane` and replaces its arbitrary
anchors by these.

### Settlement

`st` holds the contexts, the linked-promise table, the promises of the drone,
the settlers and the wake queue. A settler is a JavaScript continuation that
will answer, with the generation and continuation id it captured; it does not
survive a restart. A context suspends only when it returns to the host, so a run
is one action. Parks are numbered, so that an answer shows which park it was
meant for. Settling a promise is a cascade: a handler may settle another
promise, whose handlers then go first. `AllHandled` runs the handlers of a
cascade one by one from a list of those that are left; a promise brings two at
most and each is run once, so `MaxHandlers` steps empty the list.

Three constants say what host and embedder may do that the code does not bear:
`LateChains`, an approval chain may outlive its context and meet a tenant that
parks on a grant request of its own; `LateResolvers`, a resolver may be called
again before its context has parked on another call; `HurriedRestart`, the
process may end with answers that wait for room in `_deferredMarshals` or with
wakes still queued (`Quiet` is when there are none). `Disciplined` is none of the
three: the passing runs and the theorems suppose it, and without any one of them
the properties fail. The run `stale_approval` shows it of the first; with
`MCLateResolver.cfg` TLC finds `OwnAnswer` violated, with `MCLostAnswer.cfg`
`EntriesMatchParks` (see Noted). A resolver called again after the next park, and
a restart with everything parked, are in all of the runs.

### Collector

A heap is a function from header addresses to blocks; a block's slots name
other blocks by header or by data address as the allocator wrote them. The three
walkers (`mark`, `update`, the rows of the string pass) are kept as three
tables, which is what can go wrong. The JavaScript collector is modelled; the
default one in `interpreter.wat` mirrors it. The initial state is a vat after
the first growth of its context table.

`Exits` are the exits at which a collection may find the context. Each has its
own layout of the request block (`RequestLayout`: words that name a promise, a
closure, a construction's receiver, the promise to settle, a string; a receiver
value; and arguments, most of them above the pending top, found by the address
the request holds), which `MarkRequestBase`, `UpdateRequestBase` and
`StringContextRows` know in whole, in part or not at all. The run `collector` has
the exits they know; with each of the others TLC finds `ReachablePreserved`
violated, under the configuration named here:

| exit | in the code | checked by |
|---|---|---|
| `await` | EXIT_AWAIT on a settled promise | `collector` |
| `call` | EXIT_EXTERNAL_CALL, _PROPERTY, _PROPERTY_SET | `collector` |
| `construct` | the external call that asks for a construction's abort | `collector` |
| `promiseMethod` | EXIT_PROMISE_METHOD | `collector`; fails with strings (`MCCollectorStrings.cfg`) |
| `asyncCall` | EXIT_ASYNC_CALL; `asyncAnswered` once the promise of the call is pushed | `collector`; fails with strings (`MCCollectorStrings.cfg`) |
| `settling` | EXIT_PROMISE_SETTLE, in the collection `handlePromiseSettle` may ask for, its arguments read | `collector` |
| `settle` | EXIT_PROMISE_SETTLE before that | fails (`MCCollectorSettle.cfg`) |
| `awaitValue` | EXIT_AWAIT on a value that is no promise | fails (`MCCollectorAwaitValue.cfg`) |
| `waiting` | EXIT_AWAIT on a pending promise, with CTX.WAITING_ON | fails (`MCCollectorWaiting.cfg`) |
| `generatorNext` | EXIT_GENERATOR_NEXT, the caller's while the body is suspended | fails (`MCCollectorGenerator.cfg`) |
| `staged` | EXIT_MEMORY_PRESSURE with CTX.CONSTRUCTION_DUTY | fails (`MCCollectorDuty.cfg`) |

`await`, `settle`, `promiseMethod` and `asyncCall` are answered before a host can
collect, and the code calls its branches for them defensive
(`collector.js:994-1015`): its tests reach them by `wasm.exports.run`, and the
contract of `INTERNALS.md:264-269` covers them. The rest need no such thing.
`TextRequests` says whether the requests of `promiseMethod` and `asyncCall` may
hold strings, which the string pass leaves with their old numbers; `collector`
has them without. An answer leaves the request words in the block, where nothing
reads them again, and the model resets them (`NoRequest`).

### The compiler

`Syntax` is the tree that `ast.js` writes; it is the input. `Codegen` has one
operator per method of the parser, passing the record of what the parser has
emitted and has open. `BytecodeMachine` executes what it emitted, with the four
stacks whose order the compiler must keep. `SourceMeaning` says what the tree
means without jumps, entries or operand stacks: evaluation is structural, and a
construct gives back what it found however it is left. `Compilation` compares
the two under every sequence of answers of the host, and the verifier's depths
with the machine's.

## Runs

Deadlock is checked except where the system may be idle for good.

| run | instance | shows |
|---|---|---|
| `ring` | 3 entries, 12 indexes, 2 generations, 2 words, 5 kinds of page | `TypeOK`, `PageCoherent` (no torn record, no foreign segment), `NewestBracketed` (the newest-committed estimate is neither early nor late), `NoSilentLoss`, `ImplementsLog` (refinement of `PublishedLog`), `ReadTerminates` |
| `scheduler` | 2 slots, 2 generations, up to 3 runs a context, 2 ordered calls, an awaiting fuel hook, a quiesce and resume, terminate | `DriveOwnsContext`, `NoLostWake`, `QueueIsServed`, `FinishedIsReclaimed`, `DutyIsHeld`, `InOrderDelivery`, `QuiesceIsQuiet` |
| `invocations` | 1 abortable invocation over 2 slots that are reused, every answer of the fuel hook, handler calls, quiesce, terminate | `OwnerRegistry`, `InvocationSettles`, `QuiesceResolves` |
| `ledger` | 2 entries of 2 fields, 3 agents, 3 claims | `TypeOK`, `OneHolder`, `NoGarbage`, `WalkNeverOlder`, `WalkExact` |
| `membrane` | 2 handle and 2 grant slots, each used twice, any anchors | `FreeListsSound`, `GrantListsExact`, `InverseIndexAgrees`, `RevocationIsFinal` |
| `airlock` | 2 contexts, a promise, a pin, a root grant, a queued call over one handle slot | `HeldHandlesCurrent`, `HeldGrantsCurrent`, `DispatchOfTenant` |
| `settlement` | 2 contexts, 2 entries, 4 tenants, 3 parks, a restart in a quiet moment | `OwnAnswer`, `EntriesMatchParks`, `ParkEnds` |
| `promises` | 3 promises, 2 contexts, 2 parks, an entry | `WakesExact`, `WaitersExact`, `AggregatesAgree` |
| `collector` | every value type but the DataView, six exits, no strings in the requests of two of them, 2 writes between collections | `ReachablePreserved`, `HeapTight`, `StringsTight` |
| `codegen` | 1109 programs, each under every sequence of up to 3 answers | `TraceOfDistinctNames`, `NothingLeftOver`, `DepthAgrees` |
| `stale_approval` | an approval chain that outlives its context | `OwnAnswer` fails, see Findings |
| `codegen_scopes` | the programs and answers of `codegen` | `TraceAsSource` fails, see Findings |

*Bounds.* Three entries and twelve indexes give the ring four laps per segment
and put the half window inside the second; two generations give one turnover and
the exhaustion after it; two words make a record tearable. The scheduler's two
slots are the root's and one that everybody else contends for, so that each
reuse is a conflict; two generations let a stale identity meet one successor.
Three runs let a context both park and pause before it ends. Two calls are the
least an order can be broken with. In the ledger, three claims in two entries
let one follow another in the same entry, and an agent more than entries finds
the table full. The membrane's slots are each used twice, so that a stale name
meets a successor; its pool of twelve words never fills, because an append that
compacts moves the list it was appending to (see Noted). The airlock has one
handle slot, so that whatever is reaped too early is reused at once; two
contexts let one reap what the other holds. Three parks and four tenants let an
answer come after a reuse of the slot by a tenant that parks again; three
promises make an aggregate of two. `MaxWrites` of the collector counts the
stores, pops, leaves, emptied slots, releases and answers; stopping at an exit,
and the answer of an async call, are free, and two words on the pending stack make
a callee with its argument or its receiver. The compiler's programs nest any two of sixteen
contexts around five ways of leaving them, and have one program for each kind of
binding, expression and unwinding. Loops go over lists of two items, and three
answers of the host let an outer and an inner loop each go round twice.
`LeavesBraces` names the programs in which a `break` or `continue` leaves braces,
of which `NothingLeftOver` claims nothing about scopes (`InOwnScope`);
`SharesNames` those of them that bind one name in the scope left behind and
outside it, of which `TraceOfDistinctNames` claims no trace. Both fail there, as
`codegen_scopes` shows.

*Fairness.* `RingPublication` asks it of the reader's steps only: its realm keeps
running, the producer may stop or lap it for ever. In `RuntimeScheduler` a job
that began finishes and the event loop reaches every continuation
(run-to-completion and FIFO microtasks justify weak fairness of each), host
promises settle, the fuel hook's promise resolves, `backpressure()` resolves and
the embedder re-runs what it let run out of fuel. Resume, abort, terminate and
new work are never fair: `InvocationSettles` and `QuiesceResolves` carry the
condition that the runtime is resumed, or not resumed too early, as a premise.
In `Settlement` the host answers what it was asked, and the embedder recovers
what a restart orphaned, as the restore path asks it to.

## Proofs

Each theorem is for every value of the constants its module's assumptions
allow, with the further hypotheses named here.

| theorem | module | states |
|---|---|---|
| `TypeCorrect`, `NoTornRecord` | `RingPublication_proofs` | `TypeOK`, `PageCoherent` |
| `EstimateBracketed`, `NothingLostSilently`, `RingImplementsLog` | `RingPublication_proofs` | `NewestBracketed`, `NoSilentLoss`, `ImplementsLog` |
| `LedgerTypes`, `OneHolderAlways`, `NoGarbageAlways`, `WalkSound`, `WalkReportsAll` | `InFlightLedger_proofs` | `TypeOK`, `OneHolder`, `NoGarbage`, `WalkNeverOlder`, `WalkExact` |
| `SlotsNeitherSharedNorLost` | `Membrane_proofs` | `FreeListsSound` |
| `GrantListsAreExact`, `InverseIndexIsExact`, `RevocationStands` | `Membrane_proofs` | `GrantListsExact`, `InverseIndexAgrees`, `RevocationIsFinal`, while no join compacts |
| `HandlesNeverReaped`, `GrantsNeverReaped`, `DispatchNeverInherited`, `AirlockKeepsSlots` | `Airlock_proofs` | `HeldHandlesCurrent`, `HeldGrantsCurrent`, `DispatchOfTenant`, `FreeListsSound` under the airlock |
| `AnswersAreOwn`, `EntriesAreParks`, `WakesAreExact`, `WaitersAreExact` | `Settlement_proofs` | `OwnAnswer`, `EntriesMatchParks`, `WakesExact`, `WaitersExact`, where `Disciplined` |
| `AggregatesSayElements` | `Aggregates_proofs` | `AggregatesAgree`, where `Disciplined` |
| `StreamWithoutHoles`, `OwnersAndContextsAgree` | `RuntimeScheduler_proofs` | `InOrderDelivery`, `OwnerRegistry` |
| `QuiescedIsQuiet` | `RuntimeScheduler_proofs` | `QuiesceIsQuiet`, with `HandlerCalls = FALSE` |
| `DrivesKeepTheirContexts`, `WakesAreNotLost`, `QueueHasDrainer`, `DutiesAreHeld`, `FinishedAreReclaimed` | `RuntimeWakes_proofs` | `DriveOwnsContext`, `NoLostWake`, `QueueIsServed`, `DutyIsHeld`, `FinishedIsReclaimed` |

### The rings

`RingAssumption` asks for positive sizes and at least four laps in the index
space, which holds for any real ring. `PageCoherent` is not inductive, because
it is about the end of a read. `IInv` adds that the producer's control state
agrees with the header (`WriterInv`), that in the current segment a nonzero
token in the slot of a committed index vouches for every payload word
(`TokenVouches`), which tokens a slot may hold at all (`TokenRange`, by modular
arithmetic on slots), how the reader's locals lie relative to the ring while its
segment is still current (`ReaderInv`), that words decoded so far are the
entry's as long as its token still stands (`DecodeInv`), and that the entries of
the page under construction are whole (`PageInv`). The heart is that a slot's
token can become a given index only once per segment, so two equal loads around
the decode mean that nothing was written in between; and a reader of an earlier
segment is stopped at its last generation check.

`PagesInv` says in addition that the page is complete: between two appends the
newest index is published (`RestInv`), the estimate lies between what was
committed at the head load and what is committed now (`BracketInv`), the entries
are a run (`RunInv`), and whatever was committed below the cursor when the read
began is accounted for (`CompleteInv`). With it each step of the ring maps to a
step of `PublishedLog` or to a stutter.

### The ledger

The invariant adds how far `free()` has come with an entry, that claims are
numbered from one in the order of their exchanges, and that the activity under
the walker only gives way to FREE or to a later claim. `ExactInv` follows the
entries that were complete when the walk began and that nobody has touched: what
was read of one is what stands there, and the walker has not passed one without
reporting it.

### The membrane and the airlock

`MemOK` says that both tables are sound: the free list holds each slot that was
handed out and has no tenant, once, and the parities of the versions agree. The
proof goes operator by operator; since each may compact in the middle, each is
also shown to reap only what no anchor names (`Reaped`), and that relation
composes.

The lists are words in a pool, and what they say is proved from the words.
`PoolOK` says that every entry's run ends below the mark, that a slot without a
tenant has none, and that the tenants' runs together are no longer than the pool
is used. The last part is why the repacking at the end of a compaction fits: it
writes no more words than there were. `IndexOK` says that the lists of live
handles and live grants name live slots only, each other exactly, and that the
names on a handle's list are those its tenant was given. What a compaction
computes is recursive (the filtered lists, their concatenation, the places in
it), so the lemmas about `Keeping` and `FlattenSeq` go by the least index at
which they would fail. An append that fits copies from below the mark to above
it, so it reads no word it has written (`AppendedFits`). The hypothesis is in
the specification: `SpecWithRoom` is `Spec` with the guard `JoinHasRoom` on
`AddHandle`, and nothing else changed; every other operation may compact. It is
needed because a join that compacts between its two looks at the pool copies
from where the list was (see Noted), and the theorems are false without it. The
instance of `membrane` satisfies it in every reachable state.

`AirInv` says why every place that holds a handle is an anchor at
every moment a compaction can come: most are walked themselves; what the running
code registered lies in the bucket of its context or callback, what a promise
will deliver in the snapshot taken when it was linked. Two hypotheses are not
vacuous choices. `HandlesNeverReaped` asks for `FreshResolution = FALSE`: a
promise resolved with a handle that the resolving callback has only just
registered is not covered (see Noted). `DispatchNeverInherited` asks for
`Maps` to be among the maps the airlock prunes; `memberInspectors` is not.

### Suspension and promises

The four theorems of `Settlement_proofs` rest on one invariant, `Inv`, since who
may answer, who waits and who is queued each depend on the other two. `CtxInv`
says what a context holds in each of its states; `EntryInv` that the entry of a
park names its context, its generation and its park, and that one such entry
stands for each park on a call or a grant; `FreeInv` that the free list and the
live entries share the table between them; `PromiseInv` and `WaiterInv` that a
settled promise keeps nobody, and that a waiter stands for the await of a live
context and for no other; `WakeInv` who is in the wake queue; `SettlerInv` what a
continuation may rely on: one that would still pass its checks (`Current`) is the
one that its context's park was given, and its entry is still that park's, while
one that would not can only be dropped.

Two things make it hold in the middle of an action too. A cascade is shown to
keep the invariant handler by handler, so that its length does not matter; and
entries that an action has dealt with, but frees only at its end, are carried as
a second argument of `Inv`, which is empty between two actions
(`clearAllLinkedPromises` after a restart is the case that needs it). The
hypothesis `Disciplined` leaves out approval chains that outlive their context
and meet another grant request in its slot, resolvers called again before the
next park, and restarts while answers wait for room; with any of them `OwnAnswer`
or `EntriesMatchParks` is false (see Settlement).

`AggregatesSayElements` adds `NoticeInv`, on top of `Inv`. What an aggregate says
is right if it hears of each element once and before the action ends, and if
nobody but an element's news settles it; and both depend on all the handlers of
all the promises, since a cascade that settles one promise runs the handlers of
another. `HandlersInv` says that each handler fits its child (a `pass` or a
`spawn` settles a pending promise that is no aggregate, an aggregator belongs to
an element) and that no two are for the same child on behalf of the same promise;
`SourcesInv` that a promise which a context, an entry or such a handler is to
settle has that one source; `ShapeInv` that an aggregate has two elements, made
before it; `ResultInv` that a pending aggregate has still to hear of each element
that it has not counted as resolved, and that a settled one says what it heard.
In the middle of a cascade the handlers still to run have left their promises,
so the invariant also takes their list, with the promise that each one tells of
(`from`); running the first handler of the list keeps it, and so a cascade of any
length does. Between actions the list is empty and a settled promise keeps no
handlers, so what an aggregate has still to hear of is pending: that is the
property. The hypothesis is inherited from `Inv`.

### The scheduler

`Types` says what every variable holds; all the rest is for any number of slots,
generations, invocations and calls. `OrderInv` says that the queue holds what was
scheduled and not yet taken, in order, and that the drainer waits for one drive
at a time. `RegistryInv` says that an invocation that is still to begin is named
by one call of the stack or one deferred entry, and owns no context, so the
context it begins with is nobody else's; that a drive on nobody's behalf, and the
continuation it leaves, is not an owner's, so that the plain free at its end
takes no owner's context away; and that a name with an old generation is never a
live one. Both hold with handlers that call the runtime and without.

`QuietInv` is for `QuiesceIsQuiet`, with `HandlerCalls = FALSE`, for with them
the property is false (see Noted). The runtime resolves `quiesce()` when
`_inFlightDrives` is empty, and that is not the set of drives in flight: a drive
enters it once its loop has yielded, and is in it for a while after it left
`_driving`. The invariant relates the slots with a drive, the count, and the
calls on the stack: each drive is counted, or is still to be tracked by exactly
one call, or is the one whose end is being called; and a call to track a drive
stands right behind the frame of its loop, which is why a throw, which unwinds
to the innermost frame, never skips one.

The theorems of `RuntimeWakes_proofs` are for `Abortable = {}`: an abort frees a
context under its drive, which then runs whatever comes to its slot (see Noted).
All but `DutyIsHeld` are false with aborts, and of `DutyIsHeld` TLC finds no
violation there, but its proof rests on the same invariant, `SafeInv`. What is
needed is one invariant for drives and wakes together, because each half rests on the
other. A drive keeps its context (`DriveInv`) if nothing frees the
context meanwhile; what could is the reported end of an earlier drive of the
slot, so no later drive may start before that end is reported; and drives start
from wakes. So `WakeInv` follows the wake from the promise to the drive: the
airlock's queue, a call on the stack, the wake held back for an unwinding drive or
a quiesce, a call again. A context has at most one, wherever it is; none while it
is in a loop, parked or ended; and one while it is ready and not in a loop. The
slot's drive has one frame on the stack while its loop runs (`OneFrame`), and
whoever is named as the owner of a drive or of its end owns that context
(`OwnersAgree`). `QueueInv` adds that a queue with no drainer has a call on the
stack that will look at it. `CareInv` says what becomes of a context and of a
call's handle: who frees a context is known while it is driven (`ReclaimSlot`);
the duty of a call that parked stands in its slot from the drive's `.then` on,
for that generation, and in no context that an invocation owns (`DutySlot`); so
that the continuation that frees the context is the one that drops the handle.
`FinishedAreReclaimed` also asks that the fuel hook never declines, for then the
embedder's `run(slot)` may drive a context that nobody frees (see Noted). TLC
found no violation of `CareInv` on the instance of `scheduler` and its variations.

### What is only model-checked

- The compiler, whose definitions follow recursive data with RECURSIVE operators,
  and `Collector`, whose content is layout: TLAPS cannot prove by induction over
  data what a walker computes.
- Liveness: `ReadTerminates`, `InvocationSettles`, `QuiesceResolves`, `ParkEnds`.

## Findings

- *Stale approval* (`stale_approval`). `_guardGrantFinalize` compares the
  continuation id and not the generation, and a new tenant counts from zero: an
  approval chain can answer the grant request of the slot's next tenant. The
  comments and a test say it is a no-op.
- *Scopes of braces* (`codegen_scopes`). `break` and `continue` pop the scopes of
  switches only (`parser.js:2967`, `:3014`), so those of the braces they leave
  stay pushed, and the SCOPE_POP of a for-of loop pops one of them in place of
  the loop's own (against `parser.js:2841-2843`). In
  `let x = "outside"; for (x of [1,2]) { if (ask()) { continue; } log(x) } log(x)`
  the last `log` shows 2 after two continues; a `continue` in the inner of two
  for-of loops may end the outer one early, as they share a hidden name.

### Noted, without a run

Seen while modelling; where a property fails for it, it is left out of the
instance that checks the property, as said. Where a configuration is named, it is
kept beside the modules and shows the property violated.

Rings and ledger:
- Cursor 0, documented as the oldest retained entry, is compared like any cursor
  and rejected once the head is more than half the index space ahead
  (`ring-publication.js:111-112`, `:272`).
- A walk can report an activity with the zeroes of its own `free()`, or the ids
  of its successor, where the comments promise the old entry intact or FREE
  (`ledger.js:172`, `:39-41`, `:166-168`). `WalkNeverOlder` is what does hold.

Scheduler:
- `runClosureCall` does not look at `_quiesced` again after `backpressure()`: it
  allocates and marshals after `quiesce()` has resolved (`runtime.js:2946`).
- A drive that awaits the fuel hook runs whatever its slot holds afterwards; the
  invocation that got the slot meanwhile is refused ("already driving")
  (`runtime.js:2611`). The refusal can also throw out of the middle of
  `resume()`. So `DriveOwnsContext`, `NoLostWake`, `QueueIsServed` and
  `FinishedIsReclaimed` are claimed only where no invocation is aborted.
- `quiesce()` from a capability handler in a drive's first synchronous part
  resolves at once (`runtime.js:630`, `:1920`): `QuiesceIsQuiet` fails with
  `HandlerCalls`.
- `resume()` before the drives have drained leaves the promise of `quiesce()`
  pending until a later quiesce drains.
- `run(slot)` on a closure call or child that ran out of fuel drives it with no
  owner, and it is not freed when it ends (`runtime.js:783`):
  `FinishedIsReclaimed` is checked where the fuel hook refuels or waits.

Suspension:
- A resolver checks generation and continuation id (`airlock.js:5397-5402`), and
  its own delivery changes neither, nor does an await. Until the context parks on
  another call, a second call of it, or of `reject` after it, pushes another value
  and clears the exit condition, of a later await too. The comments speak of a
  suspension that is consumed and of stale callbacks that are rejected (`:5399`,
  `:5457`). `OwnAnswer` fails (`MCLateResolver.cfg`).
- An answer for which the heap has no room waits in the map `_deferredMarshals`,
  and its durable entry is freed at once (`airlock.js:5464-5468`). A process that
  starts from an image taken then, even of a quiesced runtime, has a context
  parked on a call that nothing leads to, though `runtime/SPEC.md:422-436` calls
  that image safe and its parked set complete. `EntriesMatchParks` fails
  (`MCLostAnswer.cfg`).
- A restart that loses an answer also loses the wakes that are queued
  (`airlock.js:389`), and with them the contexts that were ready.
- `resumeGrantRequest`'s reject path makes no identity check
  (`airlock.js:6540-6561`).

Membrane and airlock:
- `_appendToIdList` holds its old offset over a compaction (`index.js:1962-1980`):
  with a smaller pool `GrantListsExact` fails.
- `markAsRootGrant` sets the flag before it knows that the list has room
  (`index.js:2463`).
- A settlement under memory pressure may reap a handle its callback has just
  registered (`FreshResolution = TRUE`).
- `memberInspectors` is not pruned with the other maps (`airlock.js:7523-7543`).
- A settlement marks the promise settled and frees its entry before it finds
  room for its reactions, and loses its waiters if there is none
  (`airlock.js:8043`, against `:7955-7960`).
- The table of object handles is keyed by heap pointers that a collection moves
  (`updateClosurePointersAfterGC`, `index.js:2892-2945`); so is the report of
  handled rejections.
- `triggerRevocationHandler` pops enclosing tries of the same frame
  (`airlock.js:6656-6664`).

Collector, against "every pointer-bearing value and root must participate in both
marking and forwarding", heap pointers staged in request blocks among them
(`INTERNALS.md:264-269`); `ReachablePreserved` fails with each of the first seven:
- A DataView value holds the address of a typed-array descriptor
  (`interpreter.wat:91108`), but neither the marker nor the updater has a case for
  it, though "other types don't reference heap" (`collector.js:1616`): a
  collection neither keeps the descriptor nor follows it
  (`MCCollectorDataView.cfg`).
- String arguments of a promise's method and a string receiver of an async call
  are marked (`collector.js:1073-1095`), and keep their old number (`:4178-4182`).
  No handler reads the former (`MCCollectorStrings.cfg`).
- A settlement's arguments lie above the pending top and are neither marked nor
  forwarded, and their address is taken for fixed memory (`collector.js:2607-2619`)
  though the pending block moves (`MCCollectorSettle.cfg`).
- An awaited value that is no promise is found by the address of a pending slot,
  and nothing follows it (`collector.js:1034-1040`, `interpreter.wat:93322-93333`;
  `MCCollectorAwaitValue.cfg`).
- The generator that a caller waits for is in its request block, which no walker
  of either collector follows; each later run of the caller's slot reads it
  (`airlock.js:2441`, `session.js:842-845`; `MCCollectorGenerator.cfg`).
- CTX.WAITING_ON is a heap pointer that neither collector marks or forwards;
  `cancelContext` takes the waiter off a list at the old address
  (`airlock.js:5979-5982`). A test calls a collection during a pending await safe
  by construction (`tests/fuel/safepoint_gc_audit_test.js:510-511`;
  `MCCollectorWaiting.cfg`).
- CTX.CONSTRUCTION_DUTY is "a GC root in both collectors" (`interpreter.wat:3179`);
  the one in `collector.js` does not trace it, the default one does
  (`interpreter.wat:102847-102853`; `MCCollectorDuty.cfg`).
- A function that starts at an instruction other than zero has its start taken
  for a pointer (`collector.js:2004`, `:3456-3468`): `ReachablePreserved` fails
  with `Starts = {0, 29}`; every passing run has `Starts = {0}`.
- Once an async call is answered, its caller keeps the exit condition until it
  runs, and the closure, receiver and strings its request names float: `HeapTight`
  and `StringsTight` allow for that.
- The argument of a generator's `next()` lies in the request block too, and
  EXIT_GENERATOR_CALL and EXIT_EXTERNAL_PROPERTY_SET stage pointers no walker
  follows (`interpreter.wat:92365-92399` for the latter's receiver at +20).
- `rearmChain` uses the receiver's pointer it captured before an awaited abort
  (`airlock.js:4430-4443`, `:4474-4480`), which a collection may have moved.
- Nothing allocates an OBJ.PARAM_LIST (`constants.js:1448`), of which both
  collectors have cases (`collector.js:1671`, `:3879`); the model has none.

Compiler (those about forms `Syntax` has are visible in `Codegen`):
- `grant p {} denied {}` without a parameter leaves the rejected array on the
  stack (`parser.js:3465-3478`, `airlock.js:6395-6409`); the verifier says so
  (`codegen-verify.js:99-100`).
- Temporaries of spreads and patterns in a loop's condition or unbraced body are
  declared again each round.
- `++a[e]`, `a[e]++` and `a[e] op= v` evaluate `e` twice, and copy absolute jump
  targets with it.
- `new a.b()` leaves `pendingMethodCall` set; `delete a[b.c]` deletes `b.c`.
- An optional chain short-circuits one link only; `a.b?.()` loses `this`.
- `(x++)`, `(yield x)`, `(x => ...)` and `++this.n` inside a grouping take
  other paths than outside.
- `switch` emits a SCOPE_PUSH for each case and one SCOPE_POP (`parser.js:3505`).
- The verifier's coverage comment names effects its tables do not have
  (`codegen-verify.js:108`).
- An empty object pattern does not reject null; object rest ignores computed
  keys; a use of a private name declares it; pattern parameters without default
  are bound in reverse; a function in a method's default parameter consumes the
  method's `super`.

## Not modelled

The runtime state cell and live patching (see Plan). Regular expressions,
schemas, msgpack and marshalling are pure conversions of data. Sessions and CLI
are I/O around the runtime. Of the interpreter: classes, generators, async
functions, number types, built-ins and fuel. Of the parser: tokens, skims and
rewinds, source positions, the limit on parameters. Of the membrane: captured
lists, endorsements, the value arena, the mutation log, snapshots. Of the
collector: OBJ.PARAM_LIST, and the requests that have no branch in its walkers but
the generator's object (generator calls, the argument of `next()`, class links,
the external `instanceof`, `has` and `delete`, the receiver of a property set).
Of the scheduler: memory pressure, `bootOnly`, host construction. `rebind()` of
the ledger, and the relocation of images on restore.
