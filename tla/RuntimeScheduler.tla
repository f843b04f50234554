--------------------------- MODULE RuntimeScheduler ---------------------------
(***************************************************************************)
(* The slot driver of SandScript's Runtime: which context is driven when,  *)
(* who owns it, and how quiesce, resume, abort and terminate cut across    *)
(* that (runtime/runtime.js, with the context table of memory-image.js and *)
(* the wake queue of airlock.js).                                          *)
(*                                                                         *)
(* JavaScript runs a job to completion.  What one job still has to do,     *)
(* synchronously, is the call stack `stack`, a sequence of items with the  *)
(* innermost call first; promise continuations and the embedder take their *)
(* turn only when it is empty (an embedder's call made inside a capability *)
(* handler, while a drive runs, is HandlerCalls).  Continuations may run   *)
(* in any order: every order JavaScript's queue produces is among them.    *)
(*                                                                         *)
(* A context is the pair of a slot and a generation.  What a drone computes*)
(* is left out: a run of a context ends in one of the ways session.run     *)
(* reports, and a context has at most MaxSteps runs.                       *)
(*                                                                         *)
(* Mutants, each one plausible slip in the code, are named ...Mutant and   *)
(* stand before the definition they would replace.                         *)
(***************************************************************************)
EXTENDS Integers, Sequences, FiniteSetsExt, SequencesExt

CONSTANTS
    NumSlots,       \* context slots the heap has room for; slot 0 is the root's
    MaxGeneration,  \* allocations of one slot before its generation is exhausted
    MaxSteps,       \* runs of one context before it ends
    Invocations,    \* calls of invokeClosure / invokeExport
    NumCalls,       \* calls of scheduleClosureCall, one ordered stream, dropOnComplete
    Abortable,      \* invocations whose signal may abort
    FuelHooks,      \* onFuelExhausted: may "refuel" at once, "decline", "await"
    HandlerCalls,   \* whether capability handlers call the runtime's methods
    MaxQuiesces,    \* calls of quiesce
    MayTerminate,   \* whether the embedder terminates the runtime
    None

ASSUME SchedulerAssumption ==
    /\ NumSlots \in Nat \ {0} /\ MaxGeneration \in Nat \ {0} /\ MaxSteps \in Nat
    /\ Abortable \subseteq Invocations
    /\ FuelHooks \subseteq {"refuel", "decline", "await"}
    /\ HandlerCalls \in BOOLEAN /\ MayTerminate \in BOOLEAN /\ MaxQuiesces \in Nat
    /\ NumCalls \in Nat /\ None \notin Invocations \cup Nat

VARIABLES
    generation, exec, steps,       \* the context table: identity, state, runs so far
    promises, spawned,             \* host promises contexts wait on; the airlock's wake queue
    stack,                         \* what the running job still has to call
    driving, phase, result, by,    \* per slot: the drive in flight, and whose it is
    jobs,                          \* continuations of finished drives
    inFlight, inFlightDrives,      \* the two counts the runtime keeps of them
    deferredWakes,                 \* per slot: a wake held back for this generation
    quiesced, waiting, quiet, quiesces, \* quiesce(): flag, pending promise, resolved, count
    terminated,
    inv, slotOf, genOf,            \* per invocation: its promise, its context
    waiter, deferredInvokes, deferredCancels,
    queue, drainer, current,       \* the closure-call queue and its drainer
    delivery, dropped, cleanup     \* per call: receipt, handle dropped; per slot: parked duty

context == <<generation, exec, steps>>
wakes == <<promises, spawned>>
drives == <<driving, phase, result, by, jobs, inFlight, inFlightDrives>>
quiescence == <<quiesced, waiting, quiet, quiesces>>
invokes == <<inv, slotOf, genOf, waiter, deferredInvokes, deferredCancels>>
closures == <<queue, drainer, current, delivery, dropped, cleanup>>
vars == <<context, wakes, stack, drives, deferredWakes, quiescence, terminated,
          invokes, closures>>

Slots == 0 .. NumSlots - 1
Root == 0
Calls == 1 .. NumCalls
Generations == 0 .. MaxGeneration
Runnable == {"ready", "paused"}
Terminal == {"done", "error", "terminated"}
Parked == {"parked", "paused", "quiesced"}
Settled == {"value", "error", "aborted", "terminated", "refused"}

Identity(s, g) == [slot |-> s, gen |-> g]
Item(op, s, g, id) == [op |-> op, slot |-> s, gen |-> g, id |-> id]
NoDuty == [gen |-> 0, call |-> None]

Live(s, g) == exec[s] # "free" /\ generation[s] = g

Init ==
    /\ generation = [s \in Slots |-> IF s = Root THEN 1 ELSE 0]
    /\ exec = [s \in Slots |-> IF s = Root THEN "ready" ELSE "free"]
    /\ steps = [s \in Slots |-> 0]
    /\ promises = {} /\ spawned = <<>> /\ stack = <<>>
    /\ driving = [s \in Slots |-> 0] /\ phase = [s \in Slots |-> "none"]
    /\ result = [s \in Slots |-> "none"] /\ by = [s \in Slots |-> <<"none", None>>]
    /\ jobs = {} /\ inFlight = 0 /\ inFlightDrives = 0
    /\ deferredWakes = [s \in Slots |-> 0]
    /\ quiesced = FALSE /\ waiting = FALSE /\ quiet = FALSE /\ quiesces = 0
    /\ terminated = FALSE
    /\ inv = [i \in Invocations |-> "none"]
    /\ slotOf = [i \in Invocations |-> -1] /\ genOf = [i \in Invocations |-> 0]
    /\ waiter = [s \in Slots |-> None]
    /\ deferredInvokes = <<>> /\ deferredCancels = <<>>
    /\ queue = <<>> /\ drainer = "idle" /\ current = None
    /\ delivery = [c \in Calls |-> "none"] /\ dropped = [c \in Calls |-> FALSE]
    /\ cleanup = [s \in Slots |-> NoDuty]

-----------------------------------------------------------------------------
(* Whose turn it is, and what is on the stack.                             *)

Top == Head(stack)
Calling(op) == stack # <<>> /\ Top.op = op

\* A call still to be made for the context that slot s now holds.
Pending(op, s) == \E k \in DOMAIN stack :
    stack[k].op = op /\ stack[k].slot = s /\ stack[k].gen = generation[s]

\* Between two jobs; and where the embedder's code may run.
BetweenJobs == stack = <<>>
HostTurn == BetweenJobs \/ (HandlerCalls /\ Calling("loop") /\ exec[Top.slot] \in Runnable)

\* The context table: allocateContext takes the first free slot and advances
\* its generation; it throws when there is none or its generations are used up.
FreeSlots == {s \in Slots : exec[s] = "free"}
CanAllocate == FreeSlots # {} /\ generation[Min(FreeSlots)] < MaxGeneration
NextSlot == Min(FreeSlots)
NextGeneration == generation[NextSlot] + 1
Allocate(state) ==
    /\ generation' = [generation EXCEPT ![NextSlot] = @ + 1]
    /\ exec' = [exec EXCEPT ![NextSlot] = state]
    /\ steps' = [steps EXCEPT ![NextSlot] = 0]

\* A bug: the end of a drive that parked is taken for the end of its context.
ContinuationMutant(who, s, g, r) ==
    IF who[1] \in {"closure", "invoke", "background"}
      THEN {[by |-> who, slot |-> s, gen |-> g, result |-> r]}
      ELSE {}

\* A drive's continuation, where it has an effect.
Continuation(who, s, g, r) ==
    IF who[1] = "closure" \/ (who[1] \in {"invoke", "background"} /\ r \in Terminal)
      THEN {[by |-> who, slot |-> s, gen |-> g, result |-> r]}
      ELSE {}

\* _driveSlot refuses a slot that is already being driven, whatever the
\* generation, by throwing.
AlreadyDriving(s) == ~quiesced /\ driving[s] # 0

\* _driveSlot(s) on behalf of `who`, where it does not throw; `rest` is what the
\* caller does afterwards.  Every caller sees termination first.
DriveSlot(s, g, who, rest) ==
    \/ /\ quiesced
       /\ jobs' = jobs \cup Continuation(who, s, g, "quiesced")
       /\ deferredWakes' = [deferredWakes EXCEPT ![s] = g]
       /\ cleanup' = IF who[1] = "closure"
                       THEN [cleanup EXCEPT ![s] = [gen |-> g, call |-> who[2]]]
                       ELSE cleanup
       /\ stack' = rest
       /\ UNCHANGED <<driving, phase, result, by, inFlight, inFlightDrives>>
    \/ /\ ~quiesced /\ driving[s] = 0
       /\ driving' = [driving EXCEPT ![s] = g]
       /\ phase' = [phase EXCEPT ![s] = "loop"]
       /\ by' = [by EXCEPT ![s] = who]
       /\ inFlight' = inFlight + 1
       /\ stack' = <<Item("loop", s, g, None), Item("track", s, g, None)>> \o rest
       /\ UNCHANGED <<result, jobs, inFlightDrives, deferredWakes, cleanup>>

\* A throw leaves every call up to the innermost drive loop, whose drive it
\* ends in error, or else the whole job.
Frames(calls) == {k \in DOMAIN calls : calls[k].op \in {"loop", "return"}}
Throw(calls) ==
    IF Frames(calls) = {}
      THEN stack' = <<>> /\ UNCHANGED <<phase, result>>
      ELSE LET k == Min(Frames(calls)) IN
           /\ stack' = SubSeq(calls, k + 1, Len(calls))
           /\ phase' = [phase EXCEPT ![calls[k].slot] = "returned"]
           /\ result' = [result EXCEPT ![calls[k].slot] = "error"]

-----------------------------------------------------------------------------
(* driveLoop, one disjunct per way session.run returns.                    *)

\* The drive's loop returns r, at once or after it has made `calls`.
LoopReturn(s, r) ==
    /\ phase' = [phase EXCEPT ![s] = "returned"]
    /\ result' = [result EXCEPT ![s] = r]
    /\ stack' = Tail(stack)
ReturnAfter(calls, s, r) ==
    /\ stack' = calls \o <<Item("return", s, Top.gen, r)>> \o Tail(stack)
    /\ UNCHANGED <<phase, result>>

Drain == Item("drain", Root, 0, None)
Wake(s, g) == Item("wake", s, g, None)

\* The loop runs whatever context the slot holds.
Run(s) == Calling("loop") /\ Top.slot = s /\ ~terminated /\ exec[s] \in Runnable
Step(s) == [steps EXCEPT ![s] = @ + 1]

RunEnds(s) ==
    /\ Run(s)
    /\ \/ exec' = [exec EXCEPT ![s] = "done"] /\ ReturnAfter(<<Drain>>, s, "done")
       \/ exec' = [exec EXCEPT ![s] = "failed"] /\ ReturnAfter(<<Drain>>, s, "error")
    /\ UNCHANGED <<generation, steps, wakes, driving, by, jobs, inFlight, inFlightDrives,
                   deferredWakes, quiescence, terminated, invokes, closures>>

\* await or a suspended host call: a promise is left to wake the context.
RunParks(s) ==
    /\ Run(s) /\ steps[s] < MaxSteps
    /\ exec' = [exec EXCEPT ![s] = "parked"] /\ steps' = Step(s)
    /\ promises' = promises \cup {Identity(s, generation[s])}
    /\ LoopReturn(s, "parked")
    /\ UNCHANGED <<generation, spawned, driving, by, jobs, inFlight, inFlightDrives,
                   deferredWakes, quiescence, terminated, invokes, closures>>

\* Out of fuel: refuelled at once, left parked, or awaiting the hook's promise.
RunPauses(s) ==
    /\ Run(s) /\ steps[s] < MaxSteps
    /\ exec' = [exec EXCEPT ![s] = "paused"] /\ steps' = Step(s)
    /\ \/ "refuel" \in FuelHooks
          /\ UNCHANGED <<stack, phase, result>>
       \/ "decline" \in FuelHooks /\ LoopReturn(s, "paused")
       \/ "await" \in FuelHooks
          /\ phase' = [phase EXCEPT ![s] = "hook"]
          /\ stack' = Tail(stack) /\ UNCHANGED result
    /\ UNCHANGED <<generation, wakes, driving, by, jobs, inFlight, inFlightDrives,
                   deferredWakes, quiescence, terminated, invokes, closures>>

\* async_call or promise_method: the child context is dispatched, the loop goes on.
RunSpawns(s) ==
    /\ Run(s) /\ steps[s] < MaxSteps /\ CanAllocate
    /\ generation' = [generation EXCEPT ![NextSlot] = @ + 1]
    /\ exec' = [exec EXCEPT ![NextSlot] = "ready"]
    /\ steps' = [steps EXCEPT ![s] = @ + 1, ![NextSlot] = 0]
    /\ stack' = <<Wake(NextSlot, NextGeneration)>> \o stack
    /\ UNCHANGED <<wakes, drives, deferredWakes, quiescence, terminated, invokes, closures>>

\* async_complete or async_rejected: the promise's waiter is made ready and
\* handed to the dispatcher directly, past the airlock's queue.
RunCompletes(s) ==
    /\ Run(s)
    /\ \E id \in promises :
          /\ id.slot # s /\ Live(id.slot, id.gen) /\ exec[id.slot] = "parked"
          /\ exec' = [exec EXCEPT ![s] = "done", ![id.slot] = "ready"]
          /\ promises' = promises \ {id}
          /\ ReturnAfter(<<Wake(id.slot, id.gen), Drain>>, s, "done")
    /\ UNCHANGED <<generation, steps, spawned, driving, by, jobs, inFlight,
                   inFlightDrives, deferredWakes, quiescence, terminated, invokes, closures>>

\* The end of a run that had calls to make.
RunReturns(s) ==
    /\ Calling("return") /\ Top.slot = s
    /\ LoopReturn(s, Top.id)
    /\ UNCHANGED <<context, wakes, driving, by, jobs, inFlight, inFlightDrives,
                   deferredWakes, quiescence, terminated, invokes, closures>>

\* A slot with nothing to run in it: a freed context, or one that is parked.
RunStrays(s) ==
    /\ Calling("loop") /\ Top.slot = s /\ ~terminated /\ exec[s] \notin Runnable
    /\ LoopReturn(s, "error")
    /\ UNCHANGED <<context, wakes, driving, by, jobs, inFlight, inFlightDrives,
                   deferredWakes, quiescence, terminated, invokes, closures>>

LoopTerminated(s) ==
    /\ Calling("loop") /\ Top.slot = s /\ terminated
    /\ LoopReturn(s, "terminated")
    /\ UNCHANGED <<context, wakes, driving, by, jobs, inFlight, inFlightDrives,
                   deferredWakes, quiescence, terminated, invokes, closures>>

\* The rest of _driveSlot, once the loop has yielded: the drive's promise joins
\* _inFlightDrives.
TrackDrive ==
    /\ Calling("track")
    /\ inFlightDrives' = inFlightDrives + 1
    /\ stack' = Tail(stack)
    /\ UNCHANGED <<context, wakes, driving, phase, result, by, jobs, inFlight,
                   deferredWakes, quiescence, terminated, invokes, closures>>

\* The fuel hook's promise resolves: with a budget the loop runs the slot again.
HookResolves(s) ==
    /\ BetweenJobs /\ phase[s] = "hook"
    /\ \/ /\ phase' = [phase EXCEPT ![s] = "loop"]
          /\ stack' = <<Item("loop", s, driving[s], None)>>
          /\ UNCHANGED result
       \/ /\ "decline" \in FuelHooks
          /\ phase' = [phase EXCEPT ![s] = "returned"]
          /\ result' = [result EXCEPT ![s] = "paused"]
          /\ UNCHANGED stack
    /\ UNCHANGED <<context, wakes, driving, by, jobs, inFlight, inFlightDrives,
                   deferredWakes, quiescence, terminated, invokes, closures>>

\* A bug: a closure call's duty is not published when its drive parks.
DriveThenMutant(s) ==
    /\ BetweenJobs /\ phase[s] = "returned"
    /\ phase' = [phase EXCEPT ![s] = "unwound"]
    /\ UNCHANGED <<context, wakes, stack, driving, result, by, jobs, inFlight,
                   inFlightDrives, deferredWakes, quiescence, terminated, invokes,
                   closures>>

\* The drive's .then: lifecycle.onParked publishes a closure call's duty.
DriveThen(s) ==
    /\ BetweenJobs /\ phase[s] = "returned"
    /\ phase' = [phase EXCEPT ![s] = "unwound"]
    /\ cleanup' = IF by[s][1] = "closure" /\ result[s] \in Parked
                    THEN [cleanup EXCEPT ![s] = [gen |-> driving[s], call |-> by[s][2]]]
                    ELSE cleanup
    /\ UNCHANGED <<context, wakes, stack, driving, result, by, jobs, inFlight,
                   inFlightDrives, deferredWakes, quiescence, terminated, invokes,
                   queue, drainer, current, delivery, dropped>>

\* A bug: the wake held back while the drive unwound is not dispatched.
DriveFinallyMutant(s) ==
    /\ BetweenJobs /\ phase[s] = "unwound"
    /\ driving' = [driving EXCEPT ![s] = 0]
    /\ phase' = [phase EXCEPT ![s] = "none"]
    /\ result' = [result EXCEPT ![s] = "none"]
    /\ by' = [by EXCEPT ![s] = <<"none", None>>]
    /\ jobs' = jobs \cup Continuation(by[s], s, driving[s], result[s])
    /\ deferredWakes' = [deferredWakes EXCEPT ![s] = 0]
    /\ stack' = <<Item("finally", s, driving[s], None)>>
    /\ UNCHANGED <<context, wakes, inFlight, inFlightDrives, quiescence, terminated,
                   invokes, closures>>

\* The drive's .finally, up to the dispatch of a wake it held back ...
DriveFinally(s) ==
    /\ BetweenJobs /\ phase[s] = "unwound"
    /\ driving' = [driving EXCEPT ![s] = 0]
    /\ phase' = [phase EXCEPT ![s] = "none"]
    /\ result' = [result EXCEPT ![s] = "none"]
    /\ by' = [by EXCEPT ![s] = <<"none", None>>]
    /\ jobs' = jobs \cup Continuation(by[s], s, driving[s], result[s])
    /\ LET held == deferredWakes[s] = driving[s]
       IN /\ deferredWakes' = IF held THEN [deferredWakes EXCEPT ![s] = 0] ELSE deferredWakes
          /\ stack' = (IF held /\ result[s] \notin Terminal
                         THEN <<Wake(s, driving[s])>> ELSE <<>>)
                      \o <<Item("finally", s, driving[s], None)>>
    /\ UNCHANGED <<context, wakes, inFlight, inFlightDrives, quiescence, terminated,
                   invokes, closures>>

\* Bugs: the drive stays in _inFlightDrives; the waiters of quiesce() are looked
\* at before it leaves.
FinallyRestMutant ==
    /\ Calling("finally")
    /\ stack' = Tail(stack)
    /\ inFlight' = inFlight - 1
    /\ UNCHANGED <<context, wakes, driving, phase, result, by, jobs, inFlightDrives,
                   deferredWakes, quiescence, terminated, invokes, closures>>

FinallyRestLateMutant ==
    /\ Calling("finally")
    /\ stack' = Tail(stack)
    /\ inFlight' = inFlight - 1 /\ inFlightDrives' = inFlightDrives - 1
    /\ IF quiesced /\ inFlightDrives = 0 /\ waiting
         THEN waiting' = FALSE /\ quiet' = TRUE
         ELSE UNCHANGED <<waiting, quiet>>
    /\ UNCHANGED <<context, wakes, driving, phase, result, by, jobs, deferredWakes,
                   quiesced, quiesces, terminated, invokes, closures>>

\* ... and the rest: the counts, and the promises quiesce() gave out.
FinallyRest ==
    /\ Calling("finally")
    /\ stack' = Tail(stack)
    /\ inFlight' = inFlight - 1 /\ inFlightDrives' = inFlightDrives - 1
    /\ IF quiesced /\ inFlightDrives' = 0 /\ waiting
         THEN waiting' = FALSE /\ quiet' = TRUE
         ELSE UNCHANGED <<waiting, quiet>>
    /\ UNCHANGED <<context, wakes, driving, phase, result, by, jobs, deferredWakes,
                   quiesced, quiesces, terminated, invokes, closures>>

-----------------------------------------------------------------------------
(* Wakes.                                                                  *)

\* A host promise settles.  For the context that still waits on it, the value is
\* delivered and the identity queued; for any other it is stale and discarded.
Settle ==
    /\ BetweenJobs
    /\ \E id \in promises :
          /\ promises' = promises \ {id}
          /\ IF Live(id.slot, id.gen) /\ exec[id.slot] = "parked"
               THEN /\ exec' = [exec EXCEPT ![id.slot] = "ready"]
                    /\ spawned' = IF Contains(spawned, id) THEN spawned
                                                           ELSE Append(spawned, id)
                    /\ stack' = <<Drain>>
               ELSE UNCHANGED <<exec, spawned, stack>>
    /\ UNCHANGED <<generation, steps, drives, deferredWakes, quiescence, terminated,
                   invokes, closures>>

\* _drainPendingSpawned: nothing while quiesced or terminated.
DrainSpawned ==
    /\ Calling("drain")
    /\ IF quiesced \/ terminated
         THEN spawned' = spawned /\ stack' = Tail(stack)
         ELSE /\ spawned' = <<>>
              /\ stack' = [k \in DOMAIN spawned |-> Wake(spawned[k].slot, spawned[k].gen)]
                          \o Tail(stack)
    /\ UNCHANGED <<context, promises, drives, deferredWakes, quiescence, terminated,
                   invokes, closures>>

WakeOwner(s, g) ==
    IF waiter[s] # None /\ genOf[waiter[s]] = g THEN <<"invoke", waiter[s]>>
    ELSE IF s = Root THEN <<"root", None>> ELSE <<"background", None>>

\* _dispatchWoken: a stale identity is dropped, a wake for a context that is
\* being driven or a quiesced runtime is held back, any other drives its slot.
DispatchWoken ==
    /\ Calling("wake")
    /\ LET s == Top.slot
           g == Top.gen
       IN \/ /\ ~Live(s, g) \/ (terminated /\ ~quiesced /\ driving[s] # g)
             /\ stack' = Tail(stack)
             /\ UNCHANGED <<drives, deferredWakes, cleanup>>
          \/ /\ Live(s, g) /\ (driving[s] = g \/ quiesced)
             /\ deferredWakes' = [deferredWakes EXCEPT ![s] = g]
             /\ stack' = Tail(stack)
             /\ UNCHANGED <<drives, cleanup>>
          \/ /\ Live(s, g) /\ ~terminated /\ ~quiesced /\ driving[s] = 0
             /\ DriveSlot(s, g, WakeOwner(s, g), Tail(stack))
          \/ /\ Live(s, g) /\ ~terminated /\ ~quiesced /\ driving[s] \notin {0, g}
             /\ Throw(Tail(stack))
             /\ UNCHANGED <<driving, by, jobs, inFlight, inFlightDrives, deferredWakes,
                            cleanup>>
    /\ UNCHANGED <<context, wakes, quiescence, terminated, invokes, queue, drainer,
                   current, delivery, dropped>>

-----------------------------------------------------------------------------
(* invokeClosure, and the signal that aborts it.                           *)

\* The owner's promise settles once; one that was refused stays so.
Outcome(i, r) == [inv EXCEPT ![i] = IF @ \in Settled THEN @ ELSE r]
OwnsSlot(i) == slotOf[i] # -1 /\ waiter[slotOf[i]] = i

Invoke(i) ==
    /\ HostTurn /\ inv[i] = "none"
    /\ \/ terminated
          /\ inv' = Outcome(i, "terminated") /\ UNCHANGED <<deferredInvokes, stack>>
       \/ ~terminated /\ quiesced
          /\ inv' = Outcome(i, "deferred") /\ deferredInvokes' = Append(deferredInvokes, i)
          /\ UNCHANGED stack
       \/ ~terminated /\ ~quiesced
          /\ inv' = Outcome(i, "starting") /\ stack' = <<Item("begin", Root, 0, i)>> \o stack
          /\ UNCHANGED deferredInvokes
    /\ UNCHANGED <<context, wakes, drives, deferredWakes, quiescence, terminated,
                   slotOf, genOf, waiter, deferredCancels, closures>>

\* The closure's handle or grants are gone, the context table is full, or its
\* arguments do not marshal: the last after a context was allocated, and freed.
BeginInvokeFails(i) ==
    /\ inv' = Outcome(i, IF terminated THEN "terminated" ELSE "error")
    /\ \/ UNCHANGED generation
       \/ ~terminated /\ inv[i] \notin Settled /\ CanAllocate
          /\ generation' = [generation EXCEPT ![NextSlot] = @ + 1]
    /\ stack' = Tail(stack)
    /\ UNCHANGED <<exec, steps, drives, deferredWakes, slotOf, genOf, waiter, cleanup>>

\* The owner is registered before _driveSlot, which may throw: into the promise's
\* executor (op "begin"), or out of resume() (op "rebegin").
BeginInvokeDrives(i) ==
    /\ ~terminated /\ inv[i] \notin Settled /\ CanAllocate
    /\ Allocate("ready")
    /\ slotOf' = [slotOf EXCEPT ![i] = NextSlot]
    /\ genOf' = [genOf EXCEPT ![i] = NextGeneration]
    /\ waiter' = [waiter EXCEPT ![NextSlot] = i]
    /\ \/ /\ DriveSlot(NextSlot, NextGeneration, <<"invoke", i>>, Tail(stack))
          /\ inv' = Outcome(i, "live")
       \/ /\ AlreadyDriving(NextSlot)
          /\ IF Top.op = "begin"
               THEN inv' = Outcome(i, "refused") /\ stack' = Tail(stack)
                    /\ UNCHANGED <<phase, result>>
               ELSE inv' = Outcome(i, "live") /\ Throw(Tail(stack))
          /\ UNCHANGED <<driving, by, jobs, inFlight, inFlightDrives, deferredWakes, cleanup>>

BeginInvoke ==
    /\ stack # <<>> /\ Top.op \in {"begin", "rebegin"}
    /\ BeginInvokeFails(Top.id) \/ BeginInvokeDrives(Top.id)
    /\ UNCHANGED <<wakes, quiescence, terminated, deferredInvokes, deferredCancels,
                   queue, drainer, current, delivery, dropped>>

\* cancelContext takes every wake of its slot, of any generation, off the queue.
WakesWithout(s) ==
    LET kept[k \in 0 .. Len(spawned)] ==
          IF k = 0 THEN <<>>
          ELSE IF spawned[k].slot = s THEN kept[k - 1] ELSE Append(kept[k - 1], spawned[k])
    IN kept[Len(spawned)]

\* A bug: the cancelled owner stays in the registry.
CancelContextMutant(i) ==
    LET s == slotOf[i]
    IN /\ exec' = IF Live(s, genOf[i]) THEN [exec EXCEPT ![s] = "free"] ELSE exec
       /\ spawned' = WakesWithout(s)
       /\ deferredWakes' = [deferredWakes EXCEPT ![s] = 0]
       /\ inv' = Outcome(i, "aborted")
       /\ UNCHANGED waiter

\* _cancelInvoke of an owner with a context: cancelContext and the registry.
CancelContext(i) ==
    LET s == slotOf[i]
    IN /\ exec' = IF Live(s, genOf[i]) THEN [exec EXCEPT ![s] = "free"] ELSE exec
       /\ spawned' = WakesWithout(s)
       /\ deferredWakes' = [deferredWakes EXCEPT ![s] = 0]
       /\ waiter' = [waiter EXCEPT ![s] = None]
       /\ inv' = Outcome(i, "aborted")

\* The signal fires.
Abort(i) ==
    /\ HostTurn /\ i \in Abortable /\ ~Contains(deferredCancels, i)
    /\ \/ /\ inv[i] = "deferred" /\ ~OwnsSlot(i)
          /\ \/ \E k \in DOMAIN deferredInvokes :
                   deferredInvokes[k] = i /\ deferredInvokes' = RemoveAt(deferredInvokes, k)
             \/ ~Contains(deferredInvokes, i) /\ UNCHANGED deferredInvokes
          /\ inv' = Outcome(i, "aborted")
          /\ UNCHANGED <<exec, spawned, deferredWakes, waiter, deferredCancels>>
       \/ /\ OwnsSlot(i) /\ quiesced
          /\ deferredCancels' = Append(deferredCancels, i)
          /\ UNCHANGED <<exec, spawned, deferredWakes, waiter, inv, deferredInvokes>>
       \/ /\ OwnsSlot(i) /\ ~quiesced
          /\ CancelContext(i)
          /\ UNCHANGED <<deferredInvokes, deferredCancels>>
    /\ UNCHANGED <<generation, steps, promises, stack, drives, quiescence, terminated,
                   slotOf, genOf, closures>>

-----------------------------------------------------------------------------
(* quiesce, resume, terminate and run.                                     *)

\* A bug: quiesce() does not wait for the drives in flight.
QuiesceMutant ==
    /\ HostTurn /\ quiesces < MaxQuiesces /\ ~quiesced
    /\ quiesced' = TRUE /\ quiesces' = quiesces + 1 /\ quiet' = TRUE
    /\ UNCHANGED <<context, wakes, stack, drives, deferredWakes, waiting, terminated,
                   invokes, closures>>

Quiesce ==
    /\ HostTurn /\ quiesces < MaxQuiesces /\ ~quiesced
    /\ quiesced' = TRUE /\ quiesces' = quiesces + 1
    /\ IF inFlightDrives = 0 THEN quiet' = TRUE /\ UNCHANGED waiting
                             ELSE waiting' = TRUE /\ UNCHANGED quiet
    /\ UNCHANGED <<context, wakes, stack, drives, deferredWakes, terminated, invokes,
                   closures>>

\* The promises quiesce() gave out are not touched.
Resume ==
    /\ HostTurn /\ quiesced
    /\ quiesced' = FALSE /\ quiet' = FALSE
    /\ deferredCancels' = <<>>
    /\ stack' = [k \in DOMAIN deferredCancels |-> Item("cancel", Root, 0, deferredCancels[k])]
                \o <<Item("redispatch", Root, 0, None)>> \o stack
    /\ UNCHANGED <<context, wakes, drives, deferredWakes, waiting, quiesces, terminated,
                   inv, slotOf, genOf, waiter, deferredInvokes, closures>>

ResumeCancels ==
    /\ Calling("cancel")
    /\ stack' = Tail(stack)
    /\ IF OwnsSlot(Top.id) THEN CancelContext(Top.id)
                           ELSE UNCHANGED <<exec, spawned, deferredWakes, waiter, inv>>
    /\ UNCHANGED <<generation, steps, promises, drives, quiescence, terminated, slotOf,
                   genOf, deferredInvokes, deferredCancels, closures>>

\* A bug: resume() forgets the wakes held back while quiesced.
ResumeRedispatchesMutant ==
    /\ Calling("redispatch")
    /\ stack' = <<Drain, Item("reinvoke", Root, 0, None)>> \o Tail(stack)
    /\ deferredWakes' = [s \in Slots |-> 0]
    /\ UNCHANGED <<context, wakes, drives, quiescence, terminated, invokes, closures>>

\* The wakes held back, in any order, then the airlock's, the invocations and
\* the closure queue.
ResumeRedispatches ==
    /\ Calling("redispatch")
    /\ \E order \in SetToSeqs({s \in Slots : deferredWakes[s] # 0}) :
          stack' = [k \in DOMAIN order |-> Wake(order[k], deferredWakes[order[k]])]
                   \o <<Drain, Item("reinvoke", Root, 0, None)>> \o Tail(stack)
    /\ deferredWakes' = [s \in Slots |-> 0]
    /\ UNCHANGED <<context, wakes, drives, quiescence, terminated, invokes, closures>>

\* A bug: resume() does not kick the closure drainer.
ResumeReinvokesMutant ==
    /\ Calling("reinvoke")
    /\ deferredInvokes' = <<>>
    /\ stack' = [k \in DOMAIN deferredInvokes |-> Item("rebegin", Root, 0, deferredInvokes[k])]
                \o Tail(stack)
    /\ UNCHANGED <<context, wakes, drives, deferredWakes, quiescence, terminated, inv,
                   slotOf, genOf, waiter, deferredCancels, closures>>

ResumeReinvokes ==
    /\ Calling("reinvoke")
    /\ deferredInvokes' = <<>>
    /\ stack' = [k \in DOMAIN deferredInvokes |-> Item("rebegin", Root, 0, deferredInvokes[k])]
                \o <<Item("kick", Root, 0, None)>> \o Tail(stack)
    /\ UNCHANGED <<context, wakes, drives, deferredWakes, quiescence, terminated, inv,
                   slotOf, genOf, waiter, deferredCancels, closures>>

\* A bug: the invocations deferred by a quiesce are forgotten.
TerminateMutant ==
    /\ HostTurn /\ MayTerminate /\ ~terminated
    /\ terminated' = TRUE
    /\ inv' = [i \in Invocations |->
                 IF inv[i] \notin Settled /\ OwnsSlot(i) THEN "terminated" ELSE inv[i]]
    /\ waiter' = [s \in Slots |-> None]
    /\ deferredInvokes' = <<>> /\ deferredCancels' = <<>>
    /\ deferredWakes' = [s \in Slots |-> 0]
    /\ UNCHANGED <<context, wakes, stack, drives, quiescence, slotOf, genOf, closures>>

\* Every owner's promise settles; contexts are left to the in-flight drives.
Terminate ==
    /\ HostTurn /\ MayTerminate /\ ~terminated
    /\ terminated' = TRUE
    /\ inv' = [i \in Invocations |->
                 IF inv[i] \notin Settled /\ (OwnsSlot(i) \/ Contains(deferredInvokes, i))
                   THEN "terminated" ELSE inv[i]]
    /\ waiter' = [s \in Slots |-> None]
    /\ deferredInvokes' = <<>> /\ deferredCancels' = <<>>
    /\ deferredWakes' = [s \in Slots |-> 0]
    /\ UNCHANGED <<context, wakes, stack, drives, quiescence, slotOf, genOf, closures>>

\* run(slot), on a slot that is not run and not about to be: the program's first drive, or
\* the next one of a context that ran out of fuel.
RunSlot(s) ==
    /\ HostTurn /\ ~terminated
    /\ exec[s] = "paused" \/ (s = Root /\ exec[s] = "ready" /\ steps[s] = 0)
    /\ driving[s] = 0 /\ deferredWakes[s] = 0 /\ ~Pending("wake", s)
    /\ DriveSlot(s, generation[s],
                 IF waiter[s] # None THEN <<"invoke", waiter[s]>> ELSE <<"run", None>>, stack)
    /\ UNCHANGED <<context, wakes, quiescence, terminated, invokes, queue, drainer,
                   current, delivery, dropped>>

-----------------------------------------------------------------------------
(* What each drive's caller does when it ends.                             *)

FreeIfLive(s, g) == exec' = IF Live(s, g) THEN [exec EXCEPT ![s] = "free"] ELSE exec

\* _settleInvokeIfTerminal, with the context freed except by termination.
InvokeContinues(j) ==
    LET i == j.by[2]
    IN IF OwnsSlot(i)
         THEN /\ inv' = Outcome(i, CASE j.result = "done" -> "value"
                                     [] j.result = "error" -> "error"
                                     [] OTHER -> "terminated")
              /\ waiter' = [waiter EXCEPT ![slotOf[i]] = None]
              /\ deferredWakes' = [deferredWakes EXCEPT ![slotOf[i]] = 0]
              /\ IF j.result = "terminated" THEN UNCHANGED exec
                                            ELSE FreeIfLive(slotOf[i], genOf[i])
         ELSE UNCHANGED <<inv, waiter, deferredWakes, exec>>

\* A bug: a parked closure call's duty drops the handle and leaves the context.
BackgroundContinuesMutant(j) ==
    IF cleanup[j.slot].gen = j.gen
      THEN /\ dropped' = [dropped EXCEPT ![cleanup[j.slot].call] = TRUE]
           /\ cleanup' = [cleanup EXCEPT ![j.slot] = NoDuty]
           /\ UNCHANGED exec
      ELSE FreeIfLive(j.slot, j.gen) /\ UNCHANGED <<dropped, cleanup>>

\* runBackgroundDrive's finish: a parked closure call's duty, else a plain free.
BackgroundContinues(j) ==
    /\ FreeIfLive(j.slot, j.gen)
    /\ IF cleanup[j.slot].gen = j.gen
         THEN /\ dropped' = [dropped EXCEPT ![cleanup[j.slot].call] = TRUE]
              /\ cleanup' = [cleanup EXCEPT ![j.slot] = NoDuty]
         ELSE UNCHANGED <<dropped, cleanup>>

\* The tail of runClosureCall.
ClosureContinues(j) ==
    /\ drainer' = "next"
    /\ IF j.result \in Terminal
         THEN FreeIfLive(j.slot, j.gen) /\ dropped' = [dropped EXCEPT ![j.by[2]] = TRUE]
         ELSE UNCHANGED <<exec, dropped>>

Continue ==
    /\ BetweenJobs
    /\ \E j \in jobs :
          /\ jobs' = jobs \ {j}
          /\ \/ j.by[1] = "invoke" /\ InvokeContinues(j)
                /\ UNCHANGED <<dropped, cleanup, drainer>>
             \/ j.by[1] = "background" /\ BackgroundContinues(j)
                /\ UNCHANGED <<inv, waiter, deferredWakes, drainer>>
             \/ j.by[1] = "closure" /\ ClosureContinues(j)
                /\ UNCHANGED <<inv, waiter, deferredWakes, cleanup>>
    /\ UNCHANGED <<generation, steps, wakes, stack, driving, phase, result, by, inFlight,
                   inFlightDrives, quiescence, terminated, slotOf, genOf,
                   deferredInvokes, deferredCancels, queue, current, delivery>>

-----------------------------------------------------------------------------
(* scheduleClosureCall and the queue's drainer.                            *)

\* The firer's calls come in order.
Schedule(c) ==
    /\ HostTurn /\ ~terminated
    /\ delivery[c] = "none" /\ \A d \in Calls : d < c => delivery[d] # "none"
    /\ delivery' = [delivery EXCEPT ![c] = "queued"]
    /\ queue' = Append(queue, c)
    /\ stack' = <<Item("kick", Root, 0, None)>> \o stack
    /\ UNCHANGED <<context, wakes, drives, deferredWakes, quiescence, terminated, invokes,
                   drainer, current, dropped, cleanup>>

\* The drainer takes the head of the queue and awaits the embedder's backpressure.
TakeHead ==
    /\ current' = Head(queue) /\ queue' = Tail(queue) /\ drainer' = "backpressure"

Drainable == queue # <<>> /\ ~terminated /\ ~quiesced

KickClosureDrainer ==
    /\ Calling("kick")
    /\ stack' = Tail(stack)
    /\ IF drainer = "idle" /\ Drainable THEN TakeHead
                                        ELSE UNCHANGED <<current, queue, drainer>>
    /\ UNCHANGED <<context, wakes, drives, deferredWakes, quiescence, terminated, invokes,
                   delivery, dropped, cleanup>>

\* A bug: the gate is not consulted.
GateClosedMutant == FALSE

\* The firer's gate (shouldDeliver): closed by the first call it could not deliver.
GateClosed == \E d \in Calls : delivery[d] = "refused"

CallAbandoned ==
    /\ terminated
    /\ drainer' = "next"
    /\ UNCHANGED <<context, drives, deferredWakes, delivery, dropped, cleanup, stack>>

\* Gated, a freed handle, revoked grants (the handle is dropped), no context left,
\* or arguments that do not marshal (the context is freed, the handle dropped).
CallRefused ==
    /\ ~terminated
    /\ delivery' = [delivery EXCEPT ![current] = "refused"]
    /\ drainer' = "next"
    /\ \/ UNCHANGED <<generation, dropped>>
       \/ ~GateClosed /\ dropped' = [dropped EXCEPT ![current] = TRUE]
          /\ UNCHANGED generation
       \/ ~GateClosed /\ CanAllocate /\ dropped' = [dropped EXCEPT ![current] = TRUE]
          /\ generation' = [generation EXCEPT ![NextSlot] = @ + 1]
    /\ UNCHANGED <<exec, steps, drives, deferredWakes, cleanup, stack>>

\* The arguments are in the context: the call is delivered, and driven.
CallDelivered ==
    /\ ~terminated /\ ~GateClosed /\ CanAllocate
    /\ delivery' = [delivery EXCEPT ![current] = "marshaled"]
    /\ \/ /\ Allocate("ready")
          /\ DriveSlot(NextSlot, NextGeneration, <<"closure", current>>, <<>>)
          /\ drainer' = "driving" /\ UNCHANGED dropped
       \/ /\ AlreadyDriving(NextSlot)
          /\ generation' = [generation EXCEPT ![NextSlot] = @ + 1]
          /\ drainer' = "next" /\ dropped' = [dropped EXCEPT ![current] = TRUE]
          /\ UNCHANGED <<exec, steps, drives, deferredWakes, cleanup, stack>>

\* runClosureCall once backpressure() has resolved.
RunClosureCall ==
    /\ BetweenJobs /\ drainer = "backpressure"
    /\ current' = None
    /\ CallAbandoned \/ CallRefused \/ CallDelivered
    /\ UNCHANGED <<wakes, quiescence, terminated, invokes, queue>>

\* The drainer's loop condition.
DrainerNext ==
    /\ BetweenJobs /\ drainer = "next"
    /\ IF Drainable THEN TakeHead ELSE drainer' = "idle" /\ UNCHANGED <<current, queue>>
    /\ UNCHANGED <<context, wakes, stack, drives, deferredWakes, quiescence, terminated,
                   invokes, delivery, dropped, cleanup>>

-----------------------------------------------------------------------------

\* What is on the stack, and the jobs the event loop owes.
Synchronous ==
    \/ \E s \in Slots : RunEnds(s) \/ RunParks(s) \/ RunPauses(s) \/ RunSpawns(s)
                        \/ RunCompletes(s) \/ RunReturns(s) \/ RunStrays(s)
                        \/ LoopTerminated(s)
    \/ TrackDrive \/ FinallyRest \/ DrainSpawned \/ DispatchWoken \/ BeginInvoke
    \/ ResumeCancels \/ ResumeRedispatches \/ ResumeReinvokes \/ KickClosureDrainer

Continuations ==
    \/ \E s \in Slots : DriveThen(s) \/ DriveFinally(s)
    \/ Continue \/ RunClosureCall \/ DrainerNext

Embedder ==
    \/ \E i \in Invocations : Invoke(i) \/ Abort(i)
    \/ \E c \in Calls : Schedule(c)
    \/ Quiesce \/ Resume \/ Terminate

Next ==
    \/ Synchronous \/ Continuations \/ Embedder \/ Settle
    \/ \E s \in Slots : HookResolves(s) \/ RunSlot(s)

Spec == Init /\ [][Next]_vars

\* The running job finishes, the event loop reaches every continuation, promises
\* settle, and the embedder runs what ran out of fuel.
Fairness ==
    /\ WF_vars(Synchronous) /\ WF_vars(Settle)
    /\ WF_vars(Continue) /\ WF_vars(RunClosureCall) /\ WF_vars(DrainerNext)
    /\ \A s \in Slots : WF_vars(DriveThen(s)) /\ WF_vars(DriveFinally(s))
                        /\ WF_vars(HookResolves(s)) /\ WF_vars(RunSlot(s))

FairSpec == Spec /\ Fairness

-----------------------------------------------------------------------------
(* Properties.                                                             *)

Drivers == {<<"none", None>>, <<"run", None>>, <<"root", None>>, <<"background", None>>}
           \cup {<<"invoke", i>> : i \in Invocations} \cup {<<"closure", c>> : c \in Calls}

\* Every variable has its type (the maps, sets and counters of the Runtime).
TypeOK ==
    /\ generation \in [Slots -> Generations]
    /\ exec \in [Slots -> {"free", "ready", "paused", "parked", "done", "failed"}]
    /\ steps \in [Slots -> 0 .. MaxSteps]
    /\ \A id \in promises \cup ToSet(spawned) : id.slot \in Slots /\ id.gen \in Generations
    /\ driving \in [Slots -> Generations]
    /\ phase \in [Slots -> {"none", "loop", "hook", "returned", "unwound"}]
    /\ by \in [Slots -> Drivers]
    /\ inFlight \in Nat /\ inFlightDrives \in 0 .. inFlight
    /\ deferredWakes \in [Slots -> Generations]
    /\ quiesced \in BOOLEAN /\ waiting \in BOOLEAN /\ quiet \in BOOLEAN
    /\ waiter \in [Slots -> Invocations \cup {None}]
    /\ inv \in [Invocations -> Settled \cup {"none", "deferred", "starting", "live"}]
    /\ drainer \in {"idle", "backpressure", "driving", "next"}
    /\ current \in Calls \cup {None}

\* A drive in its loop, or awaiting the fuel hook, runs the context it was
\* started for: the slot was neither freed nor given to another context under it.
DriveOwnsContext ==
    \A s \in Slots : phase[s] \in {"loop", "hook"} =>
        driving[s] = generation[s] /\ exec[s] # "free"

\* No wake is lost: a context made ready to run, by a settled promise, a resolved
\* child or its own spawning, is being driven or queued to be, through park,
\* unwind, quiesce and resume.
NoLostWake ==
    \A s \in Slots : exec[s] = "ready" /\ ~terminated =>
        \/ s = Root /\ generation[s] = 1 /\ steps[s] = 0
        \/ phase[s] \in {"loop", "hook"} /\ driving[s] = generation[s]
        \/ Contains(spawned, Identity(s, generation[s]))
        \/ deferredWakes[s] = generation[s]
        \/ Pending("wake", s)

\* A quiesce that has resolved is quiet: no drive is in flight or unwinding until
\* the runtime resumes.
QuiesceIsQuiet == quiet => inFlight = 0 /\ \A s \in Slots : phase[s] = "none"

\* The registry of invokeClosure owners and the context table agree: a registered
\* owner's context is its own and alive, and an unsettled owner is registered.
OwnerRegistry ==
    /\ \A s \in Slots : waiter[s] # None =>
         slotOf[waiter[s]] = s /\ genOf[waiter[s]] = generation[s] /\ exec[s] # "free"
    /\ \A i \in Invocations : inv[i] = "live" => OwnsSlot(i)

\* A context that has ended, other than the root, is about to be freed: its drive
\* has a continuation that frees it.
FinishedIsReclaimed ==
    \A s \in Slots \ {Root} : exec[s] \in {"done", "failed"} /\ ~terminated =>
        \/ driving[s] = generation[s] /\ by[s][1] \in {"invoke", "background", "closure"}
        \/ \E j \in jobs : j.slot = s /\ j.gen = generation[s] /\ j.result \in Terminal

\* The duty to drop a delivered call's closure handle is always somebody's, and
\* that somebody's context is alive.
DutyIsHeld ==
    \A c \in Calls : delivery[c] = "marshaled" /\ ~dropped[c] /\ ~terminated =>
        \/ \E j \in jobs : j.by = <<"closure", c>> /\ j.result \in Terminal
        \/ \E s \in Slots : exec[s] # "free" /\ driving[s] = generation[s]
                            /\ by[s] = <<"closure", c>>
        \/ \E s \in Slots : exec[s] # "free"
                            /\ cleanup[s] = [gen |-> generation[s], call |-> c]

\* An ordered stream of calls is delivered without a hole: a call whose arguments
\* reached the drone comes after no call whose arguments did not.
InOrderDelivery ==
    \A c, d \in Calls : c < d /\ delivery[d] = "marshaled" => delivery[c] = "marshaled"

\* No queued call is stranded: between jobs, unless the runtime is quiesced or
\* terminated, a queue that is not empty has a drainer at work.
QueueIsServed ==
    queue # <<>> /\ BetweenJobs /\ ~quiesced /\ ~terminated => drainer # "idle"

\* Every invocation's promise settles, if the runtime never stays quiesced.
InvocationSettles ==
    ([]<>~quiesced) =>
        \A i \in Invocations : inv[i] \in {"deferred", "starting", "live"} ~> inv[i] \in Settled

\* A quiesce that has to wait resolves, if the embedder does not resume before.
QuiesceResolves == (waiting /\ quiesced) ~> ~(waiting /\ quiesced)

=============================================================================
