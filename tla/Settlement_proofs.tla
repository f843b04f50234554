-------------------------- MODULE Settlement_proofs --------------------------
(***************************************************************************)
(* Proofs about Settlement, for any number of slots, entries, promises,    *)
(* tenants and parks, where host and embedder are Disciplined: a park gets *)
(* its own answer and no other, has the one durable entry by which it is   *)
(* found, and the wake queue and the lists of waiters are exact.           *)
(*                                                                         *)
(* The four properties rest on each other, so one invariant, Inv, carries  *)
(* them all.  A continuation may answer because the generation and the     *)
(* continuation id it captured are still those of the context (Acting);    *)
(* the invariant says that then the context is in the park it was made     *)
(* for, that the table's entry is still that park's, and that nobody else  *)
(* may answer it.  Whoever answers frees the entry, whoever takes a        *)
(* context out of its park queues it.                                      *)
(*                                                                         *)
(* First comes what the operators do to the invariant (a cascade of        *)
(* settled promises, a run, an answer, an entry freed), by relations       *)
(* between two states that keep what the proof needs of an update; then    *)
(* one lemma for each action.                                              *)
(***************************************************************************)
EXTENDS Settlement, FiniteSetTheorems, SequenceTheorems, WellFoundedInduction, TLAPS

(***************************************************************************)
(* What the state holds.                                                   *)
(***************************************************************************)
Exits == {"run", "woken", "call", "grant", "await"}

ContextType ==
  [gen : Nat, live : BOOLEAN, exit : Exits, cid : Nat, moved : BOOLEAN, park : Nat,
   inbox : Seq(Nat), stash : Nat, owes : {None} \cup Promises, executor : BOOLEAN]

EntryFields ==
  [live : BOOLEAN, ctx : {None} \cup Contexts, gen : Nat, promise : {None} \cup Promises,
   park : Nat, orphan : BOOLEAN]

\* Only a live entry can be an orphan.
EntryType == {entry \in EntryFields : entry.orphan => entry.live}

HandlerType == [kind : {"pass", "spawn", "race", "all"}, child : Promises]

PromiseType ==
  [status : {"none", "pending"} \cup Status, waiters : SUBSET (Contexts \X Nat \X Nat),
   handlers : Seq(HandlerType), remaining : Int, elements : SUBSET Promises,
   race : BOOLEAN]

SettlerType ==
  [kind : {"call", "grant", "regrant", "js"}, slot : {None} \cup Contexts, gen : Nat,
   cid : Nat, entry : 1 .. Entries, park : Nat, stage : {"pending", "late", "settle"}]

StateType ==
  [ctx : [Contexts -> ContextType], linked : [1 .. Entries -> EntryType],
   free : Seq(1 .. Entries), promises : [Promises -> PromiseType],
   settlers : SUBSET SettlerType, wakes : SUBSET (Contexts \X Nat), parks : Nat,
   restarted : BOOLEAN]

TypeOK == st \in StateType

(***************************************************************************)
(* The invariant, one part for each piece of the state.  D is a set of     *)
(* entries that an action has dealt with and not yet freed.                *)
(***************************************************************************)
\* A context has an answer, or a value that waits for room, only while it is on
\* its way out of the park that the answer was meant for.
CtxInv(x) ==
  \A c \in Contexts : LET k == x.ctx[c] IN
    /\ k.inbox \in {<<>>, <<k.park>>} /\ k.stash \in {0, k.park}
    /\ k.stash # 0 => k.inbox = <<>>
    /\ k.inbox # <<>> => k.exit = "woken" \/ k.moved
    /\ k.stash # 0 => k.exit = "call"
    /\ k.moved => k.exit = "grant"
    /\ ~k.live => k.exit = "run"
    /\ k.exit \in {"call", "grant", "await"} => k.park # 0

\* Promise p has been created.
Made(x, p) == p \in Promises /\ x.promises[p].status # "none"

\* Promises are created in order, and nothing refers to one that is still to be
\* created; a settled promise keeps neither waiters nor handlers.
PromiseInv(x) ==
  /\ \E n \in 0 .. MaxPromises : \A p \in Promises : Made(x, p) <=> p <= n
  /\ \A p \in Promises : LET r == x.promises[p] IN
       /\ r.status # "pending" => r.waiters = {} /\ r.handlers = <<>>
       /\ \A i \in DOMAIN r.handlers : Made(x, r.handlers[i].child)
  /\ \A c \in Contexts : x.ctx[c].owes # None => Made(x, x.ctx[c].owes)
  /\ \A e \in 1 .. Entries :
       x.linked[e].live /\ x.linked[e].ctx = None => Made(x, x.linked[e].promise)

\* A waiter is a live context, still in the await it registered for, and waits for
\* one promise; every awaiting context is a waiter.
WaiterInv(x) ==
  /\ \A p \in Promises : \A w \in x.promises[p].waiters :
       LET k == x.ctx[w[1]] IN k.live /\ k.gen = w[2] /\ k.park = w[3] /\ k.exit = "await"
  /\ \A p, q \in Promises :
       \A w \in x.promises[p].waiters, v \in x.promises[q].waiters : w[1] = v[1] => p = q
  /\ \A c \in Contexts : LET k == x.ctx[c] IN
       k.live /\ k.exit = "await"
         => \E p \in Promises : <<c, k.gen, k.park>> \in x.promises[p].waiters

\* Entry e stands for the park of context c.
Names(x, D, e, c) == e \notin D /\ x.linked[e].live /\ x.linked[e].ctx = c

\* The entries that name contexts are those of the parks that nobody has answered.
EntryInv(x, D) ==
  /\ \A e \in 1 .. Entries, c \in Contexts : Names(x, D, e, c) =>
       LET k == x.ctx[c] IN
         /\ k.live /\ k.gen = x.linked[e].gen /\ k.park = x.linked[e].park
         /\ k.exit \in {"call", "grant"} /\ k.stash = 0 /\ <<c, k.gen>> \notin x.wakes
  /\ \A e, f \in 1 .. Entries, c \in Contexts :
       Names(x, D, e, c) /\ Names(x, D, f, c) => e = f
  /\ \A c \in Contexts : LET k == x.ctx[c] IN
       k.live /\ k.exit \in {"call", "grant"} /\ k.stash = 0 /\ ~k.moved
         => \E e \in 1 .. Entries : Names(x, D, e, c)

\* The free list holds each entry that is not live, once.
FreeInv(x) ==
  /\ \A i, j \in DOMAIN x.free : x.free[i] = x.free[j] => i = j
  /\ \A e \in 1 .. Entries : ~x.linked[e].live <=> \E i \in DOMAIN x.free : x.free[i] = e

\* The queue holds contexts that may be driven, and every such context is in it or
\* will be queued by the approval that has just moved it.
WakeInv(x) ==
  /\ \A w \in x.wakes : Live(x, w[1], w[2]) /\ Ready(x.ctx[w[1]])
  /\ \A c \in Contexts : LET k == x.ctx[c] IN
       k.live /\ Ready(k)
         => \/ <<c, k.gen>> \in x.wakes
            \/ \E s \in x.settlers : s.stage = "settle" /\ s.slot = c /\ s.gen = k.gen
                                       /\ s.cid = k.cid

\* Continuation s was made for the park that its context is in now; if it is also
\* acting, it has still to answer it.
Current(x, s) == s.kind # "js" /\ Live(x, s.slot, s.gen) /\ x.ctx[s.slot].cid = s.cid
Acting(x, s) == Current(x, s) /\ s.stage # "late"
Approval(s) == s.kind \in {"grant", "regrant"}

\* A continuation that has still to answer finds the entry, the park and the exit
\* condition it was made with, and is the only one to answer that park; the others
\* carry an older generation or continuation id, which no check will accept.
SettlerInv(x, D) ==
  /\ \A s \in x.settlers :
       /\ s.kind = "js" =>
            /\ s.stage = "pending" /\ s.slot = None /\ s.gen = 0 /\ s.cid = 0 /\ s.park = 0
            /\ s.entry \notin D /\ x.linked[s.entry].live /\ x.linked[s.entry].ctx = None
            /\ ~x.linked[s.entry].orphan
       /\ s.kind # "js" =>
            /\ s.slot \in Contexts /\ s.gen <= x.ctx[s.slot].gen
            /\ Live(x, s.slot, s.gen) => s.cid <= x.ctx[s.slot].cid
       /\ s.stage = "late" => s.kind = "call"
       /\ s.stage = "settle" => Approval(s)
       /\ s.kind = "regrant" => Current(x, s)
       /\ Acting(x, s) =>
            LET k == x.ctx[s.slot] IN
              /\ Names(x, D, s.entry, s.slot) /\ k.park = s.park
              /\ k.exit = IF s.kind = "call" THEN "call" ELSE "grant"
              /\ k.moved <=> s.stage = "settle"
              /\ s.kind # "regrant" => ~x.linked[s.entry].orphan
       /\ Approval(s) /\ x.ctx[s.slot].live /\ x.ctx[s.slot].exit = "grant"
            => s.gen = x.ctx[s.slot].gen
  /\ \A s, t \in x.settlers : Acting(x, s) /\ Acting(x, t) /\ s.slot = t.slot => s = t

Inv(x, D) ==
  /\ CtxInv(x) /\ PromiseInv(x) /\ WaiterInv(x) /\ EntryInv(x, D) /\ FreeInv(x)
  /\ WakeInv(x) /\ SettlerInv(x, D)

\* y has the promises of x, but for their waiters, and no source of a settlement that x
\* has not.
Fades(x, y) ==
  /\ \A p \in Promises :
       /\ y.promises[p].status = x.promises[p].status
       /\ y.promises[p].handlers = x.promises[p].handlers
       /\ y.promises[p].elements = x.promises[p].elements
       /\ y.promises[p].race = x.promises[p].race
       /\ y.promises[p].remaining = x.promises[p].remaining
  /\ \A c \in Contexts : y.ctx[c].owes # None =>
       y.ctx[c].owes = x.ctx[c].owes /\ y.ctx[c].executor = x.ctx[c].executor
  /\ \A e \in 1 .. Entries : y.linked[e].live /\ y.linked[e].ctx = None =>
       x.linked[e].live /\ x.linked[e].ctx = None /\ y.linked[e].promise = x.linked[e].promise

LEMMA FadesTransitive ==
  ASSUME NEW x, NEW y, NEW z, Fades(x, y), Fades(y, z)
  PROVE  Fades(x, z)
BY DEF Fades

LEMMA FadesSame ==
  ASSUME NEW x, NEW y, y.promises = x.promises, y.ctx = x.ctx, y.linked = x.linked
  PROVE  Fades(x, y)
BY DEF Fades

(***************************************************************************)
(* Operators: allocation.                                                  *)
(***************************************************************************)
\* A set of numbers that has a member has a least one.
LEMMA LeastNat ==
  ASSUME NEW S \in SUBSET Nat, S # {}
  PROVE  \E n \in S : \A k \in S : n <= k
<1> DEFINE R == OpToRel(<, Nat)
<1>1. IsWellFoundedOn(R, Nat)
  BY NatLessThanWellFounded
<1>2. \A k, n \in Nat : k < n => <<k, n>> \in R
  BY DEF OpToRel
<1> HIDE DEF R
<1>3. PICK n \in S : \A k \in S : <<k, n>> \notin R
  BY <1>1, WFMin
<1>4. \A k \in S : ~(k < n)
  BY <1>2, <1>3
<1>5. n \in Nat /\ \A k \in S : k \in Nat
  OBVIOUS
<1>6. \A k \in S : n <= k
  BY <1>4, <1>5
<1> QED
  BY <1>6

\* A fresh context has generation gen, waits in the wake queue and owes a promise.
FreshContext(k, gen, promise) ==
  /\ k \in ContextType
  /\ k.gen = gen /\ k.live = TRUE /\ k.exit = "woken" /\ k.cid = 0 /\ k.moved = FALSE
  /\ k.park = 0 /\ k.inbox = <<>> /\ k.stash = 0 /\ k.owes = promise

\* A free slot gets a fresh context, which is queued.
Enters(x, y, promise) ==
  \E c \in Contexts : \E k :
     /\ ~x.ctx[c].live /\ FreshContext(k, x.ctx[c].gen + 1, promise)
     /\ y.ctx = [x.ctx EXCEPT ![c] = k]
     /\ y.wakes = x.wakes \cup {<<c, x.ctx[c].gen + 1>>}

LEMMA AllocatedFields ==
  ASSUME NEW x \in StateType, NEW promise \in {None} \cup Promises, NEW executor \in BOOLEAN,
         FreeContexts(x) # {}, NEW y, y = Allocated(x, promise, executor)
  PROVE  /\ y \in StateType
         /\ Enters(x, y, promise)
         /\ y.linked = x.linked /\ y.free = x.free /\ y.promises = x.promises
         /\ y.settlers = x.settlers /\ y.parks = x.parks /\ y.restarted = x.restarted
<1> DEFINE c == NextContext(x)
           k == [Unused EXCEPT !.gen = x.ctx[c].gen + 1, !.live = TRUE, !.exit = "woken",
                   !.owes = promise, !.executor = executor]
<1>1. c \in FreeContexts(x)
  <2>1. FreeContexts(x) \in SUBSET Nat
    BY SettlementAssumption DEF FreeContexts, Contexts
  <2> QED BY <2>1, LeastNat DEF NextContext
<1>2. c \in Contexts /\ ~x.ctx[c].live
  BY <1>1 DEF FreeContexts
<1>3. x.ctx[c] \in ContextType
  BY <1>2 DEF StateType
<1>4. FreshContext(k, x.ctx[c].gen + 1, promise)
  <2> DEFINE gen == x.ctx[c].gen + 1
  <2>1. gen \in Nat
    BY <1>3 DEF ContextType
  <2>2. <<>> \in Seq(Nat)
    BY EmptySeq
  <2> HIDE DEF gen, c
  <2>3. FreshContext([Unused EXCEPT !.gen = gen, !.live = TRUE, !.exit = "woken",
                   !.owes = promise, !.executor = executor], gen, promise)
    BY <2>1, <2>2 DEF FreshContext, ContextType, Exits, Unused
  <2> QED BY <2>3 DEF gen
<1>5. y = [x EXCEPT !.ctx[c] = k, !.wakes = @ \cup {<<c, x.ctx[c].gen + 1>>}]
  BY DEF Allocated
<1> HIDE DEF k, c
<1>6. k \in ContextType /\ x.ctx[c].gen + 1 \in Nat
  BY <1>3, <1>4 DEF FreshContext, ContextType
<1>7. /\ y.ctx = [x.ctx EXCEPT ![c] = k]
      /\ y.wakes = x.wakes \cup {<<c, x.ctx[c].gen + 1>>}
      /\ y.linked = x.linked /\ y.free = x.free /\ y.promises = x.promises
      /\ y.settlers = x.settlers /\ y.parks = x.parks /\ y.restarted = x.restarted
  BY <1>5 DEF StateType
<1>8. y \in StateType
  <2> DEFINE a == [x.ctx EXCEPT ![c] = k]
             b == x.wakes \cup {<<c, x.ctx[c].gen + 1>>}
  <2>1. a \in [Contexts -> ContextType]
    BY <1>2, <1>6 DEF StateType
  <2>2. b \in SUBSET (Contexts \X Nat)
    BY <1>2, <1>6 DEF StateType
  <2>3. y = [x EXCEPT !.ctx = a, !.wakes = b]
    BY <1>5
  <2> HIDE DEF a, b
  <2> QED BY <2>1, <2>2, <2>3 DEF StateType
<1>9. Enters(x, y, promise)
  BY <1>2, <1>4, <1>7 DEF Enters
<1> QED BY <1>7, <1>8, <1>9

\* What a cascade leaves alone: everything but contexts, promises and wakes, and of
\* the contexts those that run.
Cascades(x, y) ==
  /\ y \in StateType
  /\ y.linked = x.linked /\ y.free = x.free /\ y.settlers = x.settlers
  /\ y.parks = x.parks /\ y.restarted = x.restarted
  /\ \A c \in Contexts : x.ctx[c].live /\ x.ctx[c].exit = "run" => y.ctx[c] = x.ctx[c]
  /\ \A p \in Promises : Made(x, p) => Made(y, p)

LEMMA AllocatedKeeps ==
  ASSUME NEW x \in StateType, NEW D, Inv(x, D),
         NEW promise \in {None} \cup Promises, promise # None => Made(x, promise),
         NEW executor \in BOOLEAN, NEW y, y = Allocated(x, promise, executor)
  PROVE  Inv(y, D) /\ Cascades(x, y)
<1>1. CASE FreeContexts(x) = {}
  <2>1. y = x
    BY <1>1 DEF Allocated
  <2> QED BY <2>1 DEF Cascades
<1>2. CASE FreeContexts(x) # {}
  <2>1. /\ y \in StateType
        /\ y.linked = x.linked /\ y.free = x.free /\ y.promises = x.promises
        /\ y.settlers = x.settlers /\ y.parks = x.parks /\ y.restarted = x.restarted
    BY <1>2, AllocatedFields
  <2>1a. Enters(x, y, promise)
    BY <1>2, AllocatedFields
  <2>1b. PICK c \in Contexts : \E k :
              /\ ~x.ctx[c].live /\ FreshContext(k, x.ctx[c].gen + 1, promise)
              /\ y.ctx = [x.ctx EXCEPT ![c] = k]
              /\ y.wakes = x.wakes \cup {<<c, x.ctx[c].gen + 1>>}
    BY <2>1a DEF Enters
  <2>2. PICK k :
              /\ ~x.ctx[c].live /\ FreshContext(k, x.ctx[c].gen + 1, promise)
              /\ y.ctx = [x.ctx EXCEPT ![c] = k]
              /\ y.wakes = x.wakes \cup {<<c, x.ctx[c].gen + 1>>}
    BY <2>1b
  <2>3. /\ y.ctx[c] = k
        /\ \A d \in Contexts : d # c => y.ctx[d] = x.ctx[d]
    BY <2>2 DEF StateType
  <2>4. \A d \in Contexts : x.ctx[d] \in ContextType /\ x.ctx[d].gen \in Nat
    BY DEF StateType, ContextType
  <2>5. x.ctx[c].exit = "run"
    BY <2>2 DEF Inv, CtxInv
  <2>6. CtxInv(y)
    BY <2>2, <2>3 DEF Inv, CtxInv, FreshContext
  <2>7. PromiseInv(y)
    <3>1. \A p : Made(y, p) <=> Made(x, p)
      BY <2>1 DEF Made
    <3>2. \A d \in Contexts : y.ctx[d].owes # None => Made(x, y.ctx[d].owes)
      BY <2>2, <2>3 DEF Inv, PromiseInv, FreshContext
    <3> QED BY <2>1, <3>1, <3>2 DEF Inv, PromiseInv
  <2>8. WaiterInv(y)
    <3>1. \A p \in Promises : \A w \in x.promises[p].waiters : w[1] \in Contexts /\ w[1] # c
      BY <2>2 DEF Inv, WaiterInv, StateType, PromiseType
    <3> QED BY <2>1, <2>2, <2>3, <3>1 DEF Inv, WaiterInv, FreshContext
  <2>9. EntryInv(y, D)
    <3>1. \A e, d : Names(y, D, e, d) <=> Names(x, D, e, d)
      BY <2>1 DEF Names
    <3>2. \A e \in 1 .. Entries : ~Names(x, D, e, c)
      BY <2>2 DEF Inv, EntryInv
    <3> QED BY <2>1, <2>2, <2>3, <3>1, <3>2 DEF Inv, EntryInv, FreshContext
  <2>10. FreeInv(y)
    BY <2>1 DEF Inv, FreeInv
  <2>11. WakeInv(y)
    <3>1. \A w \in x.wakes : w[1] \in Contexts /\ w[1] # c
      BY <2>2 DEF Inv, WakeInv, Live, StateType
    <3>2. \A w \in y.wakes : Live(y, w[1], w[2]) /\ Ready(y.ctx[w[1]])
      BY <2>2, <2>3, <3>1 DEF Inv, WakeInv, Live, Ready, FreshContext
    <3>3. ASSUME NEW d \in Contexts, y.ctx[d].live, Ready(y.ctx[d])
          PROVE  \/ <<d, y.ctx[d].gen>> \in y.wakes
                 \/ \E s \in y.settlers : s.stage = "settle" /\ s.slot = d
                                           /\ s.gen = y.ctx[d].gen /\ s.cid = y.ctx[d].cid
      <4>1. CASE d = c
        BY <4>1, <2>2, <2>3 DEF FreshContext
      <4>2. CASE d # c
        BY <4>2, <3>3, <2>1, <2>2, <2>3 DEF Inv, WakeInv
      <4> QED BY <4>1, <4>2
    <3> QED BY <3>2, <3>3 DEF WakeInv
  <2>12. SettlerInv(y, D)
    <3>1. \A s \in x.settlers : s.kind # "js" =>
            /\ s.slot \in Contexts /\ s.gen \in Nat
            /\ Live(y, s.slot, s.gen) <=> Live(x, s.slot, s.gen)
      BY <2>2, <2>3, <2>4 DEF Inv, SettlerInv, Live, FreshContext, StateType, SettlerType
    <3>2. \A s \in x.settlers : Current(y, s) <=> Current(x, s)
      BY <3>1, <2>2, <2>3 DEF Current, Live
    <3>3. \A s \in x.settlers : Acting(y, s) <=> Acting(x, s)
      BY <3>2 DEF Acting
    <3>4. \A s \in x.settlers : Acting(x, s) => s.slot \in Contexts /\ y.ctx[s.slot] = x.ctx[s.slot]
      BY <3>1, <2>2, <2>3 DEF Acting, Current, Live
    <3>5. \A e, d : Names(y, D, e, d) <=> Names(x, D, e, d)
      BY <2>1 DEF Names
    <3>6. ASSUME NEW s \in x.settlers, s.kind # "js"
          PROVE  /\ s.slot \in Contexts /\ s.gen <= y.ctx[s.slot].gen
                 /\ Live(y, s.slot, s.gen) => s.cid <= y.ctx[s.slot].cid
                 /\ Approval(s) /\ y.ctx[s.slot].live /\ y.ctx[s.slot].exit = "grant"
                      => s.gen = y.ctx[s.slot].gen
      <4>1. s.gen <= x.ctx[s.slot].gen
        BY <3>6 DEF Inv, SettlerInv
      <4>2. CASE s.slot = c
        BY <4>1, <4>2, <3>1, <3>6, <2>2, <2>3, <2>4 DEF Live, FreshContext
      <4>3. CASE s.slot # c
        BY <4>3, <3>1, <3>6, <2>3 DEF Live, Inv, SettlerInv
      <4> QED BY <4>2, <4>3
    <3>7. \A s \in x.settlers : Approval(s) => s.kind # "js"
      BY DEF Approval
    <3> QED
      BY <2>1, <3>2, <3>3, <3>4, <3>5, <3>6, <3>7 DEF Inv, SettlerInv
  <2>13. Cascades(x, y)
    BY <2>1, <2>2, <2>3, <2>5 DEF Cascades, Made
  <2> QED BY <2>6, <2>7, <2>8, <2>9, <2>10, <2>11, <2>12, <2>13 DEF Inv
<1> QED BY <1>1, <1>2

(***************************************************************************)
(* Operators: settling a promise, and the cascade it starts.               *)
(***************************************************************************)
LEMMA SetToSeqOne ==
  ASSUME NEW a
  PROVE  SetToSeq({a}) = <<a>>
<1>1. Cardinality({a}) = 1
  BY FS_Singleton
<1>2. <<a>> \in [1 .. 1 -> {a}] /\ IsInjective(<<a>>)
  BY DEF IsInjective
<1>3. \A f \in [1 .. 1 -> {a}] : f = <<a>>
  OBVIOUS
<1> QED BY <1>1, <1>2, <1>3 DEF SetToSeq

\* j is the context k with the answer for its park.
Given(k, j) ==
  /\ j \in ContextType
  /\ j.inbox = <<k.park>> /\ j.exit = "woken" /\ j.gen = k.gen /\ j.live = k.live
  /\ j.cid = k.cid /\ j.moved = k.moved /\ j.park = k.park /\ j.stash = k.stash
  /\ j.owes = k.owes /\ j.executor = k.executor

LEMMA GivenContext ==
  ASSUME NEW k \in ContextType, k.inbox = <<>>
  PROVE  /\ Given(k, [k EXCEPT !.inbox = Append(@, k.park), !.exit = "woken"])
         /\ Given(k, [k EXCEPT !.inbox = @ \o <<k.park>>, !.exit = "woken"])
<1>1. <<>> \o <<k.park>> = <<k.park>> /\ Append(<<>>, k.park) = <<k.park>>
  OBVIOUS
<1>2. <<k.park>> \in Seq(Nat)
  BY DEF ContextType
<1>3. Given(k, [k EXCEPT !.inbox = <<k.park>>, !.exit = "woken"])
  BY <1>2 DEF Given, ContextType, Exits
<1> QED BY <1>1, <1>3

\* The waiters of p have their answer, and p, which has neither waiters nor handlers
\* left, its status.
WaiterOf(x, p, c) == <<c, x.ctx[c].gen, x.ctx[c].park>> \in x.promises[p].waiters

Settles(x, y, p, status) ==
  /\ y \in StateType
  /\ y.linked = x.linked /\ y.free = x.free /\ y.settlers = x.settlers
  /\ y.parks = x.parks /\ y.restarted = x.restarted
  /\ \A c \in Contexts : IF WaiterOf(x, p, c) THEN Given(x.ctx[c], y.ctx[c])
                                              ELSE y.ctx[c] = x.ctx[c]
  /\ y.wakes = x.wakes \cup {<<w[1], w[2]>> : w \in x.promises[p].waiters}
  /\ \A q \in Promises : q # p => y.promises[q] = x.promises[q]
  /\ y.promises[p].status = status /\ y.promises[p].waiters = {}
  /\ y.promises[p].handlers = <<>> /\ y.promises[p].elements = x.promises[p].elements
  /\ y.promises[p].race = x.promises[p].race
  /\ y.promises[p].remaining = x.promises[p].remaining

LEMMA SettlesWaiters ==
  ASSUME NEW x \in StateType, CtxInv(x), WaiterInv(x), NEW p \in Promises,
         NEW status \in Status, NEW todo
  PROVE  Settles(x, Settling(x, p, status, todo).drone, p, status)
<1> DEFINE W == x.promises[p].waiters
           r == [x.promises[p] EXCEPT !.handlers = <<>>, !.status = status]
           x1 == [HandlersPopped(x, p) EXCEPT !.promises[p].status = status]
           y == PopAllWaiters(x1, p)
<1>1. x.promises[p] \in PromiseType /\ W \in SUBSET (Contexts \X Nat \X Nat)
  BY DEF StateType, PromiseType
<1>2. \A w \in W : /\ w[1] \in Contexts /\ w = <<w[1], w[2], w[3]>>
                   /\ x.ctx[w[1]].live /\ x.ctx[w[1]].gen = w[2] /\ x.ctx[w[1]].park = w[3]
                   /\ x.ctx[w[1]].exit = "await" /\ x.ctx[w[1]].inbox = <<>>
  <2>1. \A w \in W : w[1] \in Contexts /\ w = <<w[1], w[2], w[3]>>
    BY <1>1
  <2>2. \A w \in W : /\ x.ctx[w[1]].live /\ x.ctx[w[1]].gen = w[2] /\ x.ctx[w[1]].park = w[3]
                     /\ x.ctx[w[1]].exit = "await"
    BY DEF WaiterInv
  <2> QED BY <2>1, <2>2 DEF CtxInv
<1>3. x1 = [x EXCEPT !.promises[p] = r]
  BY DEF HandlersPopped, StateType
<1>4. /\ r \in PromiseType /\ r.waiters = W /\ r.handlers = <<>> /\ r.status = status
      /\ r.elements = x.promises[p].elements /\ r.race = x.promises[p].race
      /\ r.remaining = x.promises[p].remaining
  BY <1>1, EmptySeq DEF PromiseType
<1> HIDE DEF r
<1>5. /\ x1.promises = [x.promises EXCEPT ![p] = r]
      /\ x1.ctx = x.ctx /\ x1.linked = x.linked /\ x1.free = x.free
      /\ x1.settlers = x.settlers /\ x1.parks = x.parks /\ x1.restarted = x.restarted
      /\ x1.wakes = x.wakes
  BY <1>3 DEF StateType
<1>6. x1 \in StateType
  BY <1>3, <1>4 DEF StateType
<1> HIDE DEF x1
<1>7. x1.promises[p] = r
  BY <1>5 DEF StateType
<1> DEFINE parks(c) == {w[3] : w \in {v \in W : v[1] = c}}
           ctx == [c \in Contexts |->
                   IF parks(c) = {} THEN x1.ctx[c] ELSE AnsweredAll(x1.ctx[c], parks(c))]
           wakes == x1.wakes \cup {<<w[1], w[2]>> : w \in W}
           promises == [x1.promises EXCEPT ![p].waiters = {}]
<1>8. y = [x1 EXCEPT !.promises = promises, !.ctx = ctx, !.wakes = wakes]
  <2> DEFINE woken == {w \in x1.promises[p].waiters : Live(x1, w[1], w[2])}
             of(S, c) == {w[3] : w \in {v \in S : v[1] = c}}
             popped(S) == [x1 EXCEPT
                !.promises[p].waiters = {},
                !.ctx = [c \in Contexts |->
                   IF of(S, c) = {} THEN x1.ctx[c] ELSE AnsweredAll(x1.ctx[c], of(S, c))],
                !.wakes = @ \cup {<<w[1], w[2]>> : w \in S}]
  <2>1. woken = W
    BY <1>2, <1>4, <1>5, <1>7 DEF Live
  <2>2. y = popped(woken)
    BY DEF PopAllWaiters
  <2>3. y = popped(W)
    <3> HIDE DEF woken, y, W, popped
    <3> QED BY <2>1, <2>2
  <2> HIDE DEF y
  <2> QED BY <2>3, SMT
<1>9. \A c \in Contexts : IF WaiterOf(x, p, c) THEN Given(x.ctx[c], ctx[c]) ELSE ctx[c] = x.ctx[c]
  <2> SUFFICES ASSUME NEW c \in Contexts
               PROVE  IF WaiterOf(x, p, c) THEN Given(x.ctx[c], ctx[c]) ELSE ctx[c] = x.ctx[c]
    OBVIOUS
  <2>1. CASE WaiterOf(x, p, c)
    <3>1. parks(c) = {x.ctx[c].park} /\ x.ctx[c].inbox = <<>>
      BY <2>1, <1>2 DEF WaiterOf
    <3>2. ctx[c] = [x.ctx[c] EXCEPT !.inbox = @ \o <<x.ctx[c].park>>, !.exit = "woken"]
      BY <1>5, <3>1, SetToSeqOne DEF AnsweredAll
    <3>3. x.ctx[c] \in ContextType
      BY DEF StateType
    <3> QED BY <2>1, <3>1, <3>2, <3>3, GivenContext
  <2>2. CASE ~WaiterOf(x, p, c)
    <3>1. parks(c) = {}
      BY <2>2, <1>2 DEF WaiterOf
    <3> QED BY <1>5, <2>2, <3>1
  <2> QED BY <2>1, <2>2
<1>10. ctx \in [Contexts -> ContextType]
  <2>1. \A c \in Contexts : ctx[c] \in ContextType
    BY <1>9 DEF Given, StateType
  <2> QED BY <2>1
<1>11. wakes \in SUBSET (Contexts \X Nat)
  BY <1>1, <1>5 DEF StateType
<1>12. promises \in [Promises -> PromiseType] /\ promises[p].status = status
       /\ promises[p].waiters = {} /\ promises[p].handlers = <<>>
       /\ promises[p].elements = x.promises[p].elements
       /\ promises[p].race = x.promises[p].race
       /\ promises[p].remaining = x.promises[p].remaining
       /\ \A q \in Promises : q # p => promises[q] = x.promises[q]
  <2>1. [r EXCEPT !.waiters = {}] \in PromiseType
    BY <1>4 DEF PromiseType
  <2>2. promises = [x.promises EXCEPT ![p] = [r EXCEPT !.waiters = {}]]
    BY <1>5, <1>7 DEF StateType
  <2> HIDE DEF promises
  <2>3. promises[p] = [r EXCEPT !.waiters = {}]
    BY <2>2 DEF StateType
  <2> QED BY <1>4, <2>1, <2>2, <2>3 DEF StateType, PromiseType
<1> HIDE DEF ctx, promises, wakes
<1>13. /\ y \in StateType /\ y.ctx = ctx /\ y.promises = promises /\ y.wakes = wakes
       /\ y.linked = x.linked /\ y.free = x.free /\ y.settlers = x.settlers
       /\ y.parks = x.parks /\ y.restarted = x.restarted
  BY <1>5, <1>6, <1>8, <1>10, <1>11, <1>12 DEF StateType
<1>14. Settles(x, y, p, status)
  BY <1>5, <1>9, <1>12, <1>13 DEF Settles, wakes
<1> QED BY <1>14 DEF Settling, x1

LEMMA SettlesKeeps ==
  ASSUME NEW x \in StateType, NEW D, Inv(x, D), NEW p \in Promises, Made(x, p),
         NEW status \in Status, NEW y, Settles(x, y, p, status)
  PROVE  Inv(y, D) /\ Cascades(x, y)
<1>1. /\ y \in StateType
      /\ y.linked = x.linked /\ y.free = x.free /\ y.settlers = x.settlers
      /\ y.parks = x.parks /\ y.restarted = x.restarted
      /\ y.wakes = x.wakes \cup {<<w[1], w[2]>> : w \in x.promises[p].waiters}
  BY DEF Settles
<1>2. /\ \A q \in Promises : q # p => y.promises[q] = x.promises[q]
      /\ y.promises[p].status = status /\ y.promises[p].waiters = {}
      /\ y.promises[p].handlers = <<>>
  BY DEF Settles
<1>3. /\ \A c \in Contexts : WaiterOf(x, p, c) => Given(x.ctx[c], y.ctx[c])
      /\ \A c \in Contexts : ~WaiterOf(x, p, c) => y.ctx[c] = x.ctx[c]
  BY DEF Settles
<1>4. \A c \in Contexts : WaiterOf(x, p, c) =>
        /\ x.ctx[c].live /\ x.ctx[c].exit = "await"
        /\ ~x.ctx[c].moved /\ x.ctx[c].stash = 0 /\ x.ctx[c].inbox = <<>>
  <2>1. \A c \in Contexts : WaiterOf(x, p, c) => x.ctx[c].live /\ x.ctx[c].exit = "await"
    BY DEF WaiterOf, Inv, WaiterInv
  <2> QED BY <2>1 DEF Inv, CtxInv
<1>5. \A w \in x.promises[p].waiters :
        /\ w[1] \in Contexts /\ WaiterOf(x, p, w[1]) /\ w[2] = x.ctx[w[1]].gen
  <2>1. x.promises[p].waiters \in SUBSET (Contexts \X Nat \X Nat)
    BY DEF StateType, PromiseType
  <2>2. \A w \in x.promises[p].waiters : w[1] \in Contexts /\ w = <<w[1], w[2], w[3]>>
    BY <2>1
  <2> QED BY <2>2 DEF WaiterOf, Inv, WaiterInv
<1>6. \A c \in Contexts :
        /\ y.ctx[c].live = x.ctx[c].live /\ y.ctx[c].gen = x.ctx[c].gen
        /\ y.ctx[c].cid = x.ctx[c].cid /\ y.ctx[c].moved = x.ctx[c].moved
        /\ y.ctx[c].park = x.ctx[c].park /\ y.ctx[c].stash = x.ctx[c].stash
        /\ y.ctx[c].owes = x.ctx[c].owes
  BY <1>3 DEF Given
<1>7. \A c \in Contexts : y.ctx[c].exit \in {"call", "grant", "await", "run"} =>
        ~WaiterOf(x, p, c) /\ y.ctx[c] = x.ctx[c]
  BY <1>3 DEF Given
<1>8. \A c \in Contexts : x.ctx[c].exit \in {"call", "grant", "run"} => y.ctx[c] = x.ctx[c]
  BY <1>3, <1>4
<1>9. \A q : Made(x, q) => Made(y, q)
  BY <1>2 DEF Made, Status
<1>10. \A q : Made(y, q) <=> Made(x, q)
  BY <1>2, <1>9 DEF Made
<1>11. CtxInv(y)
  <2> SUFFICES ASSUME NEW c \in Contexts
               PROVE  LET k == y.ctx[c] IN
                        /\ k.inbox \in {<<>>, <<k.park>>} /\ k.stash \in {0, k.park}
                        /\ k.stash # 0 => k.inbox = <<>>
                        /\ k.inbox # <<>> => k.exit = "woken" \/ k.moved
                        /\ k.stash # 0 => k.exit = "call"
                        /\ k.moved => k.exit = "grant"
                        /\ ~k.live => k.exit = "run"
                        /\ k.exit \in {"call", "grant", "await"} => k.park # 0
    BY DEF CtxInv
  <2>1. CASE WaiterOf(x, p, c)
    BY <2>1, <1>3, <1>4 DEF Given
  <2>2. CASE ~WaiterOf(x, p, c)
    <3>1. y.ctx[c] = x.ctx[c]
      BY <2>2, <1>3
    <3> QED BY <3>1 DEF Inv, CtxInv
  <2> QED BY <2>1, <2>2
<1>12. PromiseInv(y)
  <2>1. PromiseInv(x)
    BY DEF Inv
  <2>2. \E n \in 0 .. MaxPromises : \A q \in Promises : Made(y, q) <=> q <= n
    BY <2>1, <1>10 DEF PromiseInv
  <2>3. \A q \in Promises : LET r == y.promises[q] IN
       /\ r.status # "pending" => r.waiters = {} /\ r.handlers = <<>>
       /\ \A i \in DOMAIN r.handlers : Made(y, r.handlers[i].child)
    BY <2>1, <1>2, <1>10 DEF PromiseInv
  <2>4. \A c \in Contexts : y.ctx[c].owes # None => Made(y, y.ctx[c].owes)
    BY <2>1, <1>6, <1>10 DEF PromiseInv
  <2>5. \A e \in 1 .. Entries :
       y.linked[e].live /\ y.linked[e].ctx = None => Made(y, y.linked[e].promise)
    BY <2>1, <1>1, <1>10 DEF PromiseInv
  <2> QED BY <2>2, <2>3, <2>4, <2>5 DEF PromiseInv
<1>13. WaiterInv(y)
  <2>1. \A q \in Promises : \A w \in y.promises[q].waiters :
          /\ q # p /\ w \in x.promises[q].waiters /\ w[1] \in Contexts
          /\ ~WaiterOf(x, p, w[1])
    <3> SUFFICES ASSUME NEW q \in Promises, NEW w \in y.promises[q].waiters
                 PROVE  /\ q # p /\ w \in x.promises[q].waiters /\ w[1] \in Contexts
                        /\ ~WaiterOf(x, p, w[1])
      OBVIOUS
    <3>1. q # p /\ w \in x.promises[q].waiters
      BY <1>2
    <3>2. w[1] \in Contexts
      BY <3>1 DEF StateType, PromiseType
    <3> DEFINE v == <<w[1], x.ctx[w[1]].gen, x.ctx[w[1]].park>>
    <3>3. v[1] = w[1]
      OBVIOUS
    <3>4. v \notin x.promises[p].waiters
      <4> HIDE DEF v
      <4> QED BY <3>1, <3>3 DEF Inv, WaiterInv
    <3> QED BY <3>1, <3>2, <3>4 DEF WaiterOf
  <2>2. \A q \in Promises : \A w \in y.promises[q].waiters :
          LET k == y.ctx[w[1]] IN k.live /\ k.gen = w[2] /\ k.park = w[3] /\ k.exit = "await"
    BY <2>1, <1>3 DEF Inv, WaiterInv
  <2>3. \A q, r \in Promises :
          \A w \in y.promises[q].waiters, v \in y.promises[r].waiters : w[1] = v[1] => q = r
    BY <2>1 DEF Inv, WaiterInv
  <2>4. ASSUME NEW c \in Contexts, y.ctx[c].live, y.ctx[c].exit = "await"
        PROVE  \E q \in Promises : <<c, y.ctx[c].gen, y.ctx[c].park>> \in y.promises[q].waiters
    <3>1. ~WaiterOf(x, p, c) /\ y.ctx[c] = x.ctx[c]
      BY <2>4, <1>7
    <3>2. PICK q \in Promises : <<c, x.ctx[c].gen, x.ctx[c].park>> \in x.promises[q].waiters
      BY <3>1, <2>4 DEF Inv, WaiterInv
    <3>3. q # p
      BY <3>1, <3>2 DEF WaiterOf
    <3> QED BY <3>1, <3>2, <3>3, <1>2
  <2> QED BY <2>2, <2>3, <2>4 DEF WaiterInv
<1>14. EntryInv(y, D)
  <2>1. \A e, d : Names(y, D, e, d) <=> Names(x, D, e, d)
    BY <1>1 DEF Names
  <2>2. \A e \in 1 .. Entries, c \in Contexts : Names(y, D, e, c) =>
          /\ y.ctx[c] = x.ctx[c] /\ <<c, y.ctx[c].gen>> \notin y.wakes
    <3> SUFFICES ASSUME NEW e \in 1 .. Entries, NEW c \in Contexts, Names(x, D, e, c)
                 PROVE  y.ctx[c] = x.ctx[c] /\ <<c, y.ctx[c].gen>> \notin y.wakes
      BY <2>1
    <3>1. x.ctx[c].exit \in {"call", "grant"} /\ <<c, x.ctx[c].gen>> \notin x.wakes
      BY DEF Inv, EntryInv
    <3>2. y.ctx[c] = x.ctx[c] /\ ~WaiterOf(x, p, c)
      BY <3>1, <1>8, <1>4
    <3>3. \A w \in x.promises[p].waiters : w[1] # c
      BY <3>2, <1>5
    <3> QED BY <3>1, <3>2, <3>3, <1>1
  <2>3. EntryInv(x, D)
    BY DEF Inv
  <2>4. \A e \in 1 .. Entries, c \in Contexts : Names(y, D, e, c) =>
          LET k == y.ctx[c] IN
            /\ k.live /\ k.gen = y.linked[e].gen /\ k.park = y.linked[e].park
            /\ k.exit \in {"call", "grant"} /\ k.stash = 0 /\ <<c, k.gen>> \notin y.wakes
    BY <2>1, <2>2, <2>3, <1>1 DEF EntryInv
  <2>5. \A e, f \in 1 .. Entries, c \in Contexts :
          Names(y, D, e, c) /\ Names(y, D, f, c) => e = f
    BY <2>1, <2>3 DEF EntryInv
  <2>6. \A c \in Contexts : LET k == y.ctx[c] IN
          k.live /\ k.exit \in {"call", "grant"} /\ k.stash = 0 /\ ~k.moved
            => \E e \in 1 .. Entries : Names(y, D, e, c)
    BY <2>1, <2>3, <1>7 DEF EntryInv
  <2> QED BY <2>4, <2>5, <2>6 DEF EntryInv
<1>15. FreeInv(y)
  BY <1>1 DEF Inv, FreeInv
<1>16. WakeInv(y)
  <2>1. \A w \in x.wakes : /\ w[1] \in Contexts
                           /\ Live(y, w[1], w[2]) /\ Ready(y.ctx[w[1]])
    <3>1. \A w \in x.wakes : /\ w[1] \in Contexts
                             /\ Live(x, w[1], w[2]) /\ Ready(x.ctx[w[1]])
      BY DEF Inv, WakeInv, StateType
    <3> QED BY <3>1, <1>3, <1>6 DEF Live, Ready, Given
  <2>2. \A w \in x.promises[p].waiters : Live(y, w[1], w[2]) /\ Ready(y.ctx[w[1]])
    BY <1>3, <1>4, <1>5, <1>6 DEF Live, Ready, Given
  <2>3. \A w \in y.wakes : Live(y, w[1], w[2]) /\ Ready(y.ctx[w[1]])
    BY <1>1, <2>1, <2>2
  <2>4. ASSUME NEW c \in Contexts, y.ctx[c].live, Ready(y.ctx[c])
        PROVE  \/ <<c, y.ctx[c].gen>> \in y.wakes
               \/ \E s \in y.settlers : s.stage = "settle" /\ s.slot = c
                                         /\ s.gen = y.ctx[c].gen /\ s.cid = y.ctx[c].cid
    <3>1. CASE WaiterOf(x, p, c)
      <4> DEFINE w == <<c, x.ctx[c].gen, x.ctx[c].park>>
      <4>1. w \in x.promises[p].waiters /\ <<w[1], w[2]>> = <<c, y.ctx[c].gen>>
        BY <3>1, <1>6 DEF WaiterOf
      <4> HIDE DEF w
      <4> QED BY <4>1, <1>1
    <3>2. CASE ~WaiterOf(x, p, c)
      BY <2>4, <3>2, <1>1, <1>3 DEF Inv, WakeInv
    <3> QED BY <3>1, <3>2
  <2> QED BY <2>3, <2>4 DEF WakeInv
<1>17. SettlerInv(y, D)
  <2>1. \A s \in x.settlers : s.kind # "js" => s.slot \in Contexts
    BY DEF Inv, SettlerInv
  <2>2. \A s \in x.settlers : Current(y, s) <=> Current(x, s)
    BY <2>1, <1>6 DEF Current, Live
  <2>3. \A s \in x.settlers : Acting(y, s) <=> Acting(x, s)
    BY <2>2 DEF Acting
  <2>4. \A s \in x.settlers : Acting(x, s) => s.slot \in Contexts /\ y.ctx[s.slot] = x.ctx[s.slot]
    BY <2>1, <1>8 DEF Acting, Current, Inv, SettlerInv
  <2>5. \A e, d : Names(y, D, e, d) <=> Names(x, D, e, d)
    BY <1>1 DEF Names
  <2>6. \A s \in x.settlers : s.kind # "js" =>
            /\ s.slot \in Contexts /\ s.gen <= y.ctx[s.slot].gen
            /\ Live(y, s.slot, s.gen) => s.cid <= y.ctx[s.slot].cid
            /\ Approval(s) /\ y.ctx[s.slot].live /\ y.ctx[s.slot].exit = "grant"
                  => s.gen = y.ctx[s.slot].gen
    BY <2>1, <1>6, <1>7 DEF Inv, SettlerInv, Live
  <2>7. \A s \in x.settlers : Approval(s) => s.kind # "js"
    BY DEF Approval
  <2> QED BY <1>1, <2>2, <2>3, <2>4, <2>5, <2>6, <2>7 DEF Inv, SettlerInv
<1>18. Cascades(x, y)
  BY <1>1, <1>8, <1>9 DEF Cascades
<1> QED BY <1>11, <1>12, <1>13, <1>14, <1>15, <1>16, <1>17, <1>18 DEF Inv

\* A change of handlers, and of what an aggregate still waits for.
LEMMA PromisesKeep ==
  ASSUME NEW x \in StateType, NEW D, Inv(x, D), NEW y \in StateType,
         y.ctx = x.ctx, y.linked = x.linked, y.free = x.free, y.settlers = x.settlers,
         y.wakes = x.wakes, PromiseInv(y),
         \A p \in Promises : y.promises[p].waiters = x.promises[p].waiters
  PROVE  Inv(y, D)
<1>1. \A e, c : Names(y, D, e, c) <=> Names(x, D, e, c)
  BY DEF Names
<1>2. \A c, gen : Live(y, c, gen) <=> Live(x, c, gen)
  BY DEF Live
<1>3. \A s : (Current(y, s) <=> Current(x, s)) /\ (Acting(y, s) <=> Acting(x, s))
  BY <1>2 DEF Current, Acting
<1>4. CtxInv(y)
  BY DEF Inv, CtxInv
<1>5. WaiterInv(y)
  BY DEF Inv, WaiterInv
<1>6. EntryInv(y, D)
  BY <1>1 DEF Inv, EntryInv
<1>7. FreeInv(y)
  BY DEF Inv, FreeInv
<1>8. WakeInv(y)
  BY <1>2 DEF Inv, WakeInv
<1>9. SettlerInv(y, D)
  BY <1>1, <1>2, <1>3 DEF Inv, SettlerInv
<1> QED BY <1>4, <1>5, <1>6, <1>7, <1>8, <1>9 DEF Inv

\* The handlers that a cascade has still to run
TaskType == [kind : {"pass", "spawn", "race", "all"}, child : Promises, status : Status]
Tasks(x, todo) == todo \in Seq(TaskType) /\ \A i \in DOMAIN todo : Made(x, todo[i].child)

LEMMA PoppedTasks ==
  ASSUME NEW x \in StateType, PromiseInv(x), NEW p \in Promises, NEW status \in Status
  PROVE  Tasks(x, Popped(x, p, status))
<1> DEFINE hs == x.promises[p].handlers
<1>1. hs \in Seq(HandlerType)
  BY DEF StateType, PromiseType
<1>2. \A i \in DOMAIN hs : hs[i] \in HandlerType /\ Made(x, hs[i].child)
  BY <1>1, ElementOfSeq DEF PromiseInv
<1>3. \A i \in DOMAIN hs :
        /\ [kind |-> hs[i].kind, child |-> hs[i].child, status |-> status] \in TaskType
        /\ Made(x, hs[i].child)
  BY <1>2 DEF HandlerType, TaskType
<1>4. DOMAIN hs = 1 .. Len(hs) /\ Len(hs) \in Nat
  BY <1>1
<1> DEFINE todo == [i \in DOMAIN hs |->
                      [kind |-> hs[i].kind, child |-> hs[i].child, status |-> status]]
<1>5. todo = Popped(x, p, status)
  BY DEF Popped
<1>6. todo \in [1 .. Len(hs) -> TaskType]
  BY <1>3, <1>4
<1>7. todo \in Seq(TaskType) /\ DOMAIN todo = DOMAIN hs
  <2> HIDE DEF todo
  <2> QED BY <1>4, <1>6
<1>8. \A i \in DOMAIN hs : todo[i].child = hs[i].child
  OBVIOUS
<1> HIDE DEF todo, hs
<1> QED BY <1>2, <1>5, <1>7, <1>8 DEF Tasks

LEMMA TasksOfBoth ==
  ASSUME NEW x, NEW s, NEW t, Tasks(x, s), Tasks(x, t)
  PROVE  Tasks(x, s \o t)
<1>1. s \in Seq(TaskType) /\ t \in Seq(TaskType)
  BY DEF Tasks
<1>2. /\ s \o t \in Seq(TaskType) /\ Len(s \o t) = Len(s) + Len(t)
      /\ \A i \in 1 .. Len(s) + Len(t) :
           (s \o t)[i] = IF i <= Len(s) THEN s[i] ELSE t[i - Len(s)]
  BY <1>1, ConcatProperties
<1>3. \A i \in DOMAIN (s \o t) : Made(x, (s \o t)[i].child)
  <2> TAKE i \in DOMAIN (s \o t)
  <2>1. i \in 1 .. Len(s) + Len(t) /\ Len(s) \in Nat /\ Len(t) \in Nat
    BY <1>1, <1>2
  <2>2. CASE i <= Len(s)
    BY <1>1, <1>2, <2>1, <2>2 DEF Tasks
  <2>3. CASE ~(i <= Len(s))
    <3>1. i - Len(s) \in DOMAIN t
      BY <1>1, <2>1, <2>3
    <3> QED BY <1>2, <2>1, <2>3, <3>1 DEF Tasks
  <2> QED BY <2>2, <2>3
<1> QED BY <1>2, <1>3 DEF Tasks

LEMMA CascadesTransitive ==
  ASSUME NEW x, NEW y, NEW z, Cascades(x, y), Cascades(y, z)
  PROVE  Cascades(x, z)
BY DEF Cascades

LEMMA TasksStay ==
  ASSUME NEW x, NEW y, NEW todo, Tasks(x, todo), Cascades(x, y)
  PROVE  Tasks(y, todo)
BY DEF Tasks, Cascades, Made

LEMMA SettlingKeeps ==
  ASSUME NEW x \in StateType, NEW D, Inv(x, D), NEW p \in Promises, Made(x, p),
         NEW status \in Status, NEW todo, Tasks(x, todo),
         NEW w, w = Settling(x, p, status, todo)
  PROVE  /\ Inv(w.drone, D) /\ Cascades(x, w.drone) /\ Tasks(w.drone, w.todo)
         /\ w.drone.promises[p].status = status
<1>1. CtxInv(x) /\ WaiterInv(x) /\ PromiseInv(x)
  BY DEF Inv
<1>2. Settles(x, w.drone, p, status)
  BY <1>1, SettlesWaiters
<1>3. Inv(w.drone, D) /\ Cascades(x, w.drone)
  BY <1>2, SettlesKeeps
<1>4. w.todo = Popped(x, p, status) \o todo
  BY DEF Settling
<1>5. Tasks(x, w.todo)
  BY <1>1, <1>4, PoppedTasks, TasksOfBoth
<1> QED BY <1>2, <1>3, <1>5, TasksStay DEF Settles

LEMMA HandledKeeps ==
  ASSUME NEW x \in StateType, NEW D, Inv(x, D), NEW h \in TaskType, Made(x, h.child),
         NEW todo, Tasks(x, todo), NEW w, w = Handled(x, h, todo)
  PROVE  Inv(w.drone, D) /\ Cascades(x, w.drone) /\ Tasks(w.drone, w.todo)
<1>1. /\ h.child \in Promises /\ h.status \in Status
      /\ h.kind \in {"pass", "spawn", "race", "all"}
  BY DEF TaskType
<1>2. \A status \in Status : w = Settling(x, h.child, status, todo) =>
        Inv(w.drone, D) /\ Cascades(x, w.drone) /\ Tasks(w.drone, w.todo)
  BY <1>1, SettlingKeeps
<1>3. ASSUME w = [drone |-> Allocated(x, h.child, FALSE), todo |-> todo]
      PROVE  Inv(w.drone, D) /\ Cascades(x, w.drone) /\ Tasks(w.drone, w.todo)
  <2>1. w.drone = Allocated(x, h.child, FALSE) /\ w.todo = todo
    BY <1>3
  <2>2. h.child \in {None} \cup Promises /\ FALSE \in BOOLEAN
    BY <1>1
  <2>3. Inv(w.drone, D) /\ Cascades(x, w.drone)
    BY <2>1, <2>2, AllocatedKeeps
  <2> QED BY <2>1, <2>3, TasksStay
<1>4. ASSUME w = [drone |-> x, todo |-> todo]
      PROVE  Inv(w.drone, D) /\ Cascades(x, w.drone) /\ Tasks(w.drone, w.todo)
  BY <1>4 DEF Cascades
<1>5. ASSUME w = [drone |-> [x EXCEPT !.promises[h.child].remaining = @ - 1], todo |-> todo]
      PROVE  Inv(w.drone, D) /\ Cascades(x, w.drone) /\ Tasks(w.drone, w.todo)
  <2> DEFINE r == [x.promises[h.child] EXCEPT !.remaining = @ - 1]
             y == w.drone
  <2>1. x.promises[h.child] \in PromiseType
    BY <1>1 DEF StateType
  <2>2. /\ r \in PromiseType /\ r.waiters = x.promises[h.child].waiters
        /\ r.handlers = x.promises[h.child].handlers /\ r.status = x.promises[h.child].status
    <3> DEFINE k == x.promises[h.child]
               n == k.remaining - 1
    <3>1. n \in Int /\ k \in PromiseType
      BY <2>1 DEF PromiseType
    <3>2. r = [k EXCEPT !.remaining = n]
      OBVIOUS
    <3> HIDE DEF k, n, r
    <3>3. r \in PromiseType /\ r.waiters = k.waiters /\ r.handlers = k.handlers
          /\ r.status = k.status
      BY <3>1, <3>2 DEF PromiseType
    <3> QED BY <3>3 DEF k
  <2>3. y = [x EXCEPT !.promises[h.child] = r] /\ w.todo = todo
    BY <1>5
  <2> HIDE DEF r, y
  <2>4. /\ y.promises = [x.promises EXCEPT ![h.child] = r]
        /\ y.ctx = x.ctx /\ y.linked = x.linked /\ y.free = x.free
        /\ y.settlers = x.settlers /\ y.wakes = x.wakes
        /\ y.parks = x.parks /\ y.restarted = x.restarted
        /\ y \in StateType
    BY <1>1, <2>2, <2>3 DEF StateType
  <2>5. \A p \in Promises : /\ y.promises[p].waiters = x.promises[p].waiters
                            /\ y.promises[p].handlers = x.promises[p].handlers
                            /\ y.promises[p].status = x.promises[p].status
    BY <1>1, <2>2, <2>4 DEF StateType
  <2>6. \A p : Made(y, p) <=> Made(x, p)
    BY <2>5 DEF Made
  <2>7. PromiseInv(y)
    <3>1. PromiseInv(x)
      BY DEF Inv
    <3> QED BY <3>1, <2>4, <2>5, <2>6 DEF PromiseInv
  <2>8. Inv(y, D) /\ Cascades(x, y)
    BY <2>4, <2>5, <2>6, <2>7, PromisesKeep DEF Cascades
  <2> QED BY <2>3, <2>8, TasksStay DEF y
<1>6. "resolved" \in Status /\ "rejected" \in Status
  BY DEF Status
<1>7. \/ \E status \in Status : w = Settling(x, h.child, status, todo)
      \/ w = [drone |-> Allocated(x, h.child, FALSE), todo |-> todo]
      \/ w = [drone |-> x, todo |-> todo]
      \/ w = [drone |-> [x EXCEPT !.promises[h.child].remaining = @ - 1], todo |-> todo]
  <2>1. CASE h.kind = "pass"
    BY <1>1, <2>1 DEF Handled
  <2>2. CASE h.kind = "spawn"
    BY <2>2 DEF Handled
  <2>3. CASE h.kind \in {"race", "all"} /\ x.promises[h.child].status # "pending"
    BY <2>3 DEF Handled
  <2>4. CASE h.kind = "race" /\ x.promises[h.child].status = "pending"
    BY <1>1, <2>4 DEF Handled
  <2>5. CASE h.kind = "all" /\ x.promises[h.child].status = "pending"
    <3>1. w = IF h.status = "rejected" THEN Settling(x, h.child, "rejected", todo)
              ELSE IF x.promises[h.child].remaining = 1
              THEN Settling(x, h.child, "resolved", todo)
              ELSE [drone |-> [x EXCEPT !.promises[h.child].remaining = @ - 1], todo |-> todo]
      BY <2>5 DEF Handled
    <3> QED BY <1>6, <3>1
  <2> QED BY <1>1, <2>1, <2>2, <2>3, <2>4, <2>5
<1> QED BY <1>2, <1>3, <1>4, <1>5, <1>7

\* A state that a cascade from x has reached, and what it has still to do
Reached(x, D, w) ==
  Inv(w.drone, D) /\ Cascades(x, w.drone) /\ Tasks(w.drone, w.todo)

LEMMA HandledNextKeeps ==
  ASSUME NEW x, NEW D, NEW w, Reached(x, D, w)
  PROVE  Reached(x, D, HandledNext(w))
<1>1. CASE w.todo = <<>>
  BY <1>1 DEF HandledNext
<1>2. CASE w.todo # <<>>
  <2> DEFINE y == w.drone
             h == Head(w.todo)
             v == Handled(y, h, Tail(w.todo))
  <2>1. y \in StateType /\ Inv(y, D) /\ Tasks(y, w.todo)
    BY DEF Reached, Cascades
  <2>2. w.todo \in Seq(TaskType)
    BY <2>1 DEF Tasks
  <2>3. h \in TaskType /\ h = w.todo[1] /\ 1 \in DOMAIN w.todo
    BY <1>2, <2>2
  <2>4. Made(y, h.child)
    BY <2>1, <2>3 DEF Tasks
  <2>5. /\ Tail(w.todo) \in Seq(TaskType) /\ Len(Tail(w.todo)) = Len(w.todo) - 1
        /\ \A i \in 1 .. Len(Tail(w.todo)) : Tail(w.todo)[i] = w.todo[i + 1]
    BY <1>2, <2>2, HeadTailProperties
  <2>6. Tasks(y, Tail(w.todo))
    <3>1. \A i \in DOMAIN Tail(w.todo) :
            i + 1 \in DOMAIN w.todo /\ Tail(w.todo)[i] = w.todo[i + 1]
      BY <2>2, <2>5
    <3> QED BY <2>1, <2>5, <3>1 DEF Tasks
  <2> HIDE DEF h, y
  <2>7. /\ Inv(v.drone, D) /\ Cascades(y, v.drone) /\ Tasks(v.drone, v.todo)
    <3> HIDE DEF v
    <3>1. v = Handled(y, h, Tail(w.todo))
      BY DEF v
    <3> QED BY <2>1, <2>3, <2>4, <2>6, <3>1, HandledKeeps
  <2>8. HandledNext(w) = v
    BY <1>2 DEF HandledNext, y, h
  <2>9. Cascades(x, y)
    BY DEF Reached, y
  <2>10. Cascades(x, v.drone)
    <3> HIDE DEF v
    <3> QED BY <2>7, <2>9, CascadesTransitive
  <2> HIDE DEF v
  <2> QED BY <2>7, <2>8, <2>10 DEF Reached
<1> QED BY <1>1, <1>2

\* The states that a cascade goes through
LEMMA AllHandledRuns ==
  ASSUME NEW w
  PROVE  \E f : /\ f[0] = w /\ \A i \in 1 .. MaxHandlers : f[i] = HandledNext(f[i - 1])
                /\ AllHandled(w) = f[MaxHandlers].drone
<1> DEFINE N == MaxHandlers
           more(i, prev) == IF i = 0 THEN w ELSE HandledNext(prev)
           Run(f, n) == f = [i \in 0 .. n |-> more(i, f[i - 1])]
<1>1. N \in Nat
  BY SettlementAssumption DEF MaxHandlers
<1>2. AllHandled(w) = (CHOOSE f : Run(f, N))[N].drone
  BY DEF AllHandled
<1>3. \A prev : more(0, prev) = w
  OBVIOUS
<1>4. \A i \in 1 .. N : \A prev : more(i, prev) = HandledNext(prev)
  OBVIOUS
<1> HIDE DEF more, N
<1>5. ASSUME NEW n, NEW f, Run(f, n)
      PROVE  \A i \in 0 .. n : f[i] = more(i, f[i - 1])
  <2> DEFINE e(i) == more(i, f[i - 1])
  <2>1. f = [i \in 0 .. n |-> e(i)]
    BY <1>5
  <2> HIDE DEF e
  <2>2. \A i \in 0 .. n : f[i] = e(i)
    BY <2>1
  <2> QED
    BY <2>2 DEF e
<1>6. ASSUME NEW n, NEW f, f = [i \in 0 .. n |-> f[i]],
             \A i \in 0 .. n : f[i] = more(i, f[i - 1])
      PROVE  Run(f, n)
  <2> DEFINE e(i) == more(i, f[i - 1])
  <2>1. f = [i \in 0 .. n |-> f[i]] /\ \A i \in 0 .. n : f[i] = e(i)
    BY <1>6
  <2> HIDE DEF e
  <2>2. f = [i \in 0 .. n |-> e(i)]
    BY <2>1
  <2> QED
    BY <2>2 DEF e
<1> HIDE DEF Run
<1>7. \A n \in 0 .. N : \E f : Run(f, n)
  <2> DEFINE bad == {n \in 0 .. N : ~\E f : Run(f, n)}
  <2>1. SUFFICES ASSUME bad # {} PROVE FALSE
    OBVIOUS
  <2>2. bad \in SUBSET Nat
    BY <1>1
  <2>3. PICK n \in bad : \A k \in bad : n <= k
    BY <2>1, <2>2, LeastNat
  <2>4. n \in 0 .. N /\ ~\E f : Run(f, n)
    OBVIOUS
  <2>5. \A k \in 0 .. N : k < n => \E f : Run(f, k)
    <3> TAKE k \in 0 .. N
    <3> HAVE k < n
    <3>1. k \notin bad
      BY <1>1, <2>3, <2>4
    <3> QED
      BY <3>1
  <2> HIDE DEF bad
  <2>6. PICK f : n # 0 => Run(f, n - 1)
    <3>1. n # 0 => n - 1 \in 0 .. N /\ n - 1 < n
      BY <1>1, <2>4
    <3> QED
      BY <2>5, <3>1
  <2> DEFINE g == [i \in 0 .. n |-> IF i = n THEN more(n, f[n - 1]) ELSE f[i]]
  <2>7. /\ g = [i \in 0 .. n |-> g[i]]
        /\ g[n] = more(n, f[n - 1])
        /\ \A i \in 0 .. n : i # n => g[i] = f[i]
    BY <1>1, <2>4
  <2> HIDE DEF g
  <2>8. \A i \in 0 .. n : g[i] = more(i, g[i - 1])
    <3> TAKE i \in 0 .. n
    <3>1. i = 0 => more(i, g[i - 1]) = more(i, f[i - 1])
      BY <1>3
    <3>2. i # 0 => i - 1 \in 0 .. n /\ i - 1 # n
      BY <1>1, <2>4
    <3>3. more(i, g[i - 1]) = more(i, f[i - 1])
      BY <2>7, <3>1, <3>2
    <3>4. CASE i = n
      BY <2>7, <3>3, <3>4
    <3>5. CASE i # n
      <4>1. n # 0 /\ i \in 0 .. n - 1
        BY <1>1, <2>4, <3>5
      <4>2. f[i] = more(i, f[i - 1])
        BY <1>5, <2>6, <4>1
      <4> QED
        BY <2>7, <3>3, <3>5, <4>2
    <3> QED
      BY <3>4, <3>5
  <2>9. Run(g, n)
    BY <1>6, <2>7, <2>8
  <2> QED
    BY <2>4, <2>9
<1> DEFINE f == CHOOSE g : Run(g, N)
<1>8. Run(f, N) /\ AllHandled(w) = f[N].drone
  <2>1. \E g : Run(g, N)
    BY <1>1, <1>7
  <2> QED
    BY <1>2, <2>1
<1> HIDE DEF f
<1>9. f[0] = w /\ \A i \in 1 .. N : f[i] = HandledNext(f[i - 1])
  <2>1. \A i \in 0 .. N : f[i] = more(i, f[i - 1])
    BY <1>5, <1>8
  <2>2. 0 \in 0 .. N /\ \A i \in 1 .. N : i \in 0 .. N
    BY <1>1
  <2> QED
    BY <1>3, <1>4, <2>1, <2>2
<1> QED
  BY <1>8, <1>9 DEF N

LEMMA AllHandledKeeps ==
  ASSUME NEW x, NEW D, NEW w, Reached(x, D, w)
  PROVE  Inv(AllHandled(w), D) /\ Cascades(x, AllHandled(w))
<1> DEFINE N == MaxHandlers
<1>1. N \in Nat
  BY SettlementAssumption DEF MaxHandlers
<1>2. PICK f : /\ f[0] = w /\ \A i \in 1 .. N : f[i] = HandledNext(f[i - 1])
               /\ AllHandled(w) = f[N].drone
  BY AllHandledRuns
<1> HIDE DEF N
<1>3. \A n \in 0 .. N : Reached(x, D, f[n])
  <2> DEFINE bad == {n \in 0 .. N : ~Reached(x, D, f[n])}
  <2>1. SUFFICES ASSUME bad # {} PROVE FALSE
    OBVIOUS
  <2>2. bad \in SUBSET Nat
    BY <1>1
  <2>3. PICK n \in bad : \A k \in bad : n <= k
    BY <2>1, <2>2, LeastNat
  <2>4. n \in 0 .. N /\ ~Reached(x, D, f[n])
    OBVIOUS
  <2>5. n # 0
    BY <1>2, <2>4
  <2>6. n \in 1 .. N /\ n - 1 \in 0 .. N /\ n - 1 < n
    BY <1>1, <2>4, <2>5
  <2>7. Reached(x, D, f[n - 1])
    <3>1. n - 1 \notin bad
      BY <2>3, <2>6
    <3> QED BY <2>6, <3>1
  <2>8. Reached(x, D, f[n])
    BY <1>2, <2>6, <2>7, HandledNextKeeps
  <2> QED
    BY <2>4, <2>8
<1> QED
  BY <1>1, <1>2, <1>3 DEF Reached

LEMMA SettledAsKeeps ==
  ASSUME NEW x \in StateType, NEW D, Inv(x, D), NEW p \in Promises, Made(x, p),
         NEW status \in Status
  PROVE  Inv(SettledAs(x, p, status), D) /\ Cascades(x, SettledAs(x, p, status))
<1>1. Tasks(x, <<>>)
  BY EmptySeq DEF Tasks
<1>2. Reached(x, D, Settling(x, p, status, <<>>))
  BY <1>1, SettlingKeeps DEF Reached
<1> QED BY <1>2, AllHandledKeeps DEF SettledAs

\* The handlers of a promise that is settled are popped; it has no waiters.
LEMMA ProcessHandlersKeeps ==
  ASSUME NEW x \in StateType, NEW D, NEW p \in Promises,
         Inv(HandlersPopped(x, p), D), HandlersPopped(x, p) \in StateType,
         x.promises[p].status \in Status,
         Tasks(HandlersPopped(x, p), Popped(x, p, x.promises[p].status))
  PROVE  /\ Inv(ProcessHandlers(x, p), D)
         /\ Cascades(HandlersPopped(x, p), ProcessHandlers(x, p))
<1> DEFINE y == HandlersPopped(x, p)
           w == [drone |-> y, todo |-> Popped(x, p, x.promises[p].status)]
<1>1. Cascades(y, y)
  BY DEF Cascades
<1>2. Reached(y, D, w)
  BY <1>1 DEF Reached
<1> QED BY <1>2, AllHandledKeeps DEF ProcessHandlers

(***************************************************************************)
(* Operators: a run of a context.                                          *)
(***************************************************************************)
\* Context c begins a run: its answer is consumed.
Runs(x, y, c) ==
  /\ y \in StateType
  /\ y.linked = x.linked /\ y.free = x.free /\ y.promises = x.promises
  /\ y.settlers = x.settlers /\ y.parks = x.parks /\ y.restarted = x.restarted
  /\ y.wakes = x.wakes \ {<<c, x.ctx[c].gen>>}
  /\ \A d \in Contexts : d # c => y.ctx[d] = x.ctx[d]
  /\ LET k == y.ctx[c] IN
       /\ k.live = x.ctx[c].live /\ k.gen = x.ctx[c].gen /\ k.cid = x.ctx[c].cid
       /\ k.owes = x.ctx[c].owes /\ k.executor = x.ctx[c].executor
       /\ k.exit = "run" /\ ~k.moved /\ k.park = 0 /\ k.inbox = <<>> /\ k.stash = 0

LEMMA BegunRuns ==
  ASSUME NEW x \in StateType, NEW c \in Contexts
  PROVE  Runs(x, Begun(x, c), c)
<1> DEFINE k == [x.ctx[c] EXCEPT !.exit = "run", !.moved = FALSE, !.park = 0,
                                 !.inbox = <<>>, !.stash = 0]
           y == Begun(x, c)
           wakes == x.wakes \ {<<c, x.ctx[c].gen>>}
           ctx == [x.ctx EXCEPT ![c] = k]
<1>1. x.ctx[c] \in ContextType
  BY DEF StateType
<1>2. /\ k \in ContextType
      /\ k.live = x.ctx[c].live /\ k.gen = x.ctx[c].gen /\ k.cid = x.ctx[c].cid
      /\ k.owes = x.ctx[c].owes /\ k.executor = x.ctx[c].executor
      /\ k.exit = "run" /\ k.moved = FALSE /\ k.park = 0 /\ k.inbox = <<>> /\ k.stash = 0
  BY <1>1, EmptySeq DEF ContextType, Exits
<1>3. y = [x EXCEPT !.wakes = wakes, !.ctx = ctx]
  BY DEF Begun
<1> HIDE DEF k, y
<1>4. ctx \in [Contexts -> ContextType] /\ wakes \in SUBSET (Contexts \X Nat)
  BY <1>2 DEF StateType
<1>5. ctx[c] = k /\ \A d \in Contexts : d # c => ctx[d] = x.ctx[d]
  BY DEF StateType
<1> HIDE DEF ctx
<1>6. /\ y.linked = x.linked /\ y.free = x.free /\ y.promises = x.promises
      /\ y.settlers = x.settlers /\ y.parks = x.parks /\ y.restarted = x.restarted
      /\ y.ctx = ctx /\ y.wakes = wakes /\ y \in StateType
  <2> HIDE DEF wakes
  <2> QED BY <1>3, <1>4 DEF StateType
<1> QED BY <1>2, <1>5, <1>6 DEF Runs, y

LEMMA RunsKeeps ==
  ASSUME NEW x \in StateType, Inv(x, {}), NEW c \in Contexts, x.ctx[c].live,
         \/ x.ctx[c].exit = "run"
         \/ <<c, x.ctx[c].gen>> \in x.wakes /\ Ready(x.ctx[c]),
         NEW y, Runs(x, y, c)
  PROVE  Inv(y, {})
<1>1. /\ y \in StateType
      /\ y.linked = x.linked /\ y.free = x.free /\ y.promises = x.promises
      /\ y.settlers = x.settlers
      /\ y.wakes = x.wakes \ {<<c, x.ctx[c].gen>>}
  BY DEF Runs
<1>2. \A d \in Contexts : d # c => y.ctx[d] = x.ctx[d]
  BY DEF Runs
<1>3. /\ y.ctx[c].live = x.ctx[c].live /\ y.ctx[c].gen = x.ctx[c].gen
      /\ y.ctx[c].cid = x.ctx[c].cid
      /\ y.ctx[c].owes = x.ctx[c].owes /\ y.ctx[c].executor = x.ctx[c].executor
      /\ y.ctx[c].exit = "run" /\ ~y.ctx[c].moved /\ y.ctx[c].park = 0
      /\ y.ctx[c].inbox = <<>> /\ y.ctx[c].stash = 0
  BY DEF Runs
<1>4. x.ctx[c].exit # "await"
  BY DEF Inv, CtxInv, Ready
<1>5. \A e \in 1 .. Entries : ~Names(x, {}, e, c)
  BY DEF Inv, EntryInv
<1>6. \A e, d : Names(y, {}, e, d) <=> Names(x, {}, e, d)
  BY <1>1 DEF Names
<1>7. CtxInv(y)
  BY <1>2, <1>3 DEF Inv, CtxInv
<1>8. PromiseInv(y)
  <2>1. \A p : Made(y, p) <=> Made(x, p)
    BY <1>1 DEF Made
  <2>2. \A d \in Contexts : y.ctx[d].owes = x.ctx[d].owes
    BY <1>2, <1>3
  <2> QED BY <1>1, <2>1, <2>2 DEF Inv, PromiseInv
<1>9. WaiterInv(y)
  <2>1. \A p \in Promises : \A w \in x.promises[p].waiters : w[1] \in Contexts /\ w[1] # c
    BY <1>4 DEF Inv, WaiterInv, StateType, PromiseType
  <2>2. \A d \in Contexts : y.ctx[d].exit = "await" => d # c
    BY <1>3
  <2> QED BY <1>1, <1>2, <2>1, <2>2 DEF Inv, WaiterInv
<1>10. EntryInv(y, {})
  <2>1. EntryInv(x, {})
    BY DEF Inv
  <2>2. \A e \in 1 .. Entries, d \in Contexts : Names(y, {}, e, d) =>
          LET k == y.ctx[d] IN
            /\ k.live /\ k.gen = y.linked[e].gen /\ k.park = y.linked[e].park
            /\ k.exit \in {"call", "grant"} /\ k.stash = 0 /\ <<d, k.gen>> \notin y.wakes
    BY <2>1, <1>1, <1>2, <1>5, <1>6 DEF EntryInv
  <2>3. \A e, f \in 1 .. Entries, d \in Contexts :
          Names(y, {}, e, d) /\ Names(y, {}, f, d) => e = f
    BY <2>1, <1>6 DEF EntryInv
  <2>4. \A d \in Contexts : LET k == y.ctx[d] IN
          k.live /\ k.exit \in {"call", "grant"} /\ k.stash = 0 /\ ~k.moved
            => \E e \in 1 .. Entries : Names(y, {}, e, d)
    BY <2>1, <1>2, <1>3, <1>6 DEF EntryInv
  <2> QED BY <2>2, <2>3, <2>4 DEF EntryInv
<1>11. FreeInv(y)
  BY <1>1 DEF Inv, FreeInv
<1>12. WakeInv(y)
  <2>1. \A w \in y.wakes : w[1] \in Contexts /\ w[1] # c
    <3> SUFFICES ASSUME NEW w \in y.wakes PROVE w[1] \in Contexts /\ w[1] # c
      OBVIOUS
    <3>1. w \in x.wakes /\ w # <<c, x.ctx[c].gen>>
      BY <1>1
    <3>2. w[1] \in Contexts /\ w = <<w[1], w[2]>>
      BY <3>1 DEF StateType
    <3>3. x.ctx[w[1]].gen = w[2]
      BY <3>1 DEF Inv, WakeInv, Live
    <3> QED BY <3>1, <3>2, <3>3
  <2>2. \A w \in y.wakes : Live(y, w[1], w[2]) /\ Ready(y.ctx[w[1]])
    BY <1>1, <1>2, <2>1 DEF Inv, WakeInv, Live
  <2>3. ASSUME NEW d \in Contexts, y.ctx[d].live, Ready(y.ctx[d])
        PROVE  \/ <<d, y.ctx[d].gen>> \in y.wakes
               \/ \E s \in y.settlers : s.stage = "settle" /\ s.slot = d
                                         /\ s.gen = y.ctx[d].gen /\ s.cid = y.ctx[d].cid
    <3>1. d # c
      BY <2>3, <1>3 DEF Ready
    <3>2. <<d, y.ctx[d].gen>> # <<c, x.ctx[c].gen>>
      BY <3>1
    <3> QED BY <2>3, <3>1, <3>2, <1>1, <1>2 DEF Inv, WakeInv
  <2> QED BY <2>2, <2>3 DEF WakeInv
<1>13. SettlerInv(y, {})
  <2>1. \A s \in x.settlers : s.kind # "js" => s.slot \in Contexts
    BY DEF Inv, SettlerInv
  <2>2. \A s \in x.settlers : Current(y, s) <=> Current(x, s)
    BY <2>1, <1>2, <1>3 DEF Current, Live
  <2>3. \A s \in x.settlers : Acting(y, s) <=> Acting(x, s)
    BY <2>2 DEF Acting
  <2>4. \A s \in x.settlers : Acting(x, s) =>
          s.slot \in Contexts /\ y.ctx[s.slot] = x.ctx[s.slot]
    <3> SUFFICES ASSUME NEW s \in x.settlers, Acting(x, s)
                 PROVE  s.slot \in Contexts /\ y.ctx[s.slot] = x.ctx[s.slot]
      OBVIOUS
    <3>1. s.slot \in Contexts
      BY <2>1 DEF Acting, Current
    <3>2. Names(x, {}, s.entry, s.slot) /\ s.entry \in 1 .. Entries
      BY DEF Inv, SettlerInv, StateType, SettlerType
    <3>3. s.slot # c
      BY <1>5, <3>2
    <3> QED BY <1>2, <3>1, <3>3
  <2>5. \A s \in x.settlers : s.kind # "js" =>
            /\ s.slot \in Contexts /\ s.gen <= y.ctx[s.slot].gen
            /\ Live(y, s.slot, s.gen) => s.cid <= y.ctx[s.slot].cid
            /\ Approval(s) /\ y.ctx[s.slot].live /\ y.ctx[s.slot].exit = "grant"
                  => s.gen = y.ctx[s.slot].gen
    BY <2>1, <1>2, <1>3 DEF Inv, SettlerInv, Live
  <2>6. \A s \in x.settlers : Approval(s) => s.kind # "js"
    BY DEF Approval
  <2> QED BY <1>1, <1>6, <2>2, <2>3, <2>4, <2>5, <2>6 DEF Inv, SettlerInv
<1> QED BY <1>7, <1>8, <1>9, <1>10, <1>11, <1>12, <1>13 DEF Inv

\* A context that runs is no waiter, has no entry and no continuation to answer it,
\* and is not queued.
LEMMA RunningIsAlone ==
  ASSUME NEW x \in StateType, NEW D, Inv(x, D), NEW c \in Contexts, x.ctx[c].exit = "run"
  PROVE  /\ \A p \in Promises : \A w \in x.promises[p].waiters : w[1] # c
         /\ \A e \in 1 .. Entries : ~Names(x, D, e, c)
         /\ \A w \in x.wakes : w[1] # c
         /\ \A s \in x.settlers : Acting(x, s) => s.slot # c
         /\ x.ctx[c].inbox = <<>> /\ x.ctx[c].stash = 0 /\ ~x.ctx[c].moved
<1>1. x.ctx[c].inbox = <<>> /\ x.ctx[c].stash = 0 /\ ~x.ctx[c].moved
  BY DEF Inv, CtxInv
<1>2. \A p \in Promises : \A w \in x.promises[p].waiters : w[1] # c
  BY DEF Inv, WaiterInv
<1>3. \A e \in 1 .. Entries : ~Names(x, D, e, c)
  BY DEF Inv, EntryInv
<1>4. \A w \in x.wakes : w[1] # c
  BY <1>1 DEF Inv, WakeInv, Ready
<1>5. \A s \in x.settlers : Acting(x, s) => s.slot # c
  BY DEF Inv, SettlerInv
<1> QED BY <1>1, <1>2, <1>3, <1>4, <1>5

(***************************************************************************)
(* Operators: the entries and their free list.                             *)
(***************************************************************************)
LEMMA WiderSeq ==
  ASSUME NEW S, NEW T, S \subseteq T, NEW s \in Seq(S)
  PROVE  s \in Seq(T)
<1>1. Len(s) \in Nat /\ s \in [1 .. Len(s) -> S]
  OBVIOUS
<1>2. s \in [1 .. Len(s) -> T]
  BY <1>1
<1> QED BY <1>1, <1>2

LEMMA SeqParts ==
  ASSUME NEW T, NEW s \in Seq(T)
  PROVE  /\ DOMAIN s = 1 .. Len(s) /\ Len(s) \in Nat
         /\ \A i \in DOMAIN s : s[i] \in T
         /\ s # <<>> =>
              /\ Head(s) \in T /\ Head(s) = s[1] /\ 1 \in DOMAIN s /\ Len(s) >= 1
              /\ Tail(s) \in Seq(T) /\ Len(Tail(s)) = Len(s) - 1
              /\ DOMAIN Tail(s) = 1 .. Len(Tail(s))
              /\ \A i \in 1 .. Len(Tail(s)) : Tail(s)[i] = s[i + 1]
<1>1. /\ DOMAIN s = 1 .. Len(s) /\ Len(s) \in Nat
      /\ \A i \in DOMAIN s : s[i] \in T
  OBVIOUS
<1>2. ASSUME s # <<>>
      PROVE  /\ Head(s) \in T /\ Head(s) = s[1] /\ 1 \in DOMAIN s /\ Len(s) >= 1
             /\ Tail(s) \in Seq(T) /\ Len(Tail(s)) = Len(s) - 1
             /\ \A i \in 1 .. Len(Tail(s)) : Tail(s)[i] = s[i + 1]
  BY <1>2, HeadTailProperties
<1>3. s # <<>> => DOMAIN Tail(s) = 1 .. Len(Tail(s))
  BY <1>2, LenProperties
<1> QED BY <1>1, <1>2, <1>3

\* s has the members of S, each once.
Enumerates(s, S) ==
  /\ s \in Seq(S)
  /\ \A i, j \in DOMAIN s : s[i] = s[j] => i = j
  /\ \A e \in S : \E i \in DOMAIN s : s[i] = e

LEMMA ReverseEnumerates ==
  ASSUME NEW S, IsFiniteSet(S)
  PROVE  Enumerates(Reverse(SetToSeq(S)), S)
<1> DEFINE n == Cardinality(S)
           s == SetToSeq(S)
           r == Reverse(s)
<1>1. n \in Nat /\ ExistsBijection(1 .. n, S)
  BY FS_CardinalityType
<1>2. \E f \in [1 .. n -> S] : IsInjective(f)
  BY <1>1 DEF ExistsBijection, Bijection, Injection
<1>3. s \in [1 .. n -> S] /\ IsInjective(s)
  BY <1>2 DEF SetToSeq
<1> HIDE DEF s
<1>4. IsFiniteSet(1 .. n) /\ Cardinality(1 .. n) = n
  BY <1>1, FS_Interval
<1>5. s \in Injection(1 .. n, S)
  BY <1>3 DEF Injection
<1>6. s \in Surjection(1 .. n, S)
  BY <1>4, <1>5, FS_Injection
<1>7. Len(s) = n /\ s \in Seq(S)
  BY <1>1, <1>3
<1>8. r = [i \in 1 .. n |-> s[n - i + 1]]
  BY <1>7 DEF Reverse
<1> HIDE DEF n, r
<1>9. \A i \in 1 .. n : n - i + 1 \in 1 .. n
  BY <1>1
<1>10. r \in [1 .. n -> S] /\ \A i \in 1 .. n : r[i] = s[n - i + 1]
  BY <1>3, <1>8, <1>9
<1>11. r \in Seq(S) /\ DOMAIN r = 1 .. n
  BY <1>1, <1>10
<1>12. \A i, j \in DOMAIN r : r[i] = r[j] => i = j
  <2> SUFFICES ASSUME NEW i \in 1 .. n, NEW j \in 1 .. n, r[i] = r[j] PROVE i = j
    BY <1>11
  <2>1. s[n - i + 1] = s[n - j + 1]
    BY <1>10
  <2>2. n - i + 1 = n - j + 1
    BY <1>3, <1>9, <2>1 DEF IsInjective
  <2> QED BY <1>1, <2>2
<1>13. \A e \in S : \E i \in DOMAIN r : r[i] = e
  <2> TAKE e \in S
  <2>1. PICK j \in 1 .. n : s[j] = e
    BY <1>6 DEF Surjection
  <2>2. n - j + 1 \in 1 .. n /\ n - (n - j + 1) + 1 = j
    BY <1>1
  <2>3. r[n - j + 1] = e
    BY <1>10, <2>1, <2>2
  <2> QED BY <1>11, <2>2, <2>3
<1>14. Enumerates(r, S)
  BY <1>11, <1>12, <1>13 DEF Enumerates
<1> QED BY <1>14 DEF r, s

LEMMA JoinEnumerates ==
  ASSUME NEW S, NEW T, S \cap T = {}, NEW s, NEW t, Enumerates(s, S), Enumerates(t, T)
  PROVE  Enumerates(s \o t, S \cup T)
<1> DEFINE U == S \cup T
           r == s \o t
<1>1. s \in Seq(U) /\ t \in Seq(U) /\ Len(s) \in Nat /\ Len(t) \in Nat
  BY WiderSeq DEF Enumerates
<1>2. /\ r \in Seq(U) /\ DOMAIN r = 1 .. Len(s) + Len(t)
      /\ \A i \in 1 .. Len(s) + Len(t) : r[i] = IF i <= Len(s) THEN s[i] ELSE t[i - Len(s)]
  BY <1>1, ConcatProperties, LenProperties
<1>3. /\ DOMAIN s = 1 .. Len(s) /\ DOMAIN t = 1 .. Len(t)
      /\ \A i \in 1 .. Len(s) : s[i] \in S
      /\ \A i \in 1 .. Len(t) : t[i] \in T
  BY LenProperties, ElementOfSeq DEF Enumerates
<1> HIDE DEF r
<1>4. ASSUME NEW i \in DOMAIN r
      PROVE  \/ i \in DOMAIN s /\ r[i] = s[i] /\ r[i] \in S
             \/ i - Len(s) \in DOMAIN t /\ r[i] = t[i - Len(s)] /\ r[i] \in T
  <2>1. i \in 1 .. Len(s) + Len(t)
    BY <1>2
  <2>2. CASE i <= Len(s)
    BY <1>1, <1>2, <1>3, <2>1, <2>2
  <2>3. CASE ~(i <= Len(s))
    <3>1. i - Len(s) \in 1 .. Len(t)
      BY <1>1, <2>1, <2>3
    <3> QED BY <1>2, <1>3, <2>1, <2>3, <3>1
  <2> QED BY <2>2, <2>3
<1>5. \A i, j \in DOMAIN r : r[i] = r[j] => i = j
  <2> SUFFICES ASSUME NEW i \in DOMAIN r, NEW j \in DOMAIN r, r[i] = r[j] PROVE i = j
    OBVIOUS
  <2>1. i \in Int /\ j \in Int
    BY <1>2
  <2>2. CASE r[i] \in S
    <3>1. i \in DOMAIN s /\ j \in DOMAIN s /\ s[i] = s[j]
      BY <1>4, <2>2
    <3> QED BY <3>1 DEF Enumerates
  <2>3. CASE r[i] \in T
    <3>1. i - Len(s) \in DOMAIN t /\ j - Len(s) \in DOMAIN t /\ t[i - Len(s)] = t[j - Len(s)]
      BY <1>4, <2>3
    <3>2. i - Len(s) = j - Len(s)
      BY <3>1 DEF Enumerates
    <3> QED BY <1>1, <2>1, <3>2
  <2> QED BY <1>4, <2>2, <2>3
<1>6. \A e \in U : \E i \in DOMAIN r : r[i] = e
  <2> SUFFICES ASSUME NEW e \in U PROVE \E i \in DOMAIN r : r[i] = e
    OBVIOUS
  <2>1. CASE e \in S
    <3>1. PICK i \in DOMAIN s : s[i] = e
      BY <2>1 DEF Enumerates
    <3>2. i \in 1 .. Len(s) + Len(t) /\ i <= Len(s)
      BY <1>1, <1>3
    <3> QED BY <1>2, <3>1, <3>2
  <2>2. CASE e \in T
    <3>1. PICK i \in DOMAIN t : t[i] = e
      BY <2>2 DEF Enumerates
    <3>2. i + Len(s) \in 1 .. Len(s) + Len(t) /\ ~(i + Len(s) <= Len(s)) /\ (i + Len(s)) - Len(s) = i
      BY <1>1, <1>3
    <3> QED BY <1>2, <3>1, <3>2
  <2> QED BY <2>1, <2>2
<1> QED BY <1>2, <1>5, <1>6 DEF Enumerates, r

FreeEntries(x) == {e \in 1 .. Entries : ~x.linked[e].live}

LEMMA FreeInvMeans ==
  ASSUME NEW x \in StateType
  PROVE  FreeInv(x) <=> Enumerates(x.free, FreeEntries(x))
<1>1. x.free \in Seq(1 .. Entries)
  BY DEF StateType
<1>2. DOMAIN x.free = 1 .. Len(x.free) /\ Len(x.free) \in Nat
      /\ \A i \in DOMAIN x.free : x.free[i] \in 1 .. Entries
  BY <1>1, SeqParts
<1>3. ASSUME FreeInv(x) PROVE Enumerates(x.free, FreeEntries(x))
  <2>1. \A i \in DOMAIN x.free : x.free[i] \in FreeEntries(x)
    BY <1>2, <1>3 DEF FreeInv, FreeEntries
  <2>2. x.free \in Seq(FreeEntries(x))
    BY <1>1, <1>2, <2>1
  <2> QED BY <1>3, <2>2 DEF Enumerates, FreeInv, FreeEntries
<1>4. ASSUME Enumerates(x.free, FreeEntries(x)) PROVE FreeInv(x)
  <2>1. \A i \in DOMAIN x.free : x.free[i] \in FreeEntries(x)
    BY <1>4, <1>2 DEF Enumerates
  <2> QED BY <1>4, <2>1 DEF Enumerates, FreeInv, FreeEntries
<1> QED BY <1>3, <1>4

LEMMA EntriesFreedFields ==
  ASSUME NEW x \in StateType, FreeInv(x),
         NEW S \in SUBSET (1 .. Entries), \A e \in S : x.linked[e].live,
         NEW y, y = EntriesFreed(x, S)
  PROVE  /\ y \in StateType /\ FreeInv(y)
         /\ y.ctx = x.ctx /\ y.promises = x.promises /\ y.settlers = x.settlers
         /\ y.wakes = x.wakes /\ y.parks = x.parks /\ y.restarted = x.restarted
         /\ \A e \in 1 .. Entries : y.linked[e] = IF e \in S THEN NoEntry ELSE x.linked[e]
<1> DEFINE linked == [e \in 1 .. Entries |-> IF e \in S THEN NoEntry ELSE x.linked[e]]
           free == Reverse(SetToSeq(S)) \o x.free
<1>1. y = [x EXCEPT !.linked = linked, !.free = free]
  BY DEF EntriesFreed
<1>2. IsFiniteSet(S)
  <2>1. IsFiniteSet(1 .. Entries)
    BY FS_Interval, SettlementAssumption
  <2>2. S \subseteq 1 .. Entries
    OBVIOUS
  <2> QED BY <2>1, <2>2, FS_Subset
<1>3. Enumerates(free, S \cup FreeEntries(x))
  <2>1. Enumerates(Reverse(SetToSeq(S)), S)
    BY <1>2, ReverseEnumerates
  <2>2. Enumerates(x.free, FreeEntries(x))
    BY FreeInvMeans
  <2>3. S \cap FreeEntries(x) = {}
    BY DEF FreeEntries
  <2> QED BY <2>1, <2>2, <2>3, JoinEnumerates
<1>4. NoEntry \in EntryType
  BY DEF NoEntry, EntryType, EntryFields
<1>5. linked \in [1 .. Entries -> EntryType]
  BY <1>4 DEF StateType
<1>6. free \in Seq(1 .. Entries)
  <2>1. S \cup FreeEntries(x) \subseteq 1 .. Entries
    BY DEF FreeEntries
  <2>2. free \in Seq(S \cup FreeEntries(x))
    BY <1>3 DEF Enumerates
  <2> HIDE DEF free
  <2> QED BY <2>1, <2>2, WiderSeq
<1>7. \A e \in 1 .. Entries : linked[e] = IF e \in S THEN NoEntry ELSE x.linked[e]
  OBVIOUS
<1> HIDE DEF linked, free
<1>8. /\ y \in StateType /\ y.linked = linked /\ y.free = free
      /\ y.ctx = x.ctx /\ y.promises = x.promises /\ y.settlers = x.settlers
      /\ y.wakes = x.wakes /\ y.parks = x.parks /\ y.restarted = x.restarted
  BY <1>1, <1>5, <1>6 DEF StateType
<1>9. FreeEntries(y) = S \cup FreeEntries(x)
  <2>1. ~NoEntry.live
    BY DEF NoEntry
  <2>2. \A e \in 1 .. Entries : ~y.linked[e].live <=> e \in S \/ ~x.linked[e].live
    BY <1>7, <1>8, <2>1
  <2> QED BY <2>2 DEF FreeEntries
<1>10. FreeInv(y)
  BY <1>3, <1>8, <1>9, FreeInvMeans
<1> QED BY <1>7, <1>8, <1>10

LEMMA EntryFreedFields ==
  ASSUME NEW x \in StateType, FreeInv(x), NEW e \in 1 .. Entries, x.linked[e].live,
         NEW y, y = EntryFreed(x, e)
  PROVE  /\ y \in StateType /\ FreeInv(y)
         /\ y.ctx = x.ctx /\ y.promises = x.promises /\ y.settlers = x.settlers
         /\ y.wakes = x.wakes /\ y.parks = x.parks /\ y.restarted = x.restarted
         /\ \A f \in 1 .. Entries : y.linked[f] = IF f = e THEN NoEntry ELSE x.linked[f]
<1> DEFINE linked == [x.linked EXCEPT ![e] = NoEntry]
           free == <<e>> \o x.free
<1>1. y = [x EXCEPT !.linked = linked, !.free = free]
  BY DEF EntryFreed
<1>2. Enumerates(<<e>>, {e})
  BY DEF Enumerates
<1>3. Enumerates(free, {e} \cup FreeEntries(x))
  <2>1. Enumerates(x.free, FreeEntries(x))
    BY FreeInvMeans
  <2>2. {e} \cap FreeEntries(x) = {}
    BY DEF FreeEntries
  <2> QED BY <1>2, <2>1, <2>2, JoinEnumerates
<1>4. NoEntry \in EntryType
  BY DEF NoEntry, EntryType, EntryFields
<1>5. linked \in [1 .. Entries -> EntryType]
  BY <1>4 DEF StateType
<1>6. free \in Seq(1 .. Entries)
  BY DEF StateType
<1>7. \A f \in 1 .. Entries : linked[f] = IF f = e THEN NoEntry ELSE x.linked[f]
  BY DEF StateType
<1> HIDE DEF linked, free
<1>8. /\ y \in StateType /\ y.linked = linked /\ y.free = free
      /\ y.ctx = x.ctx /\ y.promises = x.promises /\ y.settlers = x.settlers
      /\ y.wakes = x.wakes /\ y.parks = x.parks /\ y.restarted = x.restarted
  BY <1>1, <1>5, <1>6 DEF StateType
<1>9. FreeEntries(y) = {e} \cup FreeEntries(x)
  BY <1>7, <1>8 DEF FreeEntries, NoEntry
<1>10. FreeInv(y)
  BY <1>3, <1>8, <1>9, FreeInvMeans
<1> QED BY <1>7, <1>8, <1>10

LEMMA EntryTakenFields ==
  ASSUME NEW x \in StateType, FreeInv(x), x.free # <<>>, NEW entry \in EntryType, entry.live,
         NEW y, y = EntryTaken(x, entry)
  PROVE  /\ y \in StateType /\ FreeInv(y)
         /\ y.ctx = x.ctx /\ y.promises = x.promises /\ y.settlers = x.settlers
         /\ y.wakes = x.wakes /\ y.parks = x.parks /\ y.restarted = x.restarted
         /\ Head(x.free) \in 1 .. Entries /\ ~x.linked[Head(x.free)].live
         /\ \A f \in 1 .. Entries : y.linked[f] = IF f = Head(x.free) THEN entry ELSE x.linked[f]
<1> DEFINE e == Head(x.free)
           linked == [x.linked EXCEPT ![e] = entry]
           free == Tail(x.free)
<1>1. x.free \in Seq(1 .. Entries) /\ x.free # <<>>
  BY DEF StateType
<1>2. e \in 1 .. Entries /\ e = x.free[1] /\ 1 \in DOMAIN x.free
  BY <1>1, SeqParts
<1>3. ~x.linked[e].live
  BY <1>2 DEF FreeInv
<1>4. /\ free \in Seq(1 .. Entries) /\ Len(free) = Len(x.free) - 1
      /\ \A i \in 1 .. Len(free) : free[i] = x.free[i + 1]
      /\ DOMAIN free = 1 .. Len(free) /\ DOMAIN x.free = 1 .. Len(x.free)
      /\ Len(x.free) \in Nat /\ Len(x.free) >= 1
  BY <1>1, SeqParts
<1>5. y = [x EXCEPT !.linked = linked, !.free = free]
  BY DEF EntryTaken
<1> HIDE DEF e
<1>6. linked \in [1 .. Entries -> EntryType]
  BY <1>2 DEF StateType
<1>7. \A f \in 1 .. Entries : linked[f] = IF f = e THEN entry ELSE x.linked[f]
  BY <1>2 DEF StateType
<1> HIDE DEF linked, free
<1>8. /\ y \in StateType /\ y.linked = linked /\ y.free = free
      /\ y.ctx = x.ctx /\ y.promises = x.promises /\ y.settlers = x.settlers
      /\ y.wakes = x.wakes /\ y.parks = x.parks /\ y.restarted = x.restarted
  BY <1>4, <1>5, <1>6 DEF StateType
<1>9. \A i, j \in DOMAIN free : free[i] = free[j] => i = j
  <2> SUFFICES ASSUME NEW i \in DOMAIN free, NEW j \in DOMAIN free, free[i] = free[j]
               PROVE  i = j
    OBVIOUS
  <2>1. i + 1 \in DOMAIN x.free /\ j + 1 \in DOMAIN x.free /\ x.free[i + 1] = x.free[j + 1]
    BY <1>4
  <2>2. i + 1 = j + 1
    BY <2>1 DEF FreeInv
  <2> QED BY <1>4, <2>2
<1>10. \A f \in 1 .. Entries : ~y.linked[f].live <=> \E i \in DOMAIN free : free[i] = f
  <2> TAKE f \in 1 .. Entries
  <2>1. (\E i \in DOMAIN x.free : x.free[i] = f)
          <=> f = e \/ \E i \in DOMAIN free : free[i] = f
    <3>1. ASSUME NEW i \in DOMAIN x.free, x.free[i] = f
          PROVE  f = e \/ \E j \in DOMAIN free : free[j] = f
      <4>1. CASE i = 1
        BY <1>2, <3>1, <4>1
      <4>2. CASE i # 1
        <5>1. i - 1 \in DOMAIN free /\ (i - 1) + 1 = i
          BY <1>4, <4>2
        <5>2. free[i - 1] = f
          BY <1>4, <3>1, <5>1
        <5> QED BY <5>1, <5>2
      <4> QED BY <4>1, <4>2
    <3>2. ASSUME NEW j \in DOMAIN free, free[j] = f
          PROVE  \E i \in DOMAIN x.free : x.free[i] = f
      <4>1. j + 1 \in DOMAIN x.free /\ x.free[j + 1] = f
        BY <1>4, <3>2
      <4> QED BY <4>1
    <3> QED BY <1>2, <3>1, <3>2
  <2>2. f = e => ~\E i \in DOMAIN free : free[i] = f
    <3> SUFFICES ASSUME f = e, NEW i \in DOMAIN free, free[i] = f PROVE FALSE
      OBVIOUS
    <3>1. i + 1 \in DOMAIN x.free /\ x.free[i + 1] = x.free[1]
      BY <1>2, <1>4
    <3>2. i + 1 = 1
      BY <1>2, <3>1 DEF FreeInv
    <3> QED BY <1>4, <3>2
  <2>3. ~x.linked[f].live <=> \E i \in DOMAIN x.free : x.free[i] = f
    BY DEF FreeInv
  <2> QED BY <1>7, <1>8, <2>1, <2>2, <2>3
<1>11. FreeInv(y)
  BY <1>8, <1>9, <1>10 DEF FreeInv
<1> QED BY <1>2, <1>3, <1>7, <1>8, <1>11 DEF e

(***************************************************************************)
(* Operators: contexts that leave, entries that are freed.                 *)
(***************************************************************************)
\* Context c is gone, and with it whatever waited for it or was to answer it.
Leaves(x, y, c) ==
  /\ y \in StateType /\ FreeInv(y) /\ y.settlers = x.settlers
  /\ \A d \in Contexts : d # c => y.ctx[d] = x.ctx[d]
  /\ LET k == y.ctx[c] IN
       /\ k.gen = x.ctx[c].gen /\ ~k.live /\ k.exit = "run" /\ ~k.moved /\ k.park = 0
       /\ k.inbox = <<>> /\ k.stash = 0 /\ k.owes = None
  /\ y.wakes = {w \in x.wakes : w[1] # c}
  /\ \A p \in Promises :
       /\ y.promises[p].status = x.promises[p].status
       /\ y.promises[p].handlers = x.promises[p].handlers
       /\ y.promises[p].elements = x.promises[p].elements
       /\ y.promises[p].race = x.promises[p].race
       /\ y.promises[p].remaining = x.promises[p].remaining
       /\ y.promises[p].waiters = {w \in x.promises[p].waiters : w[1] # c}
  /\ \A e \in 1 .. Entries :
       IF Names(x, {}, e, c) THEN ~y.linked[e].live ELSE y.linked[e] = x.linked[e]

LEMMA LeavesFades ==
  ASSUME NEW x, NEW c \in Contexts, NEW y, Leaves(x, y, c)
  PROVE  Fades(x, y)
BY DEF Leaves, Fades

LEMMA LeavesKeeps ==
  ASSUME NEW x \in StateType, Inv(x, {}), NEW c \in Contexts,
         \A s \in x.settlers : s.kind = "regrant" => s.slot # c,
         NEW y, Leaves(x, y, c)
  PROVE  Inv(y, {})
<1>1. /\ y \in StateType /\ y.settlers = x.settlers
      /\ y.wakes = {w \in x.wakes : w[1] # c}
  BY DEF Leaves
<1>2. \A d \in Contexts : d # c => y.ctx[d] = x.ctx[d]
  BY DEF Leaves
<1>3. LET k == y.ctx[c] IN
        /\ k.gen = x.ctx[c].gen /\ ~k.live /\ k.exit = "run" /\ ~k.moved /\ k.park = 0
        /\ k.inbox = <<>> /\ k.stash = 0 /\ k.owes = None
  BY DEF Leaves
<1>4. \A p \in Promises :
       /\ y.promises[p].status = x.promises[p].status
       /\ y.promises[p].handlers = x.promises[p].handlers
       /\ y.promises[p].waiters = {w \in x.promises[p].waiters : w[1] # c}
  BY DEF Leaves
<1>5. /\ \A e \in 1 .. Entries : Names(x, {}, e, c) => ~y.linked[e].live
      /\ \A e \in 1 .. Entries : ~Names(x, {}, e, c) => y.linked[e] = x.linked[e]
  BY DEF Leaves
<1>6. \A p : Made(y, p) <=> Made(x, p)
  BY <1>4 DEF Made
<1>7. None \notin Contexts
  BY DEF None, Contexts
<1>8. \A e \in 1 .. Entries : \A d : Names(y, {}, e, d) <=> Names(x, {}, e, d) /\ d # c
  BY <1>5 DEF Names
<1>9. CtxInv(y)
  BY <1>2, <1>3 DEF Inv, CtxInv
<1>10. PromiseInv(y)
  <2>1. PromiseInv(x)
    BY DEF Inv
  <2>2. \E n \in 0 .. MaxPromises : \A p \in Promises : Made(y, p) <=> p <= n
    BY <2>1, <1>6 DEF PromiseInv
  <2>3. \A p \in Promises : LET r == y.promises[p] IN
       /\ r.status # "pending" => r.waiters = {} /\ r.handlers = <<>>
       /\ \A i \in DOMAIN r.handlers : Made(y, r.handlers[i].child)
    BY <2>1, <1>4, <1>6 DEF PromiseInv
  <2>4. \A d \in Contexts : y.ctx[d].owes # None => Made(y, y.ctx[d].owes)
    BY <2>1, <1>2, <1>3, <1>6 DEF PromiseInv
  <2>5. \A e \in 1 .. Entries :
       y.linked[e].live /\ y.linked[e].ctx = None => Made(y, y.linked[e].promise)
    BY <2>1, <1>5, <1>6 DEF PromiseInv
  <2> QED BY <2>2, <2>3, <2>4, <2>5 DEF PromiseInv
<1>11. WaiterInv(y)
  <2>1. WaiterInv(x)
    BY DEF Inv
  <2>2. \A p \in Promises : \A w \in y.promises[p].waiters :
          w \in x.promises[p].waiters /\ w[1] \in Contexts /\ w[1] # c
    BY <1>4 DEF StateType, PromiseType
  <2>3. \A p \in Promises : \A w \in y.promises[p].waiters :
          LET k == y.ctx[w[1]] IN k.live /\ k.gen = w[2] /\ k.park = w[3] /\ k.exit = "await"
    BY <2>1, <2>2, <1>2 DEF WaiterInv
  <2>4. \A p, q \in Promises :
          \A w \in y.promises[p].waiters, v \in y.promises[q].waiters : w[1] = v[1] => p = q
    BY <2>1, <2>2 DEF WaiterInv
  <2>5. ASSUME NEW d \in Contexts, y.ctx[d].live, y.ctx[d].exit = "await"
        PROVE  \E p \in Promises : <<d, y.ctx[d].gen, y.ctx[d].park>> \in y.promises[p].waiters
    <3>1. d # c /\ y.ctx[d] = x.ctx[d]
      BY <2>5, <1>2, <1>3
    <3> DEFINE w == <<d, x.ctx[d].gen, x.ctx[d].park>>
    <3>2. PICK p \in Promises : w \in x.promises[p].waiters
      BY <2>1, <2>5, <3>1 DEF WaiterInv
    <3>3. w[1] # c
      BY <3>1
    <3>4. w \in y.promises[p].waiters
      <4> HIDE DEF w
      <4> QED BY <3>2, <3>3, <1>4
    <3> QED BY <3>1, <3>4
  <2> QED BY <2>3, <2>4, <2>5 DEF WaiterInv
<1>12. EntryInv(y, {})
  <2>1. EntryInv(x, {})
    BY DEF Inv
  <2>2. \A e \in 1 .. Entries, d \in Contexts : Names(y, {}, e, d) =>
          LET k == y.ctx[d] IN
            /\ k.live /\ k.gen = y.linked[e].gen /\ k.park = y.linked[e].park
            /\ k.exit \in {"call", "grant"} /\ k.stash = 0 /\ <<d, k.gen>> \notin y.wakes
    <3> SUFFICES ASSUME NEW e \in 1 .. Entries, NEW d \in Contexts, Names(y, {}, e, d)
                 PROVE  LET k == y.ctx[d] IN
                          /\ k.live /\ k.gen = y.linked[e].gen /\ k.park = y.linked[e].park
                          /\ k.exit \in {"call", "grant"} /\ k.stash = 0
                          /\ <<d, k.gen>> \notin y.wakes
      OBVIOUS
    <3>1. Names(x, {}, e, d) /\ d # c /\ y.ctx[d] = x.ctx[d]
      BY <1>2, <1>8
    <3>2. y.linked[e] = x.linked[e]
      BY <3>1, <1>5 DEF Names
    <3> QED BY <2>1, <3>1, <3>2, <1>1 DEF EntryInv
  <2>3. \A e, f \in 1 .. Entries, d \in Contexts :
          Names(y, {}, e, d) /\ Names(y, {}, f, d) => e = f
    BY <2>1, <1>8 DEF EntryInv
  <2>4. \A d \in Contexts : LET k == y.ctx[d] IN
          k.live /\ k.exit \in {"call", "grant"} /\ k.stash = 0 /\ ~k.moved
            => \E e \in 1 .. Entries : Names(y, {}, e, d)
    BY <2>1, <1>2, <1>3, <1>8 DEF EntryInv
  <2> QED BY <2>2, <2>3, <2>4 DEF EntryInv
<1>13. FreeInv(y)
  BY DEF Leaves
<1>14. WakeInv(y)
  <2>1. \A w \in y.wakes : w \in x.wakes /\ w[1] \in Contexts /\ w[1] # c
    BY <1>1 DEF StateType
  <2>2. \A w \in y.wakes : Live(y, w[1], w[2]) /\ Ready(y.ctx[w[1]])
    BY <2>1, <1>2 DEF Inv, WakeInv, Live
  <2>3. ASSUME NEW d \in Contexts, y.ctx[d].live, Ready(y.ctx[d])
        PROVE  \/ <<d, y.ctx[d].gen>> \in y.wakes
               \/ \E s \in y.settlers : s.stage = "settle" /\ s.slot = d
                                         /\ s.gen = y.ctx[d].gen /\ s.cid = y.ctx[d].cid
    <3>1. d # c /\ y.ctx[d] = x.ctx[d]
      BY <2>3, <1>2, <1>3
    <3> DEFINE w == <<d, y.ctx[d].gen>>
    <3>2. w[1] # c
      BY <3>1
    <3>3. w \in x.wakes => w \in y.wakes
      <4> HIDE DEF w
      <4> QED BY <3>2, <1>1
    <3> QED BY <2>3, <3>1, <3>3, <1>1 DEF Inv, WakeInv
  <2> QED BY <2>2, <2>3 DEF WakeInv
<1>15. SettlerInv(y, {})
  <2>1. \A s \in x.settlers : s.kind # "js" => s.slot \in Contexts
    BY DEF Inv, SettlerInv
  <2>2. \A s \in x.settlers : Current(y, s) => s.slot # c /\ Current(x, s)
    BY <2>1, <1>2, <1>3 DEF Current, Live
  <2>3. \A s \in x.settlers : Current(x, s) /\ s.slot # c => Current(y, s)
    BY <2>1, <1>2 DEF Current, Live
  <2>4. \A s \in x.settlers : Acting(y, s) => s.slot # c /\ Acting(x, s)
    BY <2>2 DEF Acting
  <2>5. \A s \in x.settlers : Acting(y, s) =>
          s.slot \in Contexts /\ y.ctx[s.slot] = x.ctx[s.slot]
    BY <2>1, <2>4, <1>2 DEF Acting, Current
  <2>6. \A s \in x.settlers : s.entry \in 1 .. Entries
    BY DEF StateType, SettlerType
  <2>7. \A s \in x.settlers : Acting(y, s) =>
          /\ Names(x, {}, s.entry, s.slot) /\ Names(y, {}, s.entry, s.slot)
          /\ y.linked[s.entry] = x.linked[s.entry]
    <3> SUFFICES ASSUME NEW s \in x.settlers, Acting(y, s)
                 PROVE  /\ Names(x, {}, s.entry, s.slot) /\ Names(y, {}, s.entry, s.slot)
                        /\ y.linked[s.entry] = x.linked[s.entry]
      OBVIOUS
    <3>1. Names(x, {}, s.entry, s.slot) /\ s.slot # c
      BY <2>4 DEF Inv, SettlerInv
    <3> QED BY <3>1, <2>6, <1>5, <1>8 DEF Names
  <2>8. \A s \in x.settlers : s.kind = "js" =>
            /\ s.stage = "pending" /\ s.slot = None /\ s.gen = 0 /\ s.cid = 0 /\ s.park = 0
            /\ s.entry \notin {} /\ y.linked[s.entry].live /\ y.linked[s.entry].ctx = None
            /\ ~y.linked[s.entry].orphan
    <3> SUFFICES ASSUME NEW s \in x.settlers, s.kind = "js"
                 PROVE  y.linked[s.entry] = x.linked[s.entry]
      BY DEF Inv, SettlerInv
    <3>1. x.linked[s.entry].ctx = None
      BY DEF Inv, SettlerInv
    <3> QED BY <3>1, <2>6, <1>5, <1>7 DEF Names
  <2>9. \A s \in x.settlers : s.kind # "js" =>
            /\ s.slot \in Contexts /\ s.gen <= y.ctx[s.slot].gen
            /\ Live(y, s.slot, s.gen) => s.cid <= y.ctx[s.slot].cid
            /\ Approval(s) /\ y.ctx[s.slot].live /\ y.ctx[s.slot].exit = "grant"
                  => s.gen = y.ctx[s.slot].gen
    BY <2>1, <1>2, <1>3 DEF Inv, SettlerInv, Live
  <2>10. \A s \in x.settlers : Approval(s) => s.kind # "js"
    BY DEF Approval
  <2>11. \A s \in x.settlers : s.kind = "regrant" => Current(y, s)
    BY <2>3 DEF Inv, SettlerInv
  <2>12. \A s \in x.settlers : Acting(y, s) =>
            LET k == y.ctx[s.slot] IN
              /\ Names(y, {}, s.entry, s.slot) /\ k.park = s.park
              /\ k.exit = IF s.kind = "call" THEN "call" ELSE "grant"
              /\ k.moved <=> s.stage = "settle"
              /\ s.kind # "regrant" => ~y.linked[s.entry].orphan
    BY <2>4, <2>5, <2>7 DEF Inv, SettlerInv
  <2>13. \A s, t \in x.settlers : Acting(y, s) /\ Acting(y, t) /\ s.slot = t.slot => s = t
    BY <2>4 DEF Inv, SettlerInv
  <2>14. \A s \in x.settlers :
           (s.stage = "late" => s.kind = "call") /\ (s.stage = "settle" => Approval(s))
    BY DEF Inv, SettlerInv
  <2> QED BY <1>1, <2>8, <2>9, <2>10, <2>11, <2>12, <2>13, <2>14 DEF SettlerInv
<1> QED BY <1>9, <1>10, <1>11, <1>12, <1>13, <1>14, <1>15 DEF Inv

LEMMA EntryFreedKeeps ==
  ASSUME NEW x \in StateType, NEW e \in 1 .. Entries, x.linked[e].live,
         NEW D, (D = {} /\ x.linked[e].ctx = None) \/ D = {e}, Inv(x, D),
         \A s \in x.settlers : s.kind = "js" => s.entry # e,
         NEW y, y = EntryFreed(x, e)
  PROVE  /\ Inv(y, {}) /\ y \in StateType
         /\ y.ctx = x.ctx /\ y.promises = x.promises /\ y.settlers = x.settlers
         /\ y.wakes = x.wakes /\ y.parks = x.parks /\ y.restarted = x.restarted
         /\ \A f \in 1 .. Entries : y.linked[f] = IF f = e THEN NoEntry ELSE x.linked[f]
<1>1. /\ y \in StateType /\ FreeInv(y)
      /\ y.ctx = x.ctx /\ y.promises = x.promises /\ y.settlers = x.settlers
      /\ y.wakes = x.wakes /\ y.parks = x.parks /\ y.restarted = x.restarted
      /\ \A f \in 1 .. Entries : y.linked[f] = IF f = e THEN NoEntry ELSE x.linked[f]
  <2>1. FreeInv(x)
    BY DEF Inv
  <2> QED BY <2>1, EntryFreedFields
<1>2. /\ ~y.linked[e].live
      /\ \A f \in 1 .. Entries : f # e => y.linked[f] = x.linked[f]
  BY <1>1 DEF NoEntry
<1>3. None \notin Contexts
  BY DEF None, Contexts
<1>4. \A f \in 1 .. Entries, c \in Contexts :
        /\ Names(x, D, f, c) => f # e
        /\ Names(y, {}, f, c) <=> Names(x, D, f, c)
  BY <1>2, <1>3 DEF Names
<1>5. \A c, gen : Live(y, c, gen) <=> Live(x, c, gen)
  BY <1>1 DEF Live
<1>6. \A s : (Current(y, s) <=> Current(x, s)) /\ (Acting(y, s) <=> Acting(x, s))
  BY <1>1, <1>5 DEF Current, Acting
<1>7. CtxInv(y)
  BY <1>1 DEF Inv, CtxInv
<1>8. PromiseInv(y)
  <2>1. \A p : Made(y, p) <=> Made(x, p)
    BY <1>1 DEF Made
  <2>2. PromiseInv(x)
    BY DEF Inv
  <2>3. \A f \in 1 .. Entries :
       y.linked[f].live /\ y.linked[f].ctx = None => Made(y, y.linked[f].promise)
    BY <2>1, <2>2, <1>2 DEF PromiseInv
  <2> QED BY <2>1, <2>2, <2>3, <1>1 DEF PromiseInv
<1>9. WaiterInv(y)
  BY <1>1 DEF Inv, WaiterInv
<1>10. EntryInv(y, {})
  <2>1. EntryInv(x, D)
    BY DEF Inv
  <2>2. \A f \in 1 .. Entries, c \in Contexts : Names(y, {}, f, c) =>
          LET k == y.ctx[c] IN
            /\ k.live /\ k.gen = y.linked[f].gen /\ k.park = y.linked[f].park
            /\ k.exit \in {"call", "grant"} /\ k.stash = 0 /\ <<c, k.gen>> \notin y.wakes
    BY <2>1, <1>1, <1>2, <1>4 DEF EntryInv
  <2>3. \A f, g \in 1 .. Entries, c \in Contexts :
          Names(y, {}, f, c) /\ Names(y, {}, g, c) => f = g
    BY <2>1, <1>4 DEF EntryInv
  <2>4. \A c \in Contexts : LET k == y.ctx[c] IN
          k.live /\ k.exit \in {"call", "grant"} /\ k.stash = 0 /\ ~k.moved
            => \E f \in 1 .. Entries : Names(y, {}, f, c)
    BY <2>1, <1>1, <1>4 DEF EntryInv
  <2> QED BY <2>2, <2>3, <2>4 DEF EntryInv
<1>11. WakeInv(y)
  BY <1>1, <1>5 DEF Inv, WakeInv
<1>12. SettlerInv(y, {})
  <2>1. SettlerInv(x, D)
    BY DEF Inv
  <2>2. \A s \in x.settlers : s.entry \in 1 .. Entries
    BY DEF StateType, SettlerType
  <2>3. \A s \in x.settlers : Acting(x, s) =>
          /\ Names(y, {}, s.entry, s.slot) /\ y.linked[s.entry] = x.linked[s.entry]
    <3> SUFFICES ASSUME NEW s \in x.settlers, Acting(x, s)
                 PROVE  Names(y, {}, s.entry, s.slot) /\ y.linked[s.entry] = x.linked[s.entry]
      OBVIOUS
    <3>1. Names(x, D, s.entry, s.slot) /\ s.slot \in Contexts
      BY <2>1 DEF SettlerInv, Acting, Current
    <3> QED BY <3>1, <2>2, <1>2, <1>4
  <2>4. \A s \in x.settlers : s.kind = "js" => y.linked[s.entry] = x.linked[s.entry]
    BY <2>2, <1>2
  <2> QED BY <2>1, <2>3, <2>4, <1>1, <1>5, <1>6 DEF SettlerInv
<1> QED BY <1>1, <1>7, <1>8, <1>9, <1>10, <1>11, <1>12 DEF Inv

(***************************************************************************)
(* Operators: answers.                                                     *)
(***************************************************************************)
\* j is the context k with a value that waits for room on its stack.
Stashed(k, j) ==
  /\ j \in ContextType
  /\ j.stash = k.park /\ j.exit = k.exit /\ j.inbox = k.inbox /\ j.gen = k.gen
  /\ j.live = k.live /\ j.cid = k.cid /\ j.moved = k.moved /\ j.park = k.park
  /\ j.owes = k.owes /\ j.executor = k.executor

\* Context c has its answer, or its value waits for room, and c is queued.
Delivered(x, y, c) ==
  /\ y \in StateType
  /\ y.linked = x.linked /\ y.free = x.free /\ y.promises = x.promises
  /\ y.settlers = x.settlers /\ y.parks = x.parks /\ y.restarted = x.restarted
  /\ y.wakes = x.wakes \cup {<<c, x.ctx[c].gen>>}
  /\ \A d \in Contexts : d # c => y.ctx[d] = x.ctx[d]
  /\ \/ Given(x.ctx[c], y.ctx[c])
     \/ x.ctx[c].exit = "call" /\ Stashed(x.ctx[c], y.ctx[c])

LEMMA DeliveredKeeps ==
  ASSUME NEW x \in StateType, NEW D, Inv(x, D), NEW e \in 1 .. Entries, NEW c \in Contexts,
         Names(x, D, e, c), ~x.ctx[c].moved, \A s \in x.settlers : Acting(x, s) => s.slot # c,
         NEW y, Delivered(x, y, c)
  PROVE  Inv(y, D \cup {e})
<1>1. /\ y \in StateType
      /\ y.linked = x.linked /\ y.free = x.free /\ y.promises = x.promises
      /\ y.settlers = x.settlers
      /\ y.wakes = x.wakes \cup {<<c, x.ctx[c].gen>>}
  BY DEF Delivered
<1>2. \A d \in Contexts : d # c => y.ctx[d] = x.ctx[d]
  BY DEF Delivered
<1>3. /\ x.ctx[c].live /\ x.ctx[c].park = x.linked[e].park /\ x.ctx[c].stash = 0
      /\ x.ctx[c].exit \in {"call", "grant"} /\ x.ctx[c].inbox = <<>> /\ x.ctx[c].park # 0
  <2>1. /\ x.ctx[c].live /\ x.ctx[c].park = x.linked[e].park /\ x.ctx[c].stash = 0
        /\ x.ctx[c].exit \in {"call", "grant"}
    BY DEF Inv, EntryInv
  <2> QED BY <2>1 DEF Inv, CtxInv
<1>4. /\ y.ctx[c].live /\ y.ctx[c].gen = x.ctx[c].gen /\ y.ctx[c].cid = x.ctx[c].cid
      /\ ~y.ctx[c].moved /\ y.ctx[c].park = x.ctx[c].park /\ y.ctx[c].owes = x.ctx[c].owes
  BY <1>3 DEF Delivered, Given, Stashed
<1>5. \/ /\ y.ctx[c].inbox = <<y.ctx[c].park>> /\ y.ctx[c].exit = "woken" /\ y.ctx[c].stash = 0
      \/ /\ y.ctx[c].inbox = <<>> /\ y.ctx[c].exit = "call" /\ y.ctx[c].stash = y.ctx[c].park
  BY <1>3 DEF Delivered, Given, Stashed
<1>6. Ready(y.ctx[c])
  BY <1>3, <1>4, <1>5 DEF Ready
<1>7. None \notin Contexts
  BY DEF None, Contexts
<1> DEFINE E == D \cup {e}
<1>8. \A f \in 1 .. Entries, d \in Contexts : Names(y, E, f, d) <=> Names(x, D, f, d) /\ d # c
  <2>1. \A f \in 1 .. Entries : Names(x, D, f, c) => f = e
    BY DEF Inv, EntryInv
  <2>2. \A d : Names(x, D, e, d) => d = c
    BY DEF Names
  <2>3. \A f \in 1 .. Entries, d \in Contexts : Names(y, E, f, d) <=> Names(x, D, f, d) /\ f # e
    BY <1>1 DEF Names
  <2> QED BY <2>1, <2>2, <2>3
<1>9. \A d, gen : d \in Contexts => (Live(y, d, gen) <=> Live(x, d, gen))
  BY <1>2, <1>3, <1>4 DEF Live
<1>10. CtxInv(y)
  <2> SUFFICES ASSUME NEW d \in Contexts
               PROVE  LET k == y.ctx[d] IN
                        /\ k.inbox \in {<<>>, <<k.park>>} /\ k.stash \in {0, k.park}
                        /\ k.stash # 0 => k.inbox = <<>>
                        /\ k.inbox # <<>> => k.exit = "woken" \/ k.moved
                        /\ k.stash # 0 => k.exit = "call"
                        /\ k.moved => k.exit = "grant"
                        /\ ~k.live => k.exit = "run"
                        /\ k.exit \in {"call", "grant", "await"} => k.park # 0
    BY DEF CtxInv
  <2>1. CASE d = c
    BY <2>1, <1>3, <1>4, <1>5
  <2>2. CASE d # c
    BY <2>2, <1>2 DEF Inv, CtxInv
  <2> QED BY <2>1, <2>2
<1>11. PromiseInv(y)
  <2>1. \A p : Made(y, p) <=> Made(x, p)
    BY <1>1 DEF Made
  <2>2. \A d \in Contexts : y.ctx[d].owes = x.ctx[d].owes
    BY <1>2, <1>4
  <2> QED BY <1>1, <2>1, <2>2 DEF Inv, PromiseInv
<1>12. WaiterInv(y)
  <2>1. \A p \in Promises : \A w \in x.promises[p].waiters : w[1] \in Contexts /\ w[1] # c
    BY <1>3 DEF Inv, WaiterInv, StateType, PromiseType
  <2>2. \A d \in Contexts : y.ctx[d].exit = "await" => d # c
    BY <1>5
  <2> QED BY <1>1, <1>2, <2>1, <2>2 DEF Inv, WaiterInv
<1>13. EntryInv(y, E)
  <2>1. EntryInv(x, D)
    BY DEF Inv
  <2>2. \A f \in 1 .. Entries, d \in Contexts : Names(y, E, f, d) =>
          LET k == y.ctx[d] IN
            /\ k.live /\ k.gen = y.linked[f].gen /\ k.park = y.linked[f].park
            /\ k.exit \in {"call", "grant"} /\ k.stash = 0 /\ <<d, k.gen>> \notin y.wakes
    <3> SUFFICES ASSUME NEW f \in 1 .. Entries, NEW d \in Contexts, Names(x, D, f, d), d # c
                 PROVE  LET k == y.ctx[d] IN
                          /\ k.live /\ k.gen = y.linked[f].gen /\ k.park = y.linked[f].park
                          /\ k.exit \in {"call", "grant"} /\ k.stash = 0
                          /\ <<d, k.gen>> \notin y.wakes
      BY <1>8
    <3>1. y.ctx[d] = x.ctx[d] /\ <<d, x.ctx[d].gen>> # <<c, x.ctx[c].gen>>
      BY <1>2
    <3> QED BY <2>1, <3>1, <1>1 DEF EntryInv
  <2>3. \A f, g \in 1 .. Entries, d \in Contexts :
          Names(y, E, f, d) /\ Names(y, E, g, d) => f = g
    BY <2>1, <1>8 DEF EntryInv
  <2>4. \A d \in Contexts : LET k == y.ctx[d] IN
          k.live /\ k.exit \in {"call", "grant"} /\ k.stash = 0 /\ ~k.moved
            => \E f \in 1 .. Entries : Names(y, E, f, d)
    <3> SUFFICES ASSUME NEW d \in Contexts, y.ctx[d].live, y.ctx[d].exit \in {"call", "grant"},
                        y.ctx[d].stash = 0, ~y.ctx[d].moved
                 PROVE  \E f \in 1 .. Entries : Names(y, E, f, d)
      OBVIOUS
    <3>1. d # c
      BY <1>3, <1>4, <1>5
    <3>2. \E f \in 1 .. Entries : Names(x, D, f, d)
      BY <2>1, <3>1, <1>2 DEF EntryInv
    <3> QED BY <3>1, <3>2, <1>8
  <2> QED BY <2>2, <2>3, <2>4 DEF EntryInv
<1>14. FreeInv(y)
  BY <1>1 DEF Inv, FreeInv
<1>15. WakeInv(y)
  <2>1. \A w \in x.wakes : Live(y, w[1], w[2]) /\ Ready(y.ctx[w[1]])
    <3>1. \A w \in x.wakes : w[1] \in Contexts /\ Live(x, w[1], w[2]) /\ Ready(x.ctx[w[1]])
      BY DEF Inv, WakeInv, StateType
    <3> QED BY <3>1, <1>2, <1>6, <1>9
  <2>2. Live(y, c, x.ctx[c].gen)
    BY <1>4 DEF Live
  <2>3. \A w \in y.wakes : Live(y, w[1], w[2]) /\ Ready(y.ctx[w[1]])
    BY <1>1, <1>6, <2>1, <2>2
  <2>4. ASSUME NEW d \in Contexts, y.ctx[d].live, Ready(y.ctx[d])
        PROVE  \/ <<d, y.ctx[d].gen>> \in y.wakes
               \/ \E s \in y.settlers : s.stage = "settle" /\ s.slot = d
                                         /\ s.gen = y.ctx[d].gen /\ s.cid = y.ctx[d].cid
    <3>1. CASE d = c
      BY <3>1, <1>1, <1>4
    <3>2. CASE d # c
      BY <2>4, <3>2, <1>1, <1>2 DEF Inv, WakeInv
    <3> QED BY <3>1, <3>2
  <2> QED BY <2>3, <2>4 DEF WakeInv
<1>16. SettlerInv(y, E)
  <2>1. SettlerInv(x, D)
    BY DEF Inv
  <2>2. \A s \in x.settlers : s.kind # "js" => s.slot \in Contexts
    BY <2>1 DEF SettlerInv
  <2>3. \A s \in x.settlers : Current(y, s) <=> Current(x, s)
    BY <2>2, <1>2, <1>4, <1>9 DEF Current
  <2>4. \A s \in x.settlers : Acting(y, s) <=> Acting(x, s)
    BY <2>3 DEF Acting
  <2>5. \A s \in x.settlers : Acting(x, s) =>
          s.slot \in Contexts /\ s.slot # c /\ y.ctx[s.slot] = x.ctx[s.slot]
    BY <2>2, <1>2 DEF Acting, Current
  <2>6. \A s \in x.settlers : s.entry \in 1 .. Entries
    BY DEF StateType, SettlerType
  <2>7. \A s \in x.settlers : Acting(x, s) => Names(y, E, s.entry, s.slot)
    BY <2>1, <2>5, <2>6, <1>8 DEF SettlerInv
  <2>8. \A s \in x.settlers : s.kind = "js" => s.entry \notin E
    <3> SUFFICES ASSUME NEW s \in x.settlers, s.kind = "js" PROVE s.entry # e
      BY <2>1 DEF SettlerInv
    <3>1. x.linked[s.entry].ctx = None
      BY <2>1 DEF SettlerInv
    <3> QED BY <3>1, <1>7 DEF Names
  <2>9. \A s \in x.settlers : s.kind # "js" =>
            /\ s.slot \in Contexts /\ s.gen <= y.ctx[s.slot].gen
            /\ Live(y, s.slot, s.gen) => s.cid <= y.ctx[s.slot].cid
            /\ Approval(s) /\ y.ctx[s.slot].live /\ y.ctx[s.slot].exit = "grant"
                  => s.gen = y.ctx[s.slot].gen
    <3> SUFFICES ASSUME NEW s \in x.settlers, s.kind # "js"
                 PROVE  /\ s.slot \in Contexts /\ s.gen <= y.ctx[s.slot].gen
                        /\ Live(y, s.slot, s.gen) => s.cid <= y.ctx[s.slot].cid
                        /\ Approval(s) /\ y.ctx[s.slot].live /\ y.ctx[s.slot].exit = "grant"
                             => s.gen = y.ctx[s.slot].gen
      OBVIOUS
    <3>1. /\ s.slot \in Contexts /\ s.gen <= x.ctx[s.slot].gen
          /\ Live(x, s.slot, s.gen) => s.cid <= x.ctx[s.slot].cid
          /\ Approval(s) /\ x.ctx[s.slot].live /\ x.ctx[s.slot].exit = "grant"
                => s.gen = x.ctx[s.slot].gen
      BY <2>1 DEF SettlerInv
    <3>2. CASE s.slot = c
      BY <3>1, <3>2, <1>4, <1>5, <1>9
    <3>3. CASE s.slot # c
      BY <3>1, <3>3, <1>2, <1>9
    <3> QED BY <3>2, <3>3
  <2>10. \A s \in x.settlers : Approval(s) => s.kind # "js"
    BY DEF Approval
  <2> HIDE DEF E
  <2> QED BY <2>1, <2>3, <2>4, <2>5, <2>7, <2>8, <2>9, <2>10, <1>1 DEF SettlerInv
<1> QED BY <1>10, <1>11, <1>12, <1>13, <1>14, <1>15, <1>16 DEF Inv

LEMMA AnsweredDelivers ==
  ASSUME NEW x \in StateType, NEW c \in Contexts, x.ctx[c].live, x.ctx[c].inbox = <<>>,
         NEW gen, gen = x.ctx[c].gen, NEW park, park = x.ctx[c].park
  PROVE  /\ Answered(x, c, park) \in StateType
         /\ Answered(x, c, park).linked = x.linked
         /\ Delivered(x, Enqueued(Answered(x, c, park), c, gen), c)
<1> DEFINE k == [x.ctx[c] EXCEPT !.inbox = Append(@, park), !.exit = "woken"]
           z == Answered(x, c, park)
           y == Enqueued(z, c, gen)
           ctx == [x.ctx EXCEPT ![c] = k]
<1>1. x.ctx[c] \in ContextType /\ gen \in Nat
  BY DEF StateType, ContextType
<1>2. Given(x.ctx[c], k)
  BY <1>1, GivenContext
<1>3. k \in ContextType /\ k.live /\ k.gen = gen
  BY <1>2 DEF Given
<1>4. z = [x EXCEPT !.ctx = ctx]
  BY DEF Answered
<1> HIDE DEF k, z
<1>5. ctx \in [Contexts -> ContextType] /\ ctx[c] = k
      /\ \A d \in Contexts : d # c => ctx[d] = x.ctx[d]
  BY <1>3 DEF StateType
<1> HIDE DEF ctx
<1>6. /\ z \in StateType /\ z.ctx = ctx /\ z.linked = x.linked /\ z.free = x.free
      /\ z.promises = x.promises /\ z.settlers = x.settlers /\ z.parks = x.parks
      /\ z.restarted = x.restarted /\ z.wakes = x.wakes
  BY <1>4, <1>5 DEF StateType
<1>7. y = [z EXCEPT !.wakes = z.wakes \cup {<<c, gen>>}]
  BY <1>3, <1>5, <1>6 DEF Enqueued, Live
<1> HIDE DEF y
<1>8. /\ y \in StateType /\ y.ctx = ctx /\ y.linked = x.linked /\ y.free = x.free
      /\ y.promises = x.promises /\ y.settlers = x.settlers /\ y.parks = x.parks
      /\ y.restarted = x.restarted /\ y.wakes = x.wakes \cup {<<c, gen>>}
  <2> DEFINE wakes == z.wakes \cup {<<c, gen>>}
  <2>1. wakes \in SUBSET (Contexts \X Nat) /\ wakes = x.wakes \cup {<<c, gen>>}
    BY <1>1, <1>6 DEF StateType
  <2>2. y = [z EXCEPT !.wakes = wakes]
    BY <1>7
  <2> HIDE DEF wakes
  <2> QED BY <1>6, <2>1, <2>2 DEF StateType
<1>9. Delivered(x, y, c)
  BY <1>2, <1>5, <1>8 DEF Delivered
<1> QED BY <1>6, <1>9 DEF y, z

LEMMA StashDelivers ==
  ASSUME NEW x \in StateType, NEW c \in Contexts, x.ctx[c].live, x.ctx[c].exit = "call",
         NEW gen, gen = x.ctx[c].gen, NEW park, park = x.ctx[c].park
  PROVE  /\ [x EXCEPT !.ctx[c].stash = park] \in StateType
         /\ [x EXCEPT !.ctx[c].stash = park].linked = x.linked
         /\ Delivered(x, Enqueued([x EXCEPT !.ctx[c].stash = park], c, gen), c)
<1> DEFINE k == [x.ctx[c] EXCEPT !.stash = park]
           z == [x EXCEPT !.ctx[c].stash = park]
           y == Enqueued(z, c, gen)
           ctx == [x.ctx EXCEPT ![c] = k]
<1>1. x.ctx[c] \in ContextType /\ gen \in Nat
  BY DEF StateType, ContextType
<1>2. Stashed(x.ctx[c], k)
  BY <1>1 DEF Stashed, ContextType
<1>3. k \in ContextType /\ k.live /\ k.gen = gen
  BY <1>2 DEF Stashed
<1>4. z = [x EXCEPT !.ctx = ctx]
  OBVIOUS
<1> HIDE DEF k, z
<1>5. ctx \in [Contexts -> ContextType] /\ ctx[c] = k
      /\ \A d \in Contexts : d # c => ctx[d] = x.ctx[d]
  BY <1>3 DEF StateType
<1> HIDE DEF ctx
<1>6. /\ z \in StateType /\ z.ctx = ctx /\ z.linked = x.linked /\ z.free = x.free
      /\ z.promises = x.promises /\ z.settlers = x.settlers /\ z.parks = x.parks
      /\ z.restarted = x.restarted /\ z.wakes = x.wakes
  BY <1>4, <1>5 DEF StateType
<1>7. y = [z EXCEPT !.wakes = z.wakes \cup {<<c, gen>>}]
  BY <1>3, <1>5, <1>6 DEF Enqueued, Live
<1> HIDE DEF y
<1>8. /\ y \in StateType /\ y.ctx = ctx /\ y.linked = x.linked /\ y.free = x.free
      /\ y.promises = x.promises /\ y.settlers = x.settlers /\ y.parks = x.parks
      /\ y.restarted = x.restarted /\ y.wakes = x.wakes \cup {<<c, gen>>}
  <2> DEFINE wakes == z.wakes \cup {<<c, gen>>}
  <2>1. wakes \in SUBSET (Contexts \X Nat) /\ wakes = x.wakes \cup {<<c, gen>>}
    BY <1>1, <1>6 DEF StateType
  <2>2. y = [z EXCEPT !.wakes = wakes]
    BY <1>7
  <2> HIDE DEF wakes
  <2> QED BY <1>6, <2>1, <2>2 DEF StateType
<1>9. Delivered(x, y, c)
  BY <1>2, <1>5, <1>8 DEF Delivered
<1> QED BY <1>6, <1>9 DEF y, z

\* The order of the entry's freeing and of the wake does not matter.
LEMMA WokenIsFreed ==
  ASSUME NEW z \in StateType, NEW s, z.linked[s.entry].live
  PROVE  Woken(z, s) = EntryFreed(Enqueued(z, s.slot, s.gen), s.entry)
<1> DEFINE v == EntryFreed(z, s.entry)
           linked == [z.linked EXCEPT ![s.entry] = NoEntry]
           free == <<s.entry>> \o z.free
           wakes == z.wakes \cup {<<s.slot, s.gen>>}
<1>1. v = [z EXCEPT !.linked = linked, !.free = free]
  BY DEF EntryFreed
<1> HIDE DEF v, linked, free, wakes
<1>2. v.ctx = z.ctx /\ v.wakes = z.wakes
  BY <1>1 DEF StateType
<1>3. CASE Live(z, s.slot, s.gen)
  <2>1. Woken(z, s) = [v EXCEPT !.wakes = wakes]
    BY <1>2, <1>3 DEF Woken, Enqueued, Live, v, wakes
  <2> DEFINE u == Enqueued(z, s.slot, s.gen)
  <2>2. u = [z EXCEPT !.wakes = wakes]
    BY <1>3 DEF Enqueued, wakes
  <2> HIDE DEF u
  <2>3. u.linked = z.linked /\ u.free = z.free
    BY <2>2 DEF StateType
  <2>4. EntryFreed(u, s.entry) = [u EXCEPT !.linked = linked, !.free = free]
    BY <2>3 DEF EntryFreed, linked, free
  <2>5. [v EXCEPT !.wakes = wakes] = [u EXCEPT !.linked = linked, !.free = free]
    BY <1>1, <2>2 DEF StateType
  <2> QED BY <2>1, <2>4, <2>5 DEF u
<1>4. CASE ~Live(z, s.slot, s.gen)
  BY <1>2, <1>4 DEF Woken, Enqueued, Live, v
<1> QED BY <1>3, <1>4

LEMMA WokenKeeps ==
  ASSUME NEW x \in StateType, Inv(x, {}), NEW s, s.entry \in 1 .. Entries, s.slot \in Contexts,
         Names(x, {}, s.entry, s.slot), ~x.ctx[s.slot].moved, s.gen = x.ctx[s.slot].gen,
         \A t \in x.settlers : Acting(x, t) => t.slot # s.slot,
         NEW z \in StateType, z.linked = x.linked,
         Delivered(x, Enqueued(z, s.slot, s.gen), s.slot)
  PROVE  Woken(z, s) \in StateType /\ Inv(Woken(z, s), {}) /\ Fades(x, Woken(z, s))
<1> DEFINE u == Enqueued(z, s.slot, s.gen)
           y == EntryFreed(u, s.entry)
<1>1. x.linked[s.entry].live /\ x.linked[s.entry].ctx = s.slot
  BY DEF Names
<1>2. Woken(z, s) = y
  BY <1>1, WokenIsFreed
<1> HIDE DEF u, y
<1>3. Delivered(x, u, s.slot)
  BY DEF u
<1>4. Inv(u, {} \cup {s.entry})
  BY <1>3, DeliveredKeeps
<1>5. Inv(u, {s.entry})
  <2>1. {} \cup {s.entry} = {s.entry}
    OBVIOUS
  <2> QED BY <1>4, <2>1
<1>6. u \in StateType /\ u.linked[s.entry].live /\ u.settlers = x.settlers
  BY <1>1, <1>3 DEF Delivered
<1>7. \A t \in u.settlers : t.kind = "js" => t.entry # s.entry
  BY <1>5, <1>6 DEF Inv, SettlerInv
<1>8. y = EntryFreed(u, s.entry)
  BY DEF y
<1>9. /\ Inv(y, {}) /\ y \in StateType /\ y.ctx = u.ctx /\ y.promises = u.promises
      /\ \A f \in 1 .. Entries : y.linked[f] = IF f = s.entry THEN NoEntry ELSE u.linked[f]
  BY <1>5, <1>6, <1>7, <1>8, EntryFreedKeeps
<1>10. Fades(u, y)
  BY <1>9 DEF Fades, NoEntry
<1>11. Fades(x, u)
  BY <1>3 DEF Fades, Delivered, Given, Stashed
<1> QED BY <1>2, <1>9, <1>10, <1>11, FadesTransitive

\* A continuation that has nothing left to do, or that was for another tenant or park
Spent(x, s) ==
  /\ ~Acting(x, s) /\ s.kind \in {"call", "grant"} /\ s.slot \in Contexts
  /\ s.stage = "late" => s.kind = "call"
  /\ s.stage = "settle" => s.kind = "grant"
  /\ s.gen <= x.ctx[s.slot].gen
  /\ Live(x, s.slot, s.gen) => s.cid <= x.ctx[s.slot].cid
  /\ s.kind = "grant" /\ x.ctx[s.slot].live /\ x.ctx[s.slot].exit = "grant"
       => s.gen = x.ctx[s.slot].gen

LEMMA SettlersKeep ==
  ASSUME NEW x \in StateType, NEW D, Inv(x, D), NEW y,
         NEW settlers \in SUBSET SettlerType, y = [x EXCEPT !.settlers = settlers],
         \A s \in x.settlers : s.stage = "settle" /\ Current(x, s) => s \in settlers,
         \A s \in settlers : s \in x.settlers \/ Spent(x, s)
  PROVE  /\ Inv(y, D) /\ y \in StateType
         /\ y.ctx = x.ctx /\ y.linked = x.linked /\ y.free = x.free
         /\ y.promises = x.promises /\ y.wakes = x.wakes /\ y.settlers = settlers
         /\ y.parks = x.parks /\ y.restarted = x.restarted
<1>1. /\ y \in StateType
      /\ y.ctx = x.ctx /\ y.linked = x.linked /\ y.free = x.free
      /\ y.promises = x.promises /\ y.wakes = x.wakes /\ y.settlers = settlers
      /\ y.parks = x.parks /\ y.restarted = x.restarted
  BY DEF StateType
<1>2. \A e, c : Names(y, D, e, c) <=> Names(x, D, e, c)
  BY <1>1 DEF Names
<1>3. \A c, gen : Live(y, c, gen) <=> Live(x, c, gen)
  BY <1>1 DEF Live
<1>4. \A s : (Current(y, s) <=> Current(x, s)) /\ (Acting(y, s) <=> Acting(x, s))
  BY <1>1, <1>3 DEF Current, Acting
<1>5. CtxInv(y) /\ FreeInv(y) /\ WaiterInv(y)
  BY <1>1 DEF Inv, CtxInv, FreeInv, WaiterInv
<1>6. PromiseInv(y)
  <2>1. \A p : Made(y, p) <=> Made(x, p)
    BY <1>1 DEF Made
  <2> QED BY <2>1, <1>1 DEF Inv, PromiseInv
<1>7. EntryInv(y, D)
  BY <1>1, <1>2 DEF Inv, EntryInv
<1>8. WakeInv(y)
  <2>1. WakeInv(x) /\ SettlerInv(x, D)
    BY DEF Inv
  <2>2. \A w \in y.wakes : Live(y, w[1], w[2]) /\ Ready(y.ctx[w[1]])
    BY <2>1, <1>1, <1>3 DEF WakeInv
  <2>3. ASSUME NEW c \in Contexts, y.ctx[c].live, Ready(y.ctx[c])
        PROVE  \/ <<c, y.ctx[c].gen>> \in y.wakes
               \/ \E s \in y.settlers : s.stage = "settle" /\ s.slot = c
                                         /\ s.gen = y.ctx[c].gen /\ s.cid = y.ctx[c].cid
    <3>1. CASE <<c, x.ctx[c].gen>> \in x.wakes
      BY <3>1, <1>1
    <3>2. CASE <<c, x.ctx[c].gen>> \notin x.wakes
      <4>1. PICK s \in x.settlers : s.stage = "settle" /\ s.slot = c
                                    /\ s.gen = x.ctx[c].gen /\ s.cid = x.ctx[c].cid
        BY <2>1, <2>3, <3>2, <1>1 DEF WakeInv
      <4>2. s.kind # "js"
        BY <2>1, <4>1 DEF SettlerInv
      <4>3. Current(x, s)
        BY <2>3, <4>1, <4>2, <1>1 DEF Current, Live
      <4> QED BY <4>1, <4>3, <1>1
    <3> QED BY <3>1, <3>2
  <2> QED BY <2>2, <2>3 DEF WakeInv
<1>9. SettlerInv(y, D)
  <2>1. SettlerInv(x, D)
    BY DEF Inv
  <2>2. \A s \in settlers : Acting(x, s) => s \in x.settlers
    BY DEF Spent
  <2>3. \A s \in settlers : s \in x.settlers \/
          /\ s.kind # "js" /\ s.kind # "regrant" /\ s.slot \in Contexts
          /\ s.stage = "late" => s.kind = "call"
          /\ s.stage = "settle" => Approval(s)
          /\ s.gen <= x.ctx[s.slot].gen
          /\ Live(x, s.slot, s.gen) => s.cid <= x.ctx[s.slot].cid
          /\ Approval(s) /\ x.ctx[s.slot].live /\ x.ctx[s.slot].exit = "grant"
               => s.gen = x.ctx[s.slot].gen
    BY DEF Spent, Approval
  <2>4. \A s \in settlers :
         /\ s.kind = "js" =>
              /\ s.stage = "pending" /\ s.slot = None /\ s.gen = 0 /\ s.cid = 0 /\ s.park = 0
              /\ s.entry \notin D /\ x.linked[s.entry].live /\ x.linked[s.entry].ctx = None
              /\ ~x.linked[s.entry].orphan
         /\ s.kind # "js" =>
              /\ s.slot \in Contexts /\ s.gen <= x.ctx[s.slot].gen
              /\ Live(x, s.slot, s.gen) => s.cid <= x.ctx[s.slot].cid
         /\ s.stage = "late" => s.kind = "call"
         /\ s.stage = "settle" => Approval(s)
         /\ s.kind = "regrant" => Current(x, s)
         /\ Approval(s) /\ x.ctx[s.slot].live /\ x.ctx[s.slot].exit = "grant"
              => s.gen = x.ctx[s.slot].gen
    BY <2>1, <2>3 DEF SettlerInv
  <2>5. \A s \in settlers : Acting(x, s) =>
              LET k == x.ctx[s.slot] IN
                /\ Names(x, D, s.entry, s.slot) /\ k.park = s.park
                /\ k.exit = IF s.kind = "call" THEN "call" ELSE "grant"
                /\ k.moved <=> s.stage = "settle"
                /\ s.kind # "regrant" => ~x.linked[s.entry].orphan
    BY <2>1, <2>2 DEF SettlerInv
  <2>6. \A s, t \in settlers : Acting(x, s) /\ Acting(x, t) /\ s.slot = t.slot => s = t
    BY <2>1, <2>2 DEF SettlerInv
  <2> QED BY <2>4, <2>5, <2>6, <1>1, <1>2, <1>3, <1>4 DEF SettlerInv
<1> QED BY <1>1, <1>5, <1>6, <1>7, <1>8, <1>9 DEF Inv

(***************************************************************************)
(* The actions.                                                            *)
(***************************************************************************)
Good(x) == x \in StateType /\ Inv(x, {})

LEMMA InitGood ==
  Init => Good(st)
<1> SUFFICES ASSUME Init PROVE Good(st)
  OBVIOUS
<1> DEFINE first == [Unused EXCEPT !.gen = 1, !.live = TRUE]
           ctx == [c \in Contexts |-> IF c = 1 THEN first ELSE Unused]
           linked == [e \in 1 .. Entries |-> NoEntry]
           free == [e \in 1 .. Entries |-> e]
           promises == [p \in Promises |-> NoPromise]
<1>1. st = [ctx |-> ctx, linked |-> linked, free |-> free, promises |-> promises,
            settlers |-> {}, wakes |-> {}, parks |-> 0, restarted |-> FALSE]
  BY DEF Init
<1>2. Unused \in ContextType /\ first \in ContextType
  BY EmptySeq DEF Unused, ContextType, Exits
<1>3. /\ ctx \in [Contexts -> ContextType]
      /\ \A c \in Contexts :
           /\ ctx[c].exit = "run" /\ ctx[c].park = 0 /\ ctx[c].inbox = <<>>
           /\ ctx[c].stash = 0 /\ ctx[c].moved = FALSE /\ ctx[c].owes = None
  <2>1. /\ Unused.exit = "run" /\ Unused.park = 0 /\ Unused.inbox = <<>>
        /\ Unused.stash = 0 /\ Unused.moved = FALSE /\ Unused.owes = None
    BY DEF Unused
  <2>2. /\ first.exit = "run" /\ first.park = 0 /\ first.inbox = <<>>
        /\ first.stash = 0 /\ first.moved = FALSE /\ first.owes = None
    BY DEF Unused
  <2> HIDE DEF first
  <2> QED BY <1>2, <2>1, <2>2
<1>4. linked \in [1 .. Entries -> EntryType] /\ \A e \in 1 .. Entries : ~linked[e].live
  <2>1. NoEntry \in EntryType /\ ~NoEntry.live
    BY DEF NoEntry, EntryType, EntryFields
  <2> QED BY <2>1
<1>5. /\ free \in Seq(1 .. Entries) /\ DOMAIN free = 1 .. Entries
      /\ \A e \in 1 .. Entries : free[e] = e
  <2>1. Entries \in Nat
    BY SettlementAssumption
  <2>2. free \in [1 .. Entries -> 1 .. Entries]
    OBVIOUS
  <2>3. Seq(1 .. Entries) = UNION {[1 .. n -> 1 .. Entries] : n \in Nat}
    BY SeqDef
  <2> QED BY <2>1, <2>2, <2>3
<1>6. /\ promises \in [Promises -> PromiseType]
      /\ \A p \in Promises : /\ promises[p].status = "none" /\ promises[p].waiters = {}
                             /\ promises[p].handlers = <<>>
  <2>1. NoPromise \in PromiseType
    BY EmptySeq DEF NoPromise, PromiseType
  <2>2. NoPromise.status = "none" /\ NoPromise.waiters = {} /\ NoPromise.handlers = <<>>
    BY DEF NoPromise
  <2> QED BY <2>1, <2>2
<1> HIDE DEF ctx, linked, free, promises
<1>7. /\ st \in StateType /\ st.ctx = ctx /\ st.linked = linked /\ st.free = free
      /\ st.promises = promises /\ st.settlers = {} /\ st.wakes = {}
  BY <1>1, <1>3, <1>4, <1>5, <1>6 DEF StateType
<1>8. CtxInv(st)
  BY <1>3, <1>7 DEF CtxInv
<1>9. PromiseInv(st)
  <2>1. \A p \in Promises : ~Made(st, p)
    BY <1>6, <1>7 DEF Made
  <2>2. 0 \in 0 .. MaxPromises /\ \A p \in Promises : ~(p <= 0)
    BY SettlementAssumption DEF Promises
  <2>3. \E n \in 0 .. MaxPromises : \A p \in Promises : Made(st, p) <=> p <= n
    BY <2>1, <2>2
  <2> QED BY <2>3, <1>3, <1>4, <1>6, <1>7 DEF PromiseInv
<1>10. WaiterInv(st)
  BY <1>3, <1>6, <1>7 DEF WaiterInv
<1>11. EntryInv(st, {})
  BY <1>3, <1>4, <1>7 DEF EntryInv, Names
<1>12. FreeInv(st)
  BY <1>4, <1>5, <1>7 DEF FreeInv
<1>13. WakeInv(st)
  BY <1>3, <1>7 DEF WakeInv, Ready
<1>14. SettlerInv(st, {})
  BY <1>7 DEF SettlerInv
<1> QED BY <1>7, <1>8, <1>9, <1>10, <1>11, <1>12, <1>13, <1>14 DEF Good, Inv

\* A context that may run begins its run in a good state, and alone.
LEMMA BegunGood ==
  ASSUME Good(st), NEW c \in Contexts, Runnable(c), NEW x, x = Begun(st, c)
  PROVE  /\ Good(x) /\ Runs(st, x, c) /\ Fades(st, x)
         /\ x.ctx[c].live /\ x.ctx[c].exit = "run" /\ x.ctx[c].gen = st.ctx[c].gen
         /\ x.linked = st.linked /\ x.free = st.free /\ x.promises = st.promises
         /\ x.settlers = st.settlers /\ x.parks = st.parks
<1>1. Runs(st, x, c)
  BY BegunRuns DEF Good
<1>2. /\ st.ctx[c].live
      /\ \/ st.ctx[c].exit = "run"
         \/ <<c, st.ctx[c].gen>> \in st.wakes /\ Ready(st.ctx[c])
  BY DEF Runnable
<1>3. Inv(x, {})
  BY <1>1, <1>2, RunsKeeps DEF Good
<1>4. Fades(st, x)
  BY <1>1 DEF Runs, Fades
<1> QED BY <1>1, <1>2, <1>3, <1>4 DEF Good, Runs

\* Context c, which runs, parks on what entry e and continuation s answer.
ParksOn(x, y, c, kind, park, e, s) ==
  /\ y \in StateType /\ FreeInv(y)
  /\ ~x.linked[e].live /\ park # 0
  /\ \A f \in 1 .. Entries : f # e => y.linked[f] = x.linked[f]
  /\ LET entry == y.linked[e] IN
       /\ entry.live /\ entry.ctx = c /\ entry.gen = x.ctx[c].gen /\ entry.park = park
       /\ ~entry.orphan
  /\ \A d \in Contexts : d # c => y.ctx[d] = x.ctx[d]
  /\ LET k == y.ctx[c] IN
       /\ k.live = x.ctx[c].live /\ k.gen = x.ctx[c].gen /\ k.exit = kind
       /\ k.cid = x.ctx[c].cid + 1 /\ k.park = park /\ k.moved = x.ctx[c].moved
       /\ k.inbox = x.ctx[c].inbox /\ k.stash = x.ctx[c].stash /\ k.owes = x.ctx[c].owes
       /\ k.executor = x.ctx[c].executor
  /\ y.promises = x.promises /\ y.wakes = x.wakes
  /\ y.settlers = x.settlers \cup {s}
  /\ s.kind = kind /\ s.slot = c /\ s.gen = x.ctx[c].gen /\ s.cid = x.ctx[c].cid + 1
  /\ s.entry = e /\ s.park = park /\ s.stage = "pending"

LEMMA ParksOnFades ==
  ASSUME NEW x, NEW y, NEW c \in Contexts, NEW kind, NEW park, NEW e \in 1 .. Entries, NEW s,
         ParksOn(x, y, c, kind, park, e, s)
  PROVE  Fades(x, y)
<1>1. c # None
  BY DEF Contexts, None
<1> QED BY <1>1 DEF ParksOn, Fades

LEMMA ParksOnKeeps ==
  ASSUME NEW x, Good(x), NEW c \in Contexts, x.ctx[c].live, x.ctx[c].exit = "run",
         NEW kind \in {"call", "grant"}, NEW park, NEW e \in 1 .. Entries, NEW s,
         kind = "grant" => \A t \in x.settlers : Approval(t) /\ t.slot = c
                                                   => t.gen = x.ctx[c].gen,
         NEW y, ParksOn(x, y, c, kind, park, e, s)
  PROVE  Good(y)
<1>1. x \in StateType /\ Inv(x, {}) /\ y \in StateType
  BY DEF Good, ParksOn
<1>2. /\ \A p \in Promises : \A w \in x.promises[p].waiters : w[1] # c
      /\ \A f \in 1 .. Entries : ~Names(x, {}, f, c)
      /\ \A w \in x.wakes : w[1] # c
      /\ \A t \in x.settlers : Acting(x, t) => t.slot # c
      /\ x.ctx[c].inbox = <<>> /\ x.ctx[c].stash = 0 /\ ~x.ctx[c].moved
  BY <1>1, RunningIsAlone
<1>3. /\ ~x.linked[e].live /\ y.linked[e].live /\ y.linked[e].ctx = c
      /\ y.linked[e].gen = x.ctx[c].gen /\ y.linked[e].park = park /\ ~y.linked[e].orphan
      /\ \A f \in 1 .. Entries : f # e => y.linked[f] = x.linked[f]
  BY DEF ParksOn
<1>4. /\ \A d \in Contexts : d # c => y.ctx[d] = x.ctx[d]
      /\ y.ctx[c].live /\ y.ctx[c].gen = x.ctx[c].gen /\ y.ctx[c].exit = kind
      /\ y.ctx[c].cid = x.ctx[c].cid + 1 /\ y.ctx[c].park = park /\ park # 0
      /\ ~y.ctx[c].moved /\ y.ctx[c].inbox = <<>> /\ y.ctx[c].stash = 0
      /\ y.ctx[c].owes = x.ctx[c].owes
  BY <1>2 DEF ParksOn
<1>5. y.promises = x.promises /\ y.wakes = x.wakes /\ y.settlers = x.settlers \cup {s}
  BY DEF ParksOn
<1>6. /\ s.kind = kind /\ s.slot = c /\ s.gen = x.ctx[c].gen /\ s.cid = x.ctx[c].cid + 1
      /\ s.entry = e /\ s.park = park /\ s.stage = "pending"
  BY DEF ParksOn
<1>7. None \notin Contexts
  BY DEF None, Contexts
<1>8. \A f \in 1 .. Entries, d \in Contexts :
        Names(y, {}, f, d) <=> (f = e /\ d = c) \/ (f # e /\ d # c /\ Names(x, {}, f, d))
  BY <1>2, <1>3 DEF Names
<1>9. \A d \in Contexts : x.ctx[d].cid \in Nat /\ x.ctx[d].gen \in Nat
  BY <1>1 DEF StateType, ContextType
<1>10. CtxInv(y)
  BY <1>1, <1>4 DEF Inv, CtxInv
<1>11. PromiseInv(y)
  <2>1. \A p : Made(y, p) <=> Made(x, p)
    BY <1>5 DEF Made
  <2>2. \A d \in Contexts : y.ctx[d].owes = x.ctx[d].owes
    BY <1>4
  <2>3. \A f \in 1 .. Entries :
          y.linked[f].live /\ y.linked[f].ctx = None => y.linked[f] = x.linked[f]
    BY <1>3, <1>7
  <2> QED BY <1>1, <1>5, <2>1, <2>2, <2>3 DEF Inv, PromiseInv
<1>12. WaiterInv(y)
  <2>1. \A p \in Promises : \A w \in x.promises[p].waiters : w[1] \in Contexts /\ w[1] # c
    BY <1>1, <1>2 DEF StateType, PromiseType
  <2> QED BY <1>1, <1>4, <1>5, <2>1 DEF Inv, WaiterInv
<1>13. EntryInv(y, {})
  <2>1. EntryInv(x, {})
    BY <1>1 DEF Inv
  <2>2. <<c, x.ctx[c].gen>> \notin y.wakes
    <3> DEFINE w == <<c, x.ctx[c].gen>>
    <3>1. w[1] = c
      OBVIOUS
    <3> HIDE DEF w
    <3>2. w \notin y.wakes
      BY <3>1, <1>2, <1>5
    <3> QED BY <3>2 DEF w
  <2>3. ASSUME NEW f \in 1 .. Entries, NEW d \in Contexts, Names(y, {}, f, d)
        PROVE  LET k == y.ctx[d] IN
                 /\ k.live /\ k.gen = y.linked[f].gen /\ k.park = y.linked[f].park
                 /\ k.exit \in {"call", "grant"} /\ k.stash = 0 /\ <<d, k.gen>> \notin y.wakes
    <3>1. CASE f = e /\ d = c
      BY <3>1, <2>2, <1>3, <1>4
    <3>2. CASE f # e /\ d # c /\ Names(x, {}, f, d)
      BY <3>2, <2>1, <1>3, <1>4, <1>5 DEF EntryInv
    <3> QED BY <2>3, <3>1, <3>2, <1>8
  <2>4. \A f, g \in 1 .. Entries, d \in Contexts :
          Names(y, {}, f, d) /\ Names(y, {}, g, d) => f = g
    BY <2>1, <1>8 DEF EntryInv
  <2>5. ASSUME NEW d \in Contexts, y.ctx[d].live, y.ctx[d].exit \in {"call", "grant"},
               y.ctx[d].stash = 0, ~y.ctx[d].moved
        PROVE  \E f \in 1 .. Entries : Names(y, {}, f, d)
    <3>1. CASE d = c
      BY <3>1, <1>8
    <3>2. CASE d # c
      <4>1. PICK f \in 1 .. Entries : Names(x, {}, f, d)
        BY <3>2, <2>1, <2>5, <1>4 DEF EntryInv
      <4>2. f # e
        BY <4>1, <1>3 DEF Names
      <4> QED BY <3>2, <4>1, <4>2, <1>8
    <3> QED BY <3>1, <3>2
  <2> QED BY <2>3, <2>4, <2>5 DEF EntryInv
<1>14. FreeInv(y)
  BY DEF ParksOn
<1>15. WakeInv(y)
  <2>1. \A w \in x.wakes : w[1] \in Contexts /\ w[1] # c
    BY <1>1, <1>2 DEF StateType
  <2>2. \A w \in y.wakes : Live(y, w[1], w[2]) /\ Ready(y.ctx[w[1]])
    BY <1>1, <1>4, <1>5, <2>1 DEF Inv, WakeInv, Live
  <2>3. ASSUME NEW d \in Contexts, y.ctx[d].live, Ready(y.ctx[d])
        PROVE  \/ <<d, y.ctx[d].gen>> \in y.wakes
               \/ \E t \in y.settlers : t.stage = "settle" /\ t.slot = d
                                         /\ t.gen = y.ctx[d].gen /\ t.cid = y.ctx[d].cid
    <3>1. d # c
      BY <2>3, <1>4 DEF Ready
    <3> QED BY <2>3, <3>1, <1>1, <1>4, <1>5 DEF Inv, WakeInv
  <2> QED BY <2>2, <2>3 DEF WakeInv
<1>16. SettlerInv(y, {})
  <2>1. SettlerInv(x, {})
    BY <1>1 DEF Inv
  <2>2. \A t \in x.settlers :
          /\ t.kind # "js" => t.slot \in Contexts
          /\ t.entry \in 1 .. Entries /\ t.cid \in Nat /\ t.gen \in Nat
    BY <1>1, <2>1 DEF SettlerInv, StateType, SettlerType
  <2>3. \A t \in x.settlers : Current(y, t) <=> t.slot # c /\ Current(x, t)
    <3> SUFFICES ASSUME NEW t \in x.settlers
                 PROVE  Current(y, t) <=> t.slot # c /\ Current(x, t)
      OBVIOUS
    <3>1. CASE t.slot # c
      BY <3>1, <2>2, <1>4 DEF Current, Live
    <3>2. CASE t.slot = c
      <4>1. t.kind # "js" => (Live(x, t.slot, t.gen) => t.cid <= x.ctx[t.slot].cid)
        BY <2>1 DEF SettlerInv
      <4>2. Live(y, c, t.gen) => x.ctx[c].live /\ t.gen = x.ctx[c].gen
        BY <1>4 DEF Live
      <4>3. Current(y, t) => t.kind # "js" /\ t.cid = x.ctx[c].cid + 1 /\ Live(y, c, t.gen)
        BY <3>2, <1>4 DEF Current
      <4> QED BY <3>2, <4>1, <4>2, <4>3, <1>9, <2>2 DEF Live
    <3> QED BY <3>1, <3>2
  <2>4. \A t \in x.settlers : Acting(y, t) <=> Acting(x, t)
    BY <2>3, <1>2 DEF Acting
  <2>5. \A t \in x.settlers : t.kind = "js" =>
         /\ t.stage = "pending" /\ t.slot = None /\ t.gen = 0 /\ t.cid = 0 /\ t.park = 0
         /\ t.entry \notin {} /\ y.linked[t.entry].live /\ y.linked[t.entry].ctx = None
         /\ ~y.linked[t.entry].orphan
    <3> SUFFICES ASSUME NEW t \in x.settlers, t.kind = "js"
                 PROVE  y.linked[t.entry] = x.linked[t.entry]
      BY <2>1 DEF SettlerInv
    <3>1. x.linked[t.entry].live
      BY <2>1 DEF SettlerInv
    <3> QED BY <3>1, <2>2, <1>3
  <2>6. ASSUME NEW t \in x.settlers, t.kind # "js"
        PROVE  /\ t.slot \in Contexts /\ t.gen <= y.ctx[t.slot].gen
               /\ Live(y, t.slot, t.gen) => t.cid <= y.ctx[t.slot].cid
               /\ Approval(t) /\ y.ctx[t.slot].live /\ y.ctx[t.slot].exit = "grant"
                    => t.gen = y.ctx[t.slot].gen
    <3>1. /\ t.slot \in Contexts /\ t.gen <= x.ctx[t.slot].gen
          /\ Live(x, t.slot, t.gen) => t.cid <= x.ctx[t.slot].cid
          /\ Approval(t) /\ x.ctx[t.slot].live /\ x.ctx[t.slot].exit = "grant"
                    => t.gen = x.ctx[t.slot].gen
      BY <2>1, <2>6 DEF SettlerInv
    <3>2. CASE t.slot # c
      BY <3>1, <3>2, <1>4 DEF Live
    <3>3. CASE t.slot = c
      <4>1. t.gen <= y.ctx[c].gen
        BY <3>1, <3>3, <1>4
      <4>2. Live(y, c, t.gen) => t.cid <= y.ctx[c].cid
        BY <3>1, <3>3, <1>4, <1>9, <2>2 DEF Live
      <4>3. Approval(t) /\ y.ctx[c].exit = "grant" => t.gen = y.ctx[c].gen
        BY <3>3, <1>4
      <4> QED BY <3>1, <3>3, <4>1, <4>2, <4>3
    <3> QED BY <3>2, <3>3
  <2>7. \A t \in x.settlers : t.kind = "regrant" => Current(y, t)
    <3> SUFFICES ASSUME NEW t \in x.settlers, t.kind = "regrant" PROVE Current(y, t)
      OBVIOUS
    <3>1. Current(x, t) /\ t.stage # "late"
      BY <2>1 DEF SettlerInv
    <3> QED BY <3>1, <2>3, <1>2 DEF Acting
  <2>8. ASSUME NEW t \in x.settlers, Acting(y, t)
        PROVE  LET k == y.ctx[t.slot] IN
                 /\ Names(y, {}, t.entry, t.slot) /\ k.park = t.park
                 /\ k.exit = IF t.kind = "call" THEN "call" ELSE "grant"
                 /\ k.moved <=> t.stage = "settle"
                 /\ t.kind # "regrant" => ~y.linked[t.entry].orphan
    <3>1. Acting(x, t) /\ t.slot # c /\ t.slot \in Contexts
      BY <2>2, <2>4, <2>8, <1>2 DEF Acting, Current
    <3>2. Names(x, {}, t.entry, t.slot)
      BY <3>1, <2>1 DEF SettlerInv
    <3>3. t.entry # e
      BY <3>2, <1>3 DEF Names
    <3>4. y.linked[t.entry] = x.linked[t.entry] /\ y.ctx[t.slot] = x.ctx[t.slot]
      BY <3>1, <3>3, <2>2, <1>3, <1>4
    <3>5. Names(y, {}, t.entry, t.slot)
      BY <3>2, <3>4 DEF Names
    <3> QED BY <3>1, <3>4, <3>5, <2>1 DEF SettlerInv
  <2>9. /\ Acting(y, s) /\ Current(y, s) /\ Names(y, {}, s.entry, s.slot)
        /\ Live(y, s.slot, s.gen) => s.cid <= y.ctx[s.slot].cid
    BY <1>4, <1>6, <1>8, <1>9 DEF Acting, Current, Live
  <2>10. /\ s.kind # "js" /\ s.kind # "regrant" /\ s.stage # "late" /\ s.stage # "settle"
         /\ s.slot \in Contexts /\ s.gen <= y.ctx[s.slot].gen /\ s.gen = y.ctx[s.slot].gen
         /\ y.ctx[s.slot].park = s.park /\ ~y.ctx[s.slot].moved
         /\ y.ctx[s.slot].exit = (IF s.kind = "call" THEN "call" ELSE "grant")
         /\ ~y.linked[s.entry].orphan
    BY <1>3, <1>4, <1>6, <1>9
  <2>11. \A t \in x.settlers : Acting(y, t) => t.slot # s.slot
    BY <2>4, <1>2, <1>6
  <2>12. \A t \in x.settlers :
           (t.stage = "late" => t.kind = "call") /\ (t.stage = "settle" => Approval(t))
    BY <2>1 DEF SettlerInv
  <2>13. \A t \in x.settlers : Approval(t) => t.kind # "js"
    BY DEF Approval
  <2>14. \A t \in y.settlers :
       /\ t.kind = "js" =>
            /\ t.stage = "pending" /\ t.slot = None /\ t.gen = 0 /\ t.cid = 0 /\ t.park = 0
            /\ t.entry \notin {} /\ y.linked[t.entry].live /\ y.linked[t.entry].ctx = None
            /\ ~y.linked[t.entry].orphan
       /\ t.kind # "js" =>
            /\ t.slot \in Contexts /\ t.gen <= y.ctx[t.slot].gen
            /\ Live(y, t.slot, t.gen) => t.cid <= y.ctx[t.slot].cid
       /\ t.stage = "late" => t.kind = "call"
       /\ t.stage = "settle" => Approval(t)
       /\ t.kind = "regrant" => Current(y, t)
       /\ Approval(t) /\ y.ctx[t.slot].live /\ y.ctx[t.slot].exit = "grant"
            => t.gen = y.ctx[t.slot].gen
    BY <2>5, <2>6, <2>7, <2>9, <2>10, <2>12, <2>13, <1>5
  <2>15. \A t \in y.settlers : Acting(y, t) =>
            LET k == y.ctx[t.slot] IN
              /\ Names(y, {}, t.entry, t.slot) /\ k.park = t.park
              /\ k.exit = IF t.kind = "call" THEN "call" ELSE "grant"
              /\ k.moved <=> t.stage = "settle"
              /\ t.kind # "regrant" => ~y.linked[t.entry].orphan
    BY <2>8, <2>9, <2>10, <1>5
  <2>16. \A t, u \in y.settlers : Acting(y, t) /\ Acting(y, u) /\ t.slot = u.slot => t = u
    <3>1. \A t, u \in x.settlers : Acting(y, t) /\ Acting(y, u) /\ t.slot = u.slot => t = u
      BY <2>1, <2>4 DEF SettlerInv
    <3> QED BY <3>1, <2>11, <1>5
  <2> QED BY <2>14, <2>15, <2>16 DEF SettlerInv
<1> QED BY <1>1, <1>10, <1>11, <1>12, <1>13, <1>14, <1>15, <1>16 DEF Good, Inv

LEMMA WithSettlerParks ==
  ASSUME Good(st), NEW c \in Contexts, Runnable(c), st.free # <<>>,
         NEW kind \in {"call", "grant"}, NEW x, x = Begun(st, c),
         NEW s, s = [kind |-> kind, slot |-> c, gen |-> x.ctx[c].gen, cid |-> x.ctx[c].cid + 1,
                     entry |-> Head(x.free), park |-> NextPark, stage |-> "pending"]
  PROVE  ParksOn(x, WithSettler(c, kind), c, kind, NextPark, Head(x.free), s)
<1>1. /\ x \in StateType /\ FreeInv(x) /\ x.free # <<>> /\ x.parks = st.parks
  BY BegunGood DEF Good, Inv
<1>2. NextPark \in Nat /\ NextPark # 0
  BY <1>1 DEF NextPark, StateType
<1> DEFINE k == x.ctx[c]
           entry == [NoEntry EXCEPT !.live = TRUE, !.ctx = c, !.gen = k.gen, !.park = NextPark]
           parked == EntryTaken(x, entry)
           j == [k EXCEPT !.exit = kind, !.cid = k.cid + 1, !.park = NextPark]
           ctx == [parked.ctx EXCEPT ![c] = j]
           settlers == parked.settlers \cup {s}
           y == WithSettler(c, kind)
<1>3. k \in ContextType
  BY <1>1 DEF StateType
<1>4. /\ entry \in EntryType /\ entry.live /\ entry.ctx = c /\ entry.gen = k.gen
      /\ entry.park = NextPark /\ ~entry.orphan
  BY <1>2, <1>3 DEF EntryType, EntryFields, NoEntry, ContextType
<1>5. /\ j \in ContextType /\ j.live = k.live /\ j.gen = k.gen /\ j.exit = kind
      /\ j.cid = k.cid + 1 /\ j.park = NextPark /\ j.moved = k.moved
      /\ j.inbox = k.inbox /\ j.stash = k.stash /\ j.owes = k.owes
      /\ j.executor = k.executor
  <2> DEFINE n == k.cid + 1
             m == NextPark
  <2>1. n \in Nat /\ m \in Nat /\ kind \in Exits
    BY <1>2, <1>3 DEF ContextType, Exits
  <2>2. j = [k EXCEPT !.exit = kind, !.cid = n, !.park = m]
    OBVIOUS
  <2> HIDE DEF n, m, k, j
  <2>3. /\ j \in ContextType /\ j.live = k.live /\ j.gen = k.gen /\ j.exit = kind
        /\ j.cid = n /\ j.park = m /\ j.moved = k.moved
        /\ j.inbox = k.inbox /\ j.stash = k.stash /\ j.owes = k.owes
      /\ j.executor = k.executor
    BY <1>3, <2>1, <2>2 DEF ContextType
  <2> QED BY <2>3 DEF n, m
<1> HIDE DEF entry
<1>6. /\ parked \in StateType /\ FreeInv(parked)
      /\ parked.ctx = x.ctx /\ parked.promises = x.promises /\ parked.settlers = x.settlers
      /\ parked.wakes = x.wakes
      /\ Head(x.free) \in 1 .. Entries /\ ~x.linked[Head(x.free)].live
      /\ \A f \in 1 .. Entries : parked.linked[f] = IF f = Head(x.free) THEN entry
                                                                       ELSE x.linked[f]
  BY <1>1, <1>4, EntryTakenFields
<1>7. y = [parked EXCEPT !.ctx = ctx, !.parks = NextPark, !.settlers = settlers]
  <2> DEFINE w(z) == [z EXCEPT !.ctx[c].exit = kind, !.ctx[c].cid = k.cid + 1,
                               !.ctx[c].park = NextPark, !.parks = NextPark,
                               !.settlers = @ \cup {s}]
             e(n) == [parked.ctx[c] EXCEPT !.exit = kind, !.cid = n, !.park = NextPark]
  <2>1. y = w(parked)
    BY DEF WithSettler, entry
  <2>2. parked.ctx[c] = k
    BY <1>6
  <2>3. c \in DOMAIN parked.ctx
    BY <1>6 DEF StateType
  <2> HIDE DEF parked, k
  <2>4. w(parked) = [parked EXCEPT !.ctx = [parked.ctx EXCEPT ![c] = e(k.cid + 1)],
                              !.parks = NextPark, !.settlers = settlers]
    BY <2>3
  <2>5. e(k.cid + 1) = j
    BY <2>2
  <2> QED BY <2>1, <2>4, <2>5
<1>8. s \in SettlerType
  BY <1>2, <1>3, <1>6 DEF SettlerType, ContextType
<1> HIDE DEF parked, j, k, y
<1>9. ctx \in [Contexts -> ContextType] /\ ctx[c] = j
      /\ \A d \in Contexts : d # c => ctx[d] = x.ctx[d]
  BY <1>5, <1>6 DEF StateType
<1>10. settlers \in SUBSET SettlerType /\ settlers = x.settlers \cup {s}
  BY <1>6, <1>8 DEF StateType
<1> HIDE DEF ctx, settlers
<1>11. /\ y \in StateType /\ y.ctx = ctx /\ y.linked = parked.linked /\ y.free = parked.free
       /\ y.promises = parked.promises /\ y.wakes = parked.wakes /\ y.settlers = settlers
  BY <1>2, <1>6, <1>7, <1>9, <1>10 DEF StateType
<1>12. FreeInv(y)
  BY <1>6, <1>11 DEF FreeInv
<1>13. /\ s.kind = kind /\ s.slot = c /\ s.gen = k.gen /\ s.cid = k.cid + 1
       /\ s.entry = Head(x.free) /\ s.park = NextPark /\ s.stage = "pending"
  BY DEF k
<1>14. /\ \A f \in 1 .. Entries : f # Head(x.free) => y.linked[f] = x.linked[f]
       /\ y.linked[Head(x.free)] = entry
  BY <1>6, <1>11
<1> QED
  BY <1>2, <1>4, <1>5, <1>6, <1>9, <1>10, <1>11, <1>12, <1>13, <1>14 DEF ParksOn, k, y

LEMMA SuspendGood ==
  ASSUME Good(st), NEW c \in Contexts, Suspend(c)
  PROVE  Good(st') /\ Fades(st, st')
<1> DEFINE x == Begun(st, c)
           s == [kind |-> "call", slot |-> c, gen |-> x.ctx[c].gen, cid |-> x.ctx[c].cid + 1,
                 entry |-> Head(x.free), park |-> NextPark, stage |-> "pending"]
<1>1. Runnable(c) /\ st.free # <<>> /\ st' = WithSettler(c, "call")
  BY DEF Suspend
<1>2. Good(x) /\ Fades(st, x) /\ x.ctx[c].live /\ x.ctx[c].exit = "run" /\ x.free = st.free
  BY <1>1, BegunGood
<1>3. Head(x.free) \in 1 .. Entries
  BY <1>1, <1>2, SeqParts DEF Good, StateType
<1>4. ParksOn(x, WithSettler(c, "call"), c, "call", NextPark, Head(x.free), s)
  BY <1>1, WithSettlerParks
<1> HIDE DEF x, s
<1> QED BY <1>1, <1>2, <1>3, <1>4, ParksOnKeeps, ParksOnFades, FadesTransitive

LEMMA RequestGrantGood ==
  ASSUME Good(st), Disciplined, NEW c \in Contexts, RequestGrant(c)
  PROVE  Good(st') /\ Fades(st, st')
<1> DEFINE x == Begun(st, c)
           s == [kind |-> "grant", slot |-> c, gen |-> x.ctx[c].gen, cid |-> x.ctx[c].cid + 1,
                 entry |-> Head(x.free), park |-> NextPark, stage |-> "pending"]
<1>1. Runnable(c) /\ st.free # <<>> /\ st' = WithSettler(c, "grant") /\ OpenChains(c) = {}
  BY DEF RequestGrant, Disciplined
<1>2. /\ Good(x) /\ Fades(st, x) /\ x.ctx[c].live /\ x.ctx[c].exit = "run" /\ x.free = st.free
      /\ x.settlers = st.settlers /\ x.ctx[c].gen = st.ctx[c].gen
  BY <1>1, BegunGood
<1>3. Head(x.free) \in 1 .. Entries
  BY <1>1, <1>2, SeqParts DEF Good, StateType
<1>4. ParksOn(x, WithSettler(c, "grant"), c, "grant", NextPark, Head(x.free), s)
  BY <1>1, WithSettlerParks
<1>5. \A t \in x.settlers : Approval(t) /\ t.slot = c => t.gen = x.ctx[c].gen
  BY <1>1, <1>2 DEF OpenChains, Approval
<1> HIDE DEF x, s
<1> QED
  BY <1>1, <1>2, <1>3, <1>4, <1>5, ParksOnKeeps, ParksOnFades, FadesTransitive

\* Context c, which runs, parks on the pending promise p.
Waits(x, y, c, p, park) ==
  /\ y \in StateType /\ park # 0
  /\ y.linked = x.linked /\ y.free = x.free /\ y.settlers = x.settlers /\ y.wakes = x.wakes
  /\ \A d \in Contexts : d # c => y.ctx[d] = x.ctx[d]
  /\ LET k == y.ctx[c] IN
       /\ k.live = x.ctx[c].live /\ k.gen = x.ctx[c].gen /\ k.exit = "await"
       /\ k.cid = x.ctx[c].cid /\ k.park = park /\ k.moved = x.ctx[c].moved
       /\ k.inbox = x.ctx[c].inbox /\ k.stash = x.ctx[c].stash /\ k.owes = x.ctx[c].owes
       /\ k.executor = x.ctx[c].executor
  /\ \A q \in Promises :
       /\ y.promises[q].status = x.promises[q].status
       /\ y.promises[q].handlers = x.promises[q].handlers
       /\ y.promises[q].elements = x.promises[q].elements
       /\ y.promises[q].race = x.promises[q].race
       /\ y.promises[q].remaining = x.promises[q].remaining
       /\ q # p => y.promises[q].waiters = x.promises[q].waiters
  /\ y.promises[p].waiters = x.promises[p].waiters \cup {<<c, x.ctx[c].gen, park>>}

LEMMA WaitsKeeps ==
  ASSUME NEW x, Good(x), NEW c \in Contexts, x.ctx[c].live, x.ctx[c].exit = "run",
         NEW p \in Promises, x.promises[p].status = "pending", NEW park,
         NEW y, Waits(x, y, c, p, park)
  PROVE  Good(y)
<1>1. x \in StateType /\ Inv(x, {}) /\ y \in StateType
  BY DEF Good, Waits
<1>2. /\ \A q \in Promises : \A w \in x.promises[q].waiters : w[1] # c
      /\ \A f \in 1 .. Entries : ~Names(x, {}, f, c)
      /\ \A w \in x.wakes : w[1] # c
      /\ \A t \in x.settlers : Acting(x, t) => t.slot # c
      /\ x.ctx[c].inbox = <<>> /\ x.ctx[c].stash = 0 /\ ~x.ctx[c].moved
  BY <1>1, RunningIsAlone
<1>3. /\ y.linked = x.linked /\ y.free = x.free /\ y.settlers = x.settlers
      /\ y.wakes = x.wakes
  BY DEF Waits
<1>4. /\ \A d \in Contexts : d # c => y.ctx[d] = x.ctx[d]
      /\ y.ctx[c].live /\ y.ctx[c].gen = x.ctx[c].gen /\ y.ctx[c].exit = "await"
      /\ y.ctx[c].cid = x.ctx[c].cid /\ y.ctx[c].park = park /\ park # 0
      /\ ~y.ctx[c].moved /\ y.ctx[c].inbox = <<>> /\ y.ctx[c].stash = 0
      /\ y.ctx[c].owes = x.ctx[c].owes
  BY <1>2 DEF Waits
<1>5. \A q \in Promises :
        /\ y.promises[q].status = x.promises[q].status
        /\ y.promises[q].handlers = x.promises[q].handlers
        /\ q # p => y.promises[q].waiters = x.promises[q].waiters
  BY DEF Waits
<1> DEFINE v == <<c, x.ctx[c].gen, park>>
<1>6. y.promises[p].waiters = x.promises[p].waiters \cup {v}
  BY DEF Waits
<1>7. v[1] = c /\ v[2] = x.ctx[c].gen /\ v[3] = park
  OBVIOUS
<1>8. v = <<c, y.ctx[c].gen, y.ctx[c].park>>
  BY <1>4
<1> HIDE DEF v
<1>9. \A f, d : Names(y, {}, f, d) <=> Names(x, {}, f, d)
  BY <1>3 DEF Names
<1>10. CtxInv(y)
  BY <1>1, <1>4 DEF Inv, CtxInv
<1>11. PromiseInv(y)
  <2>1. PromiseInv(x)
    BY <1>1 DEF Inv
  <2>2. \A q : Made(y, q) <=> Made(x, q)
    BY <1>5 DEF Made
  <2>3. \A d \in Contexts : y.ctx[d].owes = x.ctx[d].owes
    BY <1>4
  <2>4. \A q \in Promises : LET r == y.promises[q] IN
       /\ r.status # "pending" => r.waiters = {} /\ r.handlers = <<>>
       /\ \A i \in DOMAIN r.handlers : Made(y, r.handlers[i].child)
    BY <2>1, <2>2, <1>5 DEF PromiseInv
  <2> QED BY <2>1, <2>2, <2>3, <2>4, <1>3 DEF PromiseInv
<1>12. WaiterInv(y)
  <2>1. WaiterInv(x)
    BY <1>1 DEF Inv
  <2>2. \A q \in Promises : \A w \in y.promises[q].waiters :
          \/ w \in x.promises[q].waiters /\ w[1] \in Contexts /\ w[1] # c
          \/ q = p /\ w = v
    <3>1. \A q \in Promises : \A w \in x.promises[q].waiters : w[1] \in Contexts /\ w[1] # c
      BY <1>1, <1>2 DEF StateType, PromiseType
    <3> QED BY <3>1, <1>5, <1>6
  <2>3. \A q \in Promises : \A w \in y.promises[q].waiters :
          LET k == y.ctx[w[1]] IN k.live /\ k.gen = w[2] /\ k.park = w[3] /\ k.exit = "await"
    BY <2>1, <2>2, <1>4, <1>7 DEF WaiterInv
  <2>4. \A q, r \in Promises :
          \A w \in y.promises[q].waiters, u \in y.promises[r].waiters : w[1] = u[1] => q = r
    BY <2>1, <2>2, <1>7 DEF WaiterInv
  <2>5. ASSUME NEW d \in Contexts, y.ctx[d].live, y.ctx[d].exit = "await"
        PROVE  \E q \in Promises : <<d, y.ctx[d].gen, y.ctx[d].park>> \in y.promises[q].waiters
    <3>1. CASE d = c
      BY <3>1, <1>6, <1>8
    <3>2. CASE d # c
      <4>1. PICK q \in Promises : <<d, x.ctx[d].gen, x.ctx[d].park>> \in x.promises[q].waiters
        BY <2>1, <2>5, <3>2, <1>4 DEF WaiterInv
      <4>2. x.promises[q].waiters \subseteq y.promises[q].waiters
        BY <1>5, <1>6
      <4> QED BY <3>2, <4>1, <4>2, <1>4
    <3> QED BY <3>1, <3>2
  <2> QED BY <2>3, <2>4, <2>5 DEF WaiterInv
<1>13. EntryInv(y, {})
  <2>1. EntryInv(x, {})
    BY <1>1 DEF Inv
  <2>2. \A f \in 1 .. Entries, d \in Contexts : Names(y, {}, f, d) =>
          LET k == y.ctx[d] IN
            /\ k.live /\ k.gen = y.linked[f].gen /\ k.park = y.linked[f].park
            /\ k.exit \in {"call", "grant"} /\ k.stash = 0 /\ <<d, k.gen>> \notin y.wakes
    BY <2>1, <1>2, <1>3, <1>4, <1>9 DEF EntryInv
  <2>3. \A f, g \in 1 .. Entries, d \in Contexts :
          Names(y, {}, f, d) /\ Names(y, {}, g, d) => f = g
    BY <2>1, <1>9 DEF EntryInv
  <2>4. \A d \in Contexts : LET k == y.ctx[d] IN
          k.live /\ k.exit \in {"call", "grant"} /\ k.stash = 0 /\ ~k.moved
            => \E f \in 1 .. Entries : Names(y, {}, f, d)
    BY <2>1, <1>4, <1>9 DEF EntryInv
  <2> QED BY <2>2, <2>3, <2>4 DEF EntryInv
<1>14. FreeInv(y)
  BY <1>1, <1>3 DEF Inv, FreeInv
<1>15. WakeInv(y)
  <2>1. \A w \in x.wakes : w[1] \in Contexts /\ w[1] # c
    BY <1>1, <1>2 DEF StateType
  <2>2. \A w \in y.wakes : Live(y, w[1], w[2]) /\ Ready(y.ctx[w[1]])
    BY <1>1, <1>3, <1>4, <2>1 DEF Inv, WakeInv, Live
  <2>3. ASSUME NEW d \in Contexts, y.ctx[d].live, Ready(y.ctx[d])
        PROVE  \/ <<d, y.ctx[d].gen>> \in y.wakes
               \/ \E t \in y.settlers : t.stage = "settle" /\ t.slot = d
                                         /\ t.gen = y.ctx[d].gen /\ t.cid = y.ctx[d].cid
    <3>1. d # c
      BY <2>3, <1>4 DEF Ready
    <3> QED BY <2>3, <3>1, <1>1, <1>3, <1>4 DEF Inv, WakeInv
  <2> QED BY <2>2, <2>3 DEF WakeInv
<1>16. SettlerInv(y, {})
  <2>1. SettlerInv(x, {})
    BY <1>1 DEF Inv
  <2>2. \A t \in x.settlers : t.kind # "js" => t.slot \in Contexts
    BY <2>1 DEF SettlerInv
  <2>3. \A t \in x.settlers : t.kind # "js" => (Live(y, t.slot, t.gen) <=> Live(x, t.slot, t.gen))
    BY <2>2, <1>4, <1>1 DEF Live
  <2>4. \A t \in x.settlers : (Current(y, t) <=> Current(x, t)) /\ (Acting(y, t) <=> Acting(x, t))
    BY <2>2, <2>3, <1>4 DEF Current, Acting
  <2>5. \A t \in x.settlers : Acting(x, t) => t.slot \in Contexts /\ y.ctx[t.slot] = x.ctx[t.slot]
    BY <2>2, <1>2, <1>4 DEF Acting, Current
  <2>6. \A t \in x.settlers : t.kind # "js" =>
            /\ t.slot \in Contexts /\ t.gen <= y.ctx[t.slot].gen
            /\ Live(y, t.slot, t.gen) => t.cid <= y.ctx[t.slot].cid
            /\ Approval(t) /\ y.ctx[t.slot].live /\ y.ctx[t.slot].exit = "grant"
                  => t.gen = y.ctx[t.slot].gen
    BY <2>1, <2>2, <2>3, <1>4 DEF SettlerInv
  <2>7. \A t \in x.settlers : Approval(t) => t.kind # "js"
    BY DEF Approval
  <2> QED BY <2>1, <2>4, <2>5, <2>6, <2>7, <1>3, <1>9 DEF SettlerInv
<1> QED BY <1>1, <1>10, <1>11, <1>12, <1>13, <1>14, <1>15, <1>16 DEF Good, Inv

LEMMA AwaitGood ==
  ASSUME Good(st), NEW c \in Contexts, NEW p \in Promises, Await(c, p)
  PROVE  Good(st') /\ Fades(st, st')
<1> DEFINE x == Begun(st, c)
           y == [x EXCEPT !.ctx[c].exit = "await", !.ctx[c].park = NextPark,
                          !.parks = NextPark,
                          !.promises[p].waiters = @ \cup {<<c, x.ctx[c].gen, NextPark>>}]
<1>1. Runnable(c) /\ st.promises[p].status = "pending" /\ st' = y
  BY DEF Await
<1>2. /\ Good(x) /\ Fades(st, x) /\ x.ctx[c].live /\ x.ctx[c].exit = "run" /\ x.promises = st.promises
      /\ x.parks = st.parks
  BY <1>1, BegunGood
<1> HIDE DEF x
<1> DEFINE v == <<c, x.ctx[c].gen, NextPark>>
           k == [x.ctx[c] EXCEPT !.exit = "await", !.park = NextPark]
           r == [x.promises[p] EXCEPT !.waiters = x.promises[p].waiters \cup {v}]
           ctx == [x.ctx EXCEPT ![c] = k]
           promises == [x.promises EXCEPT ![p] = r]
<1>3. NextPark \in Nat /\ NextPark # 0
  BY <1>2 DEF NextPark, Good, StateType
<1>4. x.ctx[c] \in ContextType /\ x.promises[p] \in PromiseType
  BY <1>2 DEF Good, StateType
<1>5. /\ k \in ContextType
      /\ k.live = x.ctx[c].live /\ k.gen = x.ctx[c].gen /\ k.exit = "await"
      /\ k.cid = x.ctx[c].cid /\ k.park = NextPark /\ k.moved = x.ctx[c].moved
      /\ k.inbox = x.ctx[c].inbox /\ k.stash = x.ctx[c].stash /\ k.owes = x.ctx[c].owes
      /\ k.executor = x.ctx[c].executor
  <2> DEFINE n == NextPark
  <2>1. k = [x.ctx[c] EXCEPT !.exit = "await", !.park = n]
    OBVIOUS
  <2> HIDE DEF n, k
  <2>2. n \in Nat
    BY <1>3 DEF n
  <2>3. /\ k \in ContextType
        /\ k.live = x.ctx[c].live /\ k.gen = x.ctx[c].gen /\ k.exit = "await"
        /\ k.cid = x.ctx[c].cid /\ k.park = n /\ k.moved = x.ctx[c].moved
        /\ k.inbox = x.ctx[c].inbox /\ k.stash = x.ctx[c].stash /\ k.owes = x.ctx[c].owes
      /\ k.executor = x.ctx[c].executor
    BY <1>4, <2>1, <2>2 DEF ContextType, Exits
  <2> QED BY <2>3 DEF n
<1>6. v \in Contexts \X Nat \X Nat
  BY <1>3, <1>4 DEF ContextType
<1> HIDE DEF v
<1>7. /\ r \in PromiseType /\ r.status = x.promises[p].status
      /\ r.handlers = x.promises[p].handlers
      /\ r.elements = x.promises[p].elements /\ r.race = x.promises[p].race
      /\ r.remaining = x.promises[p].remaining
      /\ r.waiters = x.promises[p].waiters \cup {v}
  <2> DEFINE waiters == x.promises[p].waiters \cup {v}
  <2>1. waiters \in SUBSET (Contexts \X Nat \X Nat)
    BY <1>4, <1>6 DEF PromiseType
  <2> HIDE DEF waiters
  <2>2. r = [x.promises[p] EXCEPT !.waiters = waiters]
    BY DEF waiters
  <2>3. r \in PromiseType /\ r.status = x.promises[p].status
        /\ r.handlers = x.promises[p].handlers /\ r.waiters = waiters
        /\ r.elements = x.promises[p].elements /\ r.race = x.promises[p].race
        /\ r.remaining = x.promises[p].remaining
    BY <1>4, <2>1, <2>2 DEF PromiseType
  <2> QED BY <2>3 DEF waiters
<1>8. y = [x EXCEPT !.ctx = ctx, !.promises = promises, !.parks = NextPark]
  <2>1. c \in DOMAIN x.ctx
    BY <1>2 DEF Good, StateType
  <2> QED BY <2>1 DEF v
<1> HIDE DEF k, r, y
<1>9. /\ ctx \in [Contexts -> ContextType] /\ ctx[c] = k
      /\ \A d \in Contexts : d # c => ctx[d] = x.ctx[d]
  BY <1>2, <1>5 DEF Good, StateType
<1>10. /\ promises \in [Promises -> PromiseType] /\ promises[p] = r
       /\ \A q \in Promises : q # p => promises[q] = x.promises[q]
  BY <1>2, <1>7 DEF Good, StateType
<1> HIDE DEF ctx, promises
<1>11. /\ y \in StateType /\ y.ctx = ctx /\ y.promises = promises /\ y.linked = x.linked
       /\ y.free = x.free /\ y.settlers = x.settlers /\ y.wakes = x.wakes
  BY <1>2, <1>3, <1>8, <1>9, <1>10 DEF Good, StateType
<1>12. Waits(x, y, c, p, NextPark)
  BY <1>3, <1>5, <1>7, <1>9, <1>10, <1>11 DEF Waits, v
<1>13. Good(y)
  BY <1>1, <1>2, <1>12, WaitsKeeps
<1>14. Fades(x, y)
  BY <1>12 DEF Waits, Fades
<1> QED BY <1>1, <1>2, <1>13, <1>14, FadesTransitive

\* The promises made are numbered without a gap.
LEMMA NextPromiseIsFresh ==
  ASSUME Good(st), CanPromise
  PROVE  /\ NextPromise \in Promises
         /\ \A p \in Promises : Made(st, p) <=> p < NextPromise
<1>1. PICK n \in 0 .. MaxPromises : \A p \in Promises : Made(st, p) <=> p <= n
  BY DEF Good, Inv, PromiseInv
<1>2. MaxPromises \in Nat /\ n \in Nat /\ n <= MaxPromises
  BY SettlementAssumption
<1>3. {p \in Promises : st.promises[p].status # "none"} = 1 .. n
  <2>1. \A p \in Promises : st.promises[p].status # "none" <=> p <= n
    BY <1>1 DEF Made
  <2> QED BY <1>2, <2>1 DEF Promises
<1>4. Cardinality(1 .. n) = n
  BY <1>2, FS_Interval
<1>5. NextPromise = n + 1
  BY <1>3, <1>4 DEF NextPromise
<1>6. NextPromise \in Promises
  BY <1>2, <1>5 DEF CanPromise, Promises
<1>7. \A p \in Promises : p <= n <=> p < n + 1
  BY <1>2 DEF Promises
<1> QED BY <1>1, <1>5, <1>6, <1>7

\* Changes to promises only, one of which may be new
LEMMA PromisesGood ==
  ASSUME NEW x, Good(x), NEW y \in StateType,
         y.ctx = x.ctx, y.linked = x.linked, y.free = x.free, y.settlers = x.settlers,
         y.wakes = x.wakes,
         \A p \in Promises : y.promises[p].waiters = x.promises[p].waiters,
         NEW n \in 0 .. MaxPromises, \A p \in Promises : Made(y, p) <=> p <= n,
         \A p \in Promises : Made(x, p) => Made(y, p),
         \A p \in Promises : LET r == y.promises[p] IN
           /\ r.status # "pending" => r.waiters = {} /\ r.handlers = <<>>
           /\ \A i \in DOMAIN r.handlers : Made(y, r.handlers[i].child)
  PROVE  Good(y)
<1>1. x \in StateType /\ Inv(x, {}) /\ PromiseInv(x)
  BY DEF Good, Inv
<1>2. \A p : Made(x, p) => Made(y, p)
  BY DEF Made
<1>3. \A c \in Contexts : y.ctx[c].owes # None => Made(y, y.ctx[c].owes)
  BY <1>1, <1>2 DEF PromiseInv
<1>4. \A e \in 1 .. Entries :
       y.linked[e].live /\ y.linked[e].ctx = None => Made(y, y.linked[e].promise)
  BY <1>1, <1>2 DEF PromiseInv
<1>5. PromiseInv(y)
  BY <1>3, <1>4 DEF PromiseInv
<1>6. Inv(y, {})
  BY <1>1, <1>5, PromisesKeep
<1> QED BY <1>6 DEF Good

\* z is x with the new promise r.
Creates(x, z, r) ==
  /\ z.ctx = x.ctx /\ z.linked = x.linked /\ z.free = x.free /\ z.settlers = x.settlers
  /\ z.wakes = x.wakes /\ z.parks = x.parks /\ z.restarted = x.restarted
  /\ r \in Promises /\ ~Made(x, r) /\ Made(z, r)
  /\ \A p \in Promises : p # r => z.promises[p] = x.promises[p]
  /\ \A p \in Promises : Made(z, p) <=> p <= r

WithPromise(x, r, rec) == [x EXCEPT !.promises[r] = rec]

LEMMA CreatedGood ==
  ASSUME Good(st), CanPromise, NEW x, Good(x), x.promises = st.promises,
         NEW rec \in PromiseType, rec.status = "pending", rec.waiters = {}, rec.handlers = <<>>,
         NEW r, r = NextPromise, NEW z, z = WithPromise(x, r, rec)
  PROVE  Good(z) /\ Creates(x, z, r) /\ z.promises[r] = rec
<1>1. r \in Promises /\ \A p \in Promises : Made(x, p) <=> p < r
  BY NextPromiseIsFresh DEF Made
<1>2. x \in StateType
  BY DEF Good
<1> DEFINE promises == [x.promises EXCEPT ![r] = rec]
<1>3. /\ promises \in [Promises -> PromiseType] /\ promises[r] = rec
      /\ \A p \in Promises : p # r => promises[p] = x.promises[p]
  BY <1>1, <1>2 DEF StateType
<1>4. z = [x EXCEPT !.promises = promises]
  BY DEF WithPromise
<1> HIDE DEF promises
<1>5. /\ z \in StateType /\ z.ctx = x.ctx /\ z.linked = x.linked /\ z.free = x.free
      /\ z.settlers = x.settlers /\ z.wakes = x.wakes /\ z.promises = promises
      /\ z.parks = x.parks /\ z.restarted = x.restarted
  BY <1>2, <1>3, <1>4 DEF StateType
<1>6. \A p \in Promises : Made(z, p) <=> p <= r
  <2>1. \A p \in Promises : Made(z, p) <=> Made(x, p) \/ p = r
    BY <1>3, <1>5 DEF Made
  <2>2. \A p \in Promises : p <= r <=> p < r \/ p = r
    BY <1>1 DEF Promises
  <2> QED BY <1>1, <2>1, <2>2
<1>7. ~Made(x, r) /\ Made(z, r)
  <2>1. ~(r < r) /\ r <= r
    BY <1>1 DEF Promises
  <2> QED BY <1>1, <1>6, <2>1
<1>8. \A p \in Promises : Made(x, p) => Made(z, p)
  <2>1. \A p \in Promises : p < r => p <= r
    BY <1>1 DEF Promises
  <2> QED BY <1>1, <1>6, <2>1
<1>9. PromiseInv(x)
  BY DEF Good, Inv
<1>10. x.promises[r].waiters = {}
  BY <1>1, <1>7, <1>9 DEF PromiseInv, Made
<1>11. \A p \in Promises : z.promises[p].waiters = x.promises[p].waiters
  BY <1>3, <1>5, <1>10
<1>12. \A p \in Promises : LET k == z.promises[p] IN
           /\ k.status # "pending" => k.waiters = {} /\ k.handlers = <<>>
           /\ \A i \in DOMAIN k.handlers : Made(z, k.handlers[i].child)
  <2> SUFFICES ASSUME NEW p \in Promises
               PROVE  /\ z.promises[p].status # "pending"
                           => z.promises[p].waiters = {} /\ z.promises[p].handlers = <<>>
                      /\ \A i \in DOMAIN z.promises[p].handlers :
                           Made(z, z.promises[p].handlers[i].child)
    OBVIOUS
  <2>1. CASE p = r
    <3>1. z.promises[p].status = "pending" /\ z.promises[p].handlers = <<>>
      BY <2>1, <1>3, <1>5
    <3>2. DOMAIN <<>> = {}
      OBVIOUS
    <3> QED BY <3>1, <3>2
  <2>2. CASE p # r
    <3>1. z.promises[p] = x.promises[p]
      BY <2>2, <1>3, <1>5
    <3>2. \A q : Made(x, q) => Made(z, q)
      BY <1>8 DEF Made
    <3> QED BY <3>1, <3>2, <1>9 DEF PromiseInv
  <2> QED BY <2>1, <2>2
<1>13. r \in 0 .. MaxPromises
  BY <1>1, SettlementAssumption DEF Promises
<1>14. Good(z)
  BY <1>5, <1>6, <1>8, <1>11, <1>12, <1>13, PromisesGood
<1> QED BY <1>1, <1>3, <1>5, <1>6, <1>7, <1>14 DEF Creates

\* The same, as the code writes it
MadePending(x, r) == [x EXCEPT !.promises[r].status = "pending"]

\* z is x with the pending promise r, which nobody waits for; of what an aggregate
\* has, it keeps what it had before it was made.
Pends(x, z, r) ==
  /\ Good(x) /\ Good(z) /\ Creates(x, z, r)
  /\ z.promises[r].status = "pending" /\ z.promises[r].waiters = {}
  /\ z.promises[r].handlers = <<>> /\ z.promises[r].elements = x.promises[r].elements

LEMMA MadePendingGood ==
  ASSUME Good(st), CanPromise, NEW x, Good(x), x.promises = st.promises,
         NEW r, r = NextPromise, NEW z, z = MadePending(x, r)
  PROVE  Pends(x, z, r)
<1> DEFINE rec == [x.promises[r] EXCEPT !.status = "pending"]
<1>1. r \in Promises /\ ~(r < r)
  BY NextPromiseIsFresh DEF Promises
<1>2. ~Made(x, r)
  <2>1. ~Made(st, r)
    BY <1>1, NextPromiseIsFresh
  <2> QED BY <2>1 DEF Made
<1>3. x.promises[r].waiters = {} /\ x.promises[r].handlers = <<>>
  BY <1>1, <1>2 DEF Good, Inv, PromiseInv, Made
<1>4. x.promises[r] \in PromiseType
  BY <1>1 DEF Good, StateType
<1>5. /\ rec \in PromiseType /\ rec.status = "pending" /\ rec.waiters = {}
      /\ rec.handlers = <<>> /\ rec.elements = x.promises[r].elements
  BY <1>3, <1>4 DEF PromiseType
<1>6. z = WithPromise(x, r, rec)
  BY DEF WithPromise, MadePending
<1> HIDE DEF rec
<1>7. Good(z) /\ Creates(x, z, r) /\ z.promises[r] = rec
  BY <1>5, <1>6, CreatedGood
<1> QED BY <1>5, <1>7 DEF Pends

LEMMA SpawnGood ==
  ASSUME Good(st), NEW c \in Contexts, NEW executor \in BOOLEAN, Spawn(c, executor)
  PROVE  Good(st')
<1> DEFINE x == Begun(st, c)
           r == NextPromise
           z == MadePending(x, r)
<1>1. Runnable(c) /\ CanPromise /\ st' = Allocated(z, r, executor)
  BY DEF Spawn, MadePending
<1>2. Good(x) /\ x.promises = st.promises
  BY <1>1, BegunGood
<1> HIDE DEF x
<1>3. Good(z) /\ Creates(x, z, r)
  BY <1>1, <1>2, MadePendingGood DEF Pends
<1> HIDE DEF z, r
<1>4. z \in StateType /\ Inv(z, {}) /\ Made(z, r) /\ r \in {None} \cup Promises
  BY <1>3 DEF Good, Creates
<1>5. Inv(st', {}) /\ Cascades(z, st')
  BY <1>1, <1>4, AllocatedKeeps
<1> QED BY <1>5 DEF Good, Cascades

LEMMA StartGood ==
  ASSUME Good(st), Start
  PROVE  Good(st')
<1>1. st' = Allocated(st, None, FALSE)
  BY DEF Start
<1>2. Inv(st', {}) /\ Cascades(st, st')
  BY <1>1, AllocatedKeeps DEF Good
<1> QED BY <1>2 DEF Good, Cascades

\* Entry e and continuation s are for the promise r.
LinksEntry(x, y, r, e, s) ==
  /\ y \in StateType /\ FreeInv(y)
  /\ ~x.linked[e].live
  /\ \A f \in 1 .. Entries : f # e => y.linked[f] = x.linked[f]
  /\ LET entry == y.linked[e] IN
       /\ entry.live /\ entry.ctx = None /\ entry.promise = r /\ ~entry.orphan
  /\ y.ctx = x.ctx /\ y.promises = x.promises /\ y.wakes = x.wakes
  /\ y.settlers = x.settlers \cup {s}
  /\ s.kind = "js" /\ s.slot = None /\ s.gen = 0 /\ s.cid = 0
  /\ s.entry = e /\ s.park = 0 /\ s.stage = "pending"

LEMMA LinksEntryKeeps ==
  ASSUME NEW x, Good(x), NEW r, Made(x, r), NEW e \in 1 .. Entries, NEW s,
         NEW y, LinksEntry(x, y, r, e, s)
  PROVE  Good(y)
<1>1. x \in StateType /\ Inv(x, {}) /\ y \in StateType
  BY DEF Good, LinksEntry
<1>2. /\ ~x.linked[e].live /\ y.linked[e].live /\ y.linked[e].ctx = None
      /\ y.linked[e].promise = r /\ ~y.linked[e].orphan
      /\ \A f \in 1 .. Entries : f # e => y.linked[f] = x.linked[f]
  BY DEF LinksEntry
<1>3. /\ y.ctx = x.ctx /\ y.promises = x.promises /\ y.wakes = x.wakes
      /\ y.settlers = x.settlers \cup {s}
  BY DEF LinksEntry
<1>4. /\ s.kind = "js" /\ s.slot = None /\ s.gen = 0 /\ s.cid = 0
      /\ s.entry = e /\ s.park = 0 /\ s.stage = "pending"
  BY DEF LinksEntry
<1>5. None \notin Contexts
  BY DEF None, Contexts
<1>6. \A f \in 1 .. Entries, d \in Contexts :
        /\ Names(y, {}, f, d) <=> Names(x, {}, f, d)
        /\ Names(y, {}, f, d) => f # e
  BY <1>2, <1>5 DEF Names
<1>7. \A c, gen : Live(y, c, gen) <=> Live(x, c, gen)
  BY <1>3 DEF Live
<1>8. \A t : (Current(y, t) <=> Current(x, t)) /\ (Acting(y, t) <=> Acting(x, t))
  BY <1>3, <1>7 DEF Current, Acting
<1>9. CtxInv(y) /\ WaiterInv(y)
  BY <1>1, <1>3 DEF Inv, CtxInv, WaiterInv
<1>10. PromiseInv(y)
  <2>1. PromiseInv(x)
    BY <1>1 DEF Inv
  <2>2. \A p : Made(y, p) <=> Made(x, p)
    BY <1>3 DEF Made
  <2>3. \A f \in 1 .. Entries :
          y.linked[f].live /\ y.linked[f].ctx = None => Made(y, y.linked[f].promise)
    BY <2>1, <2>2, <1>2 DEF PromiseInv
  <2> QED BY <2>1, <2>2, <2>3, <1>3 DEF PromiseInv
<1>11. EntryInv(y, {})
  <2>1. EntryInv(x, {})
    BY <1>1 DEF Inv
  <2>2. \A f \in 1 .. Entries, d \in Contexts : Names(y, {}, f, d) =>
          LET k == y.ctx[d] IN
            /\ k.live /\ k.gen = y.linked[f].gen /\ k.park = y.linked[f].park
            /\ k.exit \in {"call", "grant"} /\ k.stash = 0 /\ <<d, k.gen>> \notin y.wakes
    BY <2>1, <1>2, <1>3, <1>6 DEF EntryInv
  <2>3. \A f, g \in 1 .. Entries, d \in Contexts :
          Names(y, {}, f, d) /\ Names(y, {}, g, d) => f = g
    BY <2>1, <1>6 DEF EntryInv
  <2>4. \A d \in Contexts : LET k == y.ctx[d] IN
          k.live /\ k.exit \in {"call", "grant"} /\ k.stash = 0 /\ ~k.moved
            => \E f \in 1 .. Entries : Names(y, {}, f, d)
    BY <2>1, <1>3, <1>6 DEF EntryInv
  <2> QED BY <2>2, <2>3, <2>4 DEF EntryInv
<1>12. FreeInv(y)
  BY DEF LinksEntry
<1>13. WakeInv(y)
  <2>1. \A w \in y.wakes : Live(y, w[1], w[2]) /\ Ready(y.ctx[w[1]])
    BY <1>1, <1>3, <1>7 DEF Inv, WakeInv
  <2> QED BY <2>1, <1>1, <1>3 DEF Inv, WakeInv
<1>14. SettlerInv(y, {})
  <2>1. SettlerInv(x, {})
    BY <1>1 DEF Inv
  <2>2. \A t \in x.settlers : t.entry \in 1 .. Entries
    BY <1>1 DEF StateType, SettlerType
  <2>3. \A t \in x.settlers : t.kind # "js" => t.slot \in Contexts
    BY <2>1 DEF SettlerInv
  <2>4. ~Acting(y, s) /\ ~Approval(s)
    BY <1>4 DEF Acting, Current, Approval
  <2>5. \A t \in x.settlers : t.kind = "js" => y.linked[t.entry] = x.linked[t.entry]
    <3> SUFFICES ASSUME NEW t \in x.settlers, t.kind = "js"
                 PROVE  y.linked[t.entry] = x.linked[t.entry]
      OBVIOUS
    <3>1. x.linked[t.entry].live
      BY <2>1 DEF SettlerInv
    <3> QED BY <3>1, <2>2, <1>2
  <2>6. \A t \in x.settlers : Acting(x, t) =>
          Names(y, {}, t.entry, t.slot) /\ y.linked[t.entry] = x.linked[t.entry]
    <3> SUFFICES ASSUME NEW t \in x.settlers, Acting(x, t)
                 PROVE  Names(y, {}, t.entry, t.slot) /\ y.linked[t.entry] = x.linked[t.entry]
      OBVIOUS
    <3>1. t.slot \in Contexts /\ Names(x, {}, t.entry, t.slot)
      BY <2>1, <2>3 DEF SettlerInv, Acting, Current
    <3> QED BY <3>1, <2>2, <1>2, <1>6
  <2>7. \A t \in y.settlers :
       /\ t.kind = "js" =>
            /\ t.stage = "pending" /\ t.slot = None /\ t.gen = 0 /\ t.cid = 0 /\ t.park = 0
            /\ t.entry \notin {} /\ y.linked[t.entry].live /\ y.linked[t.entry].ctx = None
            /\ ~y.linked[t.entry].orphan
       /\ t.kind # "js" =>
            /\ t.slot \in Contexts /\ t.gen <= y.ctx[t.slot].gen
            /\ Live(y, t.slot, t.gen) => t.cid <= y.ctx[t.slot].cid
       /\ t.stage = "late" => t.kind = "call"
       /\ t.stage = "settle" => Approval(t)
       /\ t.kind = "regrant" => Current(y, t)
       /\ Approval(t) /\ y.ctx[t.slot].live /\ y.ctx[t.slot].exit = "grant"
            => t.gen = y.ctx[t.slot].gen
    <3>1. \A t \in x.settlers :
       /\ t.kind = "js" =>
            /\ t.stage = "pending" /\ t.slot = None /\ t.gen = 0 /\ t.cid = 0 /\ t.park = 0
            /\ t.entry \notin {} /\ y.linked[t.entry].live /\ y.linked[t.entry].ctx = None
            /\ ~y.linked[t.entry].orphan
       /\ t.kind # "js" =>
            /\ t.slot \in Contexts /\ t.gen <= y.ctx[t.slot].gen
            /\ Live(y, t.slot, t.gen) => t.cid <= y.ctx[t.slot].cid
       /\ t.stage = "late" => t.kind = "call"
       /\ t.stage = "settle" => Approval(t)
       /\ t.kind = "regrant" => Current(y, t)
       /\ Approval(t) /\ y.ctx[t.slot].live /\ y.ctx[t.slot].exit = "grant"
            => t.gen = y.ctx[t.slot].gen
      BY <2>1, <2>5, <1>3, <1>7, <1>8 DEF SettlerInv
    <3> QED BY <3>1, <2>4, <1>2, <1>3, <1>4
  <2>8. \A t \in y.settlers : Acting(y, t) =>
            LET k == y.ctx[t.slot] IN
              /\ Names(y, {}, t.entry, t.slot) /\ k.park = t.park
              /\ k.exit = IF t.kind = "call" THEN "call" ELSE "grant"
              /\ k.moved <=> t.stage = "settle"
              /\ t.kind # "regrant" => ~y.linked[t.entry].orphan
    <3> SUFFICES ASSUME NEW t \in x.settlers, Acting(x, t)
                 PROVE  LET k == x.ctx[t.slot] IN
                          /\ k.park = t.park
                          /\ k.exit = IF t.kind = "call" THEN "call" ELSE "grant"
                          /\ k.moved <=> t.stage = "settle"
                          /\ t.kind # "regrant" => ~x.linked[t.entry].orphan
      BY <2>4, <2>6, <1>3, <1>8
    <3> QED BY <2>1 DEF SettlerInv
  <2>9. \A t, u \in y.settlers : Acting(y, t) /\ Acting(y, u) /\ t.slot = u.slot => t = u
    BY <2>1, <2>4, <1>3, <1>8 DEF SettlerInv
  <2> QED BY <2>7, <2>8, <2>9 DEF SettlerInv
<1> QED BY <1>1, <1>9, <1>10, <1>11, <1>12, <1>13, <1>14 DEF Good, Inv

\* y is x with a new promise, which is pending in z and which a continuation is to settle.
LinksPromise(x, z, y) ==
  \E r, e, s : Pends(x, z, r) /\ e \in 1 .. Entries /\ LinksEntry(z, y, r, e, s)

LEMMA LinkGood ==
  ASSUME Good(st), NEW c \in Contexts, Link(c)
  PROVE  Good(st') /\ \E x, z : Good(x) /\ Fades(st, x) /\ LinksPromise(x, z, st')
<1> DEFINE x == Begun(st, c)
           r == NextPromise
           z == MadePending(x, r)
           entry == [NoEntry EXCEPT !.live = TRUE, !.promise = r]
           s == [kind |-> "js", slot |-> None, gen |-> 0, cid |-> 0, entry |-> Head(x.free),
                 park |-> 0, stage |-> "pending"]
           taken == EntryTaken(x, entry)
           promises == [taken.promises EXCEPT ![r].status = "pending"]
           settlers == taken.settlers \cup {s}
           y == [taken EXCEPT !.promises[r].status = "pending", !.settlers = @ \cup {s}]
<1>1. Runnable(c) /\ CanPromise /\ st.free # <<>> /\ st' = y
  BY DEF Link
<1>2. Good(x) /\ Fades(st, x) /\ x.promises = st.promises /\ x.free = st.free
  BY <1>1, BegunGood
<1> HIDE DEF x
<1>3. Pends(x, z, r) /\ Good(z) /\ Creates(x, z, r)
  BY <1>1, <1>2, MadePendingGood DEF Pends
<1>4. z.promises = [x.promises EXCEPT ![r].status = "pending"]
  BY <1>2 DEF MadePending, Good, StateType
<1>5. r \in Promises /\ z.ctx = x.ctx /\ z.linked = x.linked /\ z.wakes = x.wakes
      /\ z.settlers = x.settlers /\ z \in StateType /\ Made(z, r)
  BY <1>3 DEF Creates, Good
<1> HIDE DEF z, r
<1>6. entry \in EntryType /\ entry.live /\ entry.ctx = None /\ entry.promise = r
      /\ ~entry.orphan
  BY <1>5 DEF EntryType, EntryFields, NoEntry
<1> HIDE DEF entry
<1>7. /\ taken \in StateType /\ FreeInv(taken)
      /\ taken.ctx = x.ctx /\ taken.promises = x.promises /\ taken.settlers = x.settlers
      /\ taken.wakes = x.wakes
      /\ Head(x.free) \in 1 .. Entries /\ ~x.linked[Head(x.free)].live
      /\ \A f \in 1 .. Entries : taken.linked[f] = IF f = Head(x.free) THEN entry
                                                                       ELSE x.linked[f]
  BY <1>1, <1>2, <1>6, EntryTakenFields DEF Good, Inv
<1>8. s \in SettlerType
  BY <1>7 DEF SettlerType, None
<1> HIDE DEF taken
<1>9. y = [taken EXCEPT !.promises = promises, !.settlers = settlers]
  OBVIOUS
<1>10. promises = z.promises
  BY <1>4, <1>7
<1>11. promises \in [Promises -> PromiseType]
  BY <1>5, <1>10 DEF StateType
<1>12. settlers \in SUBSET SettlerType /\ settlers = z.settlers \cup {s}
  BY <1>5, <1>7, <1>8 DEF StateType
<1> HIDE DEF promises, settlers, y
<1>13. /\ y \in StateType /\ y.ctx = taken.ctx /\ y.promises = promises
       /\ y.settlers = settlers /\ y.wakes = taken.wakes /\ y.linked = taken.linked
       /\ y.free = taken.free
  BY <1>7, <1>9, <1>11, <1>12 DEF StateType
<1>14. FreeInv(y)
  BY <1>7, <1>13 DEF FreeInv
<1>15. /\ s.kind = "js" /\ s.slot = None /\ s.gen = 0 /\ s.cid = 0
       /\ s.entry = Head(x.free) /\ s.park = 0 /\ s.stage = "pending"
  OBVIOUS
<1> HIDE DEF s
<1>16. LinksEntry(z, y, r, Head(x.free), s)
  <2>1. /\ \A f \in 1 .. Entries : f # Head(x.free) => y.linked[f] = z.linked[f]
        /\ y.linked[Head(x.free)] = entry /\ ~z.linked[Head(x.free)].live
    BY <1>5, <1>7, <1>13
  <2>2. y.ctx = z.ctx /\ y.promises = z.promises /\ y.wakes = z.wakes
        /\ y.settlers = z.settlers \cup {s} /\ y \in StateType
    BY <1>5, <1>7, <1>10, <1>12, <1>13
  <2> QED BY <2>1, <2>2, <1>6, <1>14, <1>15 DEF LinksEntry
<1>17. Good(y)
  BY <1>3, <1>5, <1>7, <1>16, LinksEntryKeeps
<1>18. LinksPromise(x, z, y)
  BY <1>3, <1>5, <1>7, <1>16 DEF LinksPromise
<1> QED BY <1>1, <1>2, <1>17, <1>18

\* Promise p of x with other handlers
WithHandlers(x, p, handlers) == [x EXCEPT !.promises[p].handlers = handlers]

LEMMA WithHandlersFields ==
  ASSUME NEW x \in StateType, NEW p \in Promises, NEW handlers \in Seq(HandlerType),
         NEW y, y = WithHandlers(x, p, handlers)
  PROVE  /\ y \in StateType
         /\ y.ctx = x.ctx /\ y.linked = x.linked /\ y.free = x.free
         /\ y.settlers = x.settlers /\ y.wakes = x.wakes /\ y.parks = x.parks
         /\ y.restarted = x.restarted
         /\ \A q \in Promises : q # p => y.promises[q] = x.promises[q]
         /\ y.promises[p].handlers = handlers
         /\ y.promises[p].status = x.promises[p].status
         /\ y.promises[p].waiters = x.promises[p].waiters
         /\ y.promises[p].elements = x.promises[p].elements
         /\ y.promises[p].race = x.promises[p].race
         /\ y.promises[p].remaining = x.promises[p].remaining
<1> DEFINE r == [x.promises[p] EXCEPT !.handlers = handlers]
           promises == [x.promises EXCEPT ![p] = r]
<1>1. /\ r \in PromiseType /\ r.handlers = handlers /\ r.status = x.promises[p].status
      /\ r.waiters = x.promises[p].waiters /\ r.elements = x.promises[p].elements
      /\ r.race = x.promises[p].race /\ r.remaining = x.promises[p].remaining
  <2> DEFINE k == x.promises[p]
  <2>1. k \in PromiseType
    BY DEF StateType
  <2> HIDE DEF k
  <2>2. [k EXCEPT !.handlers = handlers] \in PromiseType
    BY <2>1 DEF PromiseType
  <2>3. /\ [k EXCEPT !.handlers = handlers].handlers = handlers
        /\ [k EXCEPT !.handlers = handlers].status = k.status
        /\ [k EXCEPT !.handlers = handlers].waiters = k.waiters
        /\ [k EXCEPT !.handlers = handlers].elements = k.elements
        /\ [k EXCEPT !.handlers = handlers].race = k.race
        /\ [k EXCEPT !.handlers = handlers].remaining = k.remaining
    BY <2>1 DEF PromiseType
  <2> QED BY <2>2, <2>3 DEF k
<1>2. y = [x EXCEPT !.promises = promises]
  BY DEF WithHandlers
<1> HIDE DEF r
<1>3. /\ promises \in [Promises -> PromiseType] /\ promises[p] = r
      /\ \A q \in Promises : q # p => promises[q] = x.promises[q]
  BY <1>1 DEF StateType
<1> HIDE DEF promises
<1>4. /\ y \in StateType
      /\ y.ctx = x.ctx /\ y.linked = x.linked /\ y.free = x.free
      /\ y.settlers = x.settlers /\ y.wakes = x.wakes /\ y.parks = x.parks
      /\ y.restarted = x.restarted /\ y.promises = promises
  BY <1>2, <1>3 DEF StateType
<1> QED BY <1>1, <1>3, <1>4

\* A handler on a pending promise, for a promise that is made
LEMMA HandlerAddedGood ==
  ASSUME NEW x, Good(x), NEW p \in Promises, x.promises[p].status = "pending",
         NEW h \in HandlerType, Made(x, h.child),
         NEW y, y = WithHandlers(x, p, Append(x.promises[p].handlers, h))
  PROVE  /\ Good(y)
         /\ y.ctx = x.ctx /\ y.linked = x.linked /\ y.free = x.free
         /\ y.settlers = x.settlers /\ y.wakes = x.wakes /\ y.parks = x.parks
         /\ y.restarted = x.restarted
         /\ \A q \in Promises : q # p => y.promises[q] = x.promises[q]
         /\ y.promises[p].status = "pending"
<1> DEFINE hs == x.promises[p].handlers
           more == Append(hs, h)
<1>1. x \in StateType /\ PromiseInv(x) /\ hs \in Seq(HandlerType)
  BY DEF Good, Inv, StateType, PromiseType
<1>2. /\ more \in Seq(HandlerType)
      /\ \A i \in DOMAIN more : more[i] = h \/ (i \in DOMAIN hs /\ more[i] = hs[i])
  BY <1>1
<1>3a. y = WithHandlers(x, p, more)
  OBVIOUS
<1> HIDE DEF hs, more
<1>3. /\ y \in StateType
      /\ y.ctx = x.ctx /\ y.linked = x.linked /\ y.free = x.free
      /\ y.settlers = x.settlers /\ y.wakes = x.wakes /\ y.parks = x.parks
      /\ y.restarted = x.restarted
      /\ \A q \in Promises : q # p => y.promises[q] = x.promises[q]
      /\ y.promises[p].handlers = more
      /\ y.promises[p].status = x.promises[p].status
      /\ y.promises[p].waiters = x.promises[p].waiters
  BY <1>1, <1>2, <1>3a, WithHandlersFields
<1>4. \A q : Made(y, q) <=> Made(x, q)
  BY <1>3 DEF Made
<1>5. PICK n \in 0 .. MaxPromises : \A q \in Promises : Made(x, q) <=> q <= n
  BY <1>1 DEF PromiseInv
<1>6. \A i \in DOMAIN hs : Made(x, hs[i].child)
  BY <1>1 DEF PromiseInv, hs
<1>7. \A i \in DOMAIN y.promises[p].handlers : Made(y, y.promises[p].handlers[i].child)
  BY <1>2, <1>3, <1>4, <1>6
<1>8. \A q \in Promises : LET r == y.promises[q] IN
           /\ r.status # "pending" => r.waiters = {} /\ r.handlers = <<>>
           /\ \A i \in DOMAIN r.handlers : Made(y, r.handlers[i].child)
  <2> SUFFICES ASSUME NEW q \in Promises
               PROVE  /\ y.promises[q].status # "pending" =>
                             y.promises[q].waiters = {} /\ y.promises[q].handlers = <<>>
                      /\ \A i \in DOMAIN y.promises[q].handlers :
                             Made(y, y.promises[q].handlers[i].child)
    OBVIOUS
  <2>1. CASE q = p
    BY <2>1, <1>3, <1>7
  <2>2. CASE q # p
    <3>1. y.promises[q] = x.promises[q]
      BY <2>2, <1>3
    <3>2. /\ x.promises[q].status # "pending" =>
                 x.promises[q].waiters = {} /\ x.promises[q].handlers = <<>>
          /\ \A i \in DOMAIN x.promises[q].handlers : Made(x, x.promises[q].handlers[i].child)
      BY <1>1 DEF PromiseInv
    <3> QED BY <3>1, <3>2, <1>4
  <2> QED BY <2>1, <2>2
<1>9. \A q \in Promises : y.promises[q].waiters = x.promises[q].waiters
  BY <1>3
<1>10. Good(y)
  BY <1>3, <1>4, <1>5, <1>8, <1>9, PromisesGood
<1> QED BY <1>3, <1>10

\* Promise p of z gets one more handler, "kind" for the new promise r.
Chained(z, r, p, kind) ==
  WithHandlers(z, p, Append(z.promises[p].handlers, [kind |-> kind, child |-> r]))

ThenLeads(b, z, r, p, kind, y) ==
  /\ Fades(st, b) /\ Pends(b, z, r) /\ Made(z, p) /\ p # r
  /\ y = IF z.promises[p].status = "pending" THEN Chained(z, r, p, kind)
         ELSE ProcessHandlers(Chained(z, r, p, kind), p)

LEMMA ThenSteps ==
  ASSUME Good(st), NEW c \in Contexts, NEW p \in Promises, NEW kind \in {"pass", "spawn"},
         Then(c, p, kind)
  PROVE  \E b, z, r : ThenLeads(b, z, r, p, kind, st')
<1> DEFINE b == Begun(st, c)
           r == NextPromise
           h == [kind |-> kind, child |-> r]
           z == MadePending(b, r)
           x == Chained(z, r, p, kind)
<1>1. Runnable(c) /\ CanPromise /\ Made(st, p)
  BY DEF Then, Made
<1>2. Good(b) /\ b.promises = st.promises /\ Fades(st, b)
  BY <1>1, BegunGood
<1>3. r \in Promises /\ ~Made(b, r)
  <2>1. r \in Promises /\ ~(r < r) /\ (Made(st, r) <=> r < r)
    BY <1>1, NextPromiseIsFresh DEF Promises
  <2> QED BY <2>1, <1>2 DEF Made
<1>4. p # r
  BY <1>1, <1>2, <1>3 DEF Made
<1>5. z.promises[p] = b.promises[p]
  <2> HIDE DEF b, r
  <2> QED BY <1>2, <1>3, <1>4 DEF MadePending, Good, StateType
<1>6. st' = IF x.promises[p].status = "pending" THEN x ELSE ProcessHandlers(x, p)
  <2> DEFINE v == [b EXCEPT !.promises[r].status = "pending",
                            !.promises[p].handlers = Append(@, h)]
  <2>1. st' = IF v.promises[p].status = "pending" THEN v ELSE ProcessHandlers(v, p)
    BY DEF Then
  <2>2. v = x
    <3> HIDE DEF b, r
    <3>1. b.promises = [b.promises EXCEPT ![p] = b.promises[p]] /\ p \in DOMAIN b.promises
          /\ r \in DOMAIN b.promises
      BY <1>2, <1>3 DEF Good, StateType
    <3>2. x = WithHandlers(z, p, Append(z.promises[p].handlers, h))
      BY DEF Chained
    <3> HIDE DEF h
    <3> QED BY <1>4, <1>5, <3>1, <3>2 DEF WithHandlers, MadePending
  <2> HIDE DEF v, x
  <2> QED BY <2>1, <2>2
<1> HIDE DEF b
<1>7. Pends(b, z, r)
  BY <1>1, <1>2, MadePendingGood
<1> HIDE DEF r, z
<1>8. Made(z, p)
  BY <1>1, <1>2, <1>5 DEF Made
<1>9. x.promises[p].status = z.promises[p].status
  <2>1. /\ z \in StateType /\ h \in HandlerType
        /\ z.promises[p].handlers \in Seq(HandlerType)
    BY <1>3, <1>7 DEF Pends, Good, StateType, PromiseType, HandlerType
  <2>2. x = WithHandlers(z, p, Append(z.promises[p].handlers, h))
    BY DEF Chained
  <2> HIDE DEF h, x
  <2> DEFINE more == Append(z.promises[p].handlers, h)
  <2>3. more \in Seq(HandlerType)
    BY <2>1
  <2> HIDE DEF more
  <2>4. x = WithHandlers(z, p, more)
    BY <2>2 DEF more
  <2> QED BY <2>1, <2>3, <2>4, WithHandlersFields
<1> QED BY <1>2, <1>4, <1>6, <1>7, <1>8, <1>9 DEF ThenLeads

\* The handler of a promise that is settled is popped at once.
LEMMA ChainedPops ==
  ASSUME NEW z, Good(z), NEW p, Made(z, p), z.promises[p].status # "pending",
         NEW kind \in {"pass", "spawn"}, NEW r, Made(z, r), NEW x, x = Chained(z, r, p, kind),
         NEW y, y = HandlersPopped(x, p), NEW status, status = x.promises[p].status
  PROVE  /\ Good(y) /\ Fades(z, y) /\ status \in Status /\ status = z.promises[p].status
         /\ Popped(x, p, status) = <<[kind |-> kind, child |-> r, status |-> status]>>
         /\ x \in StateType
         /\ Tasks(y, Popped(x, p, status))
<1> DEFINE h == [kind |-> kind, child |-> r]
           more == Append(z.promises[p].handlers, h)
           todo == Popped(x, p, status)
<1>1. z \in StateType /\ PromiseInv(z) /\ p \in Promises /\ r \in Promises
  BY DEF Good, Inv, Made
<1>2. h \in HandlerType /\ h.child = r /\ h.kind = kind
  BY <1>1 DEF HandlerType
<1>3. z.promises[p] \in PromiseType /\ z.promises[p].handlers \in Seq(HandlerType)
  BY <1>1 DEF StateType, PromiseType
<1>4. x = WithHandlers(z, p, more)
  BY DEF Chained
<1> HIDE DEF h
<1>5. more \in Seq(HandlerType)
  BY <1>2, <1>3
<1> HIDE DEF more
<1>6. /\ x \in StateType
      /\ x.ctx = z.ctx /\ x.linked = z.linked /\ x.free = z.free
      /\ x.settlers = z.settlers /\ x.wakes = z.wakes /\ x.parks = z.parks
      /\ x.restarted = z.restarted
      /\ \A q \in Promises : q # p => x.promises[q] = z.promises[q]
      /\ x.promises[p].handlers = more
      /\ x.promises[p].status = z.promises[p].status
      /\ x.promises[p].waiters = z.promises[p].waiters
      /\ x.promises[p].elements = z.promises[p].elements
      /\ x.promises[p].race = z.promises[p].race
      /\ x.promises[p].remaining = z.promises[p].remaining
  BY <1>1, <1>4, <1>5, WithHandlersFields
<1>7. y = WithHandlers(x, p, <<>>)
  BY DEF HandlersPopped, WithHandlers
<1>8. z.promises[p].handlers = <<>> /\ z.promises[p].waiters = {}
  BY <1>1 DEF PromiseInv
<1>9. /\ y \in StateType
      /\ y.ctx = x.ctx /\ y.linked = x.linked /\ y.free = x.free
      /\ y.settlers = x.settlers /\ y.wakes = x.wakes /\ y.parks = x.parks
      /\ y.restarted = x.restarted
      /\ \A q \in Promises : q # p => y.promises[q] = x.promises[q]
      /\ y.promises[p].handlers = <<>>
      /\ y.promises[p].status = x.promises[p].status
      /\ y.promises[p].waiters = x.promises[p].waiters
      /\ y.promises[p].elements = x.promises[p].elements
      /\ y.promises[p].race = x.promises[p].race
      /\ y.promises[p].remaining = x.promises[p].remaining
  <2>1. <<>> \in Seq(HandlerType)
    BY EmptySeq
  <2> DEFINE none == <<>>
  <2>2. none \in Seq(HandlerType) /\ y = WithHandlers(x, p, none)
    BY <1>7, <2>1
  <2>3. x \in StateType /\ p \in Promises
    BY <1>1, <1>6
  <2> HIDE DEF none
  <2>4. /\ y \in StateType
        /\ y.ctx = x.ctx /\ y.linked = x.linked /\ y.free = x.free
        /\ y.settlers = x.settlers /\ y.wakes = x.wakes /\ y.parks = x.parks
        /\ y.restarted = x.restarted
        /\ \A q \in Promises : q # p => y.promises[q] = x.promises[q]
        /\ y.promises[p].handlers = none
        /\ y.promises[p].status = x.promises[p].status
        /\ y.promises[p].waiters = x.promises[p].waiters
        /\ y.promises[p].elements = x.promises[p].elements
        /\ y.promises[p].race = x.promises[p].race
        /\ y.promises[p].remaining = x.promises[p].remaining
    BY <2>2, <2>3, WithHandlersFields
  <2> QED BY <2>4 DEF none
<1>10. \A q : Made(y, q) <=> Made(z, q)
  BY <1>6, <1>9 DEF Made
<1>11. \A q \in Promises : /\ y.promises[q].handlers = z.promises[q].handlers
                            /\ y.promises[q].status = z.promises[q].status
                            /\ y.promises[q].waiters = z.promises[q].waiters
  <2>1. \A q \in Promises : q # p => y.promises[q] = z.promises[q]
    BY <1>6, <1>9
  <2>2. /\ y.promises[p].handlers = z.promises[p].handlers
        /\ y.promises[p].status = z.promises[p].status
        /\ y.promises[p].waiters = z.promises[p].waiters
    BY <1>6, <1>8, <1>9
  <2> QED BY <2>1, <2>2
<1>12. Good(y)
  <2>1. PICK n \in 0 .. MaxPromises : \A q \in Promises : Made(z, q) <=> q <= n
    BY <1>1 DEF PromiseInv
  <2>2. \A q \in Promises : LET k == y.promises[q] IN
         /\ k.status # "pending" => k.waiters = {} /\ k.handlers = <<>>
         /\ \A i \in DOMAIN k.handlers : Made(y, k.handlers[i].child)
    BY <1>1, <1>10, <1>11 DEF PromiseInv
  <2> QED BY <1>6, <1>9, <1>10, <1>11, <2>1, <2>2, PromisesGood
<1>13. Fades(z, y)
  <2>1. \A q \in Promises : /\ y.promises[q].elements = z.promises[q].elements
                             /\ y.promises[q].race = z.promises[q].race
                             /\ y.promises[q].remaining = z.promises[q].remaining
    BY <1>6, <1>9
  <2> QED BY <1>6, <1>9, <1>11, <2>1 DEF Fades
<1>14. status \in Status
  <2>1. status \in {"none", "pending"} \cup Status
    BY <1>3, <1>6 DEF PromiseType
  <2>2. status # "none" /\ status # "pending"
    BY <1>6 DEF Made
  <2> QED BY <2>1, <2>2
<1> DEFINE t == [kind |-> kind, child |-> r, status |-> status]
<1>15. todo = <<t>>
  <2>1. x.promises[p].handlers = <<h>>
    BY <1>6, <1>8 DEF more
  <2>2. DOMAIN <<h>> = 1 .. 1 /\ <<h>>[1] = h
    OBVIOUS
  <2>3. todo = [i \in 1 .. 1 |-> t]
    <3> HIDE DEF t
    <3>1. \A i \in DOMAIN <<h>> : i = 1
      BY <2>2
    <3>2. todo = [i \in DOMAIN <<h>> |->
                    [kind |-> <<h>>[i].kind, child |-> <<h>>[i].child, status |-> status]]
      BY <2>1 DEF Popped
    <3> QED BY <1>2, <2>2, <3>1, <3>2 DEF t
  <2> HIDE DEF t, todo
  <2> QED BY <2>3
<1>16. Tasks(y, todo)
  <2>1. t \in TaskType /\ Made(y, t.child)
    BY <1>1, <1>10, <1>14 DEF TaskType
  <2> HIDE DEF t, todo
  <2>2. <<t>> \in Seq(TaskType) /\ \A i \in DOMAIN <<t>> : <<t>>[i] = t
    BY <2>1
  <2> QED BY <1>15, <2>1, <2>2 DEF Tasks
<1> QED BY <1>6, <1>12, <1>13, <1>14, <1>15, <1>16

LEMMA ThenGood ==
  ASSUME Good(st), NEW c \in Contexts, NEW p \in Promises, NEW kind \in {"pass", "spawn"},
         Then(c, p, kind)
  PROVE  Good(st')
<1>1. PICK b, z, r : ThenLeads(b, z, r, p, kind, st')
  BY ThenSteps
<1> DEFINE x == Chained(z, r, p, kind)
           y == HandlersPopped(x, p)
           status == x.promises[p].status
<1>2. /\ Good(z) /\ z \in StateType /\ Made(z, p) /\ Made(z, r) /\ r \in Promises
      /\ st' = IF z.promises[p].status = "pending" THEN x ELSE ProcessHandlers(x, p)
  BY <1>1 DEF ThenLeads, Pends, Creates, Good
<1>3. CASE z.promises[p].status = "pending"
  <2> DEFINE h == [kind |-> kind, child |-> r]
  <2>1. h \in HandlerType /\ Made(z, h.child)
    BY <1>2 DEF HandlerType
  <2>2. x = WithHandlers(z, p, Append(z.promises[p].handlers, h))
    BY DEF Chained
  <2> HIDE DEF h, x
  <2>3. Good(x)
    BY <1>2, <1>3, <2>1, <2>2, HandlerAddedGood
  <2> QED BY <1>2, <1>3, <2>3
<1>4. CASE z.promises[p].status # "pending"
  <2>1. x = Chained(z, r, p, kind) /\ y = HandlersPopped(x, p) /\ status = x.promises[p].status
    OBVIOUS
  <2> HIDE DEF x, y, status
  <2>2. x \in StateType /\ Good(y) /\ status \in Status /\ Tasks(y, Popped(x, p, status))
    BY <1>2, <1>4, <2>1, ChainedPops
  <2>3. /\ x \in StateType /\ Inv(HandlersPopped(x, p), {}) /\ HandlersPopped(x, p) \in StateType
        /\ x.promises[p].status \in Status /\ p \in Promises
        /\ Tasks(HandlersPopped(x, p), Popped(x, p, x.promises[p].status))
    BY <1>2, <2>1, <2>2 DEF Good, Made
  <2>4. /\ Inv(ProcessHandlers(x, p), {})
        /\ Cascades(HandlersPopped(x, p), ProcessHandlers(x, p))
    BY <2>3, ProcessHandlersKeeps
  <2> QED BY <1>2, <1>4, <2>4 DEF Good, Cascades
<1> QED BY <1>3, <1>4

\* r is made, and nobody waits for it yet.
Bare(x, r) ==
  /\ Good(x) /\ Made(x, r) /\ x.promises[r].waiters = {} /\ x.promises[r].handlers = <<>>

LEMMA BareStays ==
  ASSUME NEW x, NEW r, Bare(x, r), NEW rec \in PromiseType, rec.status # "none",
         rec.waiters = {}, rec.handlers = <<>>, NEW y, y = WithPromise(x, r, rec)
  PROVE  Bare(y, r) /\ \A p : Made(y, p) <=> Made(x, p)
<1>1. x \in StateType /\ PromiseInv(x) /\ r \in Promises
  BY DEF Bare, Good, Inv, Made
<1> DEFINE promises == [x.promises EXCEPT ![r] = rec]
<1>2. /\ promises \in [Promises -> PromiseType] /\ promises[r] = rec
      /\ \A p \in Promises : p # r => promises[p] = x.promises[p]
  BY <1>1 DEF StateType
<1>3. y = [x EXCEPT !.promises = promises]
  BY DEF WithPromise
<1> HIDE DEF promises
<1>4. /\ y \in StateType /\ y.ctx = x.ctx /\ y.linked = x.linked /\ y.free = x.free
      /\ y.settlers = x.settlers /\ y.wakes = x.wakes /\ y.promises = promises
  BY <1>1, <1>2, <1>3 DEF StateType
<1>5. \A p : Made(y, p) <=> Made(x, p)
  BY <1>2, <1>4 DEF Made, Bare
<1>6. PICK n \in 0 .. MaxPromises : \A p \in Promises : Made(x, p) <=> p <= n
  BY <1>1 DEF PromiseInv
<1>7. \A p \in Promises : y.promises[p].waiters = x.promises[p].waiters
  BY <1>2, <1>4 DEF Bare
<1>8. \A p \in Promises : LET k == y.promises[p] IN
           /\ k.status # "pending" => k.waiters = {} /\ k.handlers = <<>>
           /\ \A i \in DOMAIN k.handlers : Made(y, k.handlers[i].child)
  <2> SUFFICES ASSUME NEW p \in Promises
               PROVE  /\ y.promises[p].status # "pending"
                           => y.promises[p].waiters = {} /\ y.promises[p].handlers = <<>>
                      /\ \A i \in DOMAIN y.promises[p].handlers :
                           Made(y, y.promises[p].handlers[i].child)
    OBVIOUS
  <2>1. CASE p = r
    <3>1. y.promises[p].waiters = {} /\ y.promises[p].handlers = <<>>
      BY <2>1, <1>2, <1>4
    <3>2. DOMAIN <<>> = {}
      OBVIOUS
    <3> QED BY <3>1, <3>2
  <2>2. CASE p # r
    <3>1. y.promises[p] = x.promises[p]
      BY <2>2, <1>2, <1>4
    <3> QED BY <3>1, <1>1, <1>5 DEF PromiseInv
  <2> QED BY <2>1, <2>2
<1>9. Good(y)
  BY <1>4, <1>5, <1>6, <1>7, <1>8, PromisesGood DEF Bare
<1> QED BY <1>2, <1>4, <1>5, <1>9 DEF Bare

LEMMA ElementKeeps ==
  ASSUME NEW x, NEW r, Bare(x, r), NEW p, Made(x, p), p # r,
         NEW y, y = Element(x, r, p)
  PROVE  Bare(y, r) /\ \A q : Made(x, q) => Made(y, q)
<1> DEFINE k == x.promises[r]
           status == x.promises[p].status
           kind == IF x.promises[r].race THEN "race" ELSE "all"
           h == [kind |-> kind, child |-> r]
<1>1. x \in StateType /\ Good(x) /\ r \in Promises /\ p \in Promises
  BY DEF Bare, Good, Made
<1>2. k \in PromiseType /\ k.waiters = {} /\ k.handlers = <<>> /\ k.status # "none"
      /\ status # "none"
  BY <1>1 DEF StateType, Bare, Made
<1>3. status \in {"none", "pending"} \cup Status
  BY <1>1 DEF StateType, PromiseType
<1>4. CASE k.status # "pending"
  BY <1>4 DEF Element
<1>5. CASE k.status = "pending" /\ status = "pending"
  <2>1. h \in HandlerType /\ Made(x, h.child)
    BY <1>1 DEF HandlerType, Bare
  <2>2. y = WithHandlers(x, p, Append(x.promises[p].handlers, h))
    BY <1>5 DEF Element, WithHandlers
  <2> HIDE DEF h
  <2>3. /\ Good(y) /\ \A q \in Promises : q # p => y.promises[q] = x.promises[q]
        /\ y.promises[p].status = "pending"
    <3> HIDE DEF status
    <3>1. x.promises[p].status = "pending"
      BY <1>5 DEF status
    <3> QED BY <1>1, <2>1, <2>2, <3>1, HandlerAddedGood
  <2>4. \A q : Made(x, q) => Made(y, q)
    BY <2>3 DEF Made
  <2> QED BY <2>3, <2>4, <1>1 DEF Bare
<1>6. CASE k.status = "pending" /\ status # "pending" /\ (k.race \/ status = "rejected")
  <2> DEFINE rec == [k EXCEPT !.status = status]
  <2>1. /\ rec \in PromiseType /\ rec.status # "none" /\ rec.waiters = {}
        /\ rec.handlers = <<>>
    <3> HIDE DEF k, status
    <3> QED BY <1>2, <1>3 DEF PromiseType
  <2>2. y = WithPromise(x, r, rec)
    BY <1>6 DEF Element, WithPromise
  <2> HIDE DEF rec
  <2> QED BY <2>1, <2>2, BareStays
<1>7. CASE k.status = "pending" /\ status # "pending" /\ ~(k.race \/ status = "rejected")
  <2> DEFINE rec == [k EXCEPT !.remaining = k.remaining - 1]
  <2>1. /\ rec \in PromiseType /\ rec.status # "none" /\ rec.waiters = {}
        /\ rec.handlers = <<>>
    <3> HIDE DEF k
    <3> DEFINE n == k.remaining - 1
    <3>1. n \in Int
      BY <1>2 DEF PromiseType
    <3> HIDE DEF n
    <3>2. rec = [k EXCEPT !.remaining = n]
      BY DEF n
    <3> HIDE DEF rec
    <3> QED BY <1>2, <3>1, <3>2 DEF PromiseType
  <2>2. y = WithPromise(x, r, rec)
    BY <1>7 DEF Element, WithPromise
  <2> HIDE DEF rec
  <2> QED BY <2>1, <2>2, BareStays
<1> QED BY <1>4, <1>5, <1>6, <1>7

Resolved(x, r) == [x.promises[r] EXCEPT !.status = "resolved"]

\* The new aggregate r of z hears of p and then of q.
AggregateLeads(b, z, r, p, q, race, y) ==
  LET x == Element(Element(z, r, p), r, q)
  IN /\ Fades(st, b) /\ Good(b) /\ Good(z) /\ Creates(b, z, r)
     /\ Made(b, p) /\ Made(b, q) /\ p # r /\ q # r
     /\ z.promises[r].status = "pending" /\ z.promises[r].waiters = {}
     /\ z.promises[r].handlers = <<>> /\ z.promises[r].remaining = 2
     /\ z.promises[r].elements = {p, q} /\ z.promises[r].race = race
     /\ y = IF ~race /\ x.promises[r].remaining = 0
            THEN WithPromise(x, r, Resolved(x, r)) ELSE x

LEMMA AggregateSteps ==
  ASSUME Good(st), NEW c \in Contexts, NEW p \in Promises, NEW q \in Promises,
         NEW race \in BOOLEAN, Aggregate(c, p, q, race)
  PROVE  \E b, z, r : AggregateLeads(b, z, r, p, q, race, st')
<1> DEFINE b == Begun(st, c)
           r == NextPromise
           result == [NoPromise EXCEPT !.status = "pending", !.remaining = 2,
                                       !.elements = {p, q}, !.race = race]
           z == WithPromise(b, r, result)
           y == Element(z, r, p)
           x == Element(y, r, q)
<1>1. Runnable(c) /\ CanPromise /\ Made(st, p) /\ Made(st, q)
  BY DEF Aggregate, Made
<1>2. Good(b) /\ b.promises = st.promises /\ Fades(st, b)
  BY <1>1, BegunGood
<1>3. result \in PromiseType /\ result.status = "pending" /\ result.waiters = {}
      /\ result.handlers = <<>> /\ result.remaining = 2 /\ result.elements = {p, q}
      /\ result.race = race
  <2>1. NoPromise \in PromiseType /\ NoPromise.waiters = {} /\ NoPromise.handlers = <<>>
    BY EmptySeq DEF NoPromise, PromiseType
  <2>2. {p, q} \in SUBSET Promises
    OBVIOUS
  <2> DEFINE both == {p, q}
             w == NoPromise
  <2>3. result = [w EXCEPT !.status = "pending", !.remaining = 2, !.elements = both,
                           !.race = race]
    OBVIOUS
  <2>4. /\ w \in PromiseType /\ w.waiters = {} /\ w.handlers = <<>>
        /\ both \in SUBSET Promises
    BY <2>1, <2>2
  <2> HIDE DEF both, result, w
  <2>5. result \in PromiseType
    <3> DEFINE n == 2
               t == [w EXCEPT !.status = "pending"]
               u == [t EXCEPT !.remaining = n]
               v == [u EXCEPT !.elements = both]
    <3>0. n \in Int /\ t \in PromiseType
      BY <2>4 DEF PromiseType
    <3>1. result = [v EXCEPT !.race = race]
      BY <2>3, <2>4 DEF PromiseType
    <3> HIDE DEF n, t
    <3>2. u \in PromiseType
      BY <3>0 DEF PromiseType
    <3> HIDE DEF u
    <3>3. v \in PromiseType
      BY <2>4, <3>2 DEF PromiseType
    <3> HIDE DEF v
    <3>4. [v EXCEPT !.race = race] \in PromiseType
      BY <3>3 DEF PromiseType
    <3> QED BY <3>1, <3>4
  <2>6. result.status = "pending" /\ result.waiters = w.waiters
        /\ result.handlers = w.handlers /\ result.remaining = 2 /\ result.elements = both
        /\ result.race = race
    BY <2>3, <2>4 DEF PromiseType
  <2> QED BY <2>4, <2>5, <2>6 DEF both
<1>4. st' = IF ~race /\ x.promises[r].remaining = 0
           THEN WithPromise(x, r, Resolved(x, r)) ELSE x
  BY DEF Aggregate, WithPromise, Resolved
<1> HIDE DEF b, result
<1>5. Good(z) /\ Creates(b, z, r) /\ z.promises[r] = result
  BY <1>1, <1>2, <1>3, CreatedGood
<1> HIDE DEF r, z, x, y
<1>6. Made(b, p) /\ Made(b, q) /\ p # r /\ q # r
  BY <1>1, <1>2, <1>5 DEF Creates, Made
<1>7. x = Element(Element(z, r, p), r, q)
  BY DEF x, y
<1> QED BY <1>2, <1>3, <1>4, <1>5, <1>6, <1>7 DEF AggregateLeads

LEMMA ResolvedKeeps ==
  ASSUME NEW x, NEW r, Bare(x, r), NEW rec, rec = Resolved(x, r)
  PROVE  /\ rec \in PromiseType /\ rec.status = "resolved" /\ rec.waiters = {}
         /\ rec.handlers = <<>> /\ rec.elements = x.promises[r].elements
         /\ rec.race = x.promises[r].race
<1> DEFINE k == x.promises[r]
<1>1. k \in PromiseType /\ k.waiters = {} /\ k.handlers = <<>>
  BY DEF Bare, Made, Good, StateType
<1>2. rec = [k EXCEPT !.status = "resolved"]
  BY DEF Resolved
<1> HIDE DEF k
<1>3. /\ rec \in PromiseType /\ rec.status = "resolved" /\ rec.waiters = {}
      /\ rec.handlers = <<>> /\ rec.elements = k.elements /\ rec.race = k.race
  BY <1>1, <1>2 DEF PromiseType, Status
<1> QED BY <1>3 DEF k

LEMMA AggregateGood ==
  ASSUME Good(st), NEW c \in Contexts, NEW p \in Promises, NEW q \in Promises,
         NEW race \in BOOLEAN, Aggregate(c, p, q, race)
  PROVE  Good(st')
<1>1. PICK b, z, r : AggregateLeads(b, z, r, p, q, race, st')
  BY AggregateSteps
<1> DEFINE y == Element(z, r, p)
           x == Element(y, r, q)
           rec == Resolved(x, r)
<1>2. /\ Bare(z, r) /\ Made(z, p) /\ Made(z, q) /\ p # r /\ q # r
  BY <1>1 DEF AggregateLeads, Bare, Creates, Made
<1>3. st' = x \/ st' = WithPromise(x, r, rec)
  BY <1>1 DEF AggregateLeads
<1>4. Bare(y, r) /\ Made(y, q)
  BY <1>2, ElementKeeps
<1> HIDE DEF y
<1>5. Bare(x, r)
  BY <1>2, <1>4, ElementKeeps
<1> HIDE DEF x
<1>6. rec = Resolved(x, r)
  OBVIOUS
<1> HIDE DEF rec
<1>8. /\ rec \in PromiseType /\ rec.status = "resolved" /\ rec.waiters = {}
      /\ rec.handlers = <<>> /\ rec.elements = x.promises[r].elements
      /\ rec.race = x.promises[r].race
  BY <1>5, <1>6, ResolvedKeeps
<1>7. Good(WithPromise(x, r, rec))
  BY <1>5, <1>8, BareStays DEF Bare
<1> QED BY <1>3, <1>5, <1>7 DEF Bare

LEMMA SettleOwnGood ==
  ASSUME Good(st), NEW c \in Contexts, NEW p \in Promises, NEW status \in Status,
         SettleOwn(c, p, status)
  PROVE  Good(st')
<1> DEFINE x == Begun(st, c)
<1>1. Runnable(c) /\ st.promises[p].status = "pending" /\ st' = SettledAs(x, p, status)
  BY DEF SettleOwn
<1>2. Good(x) /\ x.promises = st.promises
  BY <1>1, BegunGood
<1> HIDE DEF x
<1>3. Made(x, p)
  BY <1>1, <1>2 DEF Made
<1>4. Inv(st', {}) /\ Cascades(x, st')
  BY <1>1, <1>2, <1>3, SettledAsKeeps DEF Good
<1> QED BY <1>4 DEF Good, Cascades

LEMMA FreedFields ==
  ASSUME NEW x \in StateType, NEW c \in Contexts, NEW y, y = Freed(x, c)
  PROVE  /\ y \in StateType
         /\ \A d \in Contexts : d # c => y.ctx[d] = x.ctx[d]
         /\ LET k == y.ctx[c] IN
              /\ k.gen = x.ctx[c].gen /\ ~k.live /\ k.exit = "run" /\ ~k.moved
              /\ k.park = 0 /\ k.inbox = <<>> /\ k.stash = 0 /\ k.owes = None
         /\ y.linked = x.linked /\ y.free = x.free /\ y.promises = x.promises
         /\ y.settlers = x.settlers /\ y.wakes = x.wakes /\ y.parks = x.parks
         /\ y.restarted = x.restarted
<1> DEFINE gen == x.ctx[c].gen
           k == [Unused EXCEPT !.gen = gen]
           ctx == [x.ctx EXCEPT ![c] = k]
<1>1. gen \in Nat
  BY DEF StateType, ContextType
<1> HIDE DEF gen
<1>2. /\ k \in ContextType /\ k.gen = gen /\ ~k.live /\ k.exit = "run" /\ ~k.moved
      /\ k.park = 0 /\ k.inbox = <<>> /\ k.stash = 0 /\ k.owes = None
  <2>1. Unused \in ContextType
    BY EmptySeq DEF Unused, ContextType, Exits
  <2>2. /\ ~Unused.live /\ Unused.exit = "run" /\ ~Unused.moved /\ Unused.park = 0
        /\ Unused.inbox = <<>> /\ Unused.stash = 0 /\ Unused.owes = None
    BY DEF Unused
  <2> QED BY <1>1, <2>1, <2>2 DEF ContextType
<1>3. y = [x EXCEPT !.ctx = ctx]
  BY DEF Freed, gen
<1> HIDE DEF k
<1>4. /\ ctx \in [Contexts -> ContextType] /\ ctx[c] = k
      /\ \A d \in Contexts : d # c => ctx[d] = x.ctx[d]
  BY <1>2 DEF StateType
<1> HIDE DEF ctx
<1>5. /\ y \in StateType /\ y.ctx = ctx
      /\ y.linked = x.linked /\ y.free = x.free /\ y.promises = x.promises
      /\ y.settlers = x.settlers /\ y.wakes = x.wakes /\ y.parks = x.parks
      /\ y.restarted = x.restarted
  BY <1>3, <1>4 DEF StateType
<1> QED BY <1>2, <1>4, <1>5 DEF gen

LEMMA FreedGood ==
  ASSUME NEW x, Good(x), NEW c \in Contexts, x.ctx[c].exit = "run", NEW y, y = Freed(x, c)
  PROVE  Good(y) /\ Fades(x, y)
<1>1. x \in StateType /\ Inv(x, {})
  BY DEF Good
<1>2. /\ \A p \in Promises : \A w \in x.promises[p].waiters : w[1] # c
      /\ \A e \in 1 .. Entries : ~Names(x, {}, e, c)
      /\ \A w \in x.wakes : w[1] # c
      /\ \A s \in x.settlers : Acting(x, s) => s.slot # c
  BY <1>1, RunningIsAlone
<1>3. \A s \in x.settlers : s.kind = "regrant" => s.slot # c
  BY <1>1, <1>2 DEF Inv, SettlerInv, Acting
<1>4. Leaves(x, y, c)
  <2>1. /\ y \in StateType
        /\ \A d \in Contexts : d # c => y.ctx[d] = x.ctx[d]
        /\ LET k == y.ctx[c] IN
             /\ k.gen = x.ctx[c].gen /\ ~k.live /\ k.exit = "run" /\ ~k.moved
             /\ k.park = 0 /\ k.inbox = <<>> /\ k.stash = 0 /\ k.owes = None
        /\ y.linked = x.linked /\ y.free = x.free /\ y.promises = x.promises
        /\ y.settlers = x.settlers /\ y.wakes = x.wakes
    BY <1>1, FreedFields
  <2>2. FreeInv(y)
    BY <1>1, <2>1 DEF Inv, FreeInv
  <2>3. y.wakes = {w \in x.wakes : w[1] # c}
    BY <1>2, <2>1
  <2>4. \A p \in Promises :
       /\ y.promises[p].status = x.promises[p].status
       /\ y.promises[p].handlers = x.promises[p].handlers
       /\ y.promises[p].elements = x.promises[p].elements
       /\ y.promises[p].race = x.promises[p].race
       /\ y.promises[p].remaining = x.promises[p].remaining
       /\ y.promises[p].waiters = {w \in x.promises[p].waiters : w[1] # c}
    BY <1>2, <2>1
  <2>5. \A e \in 1 .. Entries :
       IF Names(x, {}, e, c) THEN ~y.linked[e].live ELSE y.linked[e] = x.linked[e]
    BY <1>2, <2>1
  <2> QED BY <2>1, <2>2, <2>3, <2>4, <2>5 DEF Leaves
<1>5. Inv(y, {}) /\ y \in StateType
  BY <1>1, <1>3, <1>4, LeavesKeeps DEF Leaves
<1> QED BY <1>4, <1>5, LeavesFades DEF Good

LEMMA FinishGood ==
  ASSUME Good(st), NEW c \in Contexts, NEW status \in Status, Finish(c, status)
  PROVE  Good(st')
<1> DEFINE x == Begun(st, c)
           p == x.ctx[c].owes
<1>1. /\ Runnable(c)
      /\ \/ st' = Freed(x, c)
         \/ p # None /\ st' = Freed(SettledAs(x, p, status), c)
  BY DEF Finish
<1>2. Good(x) /\ x.ctx[c].live /\ x.ctx[c].exit = "run"
  BY <1>1, BegunGood
<1> HIDE DEF x
<1>3. CASE st' = Freed(x, c)
  BY <1>2, <1>3, FreedGood
<1>4. CASE p # None /\ st' = Freed(SettledAs(x, p, status), c)
  <2>1. Made(x, p)
    BY <1>2, <1>4 DEF Good, Inv, PromiseInv
  <2> DEFINE z == SettledAs(x, p, status)
  <2>2. Inv(z, {}) /\ Cascades(x, z)
    BY <1>2, <2>1, SettledAsKeeps DEF Good, Made
  <2> HIDE DEF z, p
  <2>3. Good(z) /\ z.ctx[c].exit = "run"
    BY <1>2, <2>2 DEF Good, Cascades
  <2>4. st' = Freed(z, c)
    BY <1>4 DEF z
  <2> QED BY <2>3, <2>4, FreedGood
<1> QED BY <1>1, <1>3, <1>4

LEMMA CancelContextGood ==
  ASSUME Good(st), Disciplined, NEW c \in Contexts, CancelContext(c)
  PROVE  Good(st') /\ Fades(st, st')
<1> DEFINE x == st
           S == {e \in 1 .. Entries : x.linked[e].live /\ x.linked[e].ctx = c}
           freed == EntriesFreed(x, S)
           wakes == {w \in freed.wakes : w[1] # c}
           promises == [p \in Promises |->
                          [x.promises[p] EXCEPT !.waiters = {w \in x.promises[p].waiters :
                                                               w[1] # c}]]
           v == [freed EXCEPT !.wakes = wakes, !.promises = promises]
           y == Freed(v, c)
<1>1. \A s \in x.settlers : s.kind = "regrant" => s.slot # c
  BY DEF CancelContext, Disciplined
<1>2. st' = y
  <2>1. st' = Freed([freed EXCEPT
              !.wakes = {w \in @ : w[1] # c},
              !.promises = [p \in Promises |->
                 [x.promises[p] EXCEPT !.waiters = {w \in @ : w[1] # c}]]], c)
    BY DEF CancelContext, Cancelled
  <2> HIDE DEF freed
  <2>2. v = [freed EXCEPT
              !.wakes = {w \in @ : w[1] # c},
              !.promises = [p \in Promises |->
                 [x.promises[p] EXCEPT !.waiters = {w \in @ : w[1] # c}]]]
    OBVIOUS
  <2> HIDE DEF v
  <2> QED BY <2>1, <2>2
<1>3. x \in StateType /\ Inv(x, {}) /\ FreeInv(x)
  BY DEF Good, Inv
<1> HIDE DEF x
<1>4. /\ freed \in StateType /\ FreeInv(freed)
      /\ freed.ctx = x.ctx /\ freed.promises = x.promises /\ freed.settlers = x.settlers
      /\ freed.wakes = x.wakes
      /\ \A e \in 1 .. Entries : freed.linked[e] = IF e \in S THEN NoEntry ELSE x.linked[e]
  <2>1. S \in SUBSET (1 .. Entries) /\ \A e \in S : x.linked[e].live
    OBVIOUS
  <2>2. freed = EntriesFreed(x, S)
    OBVIOUS
  <2> HIDE DEF S, freed
  <2> QED BY <1>3, <2>1, <2>2, EntriesFreedFields
<1> HIDE DEF freed
<1>5. /\ promises \in [Promises -> PromiseType]
      /\ \A p \in Promises :
           /\ promises[p].status = x.promises[p].status
           /\ promises[p].handlers = x.promises[p].handlers
           /\ promises[p].elements = x.promises[p].elements
           /\ promises[p].race = x.promises[p].race
           /\ promises[p].remaining = x.promises[p].remaining
           /\ promises[p].waiters = {w \in x.promises[p].waiters : w[1] # c}
  <2>1. ASSUME NEW p \in Promises
        PROVE  /\ promises[p] \in PromiseType
               /\ promises[p].status = x.promises[p].status
               /\ promises[p].handlers = x.promises[p].handlers
               /\ promises[p].elements = x.promises[p].elements
               /\ promises[p].race = x.promises[p].race
               /\ promises[p].remaining = x.promises[p].remaining
               /\ promises[p].waiters = {w \in x.promises[p].waiters : w[1] # c}
    <3> DEFINE r == x.promises[p]
               W == {w \in x.promises[p].waiters : w[1] # c}
    <3>1. r \in PromiseType
      BY <1>3 DEF StateType
    <3>2. W \in SUBSET (Contexts \X Nat \X Nat)
      BY <3>1 DEF PromiseType
    <3>3. promises[p] = [r EXCEPT !.waiters = W]
      OBVIOUS
    <3> HIDE DEF r, W, promises
    <3>4. promises[p] \in PromiseType /\ promises[p].status = r.status
          /\ promises[p].handlers = r.handlers /\ promises[p].waiters = W
          /\ promises[p].elements = r.elements /\ promises[p].race = r.race
          /\ promises[p].remaining = r.remaining
      BY <3>1, <3>2, <3>3 DEF PromiseType
    <3> QED BY <3>4 DEF r, W
  <2>2. promises \in [Promises -> PromiseType]
    BY <2>1
  <2> HIDE DEF promises
  <2> QED BY <2>1, <2>2
<1>6. wakes \in SUBSET (Contexts \X Nat) /\ wakes = {w \in x.wakes : w[1] # c}
  BY <1>3, <1>4 DEF StateType
<1> HIDE DEF promises, wakes
<1>7. /\ v \in StateType /\ v.ctx = x.ctx /\ v.promises = promises
      /\ v.settlers = x.settlers /\ v.wakes = wakes /\ v.linked = freed.linked
      /\ v.free = freed.free
  BY <1>4, <1>5, <1>6 DEF StateType
<1> HIDE DEF v
<1>8. /\ y \in StateType
      /\ \A d \in Contexts : d # c => y.ctx[d] = v.ctx[d]
      /\ LET k == y.ctx[c] IN
           /\ k.gen = v.ctx[c].gen /\ ~k.live /\ k.exit = "run" /\ ~k.moved
           /\ k.park = 0 /\ k.inbox = <<>> /\ k.stash = 0 /\ k.owes = None
      /\ y.linked = v.linked /\ y.free = v.free /\ y.promises = v.promises
      /\ y.settlers = v.settlers /\ y.wakes = v.wakes
  BY <1>7, FreedFields
<1> HIDE DEF y
<1>9. FreeInv(y)
  BY <1>4, <1>7, <1>8 DEF FreeInv
<1>10. \A e \in 1 .. Entries :
       IF Names(x, {}, e, c) THEN ~y.linked[e].live ELSE y.linked[e] = x.linked[e]
  <2>1. \A e \in 1 .. Entries : e \in S <=> Names(x, {}, e, c)
    BY DEF Names
  <2>2. ~NoEntry.live
    BY DEF NoEntry
  <2> HIDE DEF S
  <2> QED BY <2>1, <2>2, <1>4, <1>7, <1>8
<1>11. Leaves(x, y, c)
  <2>1. /\ \A d \in Contexts : d # c => y.ctx[d] = x.ctx[d]
        /\ LET k == y.ctx[c] IN
             /\ k.gen = x.ctx[c].gen /\ ~k.live /\ k.exit = "run" /\ ~k.moved
             /\ k.park = 0 /\ k.inbox = <<>> /\ k.stash = 0 /\ k.owes = None
    BY <1>7, <1>8
  <2>2. \A p \in Promises :
           /\ y.promises[p].status = x.promises[p].status
           /\ y.promises[p].handlers = x.promises[p].handlers
           /\ y.promises[p].elements = x.promises[p].elements
           /\ y.promises[p].race = x.promises[p].race
           /\ y.promises[p].remaining = x.promises[p].remaining
           /\ y.promises[p].waiters = {w \in x.promises[p].waiters : w[1] # c}
    BY <1>5, <1>7, <1>8
  <2>3. y \in StateType /\ y.settlers = x.settlers /\ y.wakes = {w \in x.wakes : w[1] # c}
    BY <1>6, <1>7, <1>8
  <2> HIDE DEF S
  <2> QED BY <2>1, <2>2, <2>3, <1>9, <1>10 DEF Leaves
<1>12. Inv(y, {})
  BY <1>1, <1>3, <1>11, LeavesKeeps
<1>13. Fades(x, y)
  BY <1>11, LeavesFades
<1> QED BY <1>2, <1>8, <1>12, <1>13 DEF Good, x

LEMMA DoneGood ==
  ASSUME NEW x, Good(x), NEW s \in x.settlers, ~(s.stage = "settle" /\ Current(x, s)),
         NEW y, y = Done(x, s)
  PROVE  /\ Good(y) /\ Fades(x, y)
         /\ y.ctx = x.ctx /\ y.linked = x.linked /\ y.free = x.free
         /\ y.promises = x.promises /\ y.wakes = x.wakes /\ y.settlers = x.settlers \ {s}
<1> DEFINE settlers == x.settlers \ {s}
<1>1. settlers \in SUBSET SettlerType /\ x \in StateType /\ Inv(x, {})
  BY DEF Good, StateType
<1>2. y = [x EXCEPT !.settlers = settlers]
  BY DEF Done
<1>3. \A t \in x.settlers : t.stage = "settle" /\ Current(x, t) => t \in settlers
  OBVIOUS
<1>4. \A t \in settlers : t \in x.settlers \/ Spent(x, t)
  OBVIOUS
<1>5. settlers = x.settlers \ {s}
  OBVIOUS
<1> HIDE DEF settlers
<1>6. /\ Inv(y, {}) /\ y \in StateType
      /\ y.ctx = x.ctx /\ y.linked = x.linked /\ y.free = x.free
      /\ y.promises = x.promises /\ y.wakes = x.wakes /\ y.settlers = settlers
  BY <1>1, <1>2, <1>3, <1>4, SettlersKeep
<1> QED BY <1>5, <1>6, FadesSame DEF Good

LEMMA StageFields ==
  ASSUME NEW s \in SettlerType, NEW stage \in {"pending", "late", "settle"},
         NEW t, t = [s EXCEPT !.stage = stage]
  PROVE  /\ t \in SettlerType /\ t.stage = stage
         /\ t.kind = s.kind /\ t.slot = s.slot /\ t.gen = s.gen /\ t.cid = s.cid
         /\ t.entry = s.entry /\ t.park = s.park
BY DEF SettlerType

LEMMA StageGood ==
  ASSUME NEW x, Good(x), NEW s \in x.settlers, ~(s.stage = "settle" /\ Current(x, s)),
         NEW stage \in {"late", "settle"}, NEW t, t = [s EXCEPT !.stage = stage], Spent(x, t),
         NEW y, y = Stage(x, s, stage)
  PROVE  /\ Good(y) /\ Fades(x, y)
         /\ y.ctx = x.ctx /\ y.linked = x.linked /\ y.free = x.free
         /\ y.promises = x.promises /\ y.wakes = x.wakes
         /\ y.settlers = (x.settlers \ {s}) \cup {t}
<1> DEFINE settlers == (x.settlers \ {s}) \cup {t}
<1>1. x \in StateType /\ Inv(x, {})
  BY DEF Good
<1>2. s \in SettlerType
  BY <1>1 DEF StateType
<1>3. t \in SettlerType
  BY <1>2, StageFields
<1>4. y = [x EXCEPT !.settlers = settlers]
  BY DEF Stage
<1> HIDE DEF Spent
<1>5. settlers \in SUBSET SettlerType
  BY <1>1, <1>3 DEF StateType
<1>6. \A u \in x.settlers : u.stage = "settle" /\ Current(x, u) => u \in settlers
  OBVIOUS
<1>7. \A u \in settlers : u \in x.settlers \/ Spent(x, u)
  OBVIOUS
<1>8. settlers = (x.settlers \ {s}) \cup {t}
  OBVIOUS
<1> HIDE DEF settlers
<1>9. /\ Inv(y, {}) /\ y \in StateType
      /\ y.ctx = x.ctx /\ y.linked = x.linked /\ y.free = x.free
      /\ y.promises = x.promises /\ y.wakes = x.wakes /\ y.settlers = settlers
  BY <1>1, <1>4, <1>5, <1>6, <1>7, SettlersKeep
<1> QED BY <1>8, <1>9, FadesSame DEF Good

\* What is known of a continuation whose context is there and still waits for it
LEMMA ActingMeans ==
  ASSUME NEW x, Good(x), NEW s \in x.settlers, Acting(x, s)
  PROVE  /\ s \in SettlerType /\ s.slot \in Contexts /\ s.kind # "js"
         /\ x.ctx[s.slot].live /\ s.gen = x.ctx[s.slot].gen /\ s.cid = x.ctx[s.slot].cid
         /\ s.park = x.ctx[s.slot].park
         /\ s.entry \in 1 .. Entries /\ Names(x, {}, s.entry, s.slot)
         /\ x.ctx[s.slot].exit = (IF s.kind = "call" THEN "call" ELSE "grant")
         /\ x.ctx[s.slot].moved <=> s.stage = "settle"
         /\ \A t \in x.settlers : Acting(x, t) /\ t.slot = s.slot => t = s
<1>1. SettlerInv(x, {}) /\ x \in StateType
  BY DEF Good, Inv
<1>2. Current(x, s) /\ s.kind # "js"
  BY DEF Acting, Current
<1>3. s \in SettlerType /\ s.entry \in 1 .. Entries
  BY <1>1 DEF StateType, SettlerType
<1>4. s.slot \in Contexts
  BY <1>1, <1>2 DEF SettlerInv
<1>5. /\ Names(x, {}, s.entry, s.slot) /\ x.ctx[s.slot].park = s.park
      /\ x.ctx[s.slot].exit = (IF s.kind = "call" THEN "call" ELSE "grant")
      /\ x.ctx[s.slot].moved <=> s.stage = "settle"
  BY <1>1 DEF SettlerInv
<1>6. \A t \in x.settlers : Acting(x, t) /\ t.slot = s.slot => t = s
  BY <1>1 DEF SettlerInv
<1> QED BY <1>2, <1>3, <1>4, <1>5, <1>6 DEF Current, Live

LEMMA ResolveCallGood ==
  ASSUME Good(st), Disciplined, NEW s \in st.settlers, ResolveCall(s)
  PROVE  Good(st') /\ Fades(st, st')
<1> DEFINE t == [s EXCEPT !.stage = "late"]
           x == Stage(st, s, "late")
<1>1. /\ s.kind = "call" /\ s.stage # "settle"
      /\ s.stage = "late" => ~SettlerCurrent(s)
  <2>1. s.kind = "call" /\ (s.stage = "late" => ~SettlerCurrent(s))
    BY DEF ResolveCall, SettlerCurrent, Disciplined
  <2>2. s.stage = "settle" => Approval(s)
    BY DEF Good, Inv, SettlerInv
  <2> QED BY <2>1, <2>2 DEF Approval
<1>2. \/ ~SettlerCurrent(s) /\ st' = Done(st, s)
      \/ SettlerCurrent(s) /\ st' = Woken(Answered(x, s.slot, s.park), s)
      \/ SettlerCurrent(s) /\ st' = Woken([x EXCEPT !.ctx[s.slot].stash = s.park], s)
  <2>1. s.stage # "late" => Called(st, s) = x
    BY DEF Called
  <2> HIDE DEF x
  <2> QED BY <1>1, <2>1 DEF ResolveCall
<1>3. CASE ~SettlerCurrent(s) /\ st' = Done(st, s)
  BY <1>1, <1>3, DoneGood
<1>4. CASE SettlerCurrent(s)
  <2>1. Acting(st, s)
    BY <1>1, <1>4 DEF Acting, Current, SettlerCurrent
  <2> DEFINE c == s.slot
             k == st.ctx[c]
  <2>2. /\ s \in SettlerType /\ c \in Contexts /\ s.kind # "js"
        /\ k.live /\ s.gen = k.gen /\ s.cid = k.cid /\ s.park = k.park
        /\ s.entry \in 1 .. Entries /\ Names(st, {}, s.entry, c)
        /\ k.exit = "call" /\ ~k.moved
        /\ \A u \in st.settlers : Acting(st, u) /\ u.slot = c => u = s
    BY <1>1, <2>1, ActingMeans
  <2>3. k \in ContextType /\ k.inbox = <<>>
    BY <2>2 DEF Good, Inv, CtxInv, StateType
  <2>4. /\ t.stage = "late" /\ t.kind = "call" /\ t.slot = c /\ t.gen = s.gen /\ t.cid = s.cid
    BY <1>1, <2>2, StageFields
  <2>5. Spent(st, t)
    <3>1. s.gen <= k.gen /\ s.cid <= k.cid
      BY <2>2, <2>3 DEF ContextType
    <3> HIDE DEF t, k
    <3> QED BY <2>2, <2>4, <3>1 DEF Spent, Acting, k
  <2>6. /\ Good(x) /\ Fades(st, x) /\ x.ctx = st.ctx /\ x.linked = st.linked
        /\ x.settlers = (st.settlers \ {s}) \cup {t}
    BY <1>1, <2>5, StageGood
  <2> HIDE DEF x, t
  <2>7. \A u \in x.settlers : Acting(x, u) => u.slot # c
    <3>1. ~Acting(x, t)
      BY <2>4 DEF Acting
    <3>2. \A u : Acting(x, u) <=> Acting(st, u)
      BY <2>6 DEF Acting, Current, Live
    <3> QED BY <2>2, <2>6, <3>1, <3>2
  <2>8. /\ x \in StateType /\ Inv(x, {}) /\ x.ctx[c] = k /\ Names(x, {}, s.entry, s.slot)
    BY <2>2, <2>6 DEF Good, Names
  <2>9. CASE st' = Woken(Answered(x, c, s.park), s)
    <3> DEFINE z == Answered(x, c, s.park)
    <3>1. z \in StateType /\ z.linked = x.linked /\ Delivered(x, Enqueued(z, c, s.gen), c)
      <4> HIDE DEF z
      <4> QED BY <2>2, <2>3, <2>8, AnsweredDelivers DEF z
    <3> HIDE DEF z
    <3>2. Woken(z, s) \in StateType /\ Inv(Woken(z, s), {}) /\ Fades(x, Woken(z, s))
      BY <2>2, <2>7, <2>8, <3>1, WokenKeeps
    <3> QED BY <2>6, <2>9, <3>2, FadesTransitive DEF Good, z
  <2>10. CASE st' = Woken([x EXCEPT !.ctx[c].stash = s.park], s)
    <3> DEFINE z == [x EXCEPT !.ctx[c].stash = s.park]
    <3>1. z \in StateType /\ z.linked = x.linked /\ Delivered(x, Enqueued(z, c, s.gen), c)
      BY <2>2, <2>3, <2>8, StashDelivers
    <3> HIDE DEF z
    <3>2. Woken(z, s) \in StateType /\ Inv(Woken(z, s), {}) /\ Fades(x, Woken(z, s))
      BY <2>2, <2>7, <2>8, <3>1, WokenKeeps
    <3> QED BY <2>6, <2>10, <3>2, FadesTransitive DEF Good, z
  <2> QED BY <1>2, <1>4, <2>9, <2>10
<1> QED BY <1>2, <1>3, <1>4

LEMMA FailGrantGood ==
  ASSUME Good(st), NEW s \in st.settlers, FailGrant(s)
  PROVE  Good(st') /\ Fades(st, st')
<1> DEFINE x == Done(st, s)
<1>1. Approval(s) /\ s.stage = "pending"
  BY DEF FailGrant, Approval
<1>2. \/ SettlerCurrent(s) /\ st' = Woken(Answered(x, s.slot, s.park), s)
      \/ st' = x
  <2>1. s.kind = "regrant" => SettlerCurrent(s)
    BY DEF Good, Inv, SettlerInv, Current, SettlerCurrent
  <2> QED BY <2>1 DEF FailGrant
<1>3. /\ Good(x) /\ Fades(st, x) /\ x.ctx = st.ctx /\ x.linked = st.linked /\ x.settlers = st.settlers \ {s}
  BY <1>1, DoneGood
<1>4. CASE SettlerCurrent(s) /\ st' = Woken(Answered(x, s.slot, s.park), s)
  <2>1. Acting(st, s)
    BY <1>1, <1>4 DEF Acting, Current, SettlerCurrent, Approval
  <2> DEFINE c == s.slot
             k == st.ctx[c]
  <2>2. /\ s \in SettlerType /\ c \in Contexts
        /\ k.live /\ s.gen = k.gen /\ s.park = k.park
        /\ s.entry \in 1 .. Entries /\ Names(st, {}, s.entry, c)
        /\ k.exit = "grant" /\ ~k.moved
        /\ \A u \in st.settlers : Acting(st, u) /\ u.slot = c => u = s
    BY <1>1, <2>1, ActingMeans DEF Approval
  <2>3. k \in ContextType /\ k.inbox = <<>>
    BY <2>2 DEF Good, Inv, CtxInv, StateType
  <2> HIDE DEF x
  <2>4. \A u \in x.settlers : Acting(x, u) => u.slot # c
    <3>1. \A u : Acting(x, u) <=> Acting(st, u)
      BY <1>3 DEF Acting, Current, Live
    <3> QED BY <1>3, <2>2, <3>1
  <2>5. /\ x \in StateType /\ Inv(x, {}) /\ x.ctx[c] = k /\ Names(x, {}, s.entry, s.slot)
    BY <1>3, <2>2 DEF Good, Names
  <2> DEFINE z == Answered(x, c, s.park)
  <2>6. z \in StateType /\ z.linked = x.linked /\ Delivered(x, Enqueued(z, c, s.gen), c)
    <3> HIDE DEF z
    <3> QED BY <2>2, <2>3, <2>5, AnsweredDelivers DEF z
  <2> HIDE DEF z
  <2>7. Woken(z, s) \in StateType /\ Inv(Woken(z, s), {}) /\ Fades(x, Woken(z, s))
    BY <2>2, <2>4, <2>5, <2>6, WokenKeeps
  <2> QED BY <1>3, <1>4, <2>7, FadesTransitive DEF Good, z
<1>5. CASE st' = x
  BY <1>3, <1>5
<1> QED BY <1>2, <1>4, <1>5

\* The approval s of the parked context c has moved it, and t is what is left of s.
Moves(x, y, s, t, c) ==
  /\ y \in StateType
  /\ y.linked = x.linked /\ y.free = x.free /\ y.promises = x.promises /\ y.wakes = x.wakes
  /\ y.settlers = (x.settlers \ {s}) \cup {t}
  /\ \A d \in Contexts : d # c => y.ctx[d] = x.ctx[d]
  /\ LET k == y.ctx[c] IN
       /\ k.live = x.ctx[c].live /\ k.gen = x.ctx[c].gen /\ k.exit = x.ctx[c].exit
       /\ k.cid = x.ctx[c].cid /\ k.park = x.ctx[c].park /\ k.moved
       /\ k.inbox = <<x.ctx[c].park>> /\ k.stash = x.ctx[c].stash /\ k.owes = x.ctx[c].owes
       /\ k.executor = x.ctx[c].executor
  /\ t.kind = s.kind /\ t.slot = s.slot /\ t.gen = s.gen /\ t.cid = s.cid
  /\ t.entry = s.entry /\ t.park = s.park /\ t.stage = "settle"

LEMMA MovesKeeps ==
  ASSUME NEW x, Good(x), NEW s \in x.settlers, Acting(x, s), Approval(s), NEW t,
         NEW c, c = s.slot, NEW y, Moves(x, y, s, t, c)
  PROVE  Good(y)
<1>1. x \in StateType /\ Inv(x, {}) /\ y \in StateType
  BY DEF Good, Moves
<1>2. /\ s \in SettlerType /\ c \in Contexts /\ s.kind # "js"
      /\ x.ctx[c].live /\ s.gen = x.ctx[c].gen /\ s.cid = x.ctx[c].cid
      /\ s.park = x.ctx[c].park /\ s.entry \in 1 .. Entries /\ Names(x, {}, s.entry, c)
      /\ x.ctx[c].exit = "grant"
      /\ \A u \in x.settlers : Acting(x, u) /\ u.slot = c => u = s
  BY ActingMeans DEF Approval
<1>3. /\ y.linked = x.linked /\ y.free = x.free /\ y.promises = x.promises
      /\ y.wakes = x.wakes /\ y.settlers = (x.settlers \ {s}) \cup {t}
  BY DEF Moves
<1>4. /\ \A d \in Contexts : d # c => y.ctx[d] = x.ctx[d]
      /\ y.ctx[c].live /\ y.ctx[c].gen = x.ctx[c].gen /\ y.ctx[c].exit = "grant"
      /\ y.ctx[c].cid = x.ctx[c].cid /\ y.ctx[c].park = x.ctx[c].park /\ y.ctx[c].moved
      /\ y.ctx[c].inbox = <<y.ctx[c].park>> /\ y.ctx[c].stash = x.ctx[c].stash
      /\ y.ctx[c].owes = x.ctx[c].owes
  BY <1>2 DEF Moves
<1>5. /\ t.kind = s.kind /\ t.slot = s.slot /\ t.gen = s.gen /\ t.cid = s.cid
      /\ t.entry = s.entry /\ t.park = s.park /\ t.stage = "settle"
  BY DEF Moves
<1>6. x.ctx[c].stash = 0
  BY <1>1, <1>2 DEF Inv, CtxInv
<1>7. \A f, d : Names(y, {}, f, d) <=> Names(x, {}, f, d)
  BY <1>3 DEF Names
<1>8. \A d \in Contexts : \A gen : Live(y, d, gen) <=> Live(x, d, gen)
  BY <1>2, <1>4 DEF Live
<1>9. CtxInv(y)
  <2> SUFFICES ASSUME NEW d \in Contexts
               PROVE  LET k == y.ctx[d] IN
                        /\ k.inbox \in {<<>>, <<k.park>>} /\ k.stash \in {0, k.park}
                        /\ k.stash # 0 => k.inbox = <<>>
                        /\ k.inbox # <<>> => k.exit = "woken" \/ k.moved
                        /\ k.stash # 0 => k.exit = "call"
                        /\ k.moved => k.exit = "grant"
                        /\ ~k.live => k.exit = "run"
                        /\ k.exit \in {"call", "grant", "await"} => k.park # 0
    BY DEF CtxInv
  <2>1. CASE d = c
    <3>1. x.ctx[c].park # 0
      BY <1>1, <1>2 DEF Inv, CtxInv
    <3> QED BY <2>1, <3>1, <1>4, <1>6
  <2>2. CASE d # c
    BY <2>2, <1>1, <1>4 DEF Inv, CtxInv
  <2> QED BY <2>1, <2>2
<1>10. PromiseInv(y)
  <2>1. \A p : Made(y, p) <=> Made(x, p)
    BY <1>3 DEF Made
  <2>2. \A d \in Contexts : y.ctx[d].owes = x.ctx[d].owes
    BY <1>4
  <2> QED BY <1>1, <1>3, <2>1, <2>2 DEF Inv, PromiseInv
<1>11. WaiterInv(y)
  <2>1. \A p \in Promises : \A w \in x.promises[p].waiters : w[1] \in Contexts /\ w[1] # c
    BY <1>1, <1>2 DEF Inv, WaiterInv, StateType, PromiseType
  <2>2. \A d \in Contexts : y.ctx[d].exit = "await" => d # c
    BY <1>4
  <2>3. WaiterInv(x) /\ y.promises = x.promises
    BY <1>1, <1>3 DEF Inv
  <2>4. \A d \in Contexts : d # c => y.ctx[d] = x.ctx[d]
    BY <1>4
  <2> QED BY <2>1, <2>2, <2>3, <2>4 DEF WaiterInv
<1>12. EntryInv(y, {})
  <2>1. EntryInv(x, {})
    BY <1>1 DEF Inv
  <2>2. \A f \in 1 .. Entries, d \in Contexts : Names(y, {}, f, d) =>
          LET k == y.ctx[d] IN
            /\ k.live /\ k.gen = y.linked[f].gen /\ k.park = y.linked[f].park
            /\ k.exit \in {"call", "grant"} /\ k.stash = 0 /\ <<d, k.gen>> \notin y.wakes
    <3> SUFFICES ASSUME NEW f \in 1 .. Entries, NEW d \in Contexts, Names(x, {}, f, d)
                 PROVE  LET k == y.ctx[d] IN
                          /\ k.live /\ k.gen = y.linked[f].gen /\ k.park = y.linked[f].park
                          /\ k.exit \in {"call", "grant"} /\ k.stash = 0
                          /\ <<d, k.gen>> \notin y.wakes
      BY <1>7
    <3>1. LET k == x.ctx[d] IN
            /\ k.live /\ k.gen = x.linked[f].gen /\ k.park = x.linked[f].park
            /\ k.exit \in {"call", "grant"} /\ k.stash = 0 /\ <<d, k.gen>> \notin x.wakes
      BY <2>1 DEF EntryInv
    <3> QED BY <3>1, <1>3, <1>4
  <2>3. \A f, g \in 1 .. Entries, d \in Contexts :
          Names(y, {}, f, d) /\ Names(y, {}, g, d) => f = g
    BY <2>1, <1>7 DEF EntryInv
  <2>4. \A d \in Contexts : LET k == y.ctx[d] IN
          k.live /\ k.exit \in {"call", "grant"} /\ k.stash = 0 /\ ~k.moved
            => \E f \in 1 .. Entries : Names(y, {}, f, d)
    BY <2>1, <1>4, <1>7 DEF EntryInv
  <2> QED BY <2>2, <2>3, <2>4 DEF EntryInv
<1>13. FreeInv(y)
  BY <1>1, <1>3 DEF Inv, FreeInv
<1>14. s.stage # "settle" \/ x.ctx[c].moved
  BY ActingMeans
<1>15. WakeInv(y)
  <2>1. \A w \in x.wakes : w[1] \in Contexts
    BY <1>1 DEF StateType
  <2>2. \A w \in y.wakes : Live(y, w[1], w[2]) /\ Ready(y.ctx[w[1]])
    BY <1>1, <1>3, <1>4, <1>8, <2>1 DEF Inv, WakeInv, Ready
  <2>3. ASSUME NEW d \in Contexts, y.ctx[d].live, Ready(y.ctx[d])
        PROVE  \/ <<d, y.ctx[d].gen>> \in y.wakes
               \/ \E u \in y.settlers : u.stage = "settle" /\ u.slot = d
                                         /\ u.gen = y.ctx[d].gen /\ u.cid = y.ctx[d].cid
    <3>1. CASE d = c
      BY <3>1, <1>2, <1>3, <1>4, <1>5
    <3>2. CASE d # c
      BY <2>3, <3>2, <1>1, <1>3, <1>4 DEF Inv, WakeInv
    <3> QED BY <3>1, <3>2
  <2> QED BY <2>2, <2>3 DEF WakeInv
<1>16. SettlerInv(y, {})
  <2>1. SettlerInv(x, {})
    BY <1>1 DEF Inv
  <2>2. \A u \in x.settlers : u.kind # "js" => u.slot \in Contexts
    BY <2>1 DEF SettlerInv
  <2>3. \A u \in x.settlers : (Current(y, u) <=> Current(x, u)) /\ (Acting(y, u) <=> Acting(x, u))
    BY <2>2, <1>4, <1>8 DEF Current, Acting
  <2>4. \A u \in x.settlers : Acting(x, u) /\ u # s =>
          u.slot \in Contexts /\ u.slot # c /\ y.ctx[u.slot] = x.ctx[u.slot]
    BY <2>2, <1>2, <1>4 DEF Acting, Current
  <2>5. \A u \in x.settlers : u.kind # "js" =>
            /\ u.slot \in Contexts /\ u.gen <= y.ctx[u.slot].gen
            /\ Live(y, u.slot, u.gen) => u.cid <= y.ctx[u.slot].cid
            /\ Approval(u) /\ y.ctx[u.slot].live /\ y.ctx[u.slot].exit = "grant"
                  => u.gen = y.ctx[u.slot].gen
    <3> SUFFICES ASSUME NEW u \in x.settlers, u.kind # "js"
                 PROVE  /\ u.slot \in Contexts /\ u.gen <= y.ctx[u.slot].gen
                        /\ Live(y, u.slot, u.gen) => u.cid <= y.ctx[u.slot].cid
                        /\ Approval(u) /\ y.ctx[u.slot].live /\ y.ctx[u.slot].exit = "grant"
                             => u.gen = y.ctx[u.slot].gen
      OBVIOUS
    <3>1. /\ u.slot \in Contexts /\ u.gen <= x.ctx[u.slot].gen
          /\ Live(x, u.slot, u.gen) => u.cid <= x.ctx[u.slot].cid
          /\ Approval(u) /\ x.ctx[u.slot].live /\ x.ctx[u.slot].exit = "grant"
               => u.gen = x.ctx[u.slot].gen
      BY <2>1 DEF SettlerInv
    <3>2. /\ y.ctx[u.slot].gen = x.ctx[u.slot].gen /\ y.ctx[u.slot].cid = x.ctx[u.slot].cid
          /\ y.ctx[u.slot].live = x.ctx[u.slot].live \/ u.slot = c
          /\ y.ctx[u.slot].exit = x.ctx[u.slot].exit
      BY <3>1, <1>2, <1>4
    <3> QED BY <3>1, <3>2, <1>2, <1>4, <1>8
  <2>6. Current(y, t) /\ Acting(y, t)
    BY <1>2, <1>4, <1>5 DEF Current, Acting, Live
  <2>7. Approval(t) /\ t.kind # "js" /\ t.stage # "late"
    BY <1>2, <1>5 DEF Approval
  <2>8. t.kind = "regrant" \/ ~y.linked[t.entry].orphan
    <3>1. s.kind # "regrant" => ~x.linked[s.entry].orphan
      BY <2>1 DEF SettlerInv
    <3> QED BY <3>1, <1>3, <1>5
  <2>9. /\ Names(y, {}, t.entry, t.slot) /\ y.ctx[t.slot].park = t.park
        /\ y.ctx[t.slot].exit = "grant" /\ t.kind # "call" /\ y.ctx[t.slot].moved
    BY <1>2, <1>4, <1>5, <1>7 DEF Approval
  <2>10. \A u \in y.settlers :
       /\ u.kind = "js" =>
            /\ u.stage = "pending" /\ u.slot = None /\ u.gen = 0 /\ u.cid = 0 /\ u.park = 0
            /\ u.entry \notin {} /\ y.linked[u.entry].live /\ y.linked[u.entry].ctx = None
            /\ ~y.linked[u.entry].orphan
       /\ u.kind # "js" =>
            /\ u.slot \in Contexts /\ u.gen <= y.ctx[u.slot].gen
            /\ Live(y, u.slot, u.gen) => u.cid <= y.ctx[u.slot].cid
       /\ u.stage = "late" => u.kind = "call"
       /\ u.stage = "settle" => Approval(u)
       /\ u.kind = "regrant" => Current(y, u)
       /\ Approval(u) /\ y.ctx[u.slot].live /\ y.ctx[u.slot].exit = "grant"
            => u.gen = y.ctx[u.slot].gen
    <3>1. \A u \in x.settlers :
       /\ u.kind = "js" =>
            /\ u.stage = "pending" /\ u.slot = None /\ u.gen = 0 /\ u.cid = 0 /\ u.park = 0
            /\ u.entry \notin {} /\ y.linked[u.entry].live /\ y.linked[u.entry].ctx = None
            /\ ~y.linked[u.entry].orphan
       /\ u.stage = "late" => u.kind = "call"
       /\ u.stage = "settle" => Approval(u)
       /\ u.kind = "regrant" => Current(y, u)
      BY <2>1, <2>3, <1>3 DEF SettlerInv
    <3>2. \A u \in x.settlers : Approval(u) => u.kind # "js"
      BY DEF Approval
    <3>3. \A u \in x.settlers :
         Approval(u) /\ y.ctx[u.slot].live /\ y.ctx[u.slot].exit = "grant"
            => u.gen = y.ctx[u.slot].gen
      BY <3>2, <2>5
    <3>4. /\ t.slot \in Contexts /\ t.gen <= y.ctx[t.slot].gen /\ t.gen = y.ctx[t.slot].gen
          /\ Live(y, t.slot, t.gen) => t.cid <= y.ctx[t.slot].cid
      <4>1. s.gen \in Nat /\ s.cid \in Nat
        BY <1>2 DEF SettlerType
      <4> QED BY <4>1, <1>2, <1>4, <1>5
    <3> QED BY <3>1, <3>3, <3>4, <2>5, <2>6, <2>7, <1>3
  <2>11. \A u \in y.settlers : Acting(y, u) =>
            LET k == y.ctx[u.slot] IN
              /\ Names(y, {}, u.entry, u.slot) /\ k.park = u.park
              /\ k.exit = IF u.kind = "call" THEN "call" ELSE "grant"
              /\ k.moved <=> u.stage = "settle"
              /\ u.kind # "regrant" => ~y.linked[u.entry].orphan
    <3>1. ASSUME NEW u \in x.settlers, Acting(y, u), u # s
          PROVE  LET k == y.ctx[u.slot] IN
                   /\ Names(y, {}, u.entry, u.slot) /\ k.park = u.park
                   /\ k.exit = IF u.kind = "call" THEN "call" ELSE "grant"
                   /\ k.moved <=> u.stage = "settle"
                   /\ u.kind # "regrant" => ~y.linked[u.entry].orphan
      BY <3>1, <2>1, <2>3, <2>4, <1>3, <1>7 DEF SettlerInv
    <3>2. LET k == y.ctx[t.slot] IN
            /\ Names(y, {}, t.entry, t.slot) /\ k.park = t.park
            /\ k.exit = IF t.kind = "call" THEN "call" ELSE "grant"
            /\ k.moved <=> t.stage = "settle"
            /\ t.kind # "regrant" => ~y.linked[t.entry].orphan
      BY <2>8, <2>9, <1>5
    <3> QED BY <3>1, <3>2, <1>3
  <2>12. \A u, v \in y.settlers : Acting(y, u) /\ Acting(y, v) /\ u.slot = v.slot => u = v
    <3>1. \A u, v \in x.settlers : Acting(y, u) /\ Acting(y, v) /\ u.slot = v.slot => u = v
      BY <2>1, <2>3 DEF SettlerInv
    <3>2. \A u \in x.settlers : Acting(y, u) /\ u # s => u.slot # t.slot
      BY <2>3, <2>4, <1>2, <1>5
    <3> QED BY <3>1, <3>2, <1>3
  <2> QED BY <2>10, <2>11, <2>12 DEF SettlerInv
<1> QED BY <1>1, <1>9, <1>10, <1>11, <1>12, <1>13, <1>15, <1>16 DEF Good, Inv

LEMMA FinalizeGrantGood ==
  ASSUME Good(st), NEW s \in st.settlers, FinalizeGrant(s)
  PROVE  Good(st') /\ Fades(st, st')
<1> DEFINE t == [s EXCEPT !.stage = "settle"]
           x == Stage(st, s, "settle")
           c == s.slot
           y == [x EXCEPT !.ctx[c].moved = TRUE, !.ctx[c].inbox = Append(@, s.park)]
<1>1. Approval(s) /\ s.stage = "pending" /\ s.kind # "js" /\ s.kind # "call"
  BY DEF FinalizeGrant, Approval
<1>2. \/ MayFinalize(s) /\ st' = y
      \/ ~MayFinalize(s) /\ st' = x
  BY DEF FinalizeGrant
<1>3. st \in StateType /\ SettlerInv(st, {}) /\ CtxInv(st) /\ s \in SettlerType /\ c \in Contexts
  BY <1>1 DEF Good, Inv, SettlerInv, StateType
<1>4. /\ t \in SettlerType /\ t.stage = "settle" /\ t.kind = s.kind /\ t.slot = s.slot
      /\ t.gen = s.gen /\ t.cid = s.cid /\ t.entry = s.entry /\ t.park = s.park
  BY <1>3, StageFields
<1> HIDE DEF t
<1>5. MayFinalize(s) <=> Acting(st, s)
  <2>1. ASSUME MayFinalize(s) PROVE Acting(st, s)
    <3>1. st.ctx[c].live /\ st.ctx[c].cid = s.cid /\ st.ctx[c].exit = "grant"
      BY <2>1 DEF MayFinalize
    <3>2. s.gen = st.ctx[c].gen
      BY <3>1, <1>1, <1>3 DEF SettlerInv
    <3> QED BY <3>1, <3>2, <1>1 DEF Acting, Current, Live
  <2>2. ASSUME Acting(st, s) PROVE MayFinalize(s)
    <3>1. /\ st.ctx[c].live /\ s.cid = st.ctx[c].cid /\ st.ctx[c].exit = "grant"
          /\ ~st.ctx[c].moved
      BY <2>2, <1>1, ActingMeans
    <3> QED BY <3>1 DEF MayFinalize
  <2> QED BY <2>1, <2>2
<1>6. CASE MayFinalize(s) /\ st' = y
  <2> DEFINE k == st.ctx[c]
             j == [k EXCEPT !.moved = TRUE, !.inbox = <<k.park>>]
             settlers == (st.settlers \ {s}) \cup {t}
             ctx == [st.ctx EXCEPT ![c] = j]
  <2>1. k.exit = "grant" /\ ~k.moved /\ s.park = k.park
    BY <1>1, <1>5, <1>6, ActingMeans DEF MayFinalize
  <2>2. k \in ContextType /\ k.inbox = <<>>
    BY <2>1, <1>3 DEF CtxInv, StateType
  <2>3. /\ j \in ContextType /\ j.live = k.live /\ j.gen = k.gen /\ j.exit = k.exit
        /\ j.cid = k.cid /\ j.park = k.park /\ j.moved /\ j.inbox = <<k.park>>
        /\ j.stash = k.stash /\ j.owes = k.owes /\ j.executor = k.executor
    <3>1. <<k.park>> \in Seq(Nat)
      BY <2>2 DEF ContextType
    <3> DEFINE one == <<k.park>>
    <3>2. one \in Seq(Nat) /\ j = [k EXCEPT !.moved = TRUE, !.inbox = one]
      BY <3>1
    <3> HIDE DEF one, j, k
    <3>3. /\ j \in ContextType /\ j.live = k.live /\ j.gen = k.gen /\ j.exit = k.exit
          /\ j.cid = k.cid /\ j.park = k.park /\ j.moved = TRUE /\ j.inbox = one
          /\ j.stash = k.stash /\ j.owes = k.owes /\ j.executor = k.executor
      BY <2>2, <3>2 DEF ContextType
    <3> QED BY <3>3 DEF one
  <2>4. y = [st EXCEPT !.settlers = settlers, !.ctx = ctx]
    <3>1. x = [st EXCEPT !.settlers = settlers]
      BY DEF Stage, t
    <3> HIDE DEF x, settlers
    <3>2. x.ctx = st.ctx
      BY <3>1, <1>3 DEF StateType
    <3>3. Append(x.ctx[c].inbox, s.park) = <<k.park>>
      BY <3>2, <2>1, <2>2
    <3>4. [x.ctx[c] EXCEPT !.moved = TRUE, !.inbox = Append(@, s.park)] = j
      BY <3>2, <3>3
    <3>5. y = [x EXCEPT !.ctx = [x.ctx EXCEPT ![c] =
                 [x.ctx[c] EXCEPT !.moved = TRUE, !.inbox = Append(@, s.park)]]]
      BY <3>2, <1>3 DEF StateType
    <3> HIDE DEF j, y
    <3>6. y = [x EXCEPT !.ctx = ctx]
      BY <3>2, <3>4, <3>5
    <3> QED BY <3>1, <3>6
  <2> HIDE DEF y, k, j
  <2>5. /\ ctx \in [Contexts -> ContextType] /\ ctx[c] = j
        /\ \A d \in Contexts : d # c => ctx[d] = st.ctx[d]
    BY <2>3, <1>3 DEF StateType
  <2>6. settlers \in SUBSET SettlerType
    BY <1>3, <1>4 DEF StateType
  <2> HIDE DEF ctx, settlers
  <2>7. /\ y \in StateType /\ y.ctx = ctx /\ y.linked = st.linked /\ y.free = st.free
        /\ y.promises = st.promises /\ y.wakes = st.wakes /\ y.settlers = settlers
    BY <2>4, <2>5, <2>6, <1>3 DEF StateType
  <2>8. Moves(st, y, s, t, c)
    BY <2>3, <2>5, <2>7, <1>4 DEF Moves, k, settlers
  <2>9. Good(y)
    BY <2>8, <1>1, <1>5, <1>6, MovesKeeps
  <2>10. Fades(st, y)
    BY <2>8 DEF Moves, Fades
  <2> QED BY <1>6, <2>9, <2>10
<1>7. CASE ~MayFinalize(s) /\ st' = x
  <2>1. ~Acting(st, s) /\ ~Current(st, s)
    BY <1>1, <1>5, <1>7 DEF Acting
  <2>2. s.kind = "grant"
    BY <2>1, <1>1, <1>3 DEF SettlerInv, Approval
  <2>3. Spent(st, t)
    <3>1. ~Acting(st, t)
      BY <2>1, <1>4 DEF Acting, Current
    <3>2. /\ s.gen <= st.ctx[c].gen
          /\ Live(st, c, s.gen) => s.cid <= st.ctx[c].cid
          /\ st.ctx[c].live /\ st.ctx[c].exit = "grant" => s.gen = st.ctx[c].gen
      BY <1>1, <1>3 DEF SettlerInv
    <3> QED BY <3>1, <3>2, <2>2, <1>3, <1>4 DEF Spent
  <2>4. Good(x) /\ Fades(st, x)
    BY <2>1, <2>3, StageGood DEF t
  <2> QED BY <1>7, <2>4
<1> QED BY <1>2, <1>6, <1>7

\* The approval s has settled: its context, which it had moved, is queued.
Released(x, u, s) ==
  /\ u \in StateType
  /\ u.ctx = x.ctx /\ u.linked = x.linked /\ u.free = x.free /\ u.promises = x.promises
  /\ u.settlers = x.settlers \ {s} /\ u.wakes = x.wakes \cup {<<s.slot, s.gen>>}

LEMMA ReleasedKeeps ==
  ASSUME NEW x, Good(x), NEW s \in x.settlers, Acting(x, s), s.stage = "settle",
         NEW u, Released(x, u, s)
  PROVE  Inv(u, {s.entry})
<1> DEFINE c == s.slot
           e == s.entry
<1>1. /\ c \in Contexts /\ s.kind # "js"
      /\ x.ctx[c].live /\ s.gen = x.ctx[c].gen /\ e \in 1 .. Entries /\ Names(x, {}, e, c)
      /\ x.ctx[c].moved
      /\ \A t \in x.settlers : Acting(x, t) /\ t.slot = c => t = s
  BY ActingMeans
<1>2. /\ u.ctx = x.ctx /\ u.linked = x.linked /\ u.free = x.free /\ u.promises = x.promises
      /\ u.settlers = x.settlers \ {s} /\ u.wakes = x.wakes \cup {<<c, x.ctx[c].gen>>}
  BY <1>1 DEF Released
<1>3. x \in StateType /\ Inv(x, {})
  BY DEF Good
<1> HIDE DEF c, e
<1>4. \A f \in 1 .. Entries, d \in Contexts :
        Names(u, {e}, f, d) <=> Names(x, {}, f, d) /\ d # c
  <2>1. \A f \in 1 .. Entries : Names(x, {}, f, c) => f = e
    BY <1>1, <1>3 DEF Inv, EntryInv
  <2> QED BY <2>1, <1>1, <1>2 DEF Names
<1>5. None \notin Contexts
  BY DEF None, Contexts
<1>6. \A d, gen : Live(u, d, gen) <=> Live(x, d, gen)
  BY <1>2 DEF Live
<1>7. \A t : (Current(u, t) <=> Current(x, t)) /\ (Acting(u, t) <=> Acting(x, t))
  BY <1>2, <1>6 DEF Current, Acting
<1>8. CtxInv(u) /\ WaiterInv(u) /\ FreeInv(u)
  BY <1>2, <1>3 DEF Inv, CtxInv, WaiterInv, FreeInv
<1>9. PromiseInv(u)
  <2>1. \A p : Made(u, p) <=> Made(x, p)
    BY <1>2 DEF Made
  <2> QED BY <1>2, <1>3, <2>1 DEF Inv, PromiseInv
<1>10. EntryInv(u, {e})
  <2>1. EntryInv(x, {})
    BY <1>3 DEF Inv
  <2>2. \A f \in 1 .. Entries, d \in Contexts : Names(u, {e}, f, d) =>
          LET k == u.ctx[d] IN
            /\ k.live /\ k.gen = u.linked[f].gen /\ k.park = u.linked[f].park
            /\ k.exit \in {"call", "grant"} /\ k.stash = 0 /\ <<d, k.gen>> \notin u.wakes
    <3> SUFFICES ASSUME NEW f \in 1 .. Entries, NEW d \in Contexts, Names(x, {}, f, d), d # c
                 PROVE  LET k == u.ctx[d] IN
                          /\ k.live /\ k.gen = u.linked[f].gen /\ k.park = u.linked[f].park
                          /\ k.exit \in {"call", "grant"} /\ k.stash = 0
                          /\ <<d, k.gen>> \notin u.wakes
      BY <1>4
    <3>1. LET k == x.ctx[d] IN
            /\ k.live /\ k.gen = x.linked[f].gen /\ k.park = x.linked[f].park
            /\ k.exit \in {"call", "grant"} /\ k.stash = 0 /\ <<d, k.gen>> \notin x.wakes
      BY <2>1 DEF EntryInv
    <3>2. <<d, x.ctx[d].gen>> # <<c, x.ctx[c].gen>>
      OBVIOUS
    <3> QED BY <3>1, <3>2, <1>2
  <2>3. \A f, g \in 1 .. Entries, d \in Contexts :
          Names(u, {e}, f, d) /\ Names(u, {e}, g, d) => f = g
    BY <2>1, <1>4 DEF EntryInv
  <2>4. \A d \in Contexts : LET k == u.ctx[d] IN
          k.live /\ k.exit \in {"call", "grant"} /\ k.stash = 0 /\ ~k.moved
            => \E f \in 1 .. Entries : Names(u, {e}, f, d)
    <3> SUFFICES ASSUME NEW d \in Contexts, u.ctx[d].live, u.ctx[d].exit \in {"call", "grant"},
                        u.ctx[d].stash = 0, ~u.ctx[d].moved
                 PROVE  \E f \in 1 .. Entries : Names(u, {e}, f, d)
      OBVIOUS
    <3>1. d # c
      BY <1>1, <1>2
    <3>2. \E f \in 1 .. Entries : Names(x, {}, f, d)
      BY <2>1, <1>2 DEF EntryInv
    <3> QED BY <3>1, <3>2, <1>4
  <2> QED BY <2>2, <2>3, <2>4 DEF EntryInv
<1>11. WakeInv(u)
  <2>1. WakeInv(x)
    BY <1>3 DEF Inv
  <2>2. \A w \in u.wakes : Live(u, w[1], w[2]) /\ Ready(u.ctx[w[1]])
    <3>1. \A w \in x.wakes : Live(u, w[1], w[2]) /\ Ready(u.ctx[w[1]])
      BY <2>1, <1>2, <1>6 DEF WakeInv
    <3>2. Live(u, c, x.ctx[c].gen) /\ Ready(u.ctx[c])
      BY <1>1, <1>2 DEF Live, Ready
    <3> QED BY <3>1, <3>2, <1>2
  <2>3. ASSUME NEW d \in Contexts, u.ctx[d].live, Ready(u.ctx[d])
        PROVE  \/ <<d, u.ctx[d].gen>> \in u.wakes
               \/ \E t \in u.settlers : t.stage = "settle" /\ t.slot = d
                                         /\ t.gen = u.ctx[d].gen /\ t.cid = u.ctx[d].cid
    <3>1. CASE d = c
      BY <3>1, <1>2
    <3>2. CASE d # c
      <4>1. \/ <<d, x.ctx[d].gen>> \in x.wakes
            \/ \E t \in x.settlers : t.stage = "settle" /\ t.slot = d
                                         /\ t.gen = x.ctx[d].gen /\ t.cid = x.ctx[d].cid
        BY <2>1, <2>3, <1>2 DEF WakeInv
      <4>2. s.slot # d
        BY <3>2 DEF c
      <4> QED BY <4>1, <4>2, <1>2
    <3> QED BY <3>1, <3>2
  <2> QED BY <2>2, <2>3 DEF WakeInv
<1>12. SettlerInv(u, {e})
  <2>1. SettlerInv(x, {})
    BY <1>3 DEF Inv
  <2>2. \A t \in x.settlers : t.entry \in 1 .. Entries
    BY <1>3 DEF StateType, SettlerType
  <2>3. \A t \in u.settlers : t \in x.settlers /\ t # s
    BY <1>2
  <2>4. \A t \in u.settlers : Acting(x, t) => Names(u, {e}, t.entry, t.slot)
    <3> SUFFICES ASSUME NEW t \in u.settlers, Acting(x, t)
                 PROVE  Names(u, {e}, t.entry, t.slot)
      OBVIOUS
    <3>1. t \in x.settlers /\ t.slot # c
      BY <2>3, <1>1
    <3>2. Names(x, {}, t.entry, t.slot) /\ t.slot \in Contexts
      BY <2>1, <3>1 DEF SettlerInv, Acting, Current
    <3> QED BY <3>1, <3>2, <2>2, <1>4
  <2>5. \A t \in u.settlers : t.kind = "js" => t.entry \notin {e}
    <3> SUFFICES ASSUME NEW t \in u.settlers, t.kind = "js" PROVE t.entry # e
      OBVIOUS
    <3>1. x.linked[t.entry].ctx = None
      BY <2>1, <2>3 DEF SettlerInv
    <3>2. x.linked[e].ctx = c
      BY <1>1 DEF Names
    <3> QED BY <3>1, <3>2, <1>1, <1>5
  <2>6. \A t \in u.settlers :
       /\ t.kind = "js" =>
            /\ t.stage = "pending" /\ t.slot = None /\ t.gen = 0 /\ t.cid = 0 /\ t.park = 0
            /\ t.entry \notin {e} /\ u.linked[t.entry].live /\ u.linked[t.entry].ctx = None
            /\ ~u.linked[t.entry].orphan
       /\ t.kind # "js" =>
            /\ t.slot \in Contexts /\ t.gen <= u.ctx[t.slot].gen
            /\ Live(u, t.slot, t.gen) => t.cid <= u.ctx[t.slot].cid
       /\ t.stage = "late" => t.kind = "call"
       /\ t.stage = "settle" => Approval(t)
       /\ t.kind = "regrant" => Current(u, t)
       /\ Approval(t) /\ u.ctx[t.slot].live /\ u.ctx[t.slot].exit = "grant"
            => t.gen = u.ctx[t.slot].gen
    BY <2>1, <2>3, <2>5, <1>2, <1>6, <1>7 DEF SettlerInv
  <2>7. \A t \in u.settlers : Acting(u, t) =>
            LET k == u.ctx[t.slot] IN
              /\ Names(u, {e}, t.entry, t.slot) /\ k.park = t.park
              /\ k.exit = IF t.kind = "call" THEN "call" ELSE "grant"
              /\ k.moved <=> t.stage = "settle"
              /\ t.kind # "regrant" => ~u.linked[t.entry].orphan
    <3>1. \A t \in x.settlers : Acting(x, t) =>
            LET k == x.ctx[t.slot] IN
              /\ k.park = t.park
              /\ k.exit = IF t.kind = "call" THEN "call" ELSE "grant"
              /\ k.moved <=> t.stage = "settle"
              /\ t.kind # "regrant" => ~x.linked[t.entry].orphan
      BY <2>1 DEF SettlerInv
    <3>2. \A t \in u.settlers : Acting(x, t) =>
            LET k == u.ctx[t.slot] IN
              /\ k.park = t.park
              /\ k.exit = IF t.kind = "call" THEN "call" ELSE "grant"
              /\ k.moved <=> t.stage = "settle"
              /\ t.kind # "regrant" => ~u.linked[t.entry].orphan
      BY <3>1, <2>3, <1>2
    <3> QED BY <3>2, <2>4, <1>7
  <2>8. \A t, v \in u.settlers : Acting(u, t) /\ Acting(u, v) /\ t.slot = v.slot => t = v
    BY <2>1, <2>3, <1>7 DEF SettlerInv
  <2> QED BY <2>6, <2>7, <2>8 DEF SettlerInv
<1> QED BY <1>8, <1>9, <1>10, <1>11, <1>12 DEF Inv, e

LEMMA SettleGrantGood ==
  ASSUME Good(st), NEW s \in st.settlers, SettleGrant(s)
  PROVE  Good(st') /\ Fades(st, st')
<1> DEFINE x == Done(st, s)
<1>1. s.stage = "settle" /\ Approval(s) /\ s.kind # "js"
  BY DEF SettleGrant, Good, Inv, SettlerInv, Approval
<1>2. \/ Current(st, s) /\ st' = Woken(x, s)
      \/ ~Current(st, s) /\ st' = x
  <2>1. s.kind = "regrant" => Current(st, s)
    BY DEF Good, Inv, SettlerInv
  <2>2. SettlerCurrent(s) <=> Current(st, s)
    BY <1>1 DEF SettlerCurrent, Current
  <2> QED BY <2>1, <2>2 DEF SettleGrant
<1>3. CASE ~Current(st, s) /\ st' = x
  <2>1. Good(x) /\ Fades(st, x)
    BY <1>3, DoneGood
  <2> QED BY <1>3, <2>1
<1>4. CASE Current(st, s) /\ st' = Woken(x, s)
  <2> DEFINE settlers == st.settlers \ {s}
             wakes == st.wakes \cup {<<s.slot, s.gen>>}
             u == Enqueued(x, s.slot, s.gen)
             y == EntryFreed(u, s.entry)
  <2>1. Acting(st, s)
    BY <1>1, <1>4 DEF Acting
  <2>2. /\ s \in SettlerType /\ s.slot \in Contexts
        /\ st.ctx[s.slot].live /\ s.gen = st.ctx[s.slot].gen
        /\ s.entry \in 1 .. Entries /\ Names(st, {}, s.entry, s.slot)
    BY <2>1, ActingMeans
  <2>3. st \in StateType /\ s.gen \in Nat
    BY <2>2 DEF Good, SettlerType
  <2>4. settlers \in SUBSET SettlerType /\ wakes \in SUBSET (Contexts \X Nat)
    BY <2>2, <2>3 DEF StateType
  <2>5. x = [st EXCEPT !.settlers = settlers]
    BY DEF Done
  <2> HIDE DEF x, settlers
  <2>6. /\ x \in StateType /\ x.ctx = st.ctx /\ x.linked = st.linked /\ x.wakes = st.wakes
    BY <2>3, <2>4, <2>5 DEF StateType
  <2>7. u = [x EXCEPT !.wakes = wakes]
    BY <2>2, <2>6 DEF Enqueued, Live
  <2> HIDE DEF u, wakes
  <2>8. /\ u \in StateType /\ u.ctx = st.ctx /\ u.linked = st.linked /\ u.free = st.free
        /\ u.promises = st.promises /\ u.settlers = settlers /\ u.wakes = wakes
    BY <2>3, <2>4, <2>5, <2>6, <2>7 DEF StateType
  <2>9. Released(st, u, s)
    BY <2>8 DEF Released, settlers, wakes
  <2>10. Inv(u, {s.entry})
    BY <1>1, <2>1, <2>9, ReleasedKeeps
  <2>11. u.linked[s.entry].live /\ x.linked[s.entry].live
    BY <2>2, <2>6, <2>8 DEF Names
  <2>12. \A t \in u.settlers : t.kind = "js" => t.entry # s.entry
    BY <2>10 DEF Inv, SettlerInv
  <2>13. /\ Inv(y, {}) /\ y \in StateType /\ y.ctx = u.ctx /\ y.promises = u.promises
         /\ \A f \in 1 .. Entries :
              y.linked[f] = IF f = s.entry THEN NoEntry ELSE u.linked[f]
    BY <2>2, <2>8, <2>10, <2>11, <2>12, EntryFreedKeeps
  <2>14. Woken(x, s) = y
    BY <2>6, <2>11, WokenIsFreed DEF u
  <2>15. Fades(st, y)
    BY <2>8, <2>13 DEF Fades, NoEntry
  <2> QED BY <1>4, <2>13, <2>14, <2>15 DEF Good
<1> QED BY <1>2, <1>3, <1>4

\* After a restart every entry is an orphan, and nobody is there to answer.
LEMMA RestartGood ==
  ASSUME Good(st), Disciplined, Restart
  PROVE  Good(st') /\ Fades(st, st')
<1> DEFINE x == st
           y == st'
           linked == [e \in 1 .. Entries |-> [x.linked[e] EXCEPT !.orphan = x.linked[e].live]]
           ctx == [c \in Contexts |-> [x.ctx[c] EXCEPT !.stash = 0]]
<1>1. /\ y = [x EXCEPT !.settlers = {}, !.wakes = {}, !.restarted = TRUE, !.ctx = ctx,
                       !.linked = linked]
      /\ x.wakes = {} /\ \A s \in x.settlers : s.stage # "settle"
      /\ \A c \in Contexts : x.ctx[c].stash = 0
  BY DEF Restart, Quiet, Disciplined
<1>2. x \in StateType /\ Inv(x, {})
  BY DEF Good
<1> HIDE DEF x, y
<1>0. ctx = x.ctx
  <2>1. x.ctx \in [Contexts -> ContextType]
    BY <1>2 DEF StateType
  <2>2. \A c \in Contexts : [x.ctx[c] EXCEPT !.stash = 0] = x.ctx[c]
    BY <1>1, <2>1 DEF ContextType
  <2> QED BY <2>1, <2>2
<1> HIDE DEF ctx
<1>3. /\ linked \in [1 .. Entries -> EntryType]
      /\ \A e \in 1 .. Entries :
           /\ linked[e].live = x.linked[e].live /\ linked[e].ctx = x.linked[e].ctx
           /\ linked[e].gen = x.linked[e].gen /\ linked[e].park = x.linked[e].park
           /\ linked[e].promise = x.linked[e].promise
  <2>1. ASSUME NEW e \in 1 .. Entries
        PROVE  /\ linked[e] \in EntryType
               /\ linked[e].live = x.linked[e].live /\ linked[e].ctx = x.linked[e].ctx
               /\ linked[e].gen = x.linked[e].gen /\ linked[e].park = x.linked[e].park
               /\ linked[e].promise = x.linked[e].promise
    <3> DEFINE k == x.linked[e]
               j == [k EXCEPT !.orphan = k.live]
    <3>1. k \in EntryFields
      BY <1>2 DEF StateType, EntryType
    <3> HIDE DEF k
    <3>2. /\ j \in EntryType /\ j.live = k.live /\ j.ctx = k.ctx /\ j.gen = k.gen
          /\ j.park = k.park /\ j.promise = k.promise
      BY <3>1 DEF EntryFields, EntryType
    <3>3. linked[e] = j
      BY DEF k
    <3> HIDE DEF j, linked
    <3> QED BY <3>2, <3>3 DEF k
  <2>2. linked \in [1 .. Entries -> EntryType]
    BY <2>1
  <2> HIDE DEF linked
  <2> QED BY <2>1, <2>2
<1> HIDE DEF linked
<1>4. /\ y \in StateType /\ y.ctx = x.ctx /\ y.linked = linked /\ y.free = x.free
      /\ y.promises = x.promises /\ y.wakes = x.wakes /\ y.settlers = {}
  BY <1>0, <1>1, <1>2, <1>3 DEF StateType
<1>5. \A e \in 1 .. Entries : \A c : Names(y, {}, e, c) <=> Names(x, {}, e, c)
  BY <1>3, <1>4 DEF Names
<1>6. CtxInv(y) /\ WaiterInv(y)
  BY <1>2, <1>4 DEF Inv, CtxInv, WaiterInv
<1>7. PromiseInv(y)
  <2>1. \A p : Made(y, p) <=> Made(x, p)
    BY <1>4 DEF Made
  <2> QED BY <1>2, <1>3, <1>4, <2>1 DEF Inv, PromiseInv
<1>8. EntryInv(y, {})
  BY <1>2, <1>3, <1>4, <1>5 DEF Inv, EntryInv
<1>9. FreeInv(y)
  BY <1>2, <1>3, <1>4 DEF Inv, FreeInv
<1>10. WakeInv(y)
  BY <1>1, <1>2, <1>4 DEF Inv, WakeInv
<1>11. SettlerInv(y, {})
  BY <1>4 DEF SettlerInv
<1>12. Fades(x, y)
  BY <1>3, <1>4 DEF Fades
<1> QED BY <1>4, <1>6, <1>7, <1>8, <1>9, <1>10, <1>11, <1>12 DEF Good, Inv, x, y

\* A continuation that takes up the entry of a parked context that has none
LEMMA RegrantKeeps ==
  ASSUME NEW x, Good(x), NEW e \in 1 .. Entries, NEW c \in Contexts, Names(x, {}, e, c),
         x.ctx[c].exit = "grant", ~x.ctx[c].moved,
         \A t \in x.settlers : Acting(x, t) => t.slot # c,
         NEW s, s.kind = "regrant", s.slot = c, s.gen = x.ctx[c].gen, s.cid = x.ctx[c].cid,
         s.entry = e, s.park = x.ctx[c].park, s.stage = "pending",
         NEW y \in StateType, y.ctx = x.ctx, y.linked = x.linked, y.free = x.free,
         y.promises = x.promises, y.wakes = x.wakes, y.settlers = x.settlers \cup {s}
  PROVE  Good(y)
<1>1. x \in StateType /\ Inv(x, {})
  BY DEF Good
<1>2. \A f, d : Names(y, {}, f, d) <=> Names(x, {}, f, d)
  BY DEF Names
<1>3. \A d, gen : Live(y, d, gen) <=> Live(x, d, gen)
  BY DEF Live
<1>4. \A t : (Current(y, t) <=> Current(x, t)) /\ (Acting(y, t) <=> Acting(x, t))
  BY <1>3 DEF Current, Acting
<1>5. CtxInv(y) /\ FreeInv(y) /\ WaiterInv(y)
  BY <1>1 DEF Inv, CtxInv, FreeInv, WaiterInv
<1>6. PromiseInv(y)
  <2>1. \A p : Made(y, p) <=> Made(x, p)
    BY DEF Made
  <2> QED BY <2>1, <1>1 DEF Inv, PromiseInv
<1>7. EntryInv(y, {})
  BY <1>1, <1>2 DEF Inv, EntryInv
<1>8. WakeInv(y)
  BY <1>1, <1>3 DEF Inv, WakeInv
<1>9. SettlerInv(y, {})
  <2>1. SettlerInv(x, {}) /\ EntryInv(x, {})
    BY <1>1 DEF Inv
  <2>2. x.ctx[c].live /\ x.ctx[c].gen \in Nat /\ x.ctx[c].cid \in Nat
    BY <1>1, <2>1 DEF EntryInv, StateType, ContextType
  <2>3. Current(x, s) /\ Approval(s)
    BY <2>2 DEF Current, Approval, Live
  <2>4. \A t \in y.settlers :
       /\ t.kind = "js" =>
            /\ t.stage = "pending" /\ t.slot = None /\ t.gen = 0 /\ t.cid = 0 /\ t.park = 0
            /\ t.entry \notin {} /\ y.linked[t.entry].live /\ y.linked[t.entry].ctx = None
            /\ ~y.linked[t.entry].orphan
       /\ t.kind # "js" =>
            /\ t.slot \in Contexts /\ t.gen <= y.ctx[t.slot].gen
            /\ Live(y, t.slot, t.gen) => t.cid <= y.ctx[t.slot].cid
       /\ t.stage = "late" => t.kind = "call"
       /\ t.stage = "settle" => Approval(t)
       /\ t.kind = "regrant" => Current(y, t)
       /\ Approval(t) /\ y.ctx[t.slot].live /\ y.ctx[t.slot].exit = "grant"
            => t.gen = y.ctx[t.slot].gen
    <3>1. \A t \in x.settlers :
       /\ t.kind = "js" =>
            /\ t.stage = "pending" /\ t.slot = None /\ t.gen = 0 /\ t.cid = 0 /\ t.park = 0
            /\ t.entry \notin {} /\ y.linked[t.entry].live /\ y.linked[t.entry].ctx = None
            /\ ~y.linked[t.entry].orphan
       /\ t.kind # "js" =>
            /\ t.slot \in Contexts /\ t.gen <= y.ctx[t.slot].gen
            /\ Live(y, t.slot, t.gen) => t.cid <= y.ctx[t.slot].cid
       /\ t.stage = "late" => t.kind = "call"
       /\ t.stage = "settle" => Approval(t)
       /\ t.kind = "regrant" => Current(y, t)
       /\ Approval(t) /\ y.ctx[t.slot].live /\ y.ctx[t.slot].exit = "grant"
            => t.gen = y.ctx[t.slot].gen
      BY <2>1, <1>3, <1>4 DEF SettlerInv
    <3>2. /\ s.slot \in Contexts /\ s.gen <= y.ctx[s.slot].gen
          /\ s.cid <= y.ctx[s.slot].cid /\ s.gen = y.ctx[s.slot].gen
      BY <2>2
    <3> QED BY <3>1, <3>2, <2>3, <1>4
  <2>5. \A t \in y.settlers : Acting(x, t) =>
            LET k == x.ctx[t.slot] IN
              /\ Names(x, {}, t.entry, t.slot) /\ k.park = t.park
              /\ k.exit = IF t.kind = "call" THEN "call" ELSE "grant"
              /\ k.moved <=> t.stage = "settle"
              /\ t.kind # "regrant" => ~x.linked[t.entry].orphan
    <3>1. \A t \in x.settlers : Acting(x, t) =>
            LET k == x.ctx[t.slot] IN
              /\ Names(x, {}, t.entry, t.slot) /\ k.park = t.park
              /\ k.exit = IF t.kind = "call" THEN "call" ELSE "grant"
              /\ k.moved <=> t.stage = "settle"
              /\ t.kind # "regrant" => ~x.linked[t.entry].orphan
      BY <2>1 DEF SettlerInv
    <3> QED BY <3>1
  <2>6. \A t, v \in y.settlers : Acting(x, t) /\ Acting(x, v) /\ t.slot = v.slot => t = v
    BY <2>1 DEF SettlerInv
  <2> QED BY <2>4, <2>5, <2>6, <1>2, <1>4 DEF SettlerInv
<1> QED BY <1>5, <1>6, <1>7, <1>8, <1>9 DEF Good, Inv

\* An orphan entry whose context has not moved has no continuation but a resumed one.
LEMMA OrphanIsAlone ==
  ASSUME NEW x, Good(x), NEW e \in 1 .. Entries, NEW c \in Contexts, Names(x, {}, e, c),
         x.linked[e].orphan,
         \A t \in x.settlers : t.kind = "regrant" => t.entry # e
  PROVE  /\ ~x.ctx[c].moved
         /\ \A t \in x.settlers : Acting(x, t) => t.slot # c
<1>1. x \in StateType /\ SettlerInv(x, {}) /\ EntryInv(x, {}) /\ WakeInv(x)
  BY DEF Good, Inv
<1>2. \A t \in x.settlers : Acting(x, t) => t.slot # c
  <2> SUFFICES ASSUME NEW t \in x.settlers, Acting(x, t), t.slot = c PROVE FALSE
    OBVIOUS
  <2>1. t.entry \in 1 .. Entries /\ Names(x, {}, t.entry, c)
    BY ActingMeans
  <2>2. t.entry = e
    BY <1>1, <2>1 DEF EntryInv
  <2>3. t.kind = "regrant"
    BY <1>1, <2>2 DEF SettlerInv
  <2> QED BY <2>2, <2>3
<1>3. ~x.ctx[c].moved
  <2> SUFFICES ASSUME x.ctx[c].moved PROVE FALSE
    OBVIOUS
  <2>1. x.ctx[c].live /\ <<c, x.ctx[c].gen>> \notin x.wakes
    BY <1>1 DEF EntryInv
  <2>2. PICK t \in x.settlers : t.stage = "settle" /\ t.slot = c /\ t.gen = x.ctx[c].gen
                                /\ t.cid = x.ctx[c].cid
    BY <1>1, <2>1 DEF WakeInv, Ready
  <2>3. Acting(x, t)
    BY <1>1, <2>1, <2>2 DEF SettlerInv, Acting, Current, Live, Approval
  <2> QED BY <1>2, <2>2, <2>3
<1> QED BY <1>2, <1>3

LEMMA ResumeGrantGood ==
  ASSUME Good(st), NEW e \in 1 .. Entries, ResumeGrant(e)
  PROVE  Good(st') /\ Fades(st, st')
<1> DEFINE x == st
           y == st'
           c == x.linked[e].ctx
           s == [kind |-> "regrant", slot |-> c, gen |-> x.linked[e].gen,
                 cid |-> x.ctx[c].cid, entry |-> e, park |-> x.linked[e].park,
                 stage |-> "pending"]
           settlers == x.settlers \cup {s}
<1>1. /\ x.linked[e].orphan /\ c # None /\ x.ctx[c].exit = "grant"
      /\ \A t \in x.settlers : t.kind = "regrant" => t.entry # e
      /\ y = [x EXCEPT !.settlers = settlers]
  BY DEF ResumeGrant, ForGrant
<1>2. x \in StateType /\ Inv(x, {}) /\ Good(x)
  BY DEF Good
<1> HIDE DEF x, y
<1>3. x.linked[e] \in EntryFields /\ x.linked[e].live
  BY <1>1, <1>2 DEF StateType, EntryType
<1>4. c \in Contexts /\ Names(x, {}, e, c)
  BY <1>1, <1>3 DEF EntryFields, Names
<1> DEFINE gen == x.linked[e].gen
           cid == x.ctx[c].cid
           park == x.linked[e].park
<1>5. /\ gen = x.ctx[c].gen /\ park = x.ctx[c].park
      /\ gen \in Nat /\ cid \in Nat /\ park \in Nat
  BY <1>2, <1>3, <1>4 DEF Inv, EntryInv, EntryFields, StateType, ContextType
<1>6. s = [kind |-> "regrant", slot |-> c, gen |-> gen, cid |-> cid, entry |-> e,
           park |-> park, stage |-> "pending"]
  OBVIOUS
<1>7. cid = x.ctx[c].cid
  OBVIOUS
<1> HIDE DEF s, gen, cid, park
<1> HIDE DEF c
<1>8. s \in SettlerType
  BY <1>4, <1>5, <1>6 DEF SettlerType
<1>9. /\ s.kind = "regrant" /\ s.slot = c /\ s.gen = x.ctx[c].gen /\ s.cid = x.ctx[c].cid
      /\ s.entry = e /\ s.park = x.ctx[c].park /\ s.stage = "pending"
  BY <1>5, <1>6, <1>7
<1>10. settlers \in SUBSET SettlerType /\ settlers = x.settlers \cup {s}
  BY <1>2, <1>8 DEF StateType
<1> HIDE DEF settlers
<1>11. /\ y \in StateType /\ y.ctx = x.ctx /\ y.linked = x.linked /\ y.free = x.free
       /\ y.promises = x.promises /\ y.wakes = x.wakes /\ y.settlers = settlers
  BY <1>1, <1>2, <1>10 DEF StateType
<1>12. ~x.ctx[c].moved /\ \A t \in x.settlers : Acting(x, t) => t.slot # c
  BY <1>1, <1>2, <1>4, OrphanIsAlone
<1>13. y.settlers = x.settlers \cup {s}
  BY <1>10, <1>11
<1>14. x.ctx[c].exit = "grant"
  BY <1>1
<1>15. Good(y)
  BY <1>2, <1>4, <1>9, <1>11, <1>12, <1>13, <1>14, RegrantKeeps
<1>16. Fades(x, y)
  BY <1>11, FadesSame
<1> QED BY <1>15, <1>16 DEF x, y

LEMMA NamedMeans ==
  ASSUME NEW x, NEW D, EntryInv(x, D), NEW e \in 1 .. Entries, NEW c \in Contexts,
         Names(x, D, e, c)
  PROVE  /\ x.ctx[c].live /\ x.linked[e].gen = x.ctx[c].gen /\ x.linked[e].park = x.ctx[c].park
         /\ x.ctx[c].exit \in {"call", "grant"} /\ x.ctx[c].stash = 0
         /\ <<c, x.ctx[c].gen>> \notin x.wakes
BY DEF EntryInv

\* Settling an entry that nobody else will answer
LEMMA SettledBySlotGood ==
  ASSUME NEW x, Good(x), NEW e \in 1 .. Entries, NEW status \in Status,
         \A t \in x.settlers : t.kind = "js" => t.entry # e,
         \A c \in Contexts : Names(x, {}, e, c) =>
           /\ x.ctx[c].exit = "call" /\ ~x.ctx[c].moved
           /\ \A t \in x.settlers : Acting(x, t) => t.slot # c,
         NEW y, y \in SettledBySlot(x, e, status)
  PROVE  /\ Good(y)
         /\ \/ Fades(x, y)
            \/ /\ x.linked[e].live /\ x.linked[e].ctx = None
               /\ x.promises[x.linked[e].promise].status = "pending"
               /\ y = EntryFreed(SettledAs(x, x.linked[e].promise, status), e)
<1> DEFINE c == x.linked[e].ctx
           gen == x.linked[e].gen
           park == x.linked[e].park
           p == x.linked[e].promise
           waker == [slot |-> c, gen |-> gen, entry |-> e]
<1>1. x \in StateType /\ Inv(x, {})
  BY DEF Good
<1>2. \/ y = x
      \/ /\ x.linked[e].live /\ c # None /\ ~Live(x, c, gen)
      \/ /\ x.linked[e].live /\ c # None
         /\ y \in {Woken(Answered(x, c, park), waker),
                   Woken([x EXCEPT !.ctx[c].stash = park], waker)}
      \/ /\ x.linked[e].live /\ c = None
         /\ \/ y = EntryFreed(x, e)
            \/ /\ x.promises[p].status = "pending"
               /\ y = EntryFreed(SettledAs(x, p, status), e)
  BY DEF SettledBySlot
<1>3. x.linked[e] \in EntryFields
  BY <1>1 DEF StateType, EntryType
<1>4. ASSUME x.linked[e].live, c # None
      PROVE  /\ c \in Contexts /\ Names(x, {}, e, c)
             /\ x.ctx[c].live /\ gen = x.ctx[c].gen /\ park = x.ctx[c].park
             /\ Live(x, c, gen)
  <2>1. c \in Contexts /\ Names(x, {}, e, c)
    BY <1>3, <1>4 DEF EntryFields, Names
  <2>2. x.ctx[c].live /\ gen = x.ctx[c].gen /\ park = x.ctx[c].park
    <3>1. EntryInv(x, {})
      BY <1>1 DEF Inv
    <3>2. \A d \in Contexts : Names(x, {}, e, d) =>
            /\ x.ctx[d].live /\ x.linked[e].gen = x.ctx[d].gen
            /\ x.linked[e].park = x.ctx[d].park
      BY <3>1 DEF EntryInv
    <3> HIDE DEF c
    <3> QED BY <2>1, <3>2
  <2> QED BY <2>1, <2>2 DEF Live
<1>5. CASE y = x
  BY <1>5, FadesSame
<1>6. CASE /\ x.linked[e].live /\ c # None
           /\ y \in {Woken(Answered(x, c, park), waker),
                     Woken([x EXCEPT !.ctx[c].stash = park], waker)}
  <2>1. /\ c \in Contexts /\ Names(x, {}, e, c)
        /\ x.ctx[c].live /\ gen = x.ctx[c].gen /\ park = x.ctx[c].park
    BY <1>4, <1>6
  <2>2. /\ x.ctx[c].exit = "call" /\ ~x.ctx[c].moved
        /\ \A t \in x.settlers : Acting(x, t) => t.slot # c
    BY <2>1
  <2>3. x.ctx[c].inbox = <<>>
    BY <1>1, <2>1, <2>2 DEF Inv, CtxInv
  <2>4. waker.slot = c /\ waker.gen = gen /\ waker.entry = e
    OBVIOUS
  <2> HIDE DEF waker
  <2> HIDE DEF c, gen, park
  <2>5. CASE y = Woken(Answered(x, c, park), waker)
    <3> DEFINE z == Answered(x, c, park)
    <3>1. z \in StateType /\ z.linked = x.linked /\ Delivered(x, Enqueued(z, c, gen), c)
      <4> HIDE DEF z
      <4> QED BY <1>1, <2>1, <2>3, AnsweredDelivers DEF z
    <3> HIDE DEF z
    <3>2. Woken(z, waker) \in StateType /\ Inv(Woken(z, waker), {})
         /\ Fades(x, Woken(z, waker))
      BY <1>1, <2>1, <2>2, <2>4, <3>1, WokenKeeps
    <3> QED BY <2>5, <3>2 DEF Good, z
  <2>6. CASE y = Woken([x EXCEPT !.ctx[c].stash = park], waker)
    <3> DEFINE z == [x EXCEPT !.ctx[c].stash = park]
    <3>1. z \in StateType /\ z.linked = x.linked /\ Delivered(x, Enqueued(z, c, gen), c)
      BY <1>1, <2>1, <2>2, StashDelivers
    <3> HIDE DEF z
    <3>2. Woken(z, waker) \in StateType /\ Inv(Woken(z, waker), {})
         /\ Fades(x, Woken(z, waker))
      BY <1>1, <2>1, <2>2, <2>4, <3>1, WokenKeeps
    <3> QED BY <2>6, <3>2 DEF Good, z
  <2> QED BY <1>6, <2>5, <2>6 DEF c, gen, park
<1>7. CASE /\ x.linked[e].live /\ c = None
           /\ \/ y = EntryFreed(x, e)
              \/ /\ x.promises[p].status = "pending"
                 /\ y = EntryFreed(SettledAs(x, p, status), e)
  <2>1. CASE y = EntryFreed(x, e)
    <3>1. /\ Inv(y, {}) /\ y \in StateType /\ y.ctx = x.ctx /\ y.promises = x.promises
          /\ \A f \in 1 .. Entries : y.linked[f] = IF f = e THEN NoEntry ELSE x.linked[f]
      BY <1>1, <1>7, <2>1, EntryFreedKeeps
    <3>2. Fades(x, y)
      BY <3>1 DEF Fades, NoEntry
    <3> QED BY <3>1, <3>2 DEF Good
  <2>2. CASE /\ x.promises[p].status = "pending"
             /\ y = EntryFreed(SettledAs(x, p, status), e)
    <3> DEFINE z == SettledAs(x, p, status)
    <3>1. Made(x, p)
      BY <1>1, <1>7 DEF Inv, PromiseInv
    <3>2. Inv(z, {}) /\ Cascades(x, z)
      <4> HIDE DEF p
      <4> QED BY <1>1, <3>1, SettledAsKeeps DEF Made
    <3>3. y = EntryFreed(z, e)
      BY <2>2
    <3> HIDE DEF z, p
    <3>4. z \in StateType /\ z.linked = x.linked /\ z.settlers = x.settlers
      BY <3>2 DEF Cascades
    <3>5. Good(y)
      BY <1>7, <3>2, <3>3, <3>4, EntryFreedKeeps DEF Good
    <3> QED BY <1>7, <2>2, <3>5 DEF p
  <2> QED BY <1>7, <2>1, <2>2
<1> QED BY <1>2, <1>4, <1>5, <1>6, <1>7

LEMMA SettleLinkedGood ==
  ASSUME Good(st), NEW s \in st.settlers, NEW status \in Status, SettleLinked(s, status)
  PROVE  /\ Good(st')
         /\ \E x : /\ Good(x) /\ Fades(st, x)
                  /\ \/ Fades(x, st')
                     \/ /\ x.linked[s.entry].live /\ x.linked[s.entry].ctx = None
                        /\ x.promises[x.linked[s.entry].promise].status = "pending"
                        /\ st' = EntryFreed(SettledAs(x, x.linked[s.entry].promise, status),
                                            s.entry)
<1> DEFINE x == Done(st, s)
           e == s.entry
<1>1. s.kind = "js" /\ st' \in SettledBySlot(x, e, status)
  BY DEF SettleLinked
<1>2. /\ st \in StateType /\ SettlerInv(st, {}) /\ s \in SettlerType /\ e \in 1 .. Entries
  BY DEF Good, Inv, StateType, SettlerType
<1>3. Good(x) /\ Fades(st, x) /\ x.linked = st.linked /\ x.settlers = st.settlers \ {s}
  <2>1. ~Current(st, s)
    BY <1>1 DEF Current
  <2> QED BY <2>1, DoneGood
<1> HIDE DEF x
<1>4. \A t \in x.settlers : t.kind = "js" => t.entry # e
  <2> SUFFICES ASSUME NEW t \in st.settlers, t # s, t.kind = "js", t.entry = e PROVE FALSE
    BY <1>3
  <2>1. t \in SettlerType
    BY <1>2 DEF StateType
  <2>2. \A u \in {s, t} : /\ u.kind = "js" /\ u.stage = "pending" /\ u.slot = None /\ u.gen = 0
                          /\ u.cid = 0 /\ u.park = 0
    BY <1>1, <1>2 DEF SettlerInv
  <2>3. t = s
    BY <1>2, <2>1, <2>2 DEF SettlerType
  <2> QED BY <2>3
<1>5. \A c \in Contexts : ~Names(x, {}, e, c)
  <2>1. st.linked[e].ctx = None
    BY <1>1, <1>2 DEF SettlerInv
  <2> QED BY <1>3, <2>1 DEF Names, None, Contexts
<1> HIDE DEF e
<1>6. /\ Good(st')
      /\ \/ Fades(x, st')
         \/ /\ x.linked[e].live /\ x.linked[e].ctx = None
            /\ x.promises[x.linked[e].promise].status = "pending"
            /\ st' = EntryFreed(SettledAs(x, x.linked[e].promise, status), e)
  BY <1>1, <1>2, <1>3, <1>4, <1>5, SettledBySlotGood
<1> QED BY <1>3, <1>6 DEF e

LEMMA EmbedderSettleGood ==
  ASSUME Good(st), NEW e \in 1 .. Entries, NEW status \in Status, EmbedderSettle(e, status)
  PROVE  /\ Good(st')
         /\ \/ Fades(st, st')
            \/ /\ st.linked[e].live /\ st.linked[e].ctx = None
               /\ st.promises[st.linked[e].promise].status = "pending"
               /\ st' = EntryFreed(SettledAs(st, st.linked[e].promise, status), e)
<1>1. /\ st.linked[e].orphan /\ ~ForGrant(e) /\ st' \in SettledBySlot(st, e, status)
  BY DEF EmbedderSettle
<1>2. SettlerInv(st, {}) /\ EntryInv(st, {})
  BY DEF Good, Inv
<1>3. \A t \in st.settlers : t.kind = "js" => t.entry # e
  BY <1>1, <1>2 DEF SettlerInv
<1>4. ASSUME NEW c \in Contexts, Names(st, {}, e, c)
      PROVE  /\ st.ctx[c].exit = "call" /\ ~st.ctx[c].moved
             /\ \A t \in st.settlers : Acting(st, t) => t.slot # c
  <2>1. st.linked[e].ctx = c /\ c # None
    BY <1>4 DEF Names, Contexts, None
  <2>2. st.ctx[c].exit = "call"
    <3>1. st.ctx[c].exit \in {"call", "grant"}
      BY <1>2, <1>4, NamedMeans
    <3>2. st.ctx[c].exit # "grant"
      BY <1>1, <2>1 DEF ForGrant
    <3> QED BY <3>1, <3>2
  <2>3. \A t \in st.settlers : t.kind = "regrant" => t.entry # e
    <3> SUFFICES ASSUME NEW t \in st.settlers, t.kind = "regrant", t.entry = e PROVE FALSE
      OBVIOUS
    <3>1. Acting(st, t)
      BY <1>2 DEF SettlerInv, Acting
    <3>2. Names(st, {}, e, t.slot) /\ st.ctx[t.slot].exit = "grant"
      BY <3>1, ActingMeans
    <3> QED BY <2>1, <2>2, <3>2 DEF Names
  <2> QED BY <1>1, <1>4, <2>2, <2>3, OrphanIsAlone
<1> QED BY <1>1, <1>3, <1>4, SettledBySlotGood

LEMMA WaitersStay ==
  ASSUME NEW x, NEW y, WaiterInv(x), y.ctx = x.ctx, y.promises = x.promises
  PROVE  WaiterInv(y)
BY DEF WaiterInv

\* An entry that names no context may be left out of account.
LEMMA DroppedKeeps ==
  ASSUME NEW x, NEW D, Inv(x, D), x.settlers = {}, NEW e \in 1 .. Entries,
         \A c \in Contexts : ~Names(x, D, e, c)
  PROVE  Inv(x, D \cup {e})
<1> DEFINE E == D \cup {e}
<1>1. \A f \in 1 .. Entries, c \in Contexts : Names(x, E, f, c) <=> Names(x, D, f, c)
  BY DEF Names
<1> HIDE DEF E
<1>2. EntryInv(x, E)
  BY <1>1 DEF Inv, EntryInv
<1>3. SettlerInv(x, E)
  BY DEF SettlerInv
<1> QED BY <1>2, <1>3 DEF Inv, E

\* Rejecting one entry, after those of D, when no continuation is left
LEMMA OrphanRejectedKeeps ==
  ASSUME NEW x \in StateType, NEW D, Inv(x, D), x.settlers = {},
         NEW e \in 1 .. Entries, e \notin D, NEW y, y = OrphanRejected(x, e)
  PROVE  /\ Inv(y, D \cup {e}) /\ y \in StateType /\ y.linked = x.linked /\ y.settlers = {}
         /\ \/ Fades(x, y)
            \/ /\ x.linked[e].live /\ x.linked[e].ctx = None
               /\ x.promises[x.linked[e].promise].status = "pending"
               /\ y = SettledAs(x, x.linked[e].promise, "rejected")
<1> DEFINE c == x.linked[e].ctx
           gen == x.linked[e].gen
           park == x.linked[e].park
           p == x.linked[e].promise
           live == x.linked[e].live
<1>1. \/ y = x /\ (~live \/ c = None \/ ~Live(x, c, gen))
      \/ live /\ c # None /\ y = Enqueued(Answered(x, c, park), c, gen)
      \/ /\ live /\ c = None /\ x.promises[p].status = "pending"
         /\ y = SettledAs(x, p, "rejected")
  BY DEF OrphanRejected
<1>2. x.linked[e] \in EntryFields
  BY DEF StateType, EntryType
<1>3. ASSUME live, c # None
      PROVE  /\ c \in Contexts /\ Names(x, D, e, c)
             /\ x.ctx[c].live /\ gen = x.ctx[c].gen /\ park = x.ctx[c].park
             /\ Live(x, c, gen) /\ x.ctx[c].exit \in {"call", "grant"}
             /\ <<c, x.ctx[c].gen>> \notin x.wakes
  <2>1. c \in Contexts /\ Names(x, D, e, c)
    BY <1>2, <1>3 DEF EntryFields, Names
  <2>2. EntryInv(x, D)
    BY DEF Inv
  <2>3. \A d \in Contexts : Names(x, D, e, d) =>
          /\ x.ctx[d].live /\ x.linked[e].gen = x.ctx[d].gen
          /\ x.linked[e].park = x.ctx[d].park /\ x.ctx[d].exit \in {"call", "grant"}
          /\ <<d, x.ctx[d].gen>> \notin x.wakes
    BY <2>2 DEF EntryInv
  <2>4. /\ x.ctx[c].live /\ gen = x.ctx[c].gen /\ park = x.ctx[c].park
        /\ x.ctx[c].exit \in {"call", "grant"} /\ <<c, x.ctx[c].gen>> \notin x.wakes
    <3> HIDE DEF c
    <3> QED BY <2>1, <2>3
  <2> QED BY <2>1, <2>4 DEF Live
<1>4. None \notin Contexts
  BY DEF None, Contexts
<1>5. CASE y = x /\ (~live \/ c = None \/ ~Live(x, c, gen))
  <2>1. \A d \in Contexts : ~Names(x, D, e, d)
    BY <1>3, <1>4, <1>5 DEF Names
  <2> QED BY <1>5, <2>1, DroppedKeeps, FadesSame
<1>6. CASE live /\ c # None /\ y = Enqueued(Answered(x, c, park), c, gen)
  <2>1. /\ c \in Contexts /\ Names(x, D, e, c)
        /\ x.ctx[c].live /\ gen = x.ctx[c].gen /\ park = x.ctx[c].park
        /\ x.ctx[c].exit \in {"call", "grant"} /\ <<c, x.ctx[c].gen>> \notin x.wakes
    BY <1>3, <1>6
  <2> HIDE DEF c, gen, park
  <2>2. ~x.ctx[c].moved
    BY <2>1 DEF Inv, WakeInv, Ready
  <2>3. x.ctx[c].inbox = <<>>
    BY <2>1, <2>2 DEF Inv, CtxInv
  <2>4. Delivered(x, y, c)
    BY <1>6, <2>1, <2>3, AnsweredDelivers
  <2>5. Inv(y, D \cup {e})
    BY <2>1, <2>2, <2>4, DeliveredKeeps
  <2>6. Fades(x, y)
    BY <2>4 DEF Delivered, Given, Stashed, Fades
  <2> QED BY <2>4, <2>5, <2>6 DEF Delivered
<1>7. CASE /\ live /\ c = None /\ x.promises[p].status = "pending"
           /\ y = SettledAs(x, p, "rejected")
  <2>1. Made(x, p)
    BY <1>7 DEF Inv, PromiseInv
  <2>1a. x.linked[e].live /\ x.linked[e].ctx = None
    BY <1>7
  <2> HIDE DEF p
  <2>2. Inv(y, D) /\ Cascades(x, y)
    BY <1>7, <2>1, SettledAsKeeps DEF Made, Status
  <2>3. y \in StateType /\ y.linked = x.linked /\ y.settlers = {}
    BY <2>2 DEF Cascades
  <2>4. \A d \in Contexts : ~Names(y, D, e, d)
    BY <1>4, <1>7, <2>3 DEF Names
  <2> QED BY <1>7, <2>1a, <2>2, <2>3, <2>4, DroppedKeeps DEF p
<1> QED BY <1>1, <1>5, <1>6, <1>7

\* The entries 1 .. n have been rejected.
Swept(x, n) ==
  /\ x \in StateType /\ Inv(x, 1 .. n) /\ x.linked = st.linked /\ x.settlers = {}

LEMMA SweptOne ==
  ASSUME NEW x, NEW n \in 1 .. Entries, Swept(x, n - 1)
  PROVE  Swept(OrphanRejected(x, n), n)
<1> DEFINE D == 1 .. (n - 1)
           y == OrphanRejected(x, n)
<1>1. n \notin D /\ 1 .. n = D \cup {n}
  BY SettlementAssumption
<1>2. x \in StateType /\ Inv(x, D) /\ x.settlers = {} /\ x.linked = st.linked
  BY DEF Swept
<1> HIDE DEF D
<1>3. /\ Inv(y, D \cup {n}) /\ y \in StateType /\ y.linked = x.linked /\ y.settlers = {}
  <2> HIDE DEF y
  <2>1. y = OrphanRejected(x, n)
    BY DEF y
  <2> QED BY <1>1, <1>2, <2>1, OrphanRejectedKeeps
<1> QED BY <1>1, <1>2, <1>3 DEF Swept

\* A table whose live entries have all been rejected is cleared.
LEMMA ClearedGood ==
  ASSUME NEW x, Swept(x, Entries), NEW S, S = {e \in 1 .. Entries : st.linked[e].live},
         NEW y, y = EntriesFreed(x, S)
  PROVE  Good(y)
<1>1. /\ x \in StateType /\ Inv(x, 1 .. Entries) /\ x.linked = st.linked /\ x.settlers = {}
      /\ FreeInv(x)
  BY DEF Swept, Inv
<1>2. /\ y \in StateType /\ FreeInv(y)
      /\ y.ctx = x.ctx /\ y.promises = x.promises /\ y.settlers = x.settlers
      /\ y.wakes = x.wakes
      /\ \A e \in 1 .. Entries : y.linked[e] = IF e \in S THEN NoEntry ELSE x.linked[e]
  <2>1. S \in SUBSET (1 .. Entries) /\ \A e \in S : x.linked[e].live
    BY <1>1
  <2> QED BY <1>1, <2>1, EntriesFreedFields
<1>3. \A e \in 1 .. Entries : ~y.linked[e].live
  BY <1>1, <1>2 DEF NoEntry
<1>4. \A e \in 1 .. Entries, c \in Contexts : ~Names(y, {}, e, c)
  BY <1>3 DEF Names
<1>5. \A e \in 1 .. Entries, c \in Contexts : ~Names(x, 1 .. Entries, e, c)
  BY DEF Names
<1>6. CtxInv(y) /\ WaiterInv(y)
  <2>1. CtxInv(x) /\ WaiterInv(x)
    BY <1>1 DEF Inv
  <2>2. y.ctx = x.ctx /\ y.promises = x.promises
    BY <1>2
  <2>3. CtxInv(y)
    BY <2>1, <2>2 DEF CtxInv
  <2>4. WaiterInv(y)
    BY <2>1, <2>2, WaitersStay
  <2> QED BY <2>3, <2>4
<1>7. PromiseInv(y)
  <2>1. \A p : Made(y, p) <=> Made(x, p)
    BY <1>2 DEF Made
  <2> QED BY <1>1, <1>2, <1>3, <2>1 DEF Inv, PromiseInv
<1>8. EntryInv(y, {})
  <2>1. EntryInv(x, 1 .. Entries)
    BY <1>1 DEF Inv
  <2>2. \A c \in Contexts : LET k == y.ctx[c] IN
          ~(k.live /\ k.exit \in {"call", "grant"} /\ k.stash = 0 /\ ~k.moved)
    BY <1>2, <1>5, <2>1 DEF EntryInv
  <2> QED BY <1>4, <2>2 DEF EntryInv
<1>9. WakeInv(y)
  <2>1. \A c, gen : Live(y, c, gen) <=> Live(x, c, gen)
    BY <1>2 DEF Live
  <2> QED BY <1>1, <1>2, <2>1 DEF Inv, WakeInv
<1>10. SettlerInv(y, {})
  BY <1>1, <1>2 DEF SettlerInv
<1> QED BY <1>2, <1>6, <1>7, <1>8, <1>9, <1>10 DEF Good, Inv

LiveEntries(x) == {e \in 1 .. Entries : x.linked[e].live}

\* The states that the sweep goes through
Sweep(f) == f[0] = st /\ \A i \in 1 .. Entries : f[i] = OrphanRejected(f[i - 1], i)

LEMMA RejectOrphansRuns ==
  ASSUME RejectOrphans
  PROVE  /\ st.settlers = {}
         /\ \E f : Sweep(f) /\ st' = EntriesFreed(f[Entries], LiveEntries(st))
<1> DEFINE N == Entries
           more(i, prev) == IF i = 0 THEN st ELSE OrphanRejected(prev, i)
           Run(f, n) == f = [i \in 0 .. n |-> more(i, f[i - 1])]
<1>1. N \in Nat
  BY SettlementAssumption
<1>2. st.settlers = {} /\ st' = EntriesFreed((CHOOSE f : Run(f, N))[N], LiveEntries(st))
  BY DEF RejectOrphans, LiveEntries
<1>3. \A prev : more(0, prev) = st
  OBVIOUS
<1>4. \A i \in 1 .. N : \A prev : more(i, prev) = OrphanRejected(prev, i)
  OBVIOUS
<1> HIDE DEF more
<1>5. ASSUME NEW n, NEW f, Run(f, n)
      PROVE  \A i \in 0 .. n : f[i] = more(i, f[i - 1])
  <2> DEFINE e(i) == more(i, f[i - 1])
  <2>1. f = [i \in 0 .. n |-> e(i)]
    BY <1>5
  <2> HIDE DEF e
  <2>2. \A i \in 0 .. n : f[i] = e(i)
    BY <2>1
  <2> QED
    BY <2>2 DEF e
<1>6. ASSUME NEW n, NEW f, f = [i \in 0 .. n |-> f[i]],
             \A i \in 0 .. n : f[i] = more(i, f[i - 1])
      PROVE  Run(f, n)
  <2> DEFINE e(i) == more(i, f[i - 1])
  <2>1. f = [i \in 0 .. n |-> f[i]] /\ \A i \in 0 .. n : f[i] = e(i)
    BY <1>6
  <2> HIDE DEF e
  <2>2. f = [i \in 0 .. n |-> e(i)]
    BY <2>1
  <2> QED
    BY <2>2 DEF e
<1> HIDE DEF Run
<1>7. \A n \in 0 .. N : \E f : Run(f, n)
  <2> DEFINE bad == {n \in 0 .. N : ~\E f : Run(f, n)}
  <2>1. SUFFICES ASSUME bad # {} PROVE FALSE
    OBVIOUS
  <2>2. bad \in SUBSET Nat
    BY <1>1
  <2>3. PICK n \in bad : \A k \in bad : n <= k
    BY <2>1, <2>2, LeastNat
  <2>4. n \in 0 .. N /\ ~\E f : Run(f, n)
    OBVIOUS
  <2>5. \A k \in 0 .. N : k < n => \E f : Run(f, k)
    <3> TAKE k \in 0 .. N
    <3> HAVE k < n
    <3>1. k \notin bad
      BY <1>1, <2>3, <2>4
    <3> QED
      BY <3>1
  <2> HIDE DEF bad
  <2>6. PICK f : n # 0 => Run(f, n - 1)
    <3>1. n # 0 => n - 1 \in 0 .. N /\ n - 1 < n
      BY <1>1, <2>4
    <3> QED
      BY <2>5, <3>1
  <2> DEFINE g == [i \in 0 .. n |-> IF i = n THEN more(n, f[n - 1]) ELSE f[i]]
  <2>7. /\ g = [i \in 0 .. n |-> g[i]]
        /\ g[n] = more(n, f[n - 1])
        /\ \A i \in 0 .. n : i # n => g[i] = f[i]
    BY <1>1, <2>4
  <2> HIDE DEF g
  <2>8. \A i \in 0 .. n : g[i] = more(i, g[i - 1])
    <3> TAKE i \in 0 .. n
    <3>1. i = 0 => more(i, g[i - 1]) = more(i, f[i - 1])
      BY <1>3
    <3>2. i # 0 => i - 1 \in 0 .. n /\ i - 1 # n
      BY <1>1, <2>4
    <3>3. more(i, g[i - 1]) = more(i, f[i - 1])
      BY <2>7, <3>1, <3>2
    <3>4. CASE i = n
      BY <2>7, <3>3, <3>4
    <3>5. CASE i # n
      <4>1. n # 0 /\ i \in 0 .. n - 1
        BY <1>1, <2>4, <3>5
      <4>2. f[i] = more(i, f[i - 1])
        BY <1>5, <2>6, <4>1
      <4> QED
        BY <2>7, <3>3, <3>5, <4>2
    <3> QED
      BY <3>4, <3>5
  <2>9. Run(g, n)
    BY <1>6, <2>7, <2>8
  <2> QED
    BY <2>4, <2>9
<1> DEFINE f == CHOOSE g : Run(g, N)
<1>8. Run(f, N) /\ st' = EntriesFreed(f[N], LiveEntries(st))
  <2>1. \E g : Run(g, N)
    BY <1>1, <1>7
  <2> QED
    BY <1>2, <2>1
<1> HIDE DEF f
<1>9. f[0] = st /\ \A i \in 1 .. N : f[i] = OrphanRejected(f[i - 1], i)
  <2>1. \A i \in 0 .. N : f[i] = more(i, f[i - 1])
    BY <1>5, <1>8
  <2>2. 0 \in 0 .. N /\ \A i \in 1 .. N : i \in 0 .. N
    BY <1>1
  <2> QED
    BY <1>3, <1>4, <2>1, <2>2
<1>10. Sweep(f)
  BY <1>9 DEF Sweep
<1> QED BY <1>2, <1>8, <1>10

LEMMA RejectOrphansGood ==
  ASSUME Good(st), RejectOrphans
  PROVE  Good(st')
<1>0. PICK f : Sweep(f) /\ st' = EntriesFreed(f[Entries], LiveEntries(st))
  BY RejectOrphansRuns
<1> DEFINE N == Entries
<1>1. N \in Nat
  BY SettlementAssumption
<1>2. st.settlers = {}
  BY RejectOrphansRuns
<1>3. f[0] = st /\ \A i \in 1 .. N : f[i] = OrphanRejected(f[i - 1], i)
  BY <1>0 DEF Sweep
<1>4. Swept(f[0], 0)
  <2>1. 1 .. 0 = {}
    OBVIOUS
  <2> QED BY <1>2, <1>3, <2>1 DEF Swept, Good
<1>5. \A n \in 0 .. N : Swept(f[n], n)
  <2> DEFINE bad == {n \in 0 .. N : ~Swept(f[n], n)}
  <2>1. SUFFICES ASSUME bad # {} PROVE FALSE
    OBVIOUS
  <2>2. bad \in SUBSET Nat
    BY <1>1
  <2>3. PICK n \in bad : \A k \in bad : n <= k
    BY <2>1, <2>2, LeastNat
  <2>4. n \in 0 .. N /\ ~Swept(f[n], n)
    OBVIOUS
  <2>5. n # 0
    BY <1>4, <2>4
  <2>6. n \in 1 .. N /\ n - 1 \in 0 .. N /\ n - 1 < n
    BY <1>1, <2>4, <2>5
  <2>7. Swept(f[n - 1], n - 1)
    <3>1. n - 1 \notin bad
      BY <2>3, <2>6
    <3> QED BY <2>6, <3>1
  <2>8. Swept(f[n], n)
    BY <1>3, <2>6, <2>7, SweptOne
  <2> QED
    BY <2>4, <2>8
<1>6. Swept(f[N], N)
  BY <1>1, <1>5
<1> QED BY <1>0, <1>6, ClearedGood DEF LiveEntries

(***************************************************************************)
(* The theorems.                                                           *)
(***************************************************************************)
\* Every step keeps the invariant.
LEMMA NextGood ==
  ASSUME Good(st), Disciplined, Next
  PROVE  Good(st')
<1>1. CASE \E c \in Contexts : \/ Suspend(c) \/ RequestGrant(c) \/ Link(c) \/ CancelContext(c)
  BY <1>1, SuspendGood, RequestGrantGood, LinkGood, CancelContextGood
<1>2. CASE \E c \in Contexts : \/ \E status \in Status : Finish(c, status)
                               \/ \E executor \in BOOLEAN : Spawn(c, executor)
  BY <1>2, FinishGood, SpawnGood
<1>3. CASE \E c \in Contexts, p \in Promises : Await(c, p)
  BY <1>3, AwaitGood
<1>4. CASE \E c \in Contexts, p \in Promises, kind \in {"pass", "spawn"} : Then(c, p, kind)
  BY <1>4, ThenGood
<1>5. CASE \E c \in Contexts, p \in Promises, status \in Status : SettleOwn(c, p, status)
  BY <1>5, SettleOwnGood
<1>6. CASE \E c \in Contexts, p \in Promises, q \in Promises, race \in BOOLEAN :
             Aggregate(c, p, q, race)
  BY <1>6, AggregateGood
<1>7. CASE Start
  BY <1>7, StartGood
<1>8. CASE \E s \in st.settlers : Answer(s)
  <2> SUFFICES ASSUME NEW s \in st.settlers, Answer(s) PROVE Good(st')
    BY <1>8
  <2>1. CASE ResolveCall(s)
    BY <2>1, ResolveCallGood
  <2>2. CASE FinalizeGrant(s)
    BY <2>2, FinalizeGrantGood
  <2>3. CASE SettleGrant(s)
    BY <2>3, SettleGrantGood
  <2>4. CASE FailGrant(s)
    BY <2>4, FailGrantGood
  <2>5. CASE \E status \in Status : SettleLinked(s, status)
    BY <2>5, SettleLinkedGood
  <2> QED BY <2>1, <2>2, <2>3, <2>4, <2>5 DEF Answer
<1>9. CASE \E e \in 1 .. Entries : Recover(e)
  BY <1>9, ResumeGrantGood, EmbedderSettleGood DEF Recover
<1>10. CASE Restart
  BY <1>10, RestartGood
<1>11. CASE RejectOrphans
  BY <1>11, RejectOrphansGood
<1> QED BY <1>1, <1>2, <1>3, <1>4, <1>5, <1>6, <1>7, <1>8, <1>9, <1>10, <1>11 DEF Next

\* The invariant of every reachable state, which the theorems below read off.
LEMMA GoodAlways ==
  ASSUME Disciplined
  PROVE  Spec => []Good(st)
<1>1. Init => Good(st)
  BY InitGood
<1>2. Good(st) /\ [Next]_st => Good(st)'
  <2>1. ASSUME Good(st), Next PROVE Good(st')
    BY <2>1, NextGood
  <2>2. ASSUME Good(st), UNCHANGED st PROVE Good(st')
    BY <2>2
  <2> QED BY <2>1, <2>2
<1> QED BY <1>1, <1>2, PTL DEF Spec

\* The state keeps its type: every recorded context, entry, promise, continuation
\* and wake is one that the heap and the tables can hold.
THEOREM SettlementTypes ==
  ASSUME Disciplined
  PROVE  Spec => []TypeOK
<1>1. Good(st) => TypeOK
  BY DEF Good, TypeOK
<1> QED BY <1>1, GoodAlways, PTL

\* OwnAnswer: a parked context is given one answer, the one of its own park.  A
\* continuation checks generation and continuation id before it delivers
\* (airlock.js, _setupSuspension and the grant finalizers); the entry of the
\* table serves whoever answers without one.
THEOREM AnswersAreOwn ==
  ASSUME Disciplined
  PROVE  Spec => []OwnAnswer
<1>1. Good(st) => OwnAnswer
  BY DEF Good, Inv, CtxInv, OwnAnswer
<1> QED BY <1>1, GoodAlways, PTL

\* EntriesMatchParks: the live entries of the linked-promise table that name a
\* context are those of the contexts parked on a call or a grant, one for each.
THEOREM EntriesAreParks ==
  ASSUME Disciplined
  PROVE  Spec => []EntriesMatchParks
<1>1. Good(st) => EntriesMatchParks
  <2> SUFFICES ASSUME Good(st) PROVE EntriesMatchParks
    OBVIOUS
  <2>1. st \in StateType /\ CtxInv(st) /\ EntryInv(st, {})
    BY DEF Good, Inv
  <2> DEFINE named == {e \in 1 .. Entries : st.linked[e].live /\ st.linked[e].ctx # None}
  <2>2. \A e \in named : st.linked[e].ctx \in Contexts /\ Names(st, {}, e, st.linked[e].ctx)
    BY <2>1 DEF StateType, EntryType, EntryFields, Names
  <2>3. \A e \in named : LET k == st.ctx[st.linked[e].ctx] IN
          /\ k.live /\ k.gen = st.linked[e].gen /\ k.park = st.linked[e].park
          /\ Parked(k) \/ k.moved
    <3> SUFFICES ASSUME NEW e \in named
                 PROVE  LET k == st.ctx[st.linked[e].ctx] IN
                          /\ k.live /\ k.gen = st.linked[e].gen /\ k.park = st.linked[e].park
                          /\ Parked(k) \/ k.moved
      OBVIOUS
    <3> DEFINE c == st.linked[e].ctx
    <3>1. e \in 1 .. Entries /\ c \in Contexts /\ Names(st, {}, e, c)
      BY <2>2
    <3> HIDE DEF c
    <3>2. LET k == st.ctx[c] IN
            /\ k.live /\ k.gen = st.linked[e].gen /\ k.park = st.linked[e].park
            /\ k.exit \in {"call", "grant"} /\ k.stash = 0
      BY <2>1, <3>1 DEF EntryInv
    <3>3. Parked(st.ctx[c]) \/ st.ctx[c].moved
      BY <3>2 DEF Parked, Ready
    <3> QED BY <3>2, <3>3 DEF c
  <2>4. ASSUME NEW c \in Contexts, Parked(st.ctx[c]), st.ctx[c].exit # "await"
        PROVE  Cardinality({e \in named : st.linked[e].ctx = c}) = 1
    <3>1. PICK e \in 1 .. Entries : Names(st, {}, e, c)
      BY <2>1, <2>4 DEF EntryInv, Parked, Ready
    <3>2. \A f \in 1 .. Entries : Names(st, {}, f, c) => f = e
      BY <2>1, <3>1 DEF EntryInv
    <3>3. c # None
      BY DEF Contexts, None
    <3>4. {f \in named : st.linked[f].ctx = c} = {e}
      BY <3>1, <3>2, <3>3 DEF Names
    <3> QED BY <3>4, FS_Singleton
  <2> QED BY <2>3, <2>4 DEF EntriesMatchParks
<1> QED BY <1>1, GoodAlways, PTL

\* WakesExact: the wake queue holds only live contexts that have their answer,
\* and every one that has it, but for an approval about to queue it.
THEOREM WakesAreExact ==
  ASSUME Disciplined
  PROVE  Spec => []WakesExact
<1>1. Good(st) => WakesExact
  BY DEF Good, Inv, WakeInv, WakesExact
<1> QED BY <1>1, GoodAlways, PTL

\* WaitersExact: the contexts parked in an await are the waiters of the pending
\* promises, each of one, and a settled promise keeps nobody waiting.
THEOREM WaitersAreExact ==
  ASSUME Disciplined
  PROVE  Spec => []WaitersExact
<1>1. Good(st) => WaitersExact
  <2> SUFFICES ASSUME Good(st) PROVE WaitersExact
    OBVIOUS
  <2>1. st \in StateType /\ CtxInv(st) /\ WaiterInv(st) /\ PromiseInv(st)
    BY DEF Good, Inv
  <2> DEFINE waiters == UNION {st.promises[p].waiters : p \in Promises}
             awaiting == {d \in Contexts : Parked(st.ctx[d]) /\ st.ctx[d].exit = "await"}
             triples == {<<c, st.ctx[c].gen, st.ctx[c].park>> : c \in awaiting}
  <2>2. \A p \in Promises : LET r == st.promises[p] IN
          r.status # "pending" => r.waiters = {} /\ r.handlers = <<>>
    BY <2>1 DEF PromiseInv
  <2>3. \A p, q \in Promises :
          p # q => st.promises[p].waiters \cap st.promises[q].waiters = {}
    BY <2>1 DEF WaiterInv
  <2>4. \A p \in Promises : \A w \in st.promises[p].waiters :
          w \in Contexts \X Nat \X Nat
    BY <2>1 DEF StateType, PromiseType
  <2>5. waiters \subseteq triples
    <3> SUFFICES ASSUME NEW p \in Promises, NEW w \in st.promises[p].waiters
                 PROVE  w \in triples
      OBVIOUS
    <3>1. w = <<w[1], w[2], w[3]>> /\ w[1] \in Contexts
      BY <2>4
    <3>2. /\ st.ctx[w[1]].live /\ st.ctx[w[1]].gen = w[2] /\ st.ctx[w[1]].park = w[3]
          /\ st.ctx[w[1]].exit = "await"
      BY <2>1 DEF WaiterInv
    <3>3. Parked(st.ctx[w[1]])
      BY <2>1, <3>1, <3>2 DEF CtxInv, Parked, Ready
    <3> QED BY <3>1, <3>2, <3>3
  <2>6. triples \subseteq waiters
    <3> SUFFICES ASSUME NEW c \in awaiting
                 PROVE  <<c, st.ctx[c].gen, st.ctx[c].park>> \in waiters
      OBVIOUS
    <3>1. \E p \in Promises : <<c, st.ctx[c].gen, st.ctx[c].park>> \in st.promises[p].waiters
      BY <2>1 DEF WaiterInv, Parked
    <3> QED BY <3>1
  <2> QED BY <2>2, <2>3, <2>5, <2>6 DEF WaitersExact
<1> QED BY <1>1, GoodAlways, PTL

=============================================================================
