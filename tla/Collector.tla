------------------------------ MODULE Collector ------------------------------
(****************************************************************************)
(* The mark-compact collector of a drone heap (src/src/fuel/collector.js)   *)
(* with the string table it compacts in the same pass.                      *)
(*                                                                          *)
(* A heap is a function from HEADER addresses to blocks.  A block of size n *)
(* at address h owns the addresses h .. h+n-1; its DATA address is h + 1.   *)
(* The program mixes the two ways of naming a block, and three walkers over *)
(* the same layout (mark, forward, forward strings) must agree with the     *)
(* allocators on which slot uses which.  The walkers are kept apart here as *)
(* they are in the code: each has its own table of rows.                    *)
(*                                                                          *)
(* One context is parked with a frame, a grant entry and a try entry, as a  *)
(* drive that returned to the host leaves it, on one of the exits whose     *)
(* request block the walkers know, or may not know; the host, or other      *)
(* contexts, change the heap between collections.                           *)
(****************************************************************************)
EXTENDS Integers, FiniteSets, FiniteSetsExt, Sequences, TLC

CONSTANTS
    HeapStart,     \* STATE.HEAP_START: addresses below it are not the heap's
    MaxWrites,     \* bound: stores the program makes
    Types,         \* the value types (TYPE.*) the program uses
    Starts,        \* instruction indexes at which a function may start
    Exits,         \* the exits at which a collection may find the context
    TextRequests   \* whether the request for a promise's method or an async
                   \* call may hold strings, which are not forwarded there

ASSUME HeapStartPositive == HeapStart \in Nat \ {0}
ASSUME StartsAreIndexes == Starts \subseteq Nat

(* Where a context stops with something of the heap outside its stacks:     *)
(* EXIT_AWAIT on a settled promise, a pending one ("waiting") and a plain   *)
(* value ("awaitValue"); an external request ("call"), the abort of a       *)
(* construction ("construct") and a stop before that abort is asked for     *)
(* ("staged"); a settlement asked for ("settle") and half answered          *)
(* ("settling"); a method of a promise; a call of an async function; and a  *)
(* caller that waits while the generator whose next() it called runs.       *)
KnownExits == {"await", "waiting", "awaitValue", "call", "construct", "staged",
    "settle", "settling", "promiseMethod", "asyncCall", "generatorNext"}
ASSUME ExitsAreKnown == Exits \subseteq KnownExits /\ TextRequests \in BOOLEAN

VARIABLES
    heap,          \* [HEADER address -> block]
    heapPointer,   \* STATE.HEAP_POINTER
    cells,         \* words outside the heap that name blocks or strings
    strs,          \* the string table, ids being positions
    index,         \* its hash index, [text -> id]
    phase,         \* where the current collection is
    marked,        \* headers whose mark bit is set
    smarked,       \* string mark bitmap
    stray,         \* addresses inside blocks on which a mark bit was set
    fwd,           \* forwarding words, [header -> new header]
    forwarding,    \* what buildExternalForwarding returns for the root JS holds
    before,        \* history: the reachable graph when the collection began
    writes,        \* bound: stores so far
    lastId         \* history: identity given to the newest block

vars == <<heap, heapPointer, cells, strs, index, phase, marked, smarked,
          stray, fwd, forwarding, before, writes, lastId>>

gcVars == <<marked, smarked, stray, fwd, forwarding>>

------------------------------------------------------------------------------
(* Rows: a slot a walker visits, in the block itself or in the block that   *)
(* the slot "via" of it names by HEADER; and how the slot is read.          *)

Own(slot, form)      == [via |-> "self", slot |-> slot, form |-> form]
In(via, slot, form)  == [via |-> via, slot |-> slot, form |-> form]

(* What the allocators write: which slot names a block by its header, which *)
(* by its data, which is a 16-byte value, which a string id.                *)
SymLayout ==
    {Own("symEntries", "header"), In("symEntries", "key", "header"),
     In("symEntries", "value", "value")}
ArrayLayout == {Own("data", "header"), In("data", "value", "value")} \cup SymLayout
ScopeLayout ==
    {Own("parent", "data"), Own("entries", "header"),
     In("entries", "key", "string"), In("entries", "value", "value")}
ObjectLayout ==
    {Own("prototype", "header"), Own("entries", "header"),
     In("entries", "key", "string"), In("entries", "value", "value")} \cup SymLayout
FunctionLayout == ObjectLayout \cup {Own("start", "scalar"), Own("scope", "data")}
CollectionLayout(k) ==
    {Own("entries", "header"), In("entries", "value", "value")} \cup SymLayout \cup
    (IF k = "map" THEN {In("entries", "key", "value")} ELSE {})
DescriptorLayout == {Own("buffer", "data")} \cup SymLayout
PromiseLayout == {Own("value", "value"), Own("waiters", "data"), Own("handlers", "data")}
WaiterLayout == {Own("next", "data")}
ThenHandlerLayout ==
    {Own("onResolved", "header"), Own("onRejected", "header"),
     Own("childPromise", "data"), Own("next", "data")}
RationalLayout == {Own("numerator", "header"), Own("denominator", "header")}
ComplexLayout == {Own("real", "header"), Own("imaginary", "header")}
SymbolLayout == {Own("description", "string")}
RegExpLayout == {Own("pattern", "string"), Own("program", "data")}
ExpressionLayout == {Own("head", "header"), Own("arguments", "header")}
TheoremLayout == {Own("artifact", "data"), Own("universeOwner", "data")}
AlgebraicLayout ==
    {Own("coefficients", "header"), Own("interval", "header"),
     Own("generator", "header"), Own("coordinates", "header")}
SchemaLayout == {Own("source", "value"), Own("program", "data")}
NativeStateLayout == {Own("state0", "header"), Own("state1", "data")}

Layout ==
  [array |-> ArrayLayout, object |-> ObjectLayout,
   bigintObject |-> ObjectLayout \cup {Own("bigintData", "header")},
   function |-> FunctionLayout, scope |-> ScopeLayout,
   map |-> CollectionLayout("map"), set |-> CollectionLayout("set"),
   descriptor |-> DescriptorLayout, promise |-> PromiseLayout, waiter |-> WaiterLayout,
   thenHandler |-> ThenHandlerLayout, rational |-> RationalLayout, complex |-> ComplexLayout,
   complexAlgebraic |-> ComplexLayout, algebraic |-> AlgebraicLayout, symbol |-> SymbolLayout,
   expression |-> ExpressionLayout, matrix |-> {Own("elements", "header")},
   theorem |-> TheoremLayout, regexp |-> RegExpLayout, schema |-> SchemaLayout,
   nativeState |-> NativeStateLayout, bigint |-> {}, arraybuffer |-> {}]

Kinds == DOMAIN Layout

(* A walker's table: the rows of each kind of structure.                    *)
Tabled(Rows(_)) == [k \in Kinds |-> Rows(k)]

(* How a value of each type names its block.                                *)
HeaderValues == {"array", "object", "function", "constructor", "promise",
    "expression", "matrix", "theorem", "algebraic", "complexAlgebraic",
    "regexp", "schema", "bigint", "rational", "complex", "symbol", "map", "set"}
DataValues == {"scope", "arraybuffer", "msgpackRef", "typedArray", "dataView",
    "promiseResolve"}

NoValue == [type |-> "undefined", receiver |-> "none", lo |-> 0, hi |-> 0]

(* Reading a value slot, for a walker that takes the types in H to hold a   *)
(* header, those in D a data pointer, and decides a bound method by B.      *)
LoForm(v, H, D, B(_)) ==
    IF v.type = "boundMethod" THEN B(v.receiver)
    ELSE IF v.type = "string" THEN "string"
    ELSE IF v.type \in H \/ v.type = "accessor" THEN "header"
    ELSE IF v.type \in D THEN "data" ELSE "scalar"
HiForm(v) ==
    CASE v.type = "accessor" -> "header"
      [] v.type = "externalMethod" -> "string"
      [] OTHER -> "scalar"

BoundLayout(r) ==
    IF r = "string" THEN "string" ELSE IF r \in DataValues THEN "data" ELSE "header"
LayoutLo(v) == LoForm(v, HeaderValues, DataValues, BoundLayout)

(* The cells outside a heap block that name one, or a string.               *)
CellLayout ==
  {Own("contextTable", "data"), Own("generationTable", "data"),
   Own("rootScope", "data"), Own("intrinsic", "header"),
   Own("codeOperand", "header"), Own("external", "header"),
   Own("codeString", "string"), Own("builtin", "string"), Own("ast", "string")}

------------------------------------------------------------------------------
(* The parked context: rows over its own block and its four stack blocks,   *)
(* each with the condition under which the slot is in use, the name of an   *)
(* exit for what is in use at that exit only.                               *)

Row(stack, slot, form, when) ==
    [stack |-> stack, slot |-> slot, form |-> form, when |-> when]

(* A word of the request block, and the values its argsPointer addresses.   *)
Request(exits, slot, form) == {Row("self", slot, form, e) : e \in exits}
Arguments(exits) ==
    {Row("arguments", s, "value", e) : s \in {"s1", "s2"}, e \in exits}

(* The exits that leave their arguments above the pending top; and those    *)
(* whose handler finds the callee through the address of the arguments.     *)
AboveTop == {"call", "construct", "settle", "awaitValue", "promiseMethod"}
BelowTop == {"asyncCall"}

RequestLayout ==
    Request({"await"}, "awaited", "data") \cup
    Request({"call", "construct"}, "method", "string") \cup
    Request({"construct"}, "construction", "header") \cup
    Request({"settle", "settling"}, "settled", "data") \cup
    Request({"promiseMethod"}, "promise", "header") \cup
    Request({"asyncCall"}, "closure", "header") \cup
    Request({"asyncCall"}, "receiver", "value") \cup
    Request({"generatorNext"}, "generator", "header") \cup Arguments(AboveTop)

ContextLayout ==
  {Row("self", "pendingBase", "data", "always"), Row("self", "callBase", "data", "always"),
   Row("self", "grantBase", "data", "always"), Row("self", "tryBase", "data", "always"),
   Row("self", "scope", "data", "always"), Row("self", "completion", "value", "always"),
   Row("self", "generatorObject", "header", "always"), Row("self", "regex", "header", "always"),
   Row("self", "waitingOn", "data", "always"), Row("self", "duty", "header", "always"),
   Row("pending", "s1", "value", "pushed"), Row("pending", "s2", "value", "pushed"),
   Row("call", "scope", "data", "pushed"), Row("call", "async", "data", "ordinary"),
   Row("call", "handle", "header", "native"), Row("call", "callback", "header", "native"),
   Row("grant", "identifier", "value", "pushed"), Row("grant", "scope", "data", "pushed"),
   Row("try", "scope", "data", "pushed"), Row("try", "completion", "value", "pushed")} \cup
  RequestLayout

(* A context that is at no exit, or whose request is done with.             *)
NoRequest ==
    [exit |-> "none", argsPointer |-> 0, argCount |-> 0, method |-> 0, construction |-> 0,
     awaited |-> 0, settled |-> 0, promise |-> 0, closure |-> 0, receiver |-> NoValue,
     generator |-> 0]

Stacks == {"pending", "call", "grant", "try"}
BaseOf == [pending |-> "pendingBase", call |-> "callBase", grant |-> "grantBase", try |-> "tryBase"]
TopOf  == [pending |-> "pendingTop", call |-> "callTop", grant |-> "grantTop", try |-> "tryTop"]

(* getContextBase: the slot's entry in the table the STATE cell names.      *)
ContextAt(hp, cs) == hp[cs.contextTable - 1].slots.entry - 1

(* The address of a slot of a stack block, relative to the block's base.    *)
Offset(slot) == IF slot = "s2" THEN 1 ELSE 0

InUse(hp, c, at, r) ==
    LET x == hp[c].slots
        address == at + 1 + Offset(r.slot)
        pushed == address < x[TopOf[r.stack]]
    IN  CASE r.stack = "arguments" ->
                 address \in x.argsPointer .. (x.argsPointer + x.argCount - 1)
          [] r.when = "pushed" -> pushed
          [] r.when = "ordinary" -> pushed /\ ~hp[at].slots.native
          [] r.when = "native" -> pushed /\ hp[at].slots.native
          [] OTHER -> TRUE

(* The words a set of rows stands for in this heap.  Arguments are found by *)
(* the address the request holds, the rest by the base of their stack.  A   *)
(* block the walker cannot find where it looks is not walked.               *)
Around(hp, p) == {h \in DOMAIN hp : h < p /\ p < h + hp[h].size}

ContextWords(hp, cs, rows) ==
    LET c == ContextAt(hp, cs)
        x == hp[c].slots
        now == {r \in rows : r.when \in {"always", "pushed", "ordinary", "native", x.exit}}
        at(r) == CASE r.stack = "self" -> {c}
                   [] r.stack = "arguments" ->
                          {b \in Around(hp, x.argsPointer) : hp[b].kind = "pendingStack"}
                   [] OTHER -> {x[BaseOf[r.stack]] - 1} \cap DOMAIN hp
    IN  UNION {{[at |-> a, slot |-> r.slot, form |-> r.form] :
                   a \in {b \in at(r) : InUse(hp, c, b, r)}} : r \in now}

BlockWords(hp, h, table) ==
    LET rows == IF hp[h].kind \in Kinds THEN table[hp[h].kind] ELSE {}
        at(r) == IF r.via = "self" THEN h ELSE hp[h].slots[r.via]
        walked(r) == /\ at(r) \in DOMAIN hp
                     /\ r.via \in {"self", "symEntries"} \/ hp[h].count > 0
    IN  {[at |-> at(r), slot |-> r.slot, form |-> r.form] : r \in {q \in rows : walked(q)}}

------------------------------------------------------------------------------
(* What a word names.                                                       *)

Half(p, form) ==
    IF p = 0 THEN {} ELSE IF form = "header" THEN {p} ELSE IF form = "data" THEN {p - 1} ELSE {}
Targets(w, form, Lo(_)) ==
    IF form = "value" THEN Half(w.lo, Lo(w)) \cup Half(w.hi, HiForm(w)) ELSE Half(w, form)

StringHalf(p, form) == IF form = "string" /\ p # 0 THEN {p} ELSE {}
Strings(w, form, Lo(_)) ==
    IF form = "value" THEN StringHalf(w.lo, Lo(w)) \cup StringHalf(w.hi, HiForm(w))
    ELSE StringHalf(w, form)

WordAt(hp, w) == hp[w.at].slots[w.slot]

(* The blocks reached from the headers in "from" along a table of rows:     *)
(* those at distance n, and the ones nearer.                                *)
Closure(hp, from, table, Lo(_)) ==
    LET named(S) == UNION {UNION {Targets(WordAt(hp, w), w.form, Lo) :
                                     w \in BlockWords(hp, h, table)} :
                              h \in S \cap DOMAIN hp}
        f[n \in 0 .. Cardinality(DOMAIN hp)] ==
            IF n = 0 THEN [near |-> {}, far |-> from]
            ELSE LET g == f[n - 1]
                     near == g.near \cup g.far
                 IN  [near |-> near, far |-> IF g.far = {} THEN {} ELSE named(g.far) \ near]
    IN  f[Cardinality(DOMAIN hp)].near

------------------------------------------------------------------------------
(* The graph the program sees, free of addresses: what a collection must    *)
(* leave as it was.                                                         *)

IdAt(hp, p) == IF p = 0 THEN 0 ELSE IF p \in DOMAIN hp THEN hp[p].id ELSE -1
TextAt(ss, i) == IF i = 0 THEN "none" ELSE IF i \in DOMAIN ss THEN ss[i] ELSE "rotten"

Meaning(hp, ss, p, form) ==
    CASE form = "header" -> <<IdAt(hp, p)>>
      [] form = "data" -> <<IF p = 0 THEN 0 ELSE IdAt(hp, p - 1)>>
      [] form = "string" -> <<TextAt(ss, p)>>
      [] OTHER -> <<p>>
MeaningOf(hp, ss, w) ==
    LET x == WordAt(hp, w)
    IN  IF w.form = "value"
        THEN <<x.type, x.receiver, Meaning(hp, ss, x.lo, LayoutLo(x)), Meaning(hp, ss, x.hi, HiForm(x))>>
        ELSE Meaning(hp, ss, x, w.form)

RootTargets(hp, cs, contextRows, cellRows, Lo(_)) ==
    {cs.contextTable - 1, cs.generationTable - 1, ContextAt(hp, cs)} \cup
    UNION {Targets(WordAt(hp, w), w.form, Lo) : w \in ContextWords(hp, cs, contextRows)} \cup
    UNION {Half(cs[r.slot], r.form) : r \in cellRows}

Reachable(hp, cs) ==
    Closure(hp, RootTargets(hp, cs, ContextLayout, CellLayout, LayoutLo), Layout, LayoutLo)

Graph(hp, cs, ss) ==
    LET c == ContextAt(hp, cs)
        x == hp[c].slots
        text(words) == {<<hp[w.at].id, w.slot, MeaningOf(hp, ss, w)>> : w \in words}
    IN  [blocks |-> {IdAt(hp, h) : h \in Reachable(hp, cs)},
         edges |-> UNION {text(BlockWords(hp, h, Layout)) :
                             h \in Reachable(hp, cs) \cap DOMAIN hp},
         context |-> text(ContextWords(hp, cs, ContextLayout)),
         cells |-> {<<r.slot, Meaning(hp, ss, cs[r.slot], r.form)>> : r \in CellLayout},
         stacks |-> [s \in Stacks |-> x[TopOf[s]] - x[BaseOf[s]]],
         arguments |-> IF x.exit \in BelowTop \/ (x.exit \in AboveTop /\ x.argCount > 0)
                       THEN x.argsPointer - x.pendingBase ELSE 0]

------------------------------------------------------------------------------
(* Phase 1: the mark tables.                                                *)

MarkHeaderTypes == {"array", "object", "function", "constructor", "promise",
    "expression", "matrix", "theorem", "algebraic", "complexAlgebraic",
    "regexp", "schema", "bigint", "rational", "complex", "symbol", "map", "set"}
MarkDataTypes == {"scope", "arraybuffer", "msgpackRef", "typedArray", "promiseResolve"}
(* Mutant: a method bound to a typed array is taken to hold a header.       *)
MarkReceiverMutant(r) ==
    IF r = "string" THEN "string" ELSE IF r \in {"msgpackRef", "scope"} THEN "data" ELSE "header"
MarkReceiver(r) ==
    IF r = "string" THEN "string"
    ELSE IF r \in {"msgpackRef", "typedArray", "scope"} THEN "data" ELSE "header"
MarkLo(v) == LoForm(v, MarkHeaderTypes, MarkDataTypes, MarkReceiver)

MarkSymEntries ==
    {Own("symEntries", "header"), In("symEntries", "key", "header"),
     In("symEntries", "value", "value")}
MarkArray == {Own("data", "header"), In("data", "value", "value")} \cup MarkSymEntries
(* A header larger than 32 bytes is taken for a BigInt wrapper's: a         *)
(* function's is 48, and its start index is where the wrapper's data is.    *)
MarkObjectEntries(k) ==
    {Own("prototype", "header"), Own("entries", "header"),
     In("entries", "key", "string"), In("entries", "value", "value")} \cup MarkSymEntries \cup
    (IF k = "bigintObject" THEN {Own("bigintData", "header")}
     ELSE IF k = "function" THEN {Own("start", "header")} ELSE {})
MarkClosure == MarkObjectEntries("function") \cup {Own("scope", "data")}
MarkScope ==
    {Own("parent", "data"), Own("entries", "header"),
     In("entries", "key", "string"), In("entries", "value", "value")}
MarkPromise == {Own("value", "value"), Own("waiters", "data"), Own("handlers", "data")}
MarkThenHandler ==
    {Own("onResolved", "header"), Own("onRejected", "header"),
     Own("childPromise", "data"), Own("next", "data")}
MarkCollection(k) ==
    {Own("entries", "header"), In("entries", "value", "value")} \cup MarkSymEntries \cup
    (IF k = "map" THEN {In("entries", "key", "value")} ELSE {})
MarkRational == {Own("numerator", "header"), Own("denominator", "header")}
MarkComplex == {Own("real", "header"), Own("imaginary", "header")}
MarkAlgebraic ==
    {Own("coefficients", "header"), Own("interval", "header"),
     Own("generator", "header"), Own("coordinates", "header")}
MarkTerms(k) ==
    CASE k = "symbol" -> {Own("description", "string")}
      [] k = "expression" -> {Own("head", "header"), Own("arguments", "header")}
      [] k = "matrix" -> {Own("elements", "header")}
      [] k = "theorem" -> {Own("artifact", "data"), Own("universeOwner", "data")}
      [] k = "regexp" -> {Own("pattern", "string"), Own("program", "data")}
      [] k = "schema" -> {Own("source", "value"), Own("program", "data")}
MarkNativeState == {Own("state0", "header"), Own("state1", "data")}

(* The cases of an OBJ.PARAM_LIST are left out: nothing allocates one.      *)
MarkRows(k) ==
    CASE k = "array" -> MarkArray
      [] k \in {"object", "bigintObject"} -> MarkObjectEntries(k)
      [] k = "function" -> MarkClosure
      [] k = "scope" -> MarkScope
      [] k = "promise" -> MarkPromise
      [] k = "waiter" -> {Own("next", "data")}
      [] k = "thenHandler" -> MarkThenHandler
      [] k \in {"map", "set"} -> MarkCollection(k)
      [] k = "descriptor" -> {Own("buffer", "data")} \cup MarkSymEntries
      [] k = "rational" -> MarkRational
      [] k \in {"complex", "complexAlgebraic"} -> MarkComplex
      [] k = "algebraic" -> MarkAlgebraic
      [] k \in {"symbol", "expression", "matrix", "theorem", "regexp", "schema"} -> MarkTerms(k)
      [] k = "nativeState" -> MarkNativeState
      [] OTHER -> {}
MarkTable == Tabled(MarkRows)

MarkPendingStack == {Row("pending", s, "value", "pushed") : s \in {"s1", "s2"}}
MarkCallStack ==
    {Row("call", "scope", "data", "pushed"), Row("call", "handle", "header", "native"),
     Row("call", "callback", "header", "native"), Row("call", "async", "data", "ordinary")}
MarkGrantStack ==
    {Row("grant", "identifier", "value", "pushed"), Row("grant", "scope", "data", "pushed")}
MarkTryStack ==
    {Row("try", "scope", "data", "pushed"), Row("try", "completion", "value", "pushed")}
(* EXIT_AWAIT is three exits here: the tests of isPending and of a live     *)
(* promise under the value let only a settled one through.  The caller of   *)
(* an async function keeps EXIT_ASYNC_CALL when the call has been answered. *)
AsyncCalls == {"asyncCall", "asyncAnswered"}

(* Mutant: the promise of a method is taken for a data pointer.             *)
MarkPromiseMethodMutant ==
    Request({"promiseMethod"}, "promise", "data") \cup Arguments({"promiseMethod"})
MarkPromiseMethod ==
    Request({"promiseMethod"}, "promise", "header") \cup Arguments({"promiseMethod"})
MarkRequestBase ==
    Request({"await"}, "awaited", "data") \cup
    Request({"settle", "settling"}, "settled", "data") \cup MarkPromiseMethod \cup
    Request(AsyncCalls, "closure", "header") \cup Request(AsyncCalls, "receiver", "value") \cup
    Request({"call", "construct"}, "method", "string") \cup
    Request({"construct"}, "construction", "header") \cup Arguments({"call", "construct"})
MarkContextRoots ==
    {Row("self", BaseOf[s], "data", "always") : s \in Stacks} \cup
    {Row("self", "scope", "data", "always"), Row("self", "completion", "value", "always"),
     Row("self", "generatorObject", "header", "always"), Row("self", "regex", "header", "always")} \cup
    MarkPendingStack \cup MarkCallStack \cup MarkGrantStack \cup MarkTryStack \cup MarkRequestBase

(* The tables, intrinsics, code operands and JS-held roots.  The root scope *)
(* cell is left out on purpose: the context's scope chain reaches it.       *)
MarkCells ==
    {Own("contextTable", "data"), Own("generationTable", "data"), Own("intrinsic", "header"),
     Own("codeOperand", "header"), Own("external", "header"),
     Own("codeString", "string"), Own("builtin", "string"), Own("ast", "string")}

InHeap(p) == HeapStart <= p /\ p < heapPointer

Found ==
    {p \in Closure(heap, RootTargets(heap, cells, MarkContextRoots, MarkCells, MarkLo),
                   MarkTable, MarkLo) : InHeap(p)}

MarkedStrings(live) ==
    LET text(words) == UNION {Strings(WordAt(heap, w), w.form, MarkLo) : w \in words}
    IN  UNION {text(BlockWords(heap, h, MarkTable)) : h \in live} \cup
        text(ContextWords(heap, cells, MarkContextRoots)) \cup
        UNION {StringHalf(cells[r.slot], r.form) : r \in MarkCells}

MarkPhase ==
    /\ phase \in {"run", "done"}
    /\ phase' = "marked"
    /\ \E found \in {Found} :
        /\ marked' = found \cap DOMAIN heap
        /\ stray' = found \ DOMAIN heap
        /\ smarked' = MarkedStrings(found \cap DOMAIN heap)
    /\ before' = Graph(heap, cells, strs)
    /\ UNCHANGED <<heap, heapPointer, cells, strs, index, fwd, forwarding, writes, lastId>>

------------------------------------------------------------------------------
(* Phases 2 to 4: forwarding addresses, pointers, and the move.             *)

NewHeaderPointer(p, f) == IF InHeap(p) /\ p \in DOMAIN f THEN f[p] ELSE p
NewDataPointer(p, f) == IF InHeap(p) /\ p - 1 \in DOMAIN f THEN f[p - 1] + 1 ELSE p

ComputeForwardingAddresses ==
    LET slide == [h \in marked |->
                    HeapStart + MapThenSumSet(LAMBDA b : heap[b].size, {m \in marked : m < h})]
    IN  /\ phase = "marked"
        /\ phase' = "forwarded"
        /\ fwd' = slide
        /\ forwarding' = NewHeaderPointer(cells.external, slide)
        /\ UNCHANGED <<heap, heapPointer, cells, strs, index, marked, smarked, stray, before,
                       writes, lastId>>

UpdateHeaderTypes == {"array", "object", "function", "promise", "expression", "matrix",
    "theorem", "algebraic", "complexAlgebraic", "regexp", "schema", "constructor",
    "bigint", "complex", "rational", "symbol", "map", "set"}
UpdateDataTypes == {"promiseResolve", "scope", "arraybuffer", "msgpackRef", "typedArray"}
UpdateReceiver(r) ==
    IF r = "string" THEN "string"
    ELSE IF r \in {"msgpackRef", "typedArray", "scope"} THEN "data" ELSE "header"
UpdateLo(v) == LoForm(v, UpdateHeaderTypes, UpdateDataTypes, UpdateReceiver)

Moved(p, form) ==
    CASE form = "header" -> NewHeaderPointer(p, fwd)
      [] form = "data" -> NewDataPointer(p, fwd)
      [] OTHER -> p
Forwarded(w, form) ==
    IF form = "value" THEN [w EXCEPT !.lo = Moved(@, UpdateLo(w)), !.hi = Moved(@, HiForm(w))]
    ELSE Moved(w, form)

(* Rewrites in place the words given, each with New.                        *)
Rewritten(hp, words, New(_, _)) ==
    LET touched == {w.at : w \in words}
        block(h) ==
            LET here == {w \in words : w.at = h}
                form == [s \in {w.slot : w \in here} |-> (CHOOSE w \in here : w.slot = s).form]
            IN  [s \in DOMAIN hp[h].slots |->
                    IF s \in DOMAIN form THEN New(hp[h].slots[s], form[s]) ELSE hp[h].slots[s]]
    IN  [h \in DOMAIN hp |->
            IF h \in touched THEN [hp[h] EXCEPT !.slots = block(h)] ELSE hp[h]]

UpdateSymEntries ==
    {Own("symEntries", "header"), In("symEntries", "key", "header"),
     In("symEntries", "value", "value")}
UpdateArray == {Own("data", "header"), In("data", "value", "value")} \cup UpdateSymEntries
UpdateObjectEntries(k) ==
    {Own("prototype", "header"), Own("entries", "header"), In("entries", "value", "value")} \cup
    UpdateSymEntries \cup
    (IF k = "bigintObject" THEN {Own("bigintData", "header")}
     ELSE IF k = "function" THEN {Own("start", "header")} ELSE {})
UpdateClosure == UpdateObjectEntries("function") \cup {Own("scope", "data")}
UpdateScope == {Own("parent", "data"), Own("entries", "header"), In("entries", "value", "value")}
UpdatePromise == {Own("value", "value"), Own("waiters", "data"), Own("handlers", "data")}
UpdateThenHandler ==
    {Own("onResolved", "header"), Own("onRejected", "header"),
     Own("childPromise", "data"), Own("next", "data")}
UpdateCollection(k) ==
    {Own("entries", "header"), In("entries", "value", "value")} \cup UpdateSymEntries \cup
    (IF k = "map" THEN {In("entries", "key", "value")} ELSE {})
UpdateRational == {Own("numerator", "header"), Own("denominator", "header")}
UpdateComplex == {Own("real", "header"), Own("imaginary", "header")}
UpdateAlgebraic ==
    {Own("coefficients", "header"), Own("interval", "header"),
     Own("generator", "header"), Own("coordinates", "header")}
UpdateExpression == {Own("head", "header"), Own("arguments", "header")}
UpdateTerms(k) ==
    CASE k = "matrix" -> {Own("elements", "header")}
      [] k = "theorem" -> {Own("artifact", "data"), Own("universeOwner", "data")}
      [] k = "regexp" -> {Own("program", "data")}
      [] k = "schema" -> {Own("source", "value"), Own("program", "data")}
UpdateNativeState == {Own("state0", "header"), Own("state1", "data")}

UpdateRows(k) ==
    CASE k = "array" -> UpdateArray
      [] k \in {"object", "bigintObject"} -> UpdateObjectEntries(k)
      [] k = "function" -> UpdateClosure
      [] k = "scope" -> UpdateScope
      [] k = "promise" -> UpdatePromise
      [] k = "waiter" -> {Own("next", "data")}
      [] k = "thenHandler" -> UpdateThenHandler
      [] k \in {"map", "set"} -> UpdateCollection(k)
      [] k = "descriptor" -> {Own("buffer", "data")} \cup UpdateSymEntries
      [] k = "rational" -> UpdateRational
      [] k \in {"complex", "complexAlgebraic"} -> UpdateComplex
      [] k = "algebraic" -> UpdateAlgebraic
      [] k = "expression" -> UpdateExpression
      [] k \in {"matrix", "theorem", "regexp", "schema"} -> UpdateTerms(k)
      [] k = "nativeState" -> UpdateNativeState
      [] OTHER -> {}
UpdateTable == Tabled(UpdateRows)

UpdatePendingStack == {Row("pending", s, "value", "pushed") : s \in {"s1", "s2"}}
UpdateCallStack ==
    {Row("call", "scope", "data", "pushed"), Row("call", "handle", "header", "native"),
     Row("call", "callback", "header", "native"), Row("call", "async", "data", "ordinary")}
UpdateGrantStack ==
    {Row("grant", "identifier", "value", "pushed"), Row("grant", "scope", "data", "pushed")}
UpdateTryStack ==
    {Row("try", "scope", "data", "pushed"), Row("try", "completion", "value", "pushed")}
UpdateOwnSlots ==
    {Row("self", "scope", "data", "always"), Row("self", "completion", "value", "always"),
     Row("self", "generatorObject", "header", "always"), Row("self", "regex", "header", "always")}

(* Contents, through the bases and tops as they still are.                  *)
UpdateContents(hp) ==
    Rewritten(hp, ContextWords(hp, cells, UpdatePendingStack \cup UpdateCallStack \cup
                  UpdateGrantStack \cup UpdateTryStack \cup UpdateOwnSlots), Forwarded)

(* Mutant: the tops stay, as if only a block's own address mattered.        *)
ForwardStackBlocksMutant(hp) ==
    [hp EXCEPT ![ContextAt(hp, cells)].slots =
        [f \in DOMAIN @ |-> IF \E s \in Stacks : f = BaseOf[s] THEN Moved(@[f], "data") ELSE @[f]]]

(* Base, limit and top move by the delta of the block.                      *)
ForwardStackBlocks(hp) ==
    LET c == ContextAt(hp, cells)
        delta(s) == Moved(hp[c].slots[BaseOf[s]], "data") - hp[c].slots[BaseOf[s]]
    IN  [hp EXCEPT ![c].slots = [f \in DOMAIN @ |->
            IF \E s \in Stacks : f \in {BaseOf[s], TopOf[s]}
            THEN @[f] + delta(CHOOSE s \in Stacks : f \in {BaseOf[s], TopOf[s]}) ELSE @[f]]]

(* The request block: its pointers, the arguments it addresses, and their   *)
(* address, which moves by the delta of the pending block.                  *)
MovedArguments == {"call", "construct", "promiseMethod"}
UpdatedRequest ==
    Request({"await"}, "awaited", "data") \cup
    Request({"settle", "settling"}, "settled", "data") \cup
    Request({"promiseMethod"}, "promise", "header") \cup
    Request(AsyncCalls, "closure", "header") \cup Request(AsyncCalls, "receiver", "value") \cup
    Request({"construct"}, "construction", "header") \cup Arguments(MovedArguments)

Rebased(hp, exits, pendingDelta) ==
    LET c == ContextAt(hp, cells)
    IN  IF hp[c].slots.exit \in exits /\ hp[c].slots.argsPointer # 0
        THEN [hp EXCEPT ![c].slots.argsPointer = @ + pendingDelta] ELSE hp

(* Mutant: an async call's argsPointer is taken for fixed memory.           *)
UpdateRequestBaseMutant(hp, pendingDelta) ==
    Rebased(Rewritten(hp, ContextWords(hp, cells, UpdatedRequest), Forwarded),
            MovedArguments, pendingDelta)
UpdateRequestBase(hp, pendingDelta) ==
    Rebased(Rewritten(hp, ContextWords(hp, cells, UpdatedRequest), Forwarded),
            MovedArguments \cup AsyncCalls, pendingDelta)

(* The context's own address in the table goes last: everything above finds *)
(* the context through it.                                                  *)
SetContextPointer(hp) ==
    [hp EXCEPT ![cells.contextTable - 1].slots.entry = Moved(@, "data")]

UpdateContextPointers(hp) ==
    LET pendingBase == hp[ContextAt(hp, cells)].slots.pendingBase
    IN  SetContextPointer(UpdateRequestBase(ForwardStackBlocks(UpdateContents(hp)),
                                            Moved(pendingBase, "data") - pendingBase))

(* updateIntrinsics and updateCodeBlockHeapOperands.                        *)
UpdateCells ==
    [cells EXCEPT !.intrinsic = Moved(@, "header"), !.rootScope = Moved(@, "data"),
                  !.contextTable = Moved(@, "data"), !.generationTable = Moved(@, "data"),
                  !.codeOperand = Moved(@, "header")]

UpdatePointers ==
    /\ phase = "forwarded"
    /\ phase' = "updated"
    /\ heap' = UpdateContextPointers(Rewritten(heap,
                   UNION {BlockWords(heap, h, UpdateTable) : h \in marked}, Forwarded))
    /\ cells' = UpdateCells
    /\ UNCHANGED <<heapPointer, strs, index, marked, smarked, stray, fwd, forwarding, before,
                   writes, lastId>>

MoveObjects ==
    LET size(h) == heap[h].size
        last == CHOOSE h \in marked : \A m \in marked : m <= h
    IN  /\ phase = "updated"
        /\ phase' = "moved"
        /\ heap' = [a \in {fwd[h] : h \in marked} |-> heap[CHOOSE h \in marked : fwd[h] = a]]
        /\ heapPointer' = fwd[last] + size(last)
        /\ marked' = {}
        /\ fwd' = <<>>
        /\ UNCHANGED <<cells, strs, index, smarked, stray, forwarding, before, writes, lastId>>

------------------------------------------------------------------------------
(* Phase 5: the string table.  Every block left in the heap is live here.   *)

StringSymEntries == {In("symEntries", "value", "value")}
StringObjectEntries ==
    {In("entries", "key", "string"), In("entries", "value", "value")} \cup StringSymEntries
StringRows(k) ==
    CASE k = "array" -> {In("data", "value", "value")} \cup StringSymEntries
      [] k \in {"object", "bigintObject", "function"} -> StringObjectEntries
      [] k = "scope" -> {In("entries", "key", "string"), In("entries", "value", "value")}
      [] k = "descriptor" -> StringSymEntries
      [] k = "symbol" -> {Own("description", "string")}
      [] k = "regexp" -> {Own("pattern", "string")}
      [] k = "schema" -> {Own("source", "value")}
      [] k = "map" -> {In("entries", "key", "value"), In("entries", "value", "value")} \cup
                      StringSymEntries
      [] k = "set" -> {In("entries", "value", "value")} \cup StringSymEntries
      [] k = "promise" -> {Own("value", "value")}
      [] OTHER -> {}
StringTable == Tabled(StringRows)

(* Of the request block only an external request's strings are forwarded.   *)
StringContextRows ==
    MarkPendingStack \cup Arguments({"call", "construct"}) \cup
    Request({"call", "construct"}, "method", "string") \cup
    {Row("grant", "identifier", "value", "pushed"),
     Row("self", "completion", "value", "always"), Row("try", "completion", "value", "pushed")}

HoldsString(v) == v.type = "string" \/ (v.type = "boundMethod" /\ v.receiver = "string")

(* A live string's new place; 0 for one that nothing marked.                *)
StringForwarding ==
    [i \in DOMAIN strs |-> IF i \in smarked THEN Cardinality({j \in smarked : j <= i}) ELSE 0]

NewString(i) == IF i \in DOMAIN strs /\ StringForwarding[i] # 0 THEN StringForwarding[i] ELSE i

StringForwarded(w, form) ==
    CASE form = "string" -> NewString(w)
      [] form = "value" -> [w EXCEPT !.lo = IF HoldsString(w) THEN NewString(@) ELSE @,
                                     !.hi = IF w.type = "externalMethod" THEN NewString(@) ELSE @]
      [] OTHER -> w

MovedStrings ==
    [n \in 1 .. Cardinality(smarked) |-> strs[CHOOSE i \in smarked : StringForwarding[i] = n]]

(* Mutant: the old index is not cleared first, so a text keeps its old id.  *)
RebuiltIndexMutant(ss) ==
    [t \in {ss[i] : i \in DOMAIN ss} |->
        IF t \in DOMAIN index THEN index[t] ELSE CHOOSE i \in DOMAIN ss : ss[i] = t]
RebuiltIndex(ss) == [t \in {ss[i] : i \in DOMAIN ss} |-> CHOOSE i \in DOMAIN ss : ss[i] = t]

CompactStrings ==
    /\ phase = "moved"
    /\ phase' = "done"
    /\ smarked' = {}
    /\ forwarding' = 0
    /\ IF smarked = DOMAIN strs
       THEN /\ cells' = [cells EXCEPT !.external = forwarding]
            /\ UNCHANGED <<heap, strs, index>>
       ELSE /\ heap' = Rewritten(heap,
                   UNION {BlockWords(heap, h, StringTable) : h \in DOMAIN heap} \cup
                   ContextWords(heap, cells, StringContextRows), StringForwarded)
            /\ cells' = [cells EXCEPT !.codeString = NewString(@), !.ast = NewString(@),
                                      !.builtin = NewString(@), !.external = forwarding]
            /\ strs' = MovedStrings
            /\ index' = RebuiltIndex(MovedStrings)
    /\ UNCHANGED <<heapPointer, marked, stray, fwd, before, writes, lastId>>

------------------------------------------------------------------------------
(* What the program does to the heap between collections.  A structure is   *)
(* allocated with the blocks it cannot be without, listed as parts: a kind, *)
(* the part that names it, and the slot it is named by.                     *)

Part(kind, of, slot) == [kind |-> kind, of |-> of, slot |-> slot]
BigInt(of, slot) == <<Part("bigint", of, slot)>>
Rational(of, slot, at) ==
    <<Part("rational", of, slot)>> \o BigInt(at, "numerator") \o BigInt(at, "denominator")
Alone(kind) == <<Part(kind, 0, "none")>>
With(kind, container) == Alone(kind) \o <<Part(container, 1, IF kind = "array" THEN "data" ELSE "entries")>>
Array(of, slot, at) == <<Part("array", of, slot), Part("values", at, "data")>>

Shape ==
  [array |-> With("array", "values"), object |-> With("object", "pairs"),
   bigintObject |-> With("bigintObject", "pairs") \o BigInt(1, "bigintData"),
   function |-> With("function", "pairs"), scope |-> With("scope", "pairs"),
   map |-> With("map", "mapEntries"), set |-> With("set", "values"),
   descriptor |-> Alone("descriptor") \o <<Part("arraybuffer", 1, "buffer")>>,
   promise |-> Alone("promise"), waiter |-> Alone("waiter"),
   thenHandler |-> Alone("thenHandler") \o <<Part("promise", 1, "childPromise")>>,
   bigint |-> Alone("bigint"), arraybuffer |-> Alone("arraybuffer"),
   rational |-> Rational(0, "none", 1),
   complex |-> Alone("complex") \o Rational(1, "real", 2) \o Rational(1, "imaginary", 5),
   complexAlgebraic |-> Alone("complexAlgebraic") \o BigInt(1, "real") \o BigInt(1, "imaginary"),
   algebraic |-> Alone("algebraic") \o Array(1, "coefficients", 2) \o Array(1, "interval", 4),
   symbol |-> Alone("symbol"),
   expression |-> Alone("expression") \o <<Part("symbol", 1, "head")>> \o Array(1, "arguments", 3),
   matrix |-> Alone("matrix") \o Array(1, "elements", 2),
   theorem |-> Alone("theorem") \o <<Part("arraybuffer", 1, "artifact")>>,
   regexp |-> Alone("regexp") \o <<Part("arraybuffer", 1, "program")>>,
   schema |-> Alone("schema") \o <<Part("arraybuffer", 1, "program")>>,
   nativeState |-> Alone("nativeState") \o Array(1, "state0", 2)
                   \o <<Part("arraybuffer", 1, "state1")>>]

ContainerSlots ==
  [values |-> [value |-> NoValue], pairs |-> [key |-> 0, value |-> NoValue],
   mapEntries |-> [key |-> NoValue, value |-> NoValue],
   symPairs |-> [key |-> 0, value |-> NoValue]]

OwnRows(k) == {r \in Layout[k] : r.via = "self"}
Blank(k) ==
    IF k \in DOMAIN ContainerSlots THEN ContainerSlots[k]
    ELSE [s \in {r.slot : r \in OwnRows(k)} |->
            IF Own(s, "value") \in Layout[k] THEN NoValue ELSE 0]
Block(k, size, id, slots) == [kind |-> k, size |-> size, id |-> id, count |-> 0, slots |-> slots]

(* The text new strings have; interning it.                                 *)
NewText == "new"
NewTextId == IF NewText \in DOMAIN index THEN index[NewText] ELSE Len(strs) + 1
Interned ==
    IF NewText \in DOMAIN index THEN UNCHANGED <<strs, index>>
    ELSE strs' = Append(strs, NewText) /\ index' = index @@ (NewText :> Len(strs) + 1)

StringValue(i) == [NoValue EXCEPT !.type = "string", !.lo = i]

(* The blocks of a structure of kind k at the heap pointer.                 *)
Built(k, start) ==
    LET shape == Shape[k]
        address(n) == heapPointer + 2 * (n - 1)
        slots(n) ==
            LET kind == shape[n].kind
                parts(s) == {m \in DOMAIN shape : shape[m].of = n /\ shape[m].slot = s}
                known(s) ==
                    CASE s \in {"description", "pattern"} -> NewTextId
                      [] s = "source" -> StringValue(NewTextId)
                      [] s = "start" -> start
                      [] s = "parent" \/ (kind = "function" /\ s = "scope") -> cells.rootScope
                      [] OTHER -> Blank(kind)[s]
            IN  [s \in DOMAIN Blank(kind) |->
                    IF parts(s) = {} THEN known(s)
                    ELSE LET a == address(CHOOSE m \in parts(s) : TRUE)
                         IN  IF Own(s, "data") \in Layout[kind] THEN a + 1 ELSE a]
        block(n) == Block(shape[n].kind, 2, lastId + n, slots(n))
    IN  [a \in {address(n) : n \in DOMAIN shape} |-> block((a - heapPointer) \div 2 + 1)]

(* The value types a block of a kind is held by, and the values that hold   *)
(* it: its own types, a method bound to it, an accessor's two halves.       *)
TypesOf(k) ==
    CASE k \in {"waiter", "thenHandler", "nativeState"} -> {}
      [] k = "object" -> {"object", "constructor"}
      [] k = "bigintObject" -> {"object"}
      [] k = "descriptor" -> {"typedArray", "dataView"}
      [] k = "arraybuffer" -> {"arraybuffer", "msgpackRef"}
      [] k = "promise" -> {"promise", "promiseResolve"}
      [] OTHER -> {k}
BoundReceivers == {"array", "typedArray", "dataView", "msgpackRef"}

ValuesOf(k, h) ==
    LET lo(t) == IF t \in DataValues THEN h + 1 ELSE h
        held(t, r, l) == [type |-> t, receiver |-> r, lo |-> l, hi |-> 0]
        own == TypesOf(k) \cap Types
    IN  {held(t, "none", lo(t)) : t \in own} \cup
        {held("boundMethod", t, lo(t)) : t \in own \cap BoundReceivers} \cup
        (IF k = "function" THEN {[type |-> "accessor", receiver |-> "none", lo |-> h, hi |-> h]} ELSE {})

(* Values that hold no block: strings, and numbers equal to an address.     *)
PlainValues == {v \in
    {StringValue(NewTextId),
     [type |-> "boundMethod", receiver |-> "string", lo |-> NewTextId, hi |-> 0],
     [type |-> "externalMethod", receiver |-> "none", lo |-> HeapStart + 2, hi |-> NewTextId],
     [type |-> "inlineRational", receiver |-> "none", lo |-> HeapStart + 2, hi |-> 0]} :
    v.type \in Types}

------------------------------------------------------------------------------
(* Where the program writes.                                                *)

Context == ContextAt(heap, cells)
Frame == heap[Context].slots
Structures == {h \in Reachable(heap, cells) : heap[h].kind \in Kinds}
Spot(at, slot, owner) == [at |-> at, slot |-> slot, owner |-> owner]

(* The next free place of the pending stack of a context that is not parked *)
(* on a request of its own.                                                 *)
Pushes ==
    IF Frame.exit = "none" /\ Frame.pendingTop < Frame.pendingBase + 2
    THEN {Spot(Frame.pendingBase - 1, IF Frame.pendingTop = Frame.pendingBase THEN "s1" ELSE "s2",
               Context)}
    ELSE {}

(* The value slots of the live structures.                                  *)
Items(structures) ==
    UNION {LET at(r) == IF r.via = "self" THEN h ELSE heap[h].slots[r.via]
           IN  {Spot(at(r), r.slot, h) : r \in {q \in Layout[heap[h].kind] :
                    q.form = "value" /\ at(q) \in DOMAIN heap}} :
           h \in structures}

(* The slots of the suspended program that hold a value it already has.     *)
Holders ==
    {Spot(Context, "completion", Context), Spot(Frame.tryBase - 1, "completion", Context)}

(* Optional pointers, and the kind of block each takes.                     *)
Takes(k, slot) ==
    CASE slot = "prototype" -> {"object"}
      [] slot = "waiters" \/ (k = "waiter" /\ slot = "next") -> {"waiter"}
      [] slot = "handlers" \/ (k = "thenHandler" /\ slot = "next") -> {"thenHandler"}
      [] slot \in {"onResolved", "onRejected", "callback"} -> {"function"}
      [] k = "algebraic" /\ slot = "generator" -> {"algebraic"}
      [] k = "algebraic" /\ slot = "coordinates" -> {"array"}
      [] slot = "universeOwner" -> {"arraybuffer"}
      [] slot = "generatorObject" -> {"object"}
      [] slot \in {"regex", "handle"} -> {"nativeState"}
      [] slot = "async" -> {"promise"}
      [] slot = "scope" /\ k # "function" -> {"scope"}
      [] OTHER -> {}

(* The optional pointers of the live structures and of the suspended        *)
(* program; a native frame's callback only once the frame is native.        *)
Pointers(structures) ==
    LET taken(h, k, row) == Spot(h, row.slot, k)
    IN  UNION {{taken(h, heap[h].kind, r) : r \in {q \in OwnRows(heap[h].kind) :
                    Takes(heap[h].kind, q.slot) # {}}} :
                h \in structures} \cup
        UNION {{taken(a, heap[a].kind, r) :
                    a \in IF r.stack = "self" THEN {Context} ELSE {Frame[BaseOf[r.stack]] - 1}} :
               r \in {q \in ContextLayout : q.when \in {"always", "pushed", "ordinary", "native"}
                                            /\ Takes("context", q.slot) # {}
                                            /\ (q.slot = "callback" => heap[Frame.callBase - 1].slots.native)}}

FormAt(spot) ==
    IF spot.owner \in Kinds THEN (CHOOSE r \in OwnRows(spot.owner) : r.slot = spot.slot).form
    ELSE (CHOOSE r \in ContextLayout : r.slot = spot.slot /\ r.form # "value").form

(* A value stored: a push moves the top, an item makes its container count  *)
(* one entry, under a string key where the container has such keys and      *)
(* under the value itself in a map.                                         *)
Stored(hp, spot, v) ==
    LET at == spot.at
        key == CASE hp[at].kind = "pairs" -> NewTextId
                 [] hp[at].kind = "mapEntries" -> v
                 [] OTHER -> 0
        put == IF hp[at].kind \in {"pairs", "mapEntries"}
               THEN [hp EXCEPT ![at].slots.key = key, ![at].slots.value = v]
               ELSE [hp EXCEPT ![at].slots[spot.slot] = v]
    IN  IF at = Frame.pendingBase - 1
        THEN [put EXCEPT ![Context].slots.pendingTop = @ + 1]
        ELSE IF hp[at].kind \in {"values", "pairs", "mapEntries"}
        THEN [put EXCEPT ![spot.owner].count = 1] ELSE put

Linked(hp, spot, h) ==
    LET p == IF FormAt(spot) = "data" THEN h + 1 ELSE h
        put == [hp EXCEPT ![spot.at].slots[spot.slot] = p]
    IN  IF spot.slot = "handle"
        THEN [put EXCEPT ![spot.at].slots.native = TRUE, ![spot.at].slots.async = 0] ELSE put

Running == phase' = "run" /\ before' = <<>>

Mutated(hp, textual) ==
    /\ Running
    /\ writes < MaxWrites
    /\ writes' = writes + 1
    /\ heap' = hp
    /\ IF textual THEN Interned ELSE UNCHANGED <<strs, index>>
    /\ UNCHANGED gcVars

TextIn(k, spot) == k \in {"symbol", "regexp", "schema", "expression"} \/ heap[spot.at].kind = "pairs"

Allocated(k) ==
    /\ heapPointer' = heapPointer + 2 * Len(Shape[k])
    /\ lastId' = lastId + Len(Shape[k])

(* A new structure, as a value on the stack or inside another structure.    *)
CreateValue(k, start, spot) ==
    \E v \in ValuesOf(k, heapPointer) :
        /\ Mutated(Stored(heap @@ Built(k, start), spot, v), TextIn(k, spot))
        /\ Allocated(k)
        /\ UNCHANGED cells

(* A new structure that an optional pointer names.                          *)
CreateLinked(k, start, spot) ==
    /\ Mutated(Linked(heap @@ Built(k, start), spot, heapPointer), k \in {"symbol"})
    /\ Allocated(k)
    /\ UNCHANGED cells

(* The first own symbol-keyed property: its entries block and its key.      *)
AddSymbol(h) ==
    /\ heap[h].slots.symEntries = 0
    /\ LET entries == heapPointer + 2
           block == Block("symPairs", 2, lastId + 2,
                          [ContainerSlots.symPairs EXCEPT !.key = heapPointer])
       IN  Mutated([heap @@ Built("symbol", 0) @@ (entries :> block)
                       EXCEPT ![h].slots.symEntries = entries], TRUE)
    /\ heapPointer' = heapPointer + 4
    /\ lastId' = lastId + 2
    /\ UNCHANGED cells

(* A structure the program already has, stored once more; or a plain value. *)
StoreValue(v, spot, textual) ==
    /\ Mutated(Stored(heap, spot, v), textual)
    /\ UNCHANGED <<heapPointer, cells, lastId>>

StoreText ==
    /\ Mutated([heap EXCEPT ![Frame.grantBase - 1].slots.identifier = StringValue(NewTextId)], TRUE)
    /\ UNCHANGED <<heapPointer, cells, lastId>>

Link(h, spot) ==
    /\ Mutated(Linked(heap, spot, h), FALSE)
    /\ UNCHANGED <<heapPointer, cells, lastId>>

(* An intrinsic cell, a heap operand of the code, a root the host holds.    *)
SetCell(cell, k) ==
    /\ Mutated(heap @@ Built(k, 0), FALSE)
    /\ Allocated(k)
    /\ cells' = [cells EXCEPT ![cell] = heapPointer]

CellTakes == [intrinsic |-> "object", codeOperand |-> "bigint", external |-> "object"]

------------------------------------------------------------------------------
(* The suspended program's own steps.                                       *)

Depth == Frame.pendingTop - Frame.pendingBase
Word(k) == heap[Frame.pendingBase - 1].slots[IF k = 0 THEN "s1" ELSE "s2"]
Pending == Frame.exit = "none" /\ Depth > 0

(* A popped word stays where it was, above the top.                         *)
Pop ==
    /\ Pending
    /\ Mutated([heap EXCEPT ![Context].slots.pendingTop = @ - 1], FALSE)
    /\ UNCHANGED <<heapPointer, cells, lastId>>

(* Leaving a frame, a grant block or a try block leaves its entry behind.   *)
Leave(stack) ==
    /\ Frame[TopOf[stack]] > Frame[BaseOf[stack]]
    /\ Mutated([heap EXCEPT ![Context].slots[TopOf[stack]] = Frame[BaseOf[stack]]], FALSE)
    /\ UNCHANGED <<heapPointer, cells, lastId>>

(* The context stopped at e with its pending top at word top; and with the  *)
(* arguments of its request above word k.                                   *)
Cut(e, top) == [Frame EXCEPT !.exit = e, !.pendingTop = Frame.pendingBase + top]
Called(e, k, top) ==
    [Cut(e, top) EXCEPT !.argsPointer = Frame.pendingBase + k + 1, !.argCount = Depth - k - 1]

(* The pending words a request of these types may be about, and the top one.*)
Callees(types) == {k \in 0 .. Depth - 1 : Word(k).type \in types}
Top(types) == Callees(types) \cap {Depth - 1}

(* The value of the variable that the program's scope binds.                *)
InScope == heap[heap[cells.rootScope - 1].slots.entries].slots.value

(* A word that holds a string.                                              *)
Textual(v) == v.type \in {"string", "externalMethod"} \/ (v.type = "boundMethod" /\ v.receiver = "string")

(* Who "this" is for a call of word k: nobody, or the word below it.        *)
Receivers(k) == {NoValue} \cup {Word(j) : j \in {k - 1} \cap Nat}

Aborting(slots, receiver) ==
    [slots EXCEPT !.method = cells.builtin, !.construction = receiver,
                  !.argsPointer = 0, !.argCount = 0]

(* What the context's record may hold once it has stopped at e.  An await   *)
(* pops what it awaits; an external call leaves its argument above the top; *)
(* an aborted construction names its receiver in the request alone, and     *)
(* before that in the duty alone.  A settlement, a promise's method and a   *)
(* generator's put the top at the callee, an async call leaves it as it is. *)
Stopped(e) ==
    CASE e = "await" -> {[Cut(e, k) EXCEPT !.awaited = Word(k).lo + 1] : k \in Top({"promise"})}
      [] e = "waiting" -> {[Cut(e, k) EXCEPT !.waitingOn = Word(k).lo + 1] : k \in Top({"promise"})}
      [] e = "awaitValue" -> {Called(e, k - 1, k) : k \in {Depth - 1} \ Callees({"promise"})}
      [] e = "call" -> {[Called(e, Depth - 2, Depth - 1) EXCEPT !.method = cells.codeString]}
      [] e = "construct" -> {Aborting(Cut(e, k), Word(k).lo) : k \in Top({"object"})}
      [] e = "staged" -> {[Cut(e, k) EXCEPT !.duty = Word(k).lo] : k \in Top({"object"})}
      [] e = "settle" ->
             {[Called(e, k, k) EXCEPT !.settled = Word(k).lo] : k \in Callees({"promiseResolve"})}
      [] e = "settling" ->
             {[Called(e, k, k + 1) EXCEPT !.settled = Word(k).lo] : k \in Callees({"promiseResolve"})}
      [] e = "promiseMethod" ->
             {[Called(e, k, k) EXCEPT !.promise = IF Word(k).type = "promise" THEN Word(k).lo ELSE 0] :
                 k \in {l \in Callees({"promise", "constructor"}) :
                           TextRequests \/ \A m \in l + 1 .. Depth - 1 : ~Textual(Word(m))}}
      [] e = "generatorNext" ->
             {[Cut(e, k) EXCEPT !.generator = Word(k).lo] :
                 k \in {l \in Callees({"object"}) : Word(l) = InScope}}
      [] e = "asyncCall" ->
             UNION {{[Called(e, k, Depth) EXCEPT !.closure = Word(k).lo, !.receiver = r] :
                        r \in {q \in Receivers(k) : TextRequests \/ ~Textual(q)}} : k \in Callees({"function"})}

(* What stopping at e writes besides: a waiter at the head of the list of   *)
(* the promise waited on; "undefined" over the continuation called, which   *)
(* handlePromiseSettle pushes before it may collect.                        *)
NewWaiters(e) == IF e = "waiting" THEN Built("waiter", 0) ELSE <<>>
Recorded(e, slots) ==
    LET hp == [heap @@ NewWaiters(e) EXCEPT ![Context].slots = slots]
        promise == slots.waitingOn - 1
    IN  CASE e = "waiting" ->
                 [hp EXCEPT ![heapPointer].slots.next = heap[promise].slots.waiters,
                            ![promise].slots.waiters = heapPointer + 1]
          [] e = "settling" ->
                 [hp EXCEPT ![Frame.pendingBase - 1].slots =
                     [s \in DOMAIN @ |-> IF slots.pendingTop = Frame.pendingBase + Offset(s) + 1
                                         THEN NoValue ELSE @[s]]]
          [] OTHER -> hp

Park(e) ==
    /\ Pending
    /\ \E slots \in Stopped(e) : heap' = Recorded(e, slots)
    /\ Running
    /\ heapPointer' = heapPointer + 2 * Cardinality(DOMAIN NewWaiters(e))
    /\ lastId' = lastId + Cardinality(DOMAIN NewWaiters(e))
    /\ UNCHANGED <<cells, strs, index, marked, smarked, stray, fwd, forwarding, writes>>

(* handleAsyncCall pops the callee, its receiver and its arguments, pushes  *)
(* the promise of the call, and leaves the exit condition as it is.         *)
AnswerAsyncCall ==
    /\ Frame.exit = "asyncCall"
    /\ LET k == Frame.argsPointer - Frame.pendingBase - (IF Frame.receiver = NoValue THEN 1 ELSE 2)
           slot == IF k = 0 THEN "s1" ELSE "s2"
       IN  heap' = [heap @@ Built("promise", 0)
                       EXCEPT ![Frame.pendingBase - 1].slots[slot] =
                                  [NoValue EXCEPT !.type = "promise", !.lo = heapPointer],
                              ![Context].slots = Cut("asyncAnswered", k + 1)]
    /\ Running
    /\ Allocated("promise")
    /\ UNCHANGED <<cells, strs, index, marked, smarked, stray, fwd, forwarding, writes>>

(* The answer, or the resumption.  What the request block still holds is    *)
(* dead: the next request that a walker looks at overwrites it, so it is    *)
(* forgotten here.  A promise that settled has no waiters left; a staged    *)
(* duty becomes the request of the abort at the head of the dispatch loop.  *)
Answered ==
    CASE Frame.exit = "waiting" ->
             [heap EXCEPT ![Frame.waitingOn - 1].slots.waiters = 0,
                          ![Context].slots = [NoRequest @@ Frame EXCEPT !.waitingOn = 0]]
      [] Frame.exit = "staged" ->
             [heap EXCEPT ![Context].slots = Aborting([Frame EXCEPT !.exit = "construct", !.duty = 0],
                                                      Frame.duty)]
      [] OTHER -> [heap EXCEPT ![Context].slots = NoRequest @@ Frame]
Answer ==
    /\ Frame.exit \notin {"none", "asyncCall"}
    /\ Mutated(Answered, FALSE)
    /\ UNCHANGED <<heapPointer, cells, lastId>>

(* An array emptied, an entry deleted: the word stays under the count.      *)
Empty(h) ==
    /\ heap[h].count = 1
    /\ Mutated([heap EXCEPT ![h].count = 0], FALSE)
    /\ UNCHANGED <<heapPointer, cells, lastId>>

(* The host lets go of its root.                                            *)
Release ==
    /\ cells.external # 0
    /\ Mutated(heap, FALSE)
    /\ cells' = [cells EXCEPT !.external = 0]
    /\ UNCHANGED <<heapPointer, lastId>>

------------------------------------------------------------------------------
(* A vat after its first growth of the context table: the old table is      *)
(* garbage at the bottom of the heap, so everything will move.              *)

H == HeapStart
Init ==
    /\ heap = (H :> Block("table", 2, 1, [entry |-> H + 7])) @@
              (H + 2 :> Block("scope", 2, 2, [parent |-> 0, entries |-> H + 4])) @@
              (H + 4 :> Block("pairs", 2, 3, ContainerSlots.pairs)) @@
              (H + 6 :> Block("context", 2, 4,
                  [pendingBase |-> H + 9, pendingTop |-> H + 9, callBase |-> H + 12,
                   callTop |-> H + 13, grantBase |-> H + 14, grantTop |-> H + 15,
                   tryBase |-> H + 16, tryTop |-> H + 17, scope |-> H + 3,
                   completion |-> NoValue, generatorObject |-> 0, regex |-> 0,
                   waitingOn |-> 0, duty |-> 0] @@ NoRequest)) @@
              (H + 8 :> Block("pendingStack", 3, 5, [s1 |-> NoValue, s2 |-> NoValue])) @@
              (H + 11 :> Block("callStack", 2, 6, [scope |-> H + 3, native |-> FALSE,
                  handle |-> 0, callback |-> 0, async |-> 0])) @@
              (H + 13 :> Block("grantStack", 2, 7, [identifier |-> StringValue(2), scope |-> H + 3])) @@
              (H + 15 :> Block("tryStack", 2, 8, [scope |-> H + 3, completion |-> NoValue])) @@
              (H + 17 :> Block("table", 2, 9, [entry |-> H + 7])) @@
              (H + 19 :> Block("generation", 2, 10, <<>>))
    /\ heapPointer = H + 21
    /\ cells = [contextTable |-> H + 18, generationTable |-> H + 20, rootScope |-> H + 3,
                intrinsic |-> 0, codeOperand |-> 0, external |-> 0,
                codeString |-> 2, builtin |-> 4, ast |-> 3]
    /\ strs = <<"dead", "code", "ast", "builtin">>
    /\ index = [t \in {"dead", "code", "ast", "builtin"} |-> CHOOSE i \in 1 .. 4 : strs[i] = t]
    /\ phase = "run"
    /\ marked = {} /\ smarked = {} /\ stray = {}
    /\ fwd = <<>> /\ forwarding = 0 /\ before = <<>>
    /\ writes = 0 /\ lastId = 10

Collect == MarkPhase \/ ComputeForwardingAddresses \/ UpdatePointers \/ MoveObjects \/ CompactStrings

StartsOf(k) == IF k = "function" THEN Starts ELSE {0}

Mutate ==
    \E structures \in {Structures} :
    \E values \in {Pushes \cup Items(structures)}, pointers \in {Pointers(structures)} :
        \/ \E k \in Kinds, spot \in values : \E start \in StartsOf(k) : CreateValue(k, start, spot)
        \/ \E h \in structures, spot \in values \cup Holders : \E v \in ValuesOf(heap[h].kind, h) :
               StoreValue(v, spot, heap[spot.at].kind = "pairs")
        \/ \E v \in PlainValues, spot \in values \cup Holders : StoreValue(v, spot, TRUE)
        \/ \E spot \in pointers : \E k \in Takes(spot.owner, spot.slot) :
               \/ \E start \in StartsOf(k) : CreateLinked(k, start, spot)
               \/ \E h \in {l \in structures : heap[l].kind = k} : Link(h, spot)
        \/ \E h \in structures :
               \/ "symEntries" \in DOMAIN heap[h].slots /\ AddSymbol(h)
               \/ Empty(h)
        \/ StoreText
        \/ \E cell \in DOMAIN CellTakes : SetCell(cell, CellTakes[cell])
        \/ \E e \in Exits : Park(e)
        \/ Pop \/ AnswerAsyncCall \/ Answer \/ Release
        \/ \E s \in {"call", "grant", "try"} : Leave(s)

Next == Collect \/ (phase \in {"run", "done"} /\ Mutate)

Spec == Init /\ [][Next]_vars

------------------------------------------------------------------------------
(* Properties.                                                              *)

(* A collection changes no meaning: after it, the graph of everything the   *)
(* program can still reach, every string it holds, the depth of each stack  *)
(* and the place of a parked call's arguments are what they were, though    *)
(* every block and every string may have moved (collector.js collect).      *)
ReachablePreserved == phase = "done" => Graph(heap, cells, strs) = before

(* A collection keeps what is reachable and nothing else, with no gap, and  *)
(* sets no mark bit inside a block: blocks follow one another from the heap *)
(* start to the heap pointer.  Only after an async call has been answered   *)
(* may what its request still names float until the caller runs.            *)
HeapTight ==
    /\ stray = {}
    /\ phase = "done" =>
        /\ before.blocks \subseteq {heap[h].id : h \in DOMAIN heap}
        /\ Frame.exit = "asyncAnswered" \/ {heap[h].id : h \in DOMAIN heap} = before.blocks
        /\ \A h \in DOMAIN heap : h + heap[h].size \in DOMAIN heap \cup {heapPointer}
        /\ HeapStart \in DOMAIN heap

(* The strings the program names.                                           *)
Named ==
    LET words == UNION {BlockWords(heap, h, Layout) : h \in Reachable(heap, cells)} \cup
                 ContextWords(heap, cells, ContextLayout)
    IN  UNION {Strings(WordAt(heap, w), w.form, LayoutLo) : w \in words} \cup
        UNION {StringHalf(cells[r.slot], r.form) : r \in CellLayout}

(* After a collection the string table holds the strings the program still  *)
(* names and no other (but for what an answered async call keeps afloat),   *)
(* and the interning index is its exact inverse: no text has two ids, none  *)
(* leads to another's (collector.js compactStrings, rebuildHashTable).      *)
StringsTight ==
    phase = "done" =>
        /\ Named \subseteq DOMAIN strs
        /\ Frame.exit = "asyncAnswered" \/ DOMAIN strs = Named
        /\ DOMAIN index = {strs[i] : i \in DOMAIN strs}
        /\ \A i \in DOMAIN strs : index[strs[i]] = i
==============================================================================
