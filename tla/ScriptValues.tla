---------------------------- MODULE ScriptValues ----------------------------
(***************************************************************************)
(* The values of a SandScript program, the objects and scopes they live    *)
(* in, and the host functions a program calls.  The bytecode machine and   *)
(* the meaning of the source both work on a record m with the fields       *)
(*                                                                         *)
(*   heap    the objects, number i being heap[i]: an object, an array, a   *)
(*           function, an array's iterator or a host's stream of values    *)
(*   scopes  the scopes: the parent, 0 at the root, and what is bound      *)
(*   log     what the program has shown the host, oldest first             *)
(*   tape    the host's answers so far, oldest first                       *)
(*                                                                         *)
(* A value is a pair of a type and its payload, so that values of          *)
(* different types can be compared.                                        *)
(***************************************************************************)
EXTENDS Integers, FiniteSets, SequencesExt, TLC

CONSTANT MaxAnswers   \* the host answers "no" once it has answered this often

Undefined     == <<"undefined", 0>>
Null          == <<"null", 0>>
Boolean(b)    == <<"boolean", b>>
Number(n)     == <<"number", n>>
String(s)     == <<"string", s>>
Symbol(n)     == <<"symbol", n>>
Reference(i)  == <<"object", i>>
Native(name)  == <<"native", name>>
TypeError     == <<"error", "TypeError">>
NameError     == <<"error", "ReferenceError">>
Redeclaration == <<"error", "Redeclaration">>
ConstAssign   == <<"error", "ConstAssignment">>

IteratorSymbol == Symbol(0)

IsNullish(v) == v[1] \in {"undefined", "null"}

Truthy(v) == ~IsNullish(v) /\ v \notin {Boolean(FALSE), Number(0), String("")}

(* The outcome of an operation: a value, or an error to be thrown. *)
Value(v) == [thrown |-> FALSE, value |-> v]
Error(v) == [thrown |-> TRUE, value |-> v]

(***************************************************************************)
(* Objects.  Properties keep the order they were added in.                 *)
(***************************************************************************)
NewObject(kind) == [kind |-> kind, props |-> <<>>, elems |-> <<>>, of |-> 0, at |-> 0]

Allocate(m, object) == [m EXCEPT !.heap = Append(@, object)]

Newest(m) == Reference(Len(m.heap))

PropertyAt(object, name) == {i \in DOMAIN object.props : object.props[i][1] = name}

SetProperty(object, name, v) ==
  LET at == PropertyAt(object, name)
  IN  IF at = {} THEN [object EXCEPT !.props = Append(@, <<name, v>>)]
      ELSE [object EXCEPT !.props = [i \in DOMAIN @ |-> IF i \in at THEN <<name, v>> ELSE @[i]]]

DeleteProperty(object, name) == [object EXCEPT !.props = SelectSeq(@, LAMBDA p : p[1] # name)]

(* The methods the interpreter and the host supply. *)
MethodsOf(kind) ==
  CASE kind = "array"    -> {"push"}
    [] kind = "iterator" -> {"next"}
    [] kind = "stream"   -> {"next", "return"}
    [] OTHER             -> {}

GetProperty(m, v, name) ==
  CASE IsNullish(v) -> Error(TypeError)
    [] v = Native("Object") /\ name = "keys" -> Value(Native("keys"))
    [] v[1] = "object" ->
         LET object == m.heap[v[2]]
             at     == PropertyAt(object, name)
         IN  CASE object.kind = "array" /\ name = "length" -> Value(Number(Len(object.elems)))
               [] name \in MethodsOf(object.kind) -> Value(Native(name))
               [] at # {} -> Value(object.props[CHOOSE i \in at : TRUE][2])
               [] OTHER -> Value(Undefined)
    [] OTHER -> Value(Undefined)

GetElement(m, v, key) ==
  LET object == m.heap[v[2]]
  IN  CASE IsNullish(v) -> Error(TypeError)
        [] v[1] = "object" /\ key = IteratorSymbol ->
             Value(CASE object.kind = "array"  -> Native("values")
                     [] object.kind \in {"stream", "iterator"} -> Native("self")
                     [] OTHER -> Undefined)
        [] v[1] = "object" /\ key[1] = "number" ->
             Value(IF key[2] + 1 \in DOMAIN object.elems THEN object.elems[key[2] + 1] ELSE Undefined)
        [] v[1] = "object" /\ key[1] = "string" -> GetProperty(m, v, key[2])
        [] OTHER -> Value(Undefined)

(* Stores into an element past the end of an array are left out. *)
PutProperty(m, v, name, value) == [m EXCEPT !.heap[v[2]] = SetProperty(@, name, value)]

PutElement(m, v, key, value) ==
  IF key[1] = "number" THEN [m EXCEPT !.heap[v[2]].elems[key[2] + 1] = value]
  ELSE PutProperty(m, v, key[2], value)

RemoveProperty(m, v, name) == [m EXCEPT !.heap[v[2]] = DeleteProperty(@, name)]

PushElement(m, v, value) == [m EXCEPT !.heap[v[2]].elems = Append(@, value)]

MergeProperties(m, v, source) ==
  IF IsNullish(source) THEN m
  ELSE [m EXCEPT !.heap[v[2]] = FoldLeft(LAMBDA o, p : SetProperty(o, p[1], p[2]), @, m.heap[source[2]].props)]

MakeArray(m, elems) == Allocate(m, [NewObject("array") EXCEPT !.elems = elems])

(* pairs is a sequence of a key and a value, in turn. *)
MakeObject(m, pairs) ==
  Allocate(m, FoldLeft(LAMBDA o, i : SetProperty(o, pairs[2 * i - 1][2], pairs[2 * i]), NewObject("object"),
                       [i \in 1 .. Len(pairs) \div 2 |-> i]))

IteratorResult(m, value, done) ==
  MakeObject(m, <<String("value"), value, String("done"), Boolean(done)>>)

CannotIterate(v) == IsNullish(v) \/ v[1] \in {"boolean", "number", "symbol"}

IsIteratorResult(v) == v[1] = "object"

(***************************************************************************)
(* Operators.                                                              *)
(***************************************************************************)
Display(v) ==
  CASE v[1] = "string" -> v[2]
    [] v[1] = "number" -> ToString(v[2])
    [] OTHER           -> v[1]

BinaryResult(op, a, b) ==
  CASE op = "ADD" /\ a[1] = "number" /\ b[1] = "number" -> Number(a[2] + b[2])
    [] op = "ADD" /\ ~(a[1] = "number" /\ b[1] = "number") -> String(Display(a) \o Display(b))
    [] op = "SUB" -> Number(a[2] - b[2])
    [] op = "LT"  -> Boolean(a[2] < b[2])
    [] op = "EQ"  -> Boolean(a = b)

(***************************************************************************)
(* Scopes: chains of bindings.                                             *)
(***************************************************************************)
NewScope(m, parent) == [m EXCEPT !.scopes = Append(@, [parent |-> parent, vars |-> <<>>])]

Binds(m, scope, name) == name \in DOMAIN m.scopes[scope].vars

RECURSIVE ScopeLookup(_, _, _)
ScopeLookup(m, scope, name) ==
  CASE scope = 0 -> 0
    [] scope # 0 /\ Binds(m, scope, name) -> scope
    [] OTHER -> ScopeLookup(m, m.scopes[scope].parent, name)

Binding(m, scope, name) == m.scopes[ScopeLookup(m, scope, name)].vars[name]

ScopeDefine(m, scope, name, v, const) ==
  [m EXCEPT !.scopes[scope].vars = (name :> [value |-> v, const |-> const]) @@ @]

ScopeSet(m, scope, name, v) ==
  [m EXCEPT !.scopes[ScopeLookup(m, scope, name)].vars[name].value = v]

(***************************************************************************)
(* The functions of the interpreter and of the host.  log shows a value,   *)
(* with the number of grants held; ask, and the methods of a stream, are   *)
(* answered by the host.  A call gives the record m with the outcome.      *)
(***************************************************************************)
Answers == {"yes", "no", "throw"}

IsStream(m, v) == v[1] = "object" /\ m.heap[v[2]].kind = "stream"

AsksHost(m, name, this) == name = "ask" \/ (name \in {"next", "return"} /\ IsStream(m, this))

Heard(m, answer) == [m EXCEPT !.tape = Append(@, answer)]
Shown(m, v, held) == [m EXCEPT !.log = Append(@, <<v, held>>)]

StreamNext(m, answer) ==
  IF answer = "throw" THEN [m |-> m, out |-> Error(String("next"))]
  ELSE LET r == IteratorResult(m, IF answer = "yes" THEN Number(1) ELSE Undefined, answer = "no")
       IN  [m |-> r, out |-> Value(Newest(r))]

StreamReturn(m, answer, held) ==
  LET closed == Shown(m, String("close"), held)
      r      == IteratorResult(closed, Undefined, TRUE)
  IN  IF answer = "throw" THEN [m |-> closed, out |-> Error(String("return"))]
      ELSE [m |-> r, out |-> Value(Newest(r))]

IteratorNext(m, this) ==
  LET it    == m.heap[this[2]]
      elems == m.heap[it.of].elems
      ended == it.at >= Len(elems)
      r     == IteratorResult([m EXCEPT !.heap[this[2]].at = @ + 1],
                              IF ended THEN Undefined ELSE elems[it.at + 1], ended)
  IN  [m |-> r, out |-> Value(Newest(r))]

CallNative(m, name, this, args, answer, held) ==
  LET told == IF AsksHost(m, name, this) THEN Heard(m, answer) ELSE m
  IN  CASE name = "log" -> [m |-> Shown(m, args[1], held), out |-> Value(Undefined)]
        [] name = "ask" -> [m |-> told, out |-> IF answer = "throw" THEN Error(String("ask"))
                                                ELSE Value(Number(IF answer = "yes" THEN 1 ELSE 0))]
        [] name = "keys" ->
             LET props == m.heap[args[1][2]].props
                 r == MakeArray(m, [i \in DOMAIN props |-> String(props[i][1])])
             IN  [m |-> r, out |-> Value(Newest(r))]
        [] name = "push" -> [m |-> PushElement(m, this, args[1]), out |-> Value(Undefined)]
        [] name = "values" ->
             LET r == Allocate(m, [NewObject("iterator") EXCEPT !.of = this[2]])
             IN  [m |-> r, out |-> Value(Newest(r))]
        [] name = "self" -> [m |-> m, out |-> Value(this)]
        [] name = "next" -> IF IsStream(m, this) THEN StreamNext(told, answer) ELSE IteratorNext(m, this)
        [] name = "return" -> StreamReturn(told, answer, held)

(* A world before the program runs: a scope with the host's names, in which
   stream is a stream of values. *)
Globals ==
  [log |-> Native("log"), ask |-> Native("ask"), Object |-> Native("Object"), stream |-> Reference(1)]

FreshWorld ==
  [heap |-> <<NewObject("stream")>>,
   scopes |-> <<[parent |-> 0, vars |-> [n \in DOMAIN Globals |-> [value |-> Globals[n], const |-> TRUE]]]>>,
   log |-> <<>>, tape |-> <<>>]
=============================================================================
