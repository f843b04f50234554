---------------------------- MODULE SourceMeaning ----------------------------
(***************************************************************************)
(* What a SandScript program means, defined on its tree: the abstract      *)
(* specification that the compiler and the machine implement together.     *)
(* Evaluation is structural.  A construct that opens a scope or takes a    *)
(* grant gives back, however it is left, the scope and the grants it       *)
(* found; nothing here knows of jumps, entries or operand stacks.          *)
(*                                                                         *)
(* s is the record of ScriptValues with, besides, the current scope, the   *)
(* number of grants held, the host's answers, the value v of what was last *)
(* evaluated and its completion: "normal", "throw", "return", "break" or   *)
(* "continue".  Names are bound where they are declared (nothing is        *)
(* hoisted).  Array patterns are only used on arrays, whose iterators need *)
(* no closing.                                                             *)
(***************************************************************************)
EXTENDS Syntax, ScriptValues

Abrupt(s) == s.completion # "normal"
Give(s, v)  == [s EXCEPT !.v = v]
Raise(s, v) == [s EXCEPT !.v = v, !.completion = "throw"]
Complete(s, how) == [s EXCEPT !.completion = how]
Finish(s, outcome) == IF outcome.thrown THEN Raise(s, outcome.value) ELSE Give(s, outcome.value)
WithNewest(s) == Give(s, Newest(s))

NextAnswer(s) == IF Len(s.tape) < Len(s.answers) THEN s.answers[Len(s.tape) + 1] ELSE "no"

Declare(s, name, v, const) ==
  IF Binds(s, s.scope, name) THEN Raise(s, Redeclaration) ELSE ScopeDefine(s, s.scope, name, v, const)

Assign(s, name, v) ==
  CASE ScopeLookup(s, s.scope, name) = 0 -> Raise(s, NameError)
    [] ScopeLookup(s, s.scope, name) # 0 /\ Binding(s, s.scope, name).const -> Raise(s, ConstAssign)
    [] OTHER -> Give(ScopeSet(s, s.scope, name, v), v)

Lookup(s, name) ==
  IF ScopeLookup(s, s.scope, name) = 0 THEN Raise(s, NameError) ELSE Give(s, Binding(s, s.scope, name).value)

RECURSIVE Eval(_, _), EvalList(_, _, _), Exec(_, _), ExecAll(_, _), CallValue(_, _, _, _), Bind(_, _, _, _),
          Drain(_, _, _), WhileLoop(_, _), ForLoop(_, _), ForOfLoop(_, _, _), ForInLoop(_, _, _)

(* Runs Op unless s is abrupt already. *)
Then(s, Op(_)) == IF Abrupt(s) THEN s ELSE Op(s)

(* A scope of its own around what Op does. *)
Scoped(s, Op(_)) ==
  LET made == NewScope(s, s.scope)
  IN  [Op([made EXCEPT !.scope = Len(made.scopes)]) EXCEPT !.scope = s.scope]

ScopedStatements(s, list) == Scoped(s, LAMBDA t : ExecAll(t, list))

(***************************************************************************)
(* Calls and iteration.                                                    *)
(***************************************************************************)
BindParameters(s, params, args) ==
  FoldLeft(LAMBDA t, i :
             LET passed == IF i <= Len(args) THEN args[i] ELSE Undefined
                 array  == MakeArray(t, SubSeq(args, i, Len(args)))
             IN  Then(t, LAMBDA u : IF "rest" \in params[i].flags THEN Bind(array, params[i], Newest(array), "let")
                                    ELSE Bind(u, params[i], passed, "let")),
           s, [i \in DOMAIN params |-> i])

CallClosure(s, f, this, args) ==
  LET function == s.heap[f[2]]
      decl     == function.at
      made     == NewScope(s, function.of)
      within   == [made EXCEPT !.scope = Len(made.scopes)]
      called   == IF "arrow" \in decl.flags THEN within ELSE Declare(within, "this", this, FALSE)
      bound    == BindParameters(called, decl.params, args)
      done     == CASE Abrupt(bound) -> bound
                    [] ~Abrupt(bound) /\ decl.body.k = "block" -> ExecAll(bound, decl.body.statements)
                    [] OTHER -> Eval(bound, decl.body)
      result   == CASE done.completion = "return" -> Complete(done, "normal")
                    [] done.completion = "normal" /\ decl.body.k = "block" -> Give(done, Undefined)
                    [] OTHER -> done
  IN  [result EXCEPT !.scope = s.scope]

CallValue(s, f, this, args) ==
  LET r == CallNative(s, f[2], this, args, NextAnswer(s), s.held)
  IN  CASE f[1] = "native" -> Finish(r.m, r.out)
        [] f[1] = "object" /\ s.heap[f[2]].kind = "function" -> CallClosure(s, f, this, args)
        [] OTHER -> Raise(s, TypeError)

(* The iterator of the value v. *)
GetIterator(s, v) ==
  LET factory == GetElement(s, v, IteratorSymbol).value
  IN  IF CannotIterate(v) THEN Raise(s, TypeError)
      ELSE IF IsNullish(factory) THEN Raise(s, TypeError) ELSE CallValue(s, factory, v, <<>>)

Step(s, iterator) == CallValue(s, GetProperty(s, iterator, "next").value, iterator, <<>>)
IsDone(s, result) == Truthy(GetProperty(s, result, "done").value)
ValueOf(s, result) == GetProperty(s, result, "value").value

(* All the values an iterator has left. *)
Drain(s, iterator, vs) ==
  LET step == Step(s, iterator)
  IN  IF Abrupt(step) \/ IsDone(step, step.v) THEN [s |-> step, vs |-> vs]
      ELSE Drain(step, iterator, Append(vs, ValueOf(step, step.v)))

(***************************************************************************)
(* Binding: how is "let", "const" or "assign".                             *)
(***************************************************************************)
BindName(s, name, v, how) ==
  IF how = "assign" THEN Assign(s, name, v) ELSE Declare(s, name, v, how = "const")

BindArray(s, pattern, v, how) ==
  LET opened == GetIterator(s, v)
      Element(t, e) ==
        LET step == Step(t, opened.v)
            rest == Drain(t, opened.v, <<>>)
            array == MakeArray(rest.s, rest.vs)
        IN  CASE Abrupt(t) -> t
              [] ~Abrupt(t) /\ "rest" \in e.flags -> Bind(array, e, Newest(array), how)
              [] ~Abrupt(t) /\ "hole" \in e.flags -> step
              [] OTHER -> Then(step, LAMBDA u : Bind(u, e, ValueOf(u, u.v), how))
  IN  Then(opened, LAMBDA t : FoldLeft(Element, t, pattern.elements))

BindObject(s, pattern, v, how) ==
  LET named == {pattern.properties[i].key : i \in {j \in DOMAIN pattern.properties :
                                                     {"rest", "computed"} \cap pattern.properties[j].flags = {}}}
      Property(t, e) ==
        LET key   == IF "computed" \in e.flags THEN Eval(t, e.key) ELSE Give(t, String(e.key))
            found == Finish(key, GetElement(key, v, key.v))
            left  == SelectSeq(t.heap[v[2]].props, LAMBDA p : p[1] \notin named)
            rest  == Allocate(t, [NewObject("object") EXCEPT !.props = left])
        IN  CASE Abrupt(t) -> t
              [] ~Abrupt(t) /\ "rest" \in e.flags -> Bind(rest, e, Newest(rest), how)
              [] OTHER -> Then(found, LAMBDA u : Bind(u, e, u.v, how))
  IN  FoldLeft(Property, s, pattern.properties)

(* Binds the element e of a pattern, or a parameter, to v or to its default. *)
Bind(s, e, v, how) ==
  LET source == IF v = Undefined /\ e.default # Absent THEN Eval(s, e.default) ELSE Give(s, v)
  IN  Then(source, LAMBDA t : CASE e.target.k = "identifier" -> BindName(t, e.target.name, t.v, how)
                                [] e.target.k = "arrayPattern" -> BindArray(t, e.target, t.v, how)
                                [] e.target.k = "objectPattern" -> BindObject(t, e.target, t.v, how))

Plain(target) == PatternElement("", target, Absent, {})

(***************************************************************************)
(* Expressions.                                                            *)
(***************************************************************************)
EvalList(s, list, vs) ==
  IF Abrupt(s) \/ list = <<>> THEN [s |-> s, vs |-> vs]
  ELSE LET e      == Head(list)
           source == Eval(s, e.argument)
           opened == Then(source, LAMBDA t : GetIterator(t, t.v))
           all    == IF Abrupt(opened) THEN [s |-> opened, vs |-> vs] ELSE Drain(opened, opened.v, vs)
           value  == Eval(s, e)
       IN  IF e.k = "spread" THEN EvalList(all.s, Tail(list), all.vs)
           ELSE EvalList(value, Tail(list), Append(vs, value.v))

(* Op of the values of the list, unless evaluating one is abrupt. *)
WithValues(s, list, Op(_, _)) ==
  LET r == EvalList(s, list, <<>>) IN IF Abrupt(r.s) THEN r.s ELSE Op(r.s, r.vs)

GetMember(s, v, key) == Finish(s, GetElement(s, v, key))

(* The object and the key of an access, as values. *)
PartsOf(n) == IF n.k \in {"member", "optMember"} THEN <<n.object, LiteralString(n.name)>> ELSE <<n.object, n.index>>

Put(s, object, key, v) ==
  IF IsNullish(object) THEN Raise(s, TypeError) ELSE Give(PutElement(s, object, key, v), v)

EvalAssignment(s, n) ==
  LET Updated(old, v) == IF n.op = "=" THEN v ELSE BinaryResult(n.op, old, v)
      name == n.target.name
  IN  IF n.target.k = "identifier"
      THEN LET old == IF n.op = "=" THEN s ELSE Lookup(s, name)
           IN  Then(old, LAMBDA t : WithValues(t, <<n.value>>, LAMBDA u, vs : Assign(u, name, Updated(t.v, vs[1]))))
      ELSE WithValues(s, PartsOf(n.target), LAMBDA t, parts :
             Then(IF n.op = "=" THEN t ELSE GetMember(t, parts[1], parts[2]), LAMBDA u :
               WithValues(u, <<n.value>>, LAMBDA w, vs : Put(w, parts[1], parts[2], Updated(u.v, vs[1])))))

EvalUpdate(s, n) ==
  LET Result(t, old) == Then(t, LAMBDA u : Give(u, IF n.prefix THEN u.v ELSE old))
      Changed(old) == BinaryResult(n.op, old, Number(1))
  IN  IF n.operand.k = "identifier"
      THEN Then(Lookup(s, n.operand.name), LAMBDA t : Result(Assign(t, n.operand.name, Changed(t.v)), t.v))
      ELSE WithValues(s, PartsOf(n.operand), LAMBDA t, parts :
             Then(GetMember(t, parts[1], parts[2]), LAMBDA u :
               Result(Put(u, parts[1], parts[2], Changed(u.v)), u.v)))

EvalObject(s, n) ==
  LET opened == Allocate(s, NewObject("object"))
      object == Newest(opened)
      Property(t, p) ==
        CASE Abrupt(t) -> t
          [] ~Abrupt(t) /\ "spread" \in p.flags ->
               WithValues(t, <<p.value>>, LAMBDA u, vs : MergeProperties(u, object, vs[1]))
          [] OTHER -> WithValues(t, <<IF "computed" \in p.flags THEN p.key ELSE LiteralString(p.key), p.value>>,
                                 LAMBDA u, vs : PutElement(u, object, vs[1], vs[2]))
  IN  Then(FoldLeft(Property, opened, n.properties), LAMBDA t : Give(t, object))

EvalCall(s, n) ==
  LET Called(t, f, this) == WithValues(t, n.args, LAMBDA u, vs : CallValue(u, f, this, vs))
  IN  IF n.callee.k \in {"member", "index"}
      THEN WithValues(s, PartsOf(n.callee), LAMBDA t, parts :
             Then(GetMember(t, parts[1], parts[2]), LAMBDA u : Called(u, u.v, parts[1])))
      ELSE Then(Eval(s, n.callee), LAMBDA t : Called(t, t.v, Undefined))

Chooses(op, v) ==
  CASE op = "AND" -> Truthy(v)
    [] op = "OR"  -> ~Truthy(v)
    [] op = "NULLISH" -> IsNullish(v)

MakeFunction(s, n) == WithNewest(Allocate(s, [NewObject("function") EXCEPT !.at = n, !.of = s.scope]))

Eval(s, n) ==
  CASE n.k = "integer"   -> Give(s, Number(n.value))
    [] n.k = "string"    -> Give(s, String(n.value))
    [] n.k = "boolean"   -> Give(s, Boolean(n.value))
    [] n.k = "null"      -> Give(s, Null)
    [] n.k = "undefined" -> Give(s, Undefined)
    [] n.k = "identifier" -> Lookup(s, n.name)
    [] n.k = "this"      -> Lookup(s, "this")
    [] n.k = "group"     -> Eval(s, n.expression)
    [] n.k = "function"  -> MakeFunction(s, n)
    [] n.k = "template"  ->
         WithValues(s, n.parts, LAMBDA t, vs : Give(t, FoldLeft(LAMBDA a, b : BinaryResult("ADD", a, b),
                                                                 Head(vs), Tail(vs))))
    [] n.k = "array"     -> WithValues(s, n.elements, LAMBDA t, vs : WithNewest(MakeArray(t, vs)))
    [] n.k = "object"    -> EvalObject(s, n)
    [] n.k = "binary"    ->
         WithValues(s, <<n.left, n.right>>, LAMBDA t, vs : Give(t, BinaryResult(n.op, vs[1], vs[2])))
    [] n.k = "logical"   ->
         Then(Eval(s, n.left), LAMBDA t : IF Chooses(n.op, t.v) THEN Eval(t, n.right) ELSE t)
    [] n.k = "unary" /\ n.op = "NOT" -> WithValues(s, <<n.operand>>, LAMBDA t, vs : Give(t, Boolean(~Truthy(vs[1]))))
    [] n.k = "unary" /\ n.op = "DELETE" ->
         WithValues(s, PartsOf(n.operand), LAMBDA t, parts :
           Give(RemoveProperty(t, parts[1], parts[2][2]), Boolean(TRUE)))
    [] n.k = "conditional" ->
         Then(Eval(s, n.test), LAMBDA t : Eval(t, IF Truthy(t.v) THEN n.consequent ELSE n.alternate))
    [] n.k = "sequence"  -> Then(Eval(s, n.left), LAMBDA t : Eval(t, n.right))
    [] n.k = "assign"    -> EvalAssignment(s, n)
    [] n.k = "assignPattern" ->
         WithValues(s, <<n.value>>, LAMBDA t, vs :
           Then(Bind(t, Plain(n.pattern), vs[1], "assign"), LAMBDA u : Give(u, vs[1])))
    [] n.k = "update"    -> EvalUpdate(s, n)
    [] n.k \in {"member", "index"} ->
         WithValues(s, PartsOf(n), LAMBDA t, parts : GetMember(t, parts[1], parts[2]))
    [] n.k \in {"optMember", "optIndex"} ->
         Then(Eval(s, n.object), LAMBDA t : IF IsNullish(t.v) THEN Give(t, Undefined)
           ELSE WithValues(t, <<PartsOf(n)[2]>>, LAMBDA u, vs : GetMember(u, t.v, vs[1])))
    [] n.k = "optCall"   ->
         Then(Eval(s, n.callee), LAMBDA t : IF IsNullish(t.v) THEN Give(t, Undefined)
           ELSE WithValues(t, n.args, LAMBDA u, vs : CallValue(u, t.v, Undefined, vs)))
    [] n.k = "call"      -> EvalCall(s, n)

(***************************************************************************)
(* Statements.                                                             *)
(***************************************************************************)
ExecAll(s, list) == IF Abrupt(s) \/ list = <<>> THEN s ELSE ExecAll(Exec(s, Head(list)), Tail(list))

LeavesLoop(s) == s.completion \in {"break", "return", "throw"}
AfterLoop(s)  == IF s.completion = "break" THEN Complete(s, "normal") ELSE s
NextRound(s)  == Complete(s, "normal")

WhileLoop(s, n) ==
  Then(Eval(s, n.test), LAMBDA t :
    IF ~Truthy(t.v) THEN t
    ELSE LET body == Exec(t, n.body)
         IN  IF LeavesLoop(body) THEN AfterLoop(body) ELSE WhileLoop(NextRound(body), n))

DoWhileLoop(s, n) ==
  LET body == Exec(s, n.body)
  IN  IF LeavesLoop(body) THEN AfterLoop(body) ELSE WhileLoop(NextRound(body), n)

ForLoop(s, n) ==
  LET test == IF n.test = Absent THEN Give(s, Boolean(TRUE)) ELSE Eval(s, n.test)
  IN  Then(test, LAMBDA t :
        IF ~Truthy(t.v) THEN t
        ELSE LET body == Exec(t, n.body)
                 next == NextRound(body)
             IN  IF LeavesLoop(body) THEN AfterLoop(body)
                 ELSE Then(IF n.update = Absent THEN next ELSE Eval(next, n.update), LAMBDA u : ForLoop(u, n)))

(* One iteration: the binding and the body, in a scope of their own. *)
Iteration(s, n, v) ==
  Scoped(s, LAMBDA t : Then(Bind(t, Plain(n.binding), v, IF "const" \in n.flags THEN "const" ELSE "let"),
                            LAMBDA u : Exec(u, n.body)))

ForInLoop(s, n, keys) ==
  IF keys = <<>> THEN s
  ELSE LET round == Iteration(s, n, Head(keys))
       IN  IF LeavesLoop(round) THEN AfterLoop(round) ELSE ForInLoop(NextRound(round), n, Tail(keys))

(* A loop left early closes its iterator; what a throw leaves with, no error of
   the closing replaces. *)
CloseIterator(s, iterator) ==
  LET method == GetProperty(s, iterator, "return").value
      closed == CallValue(Complete(s, "normal"), method, iterator, <<>>)
  IN  CASE ~Truthy(method) -> s
        [] Truthy(method) /\ closed.completion = "throw" /\ s.completion # "throw" -> closed
        [] OTHER -> [closed EXCEPT !.completion = s.completion, !.v = s.v]

ForOfLoop(s, n, iterator) ==
  Then(Step(s, iterator), LAMBDA t :
    IF IsDone(t, t.v) THEN t
    ELSE LET round == Iteration(t, n, ValueOf(t, t.v))
         IN  IF LeavesLoop(round) THEN AfterLoop(CloseIterator(round, iterator))
             ELSE ForOfLoop(NextRound(round), n, iterator))

(* The first case that equals the value, else the default, and those behind it. *)
ExecSwitch(s, n) ==
  LET Chosen(found, i) ==
        LET test == Eval(found.s, n.cases[i].test)
        IN  IF found.at # 0 \/ Abrupt(found.s) \/ n.cases[i].test = Absent THEN found
            ELSE [s |-> test, at |-> IF ~Abrupt(test) /\ test.v = s.v THEN i ELSE 0]
      chosen   == FoldLeft(Chosen, [s |-> s, at |-> 0], [i \in DOMAIN n.cases |-> i])
      defaults == {i \in DOMAIN n.cases : n.cases[i].test = Absent}
      start    == IF chosen.at # 0 THEN {chosen.at} ELSE defaults
      bodies   == FlattenSeq([i \in DOMAIN n.cases |-> IF \E j \in start : j <= i THEN n.cases[i].statements ELSE <<>>])
      done     == IF start = {} THEN chosen.s ELSE ScopedStatements(chosen.s, bodies)
  IN  IF Abrupt(chosen.s) THEN chosen.s ELSE AfterLoop(done)

ExecTry(s, n) ==
  LET body    == ScopedStatements(s, n.block.statements)
      caught  == IF n.catchBlock = Absent \/ body.completion # "throw" THEN body
                 ELSE Scoped(Complete(body, "normal"),
                             LAMBDA t : ExecAll(Declare(t, n.catchParam, body.v, FALSE), n.catchBlock.statements))
      finally == ScopedStatements(Complete(caught, "normal"), n.finallyBlock.statements)
  IN  CASE n.finallyBlock = Absent -> caught
        [] n.finallyBlock # Absent /\ Abrupt(finally) -> finally
        [] OTHER -> [finally EXCEPT !.completion = caught.completion, !.v = caught.v]

ExecGrant(s, n) ==
  WithValues(s, n.identifiers, LAMBDA t, names :
    LET answer == NextAnswer(t)
        told   == Heard(t, answer)
        body   == ScopedStatements([told EXCEPT !.held = @ + Len(names)], n.body.statements)
        array  == MakeArray(told, names)
    IN  CASE answer = "yes" -> [body EXCEPT !.held = s.held]
          [] answer # "yes" /\ n.deniedBody = Absent -> told
          [] OTHER -> Scoped(array, LAMBDA u : ExecAll(Declare(u, n.deniedParam, Newest(u), FALSE),
                                                       n.deniedBody.statements)))

Exec(s, n) ==
  CASE n.k = "empty"      -> s
    [] n.k = "expression" -> Eval(s, n.expression)
    [] n.k = "block"      -> ScopedStatements(s, n.statements)
    [] n.k = "variable"   ->
         FoldLeft(LAMBDA t, b : Then(t, LAMBDA u :
                    Then(IF b.init = Absent THEN Give(u, Undefined) ELSE Eval(u, b.init), LAMBDA w :
                      Bind(w, Plain(b.target), w.v, IF n.isConst THEN "const" ELSE "let"))), s, n.bindings)
    [] n.k = "function"   -> LET made == MakeFunction(s, n) IN Declare(made, n.name, made.v, FALSE)
    [] n.k = "if"         ->
         Then(Eval(s, n.test), LAMBDA t : CASE Truthy(t.v) -> Exec(t, n.consequent)
                                            [] ~Truthy(t.v) /\ n.alternate # Absent -> Exec(t, n.alternate)
                                            [] OTHER -> t)
    [] n.k = "while"      -> WhileLoop(s, n)
    [] n.k = "doWhile"    -> DoWhileLoop(s, n)
    [] n.k = "for"        ->
         Scoped(s, LAMBDA t : Then(CASE n.init = Absent -> t
                                     [] n.init # Absent /\ n.init.k = "variable" -> Exec(t, n.init)
                                     [] OTHER -> Eval(t, n.init), LAMBDA u : ForLoop(u, n)))
    [] n.k = "forIn"      ->
         WithValues(s, <<n.iterable>>, LAMBDA t, vs :
           ForInLoop(t, n, [i \in DOMAIN t.heap[vs[1][2]].props |-> String(t.heap[vs[1][2]].props[i][1])]))
    [] n.k = "forOf"      ->
         Then(Eval(s, n.iterable), LAMBDA t : Then(GetIterator(t, t.v), LAMBDA u : ForOfLoop(u, n, u.v)))
    [] n.k = "break"      -> Complete(s, "break")
    [] n.k = "continue"   -> Complete(s, "continue")
    [] n.k = "return"     ->
         IF n.value = Absent THEN Complete(Give(s, Undefined), "return")
         ELSE Then(Eval(s, n.value), LAMBDA t : Complete(t, "return"))
    [] n.k = "throw"      -> Then(Eval(s, n.value), LAMBDA t : Complete(t, "throw"))
    [] n.k = "try"        -> ExecTry(s, n)
    [] n.k = "grant"      -> ExecGrant(s, n)
    [] n.k = "switch"     -> Then(Eval(s, n.discriminant), LAMBDA t : ExecSwitch(t, n))

(* The program's log and how it ends, when the host answers so. *)
Meaning(statements, answers) ==
  LET end == ExecAll(FreshWorld @@ [scope |-> 1, held |-> 0, answers |-> answers, v |-> Undefined,
                                    completion |-> "normal"], statements)
  IN  [log |-> end.log, thrown |-> end.completion = "throw",
       value |-> IF end.completion \in {"throw", "return"} THEN end.v ELSE Undefined]
=============================================================================
