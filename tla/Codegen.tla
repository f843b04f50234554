------------------------------ MODULE Codegen ------------------------------
(***************************************************************************)
(* The one-pass compiler of SandScript: src/src/fuel/parser.js.            *)
(*                                                                         *)
(* The parser is a Pratt parser that appends instructions to a code block  *)
(* as it recognises the source and goes back to patch the jumps it could   *)
(* not resolve.  An operator of this module is one method of the parser:   *)
(* it takes the parser's state and the construct it recognises and gives   *)
(* the parser's state after it.  The state is a record c:                  *)
(*                                                                         *)
(*   code        the instructions emitted so far, <<opcode, operand1,      *)
(*               operand2>>; instruction number i is code[i + 1]           *)
(*   loops       loopStack: the loops and switches that are open           *)
(*   tries       tryGrantDepths: one entry for each live try entry (its    *)
(*               length is tryProtectionDepth), the grant depth under it   *)
(*   grants      grantProtectionDepth                                      *)
(*   scopeDepth  the SCOPE_PUSHes less the SCOPE_POPs emitted              *)
(*   counter     destructuringCounter, the suffix of hidden names          *)
(*   methodCall, superCall, deleteTarget, pendingPop                       *)
(*               the flags one method sets for another to consume          *)
(*   functions   functionStack; supers: superStack; superKind:             *)
(*               pendingSuperKind; privates: privateNameStack              *)
(*   ok          no syntax error has been reported                         *)
(*                                                                         *)
(* Tokens, the skims that step over a construct and the rewinds that parse *)
(* it again are left out: an operator has the construct's tree, so it can  *)
(* emit a part whenever the parser's rewinding reaches it.  The order of   *)
(* emission is the parser's.                                               *)
(***************************************************************************)
EXTENDS Syntax, FiniteSetsExt, SequencesExt, TLC

NoTarget == 0 - 1

NewParser == [code |-> <<>>, loops |-> <<>>, tries |-> <<>>, grants |-> 0, scopeDepth |-> 0,
              counter |-> 0, methodCall |-> FALSE, superCall |-> FALSE, deleteTarget |-> FALSE,
              pendingPop |-> FALSE, functions |-> <<>>, supers |-> <<>>, superKind |-> "none",
              privates |-> <<>>, ok |-> TRUE]

SyntaxError(c) == [c EXCEPT !.ok = FALSE]
Require(c, condition) == [c EXCEPT !.ok = @ /\ condition]

(***************************************************************************)
(* Instruction emission.                                                   *)
(***************************************************************************)
Do(op)         == <<op, 0, 0>>
With(op, a)    == <<op, a, 0>>
GetVar(name)   == <<"GET_VAR", name, 0>>
SetVar(name)   == <<"SET_VAR", name, 0>>
LetVar(name)   == <<"LET_VAR", name, 0>>
GetProp(name)  == <<"GET_PROP", name, 0>>
CallMethod(n)  == <<"CALL_METHOD", n, 0>>

(* The receiver under the method: the layout CALL_METHOD expects. *)
MethodOf(object, name) == <<GetVar(object), GetVar(object), GetProp(name)>>

OpCount(instructions, op) == Cardinality({i \in DOMAIN instructions : instructions[i][1] = op})

Emits(c, instructions) ==
  [c EXCEPT !.code = @ \o instructions,
            !.scopeDepth = @ + OpCount(instructions, "SCOPE_PUSH") - OpCount(instructions, "SCOPE_POP")]

Emit(c, op) == Emits(c, <<Do(op)>>)

Here(c) == Len(c.code)

Patch(c, i, value)  == [c EXCEPT !.code[i + 1][2] = value]
Patch2(c, i, value) == [c EXCEPT !.code[i + 1][3] = value]
PatchAll(c, indices, value) ==
  [c EXCEPT !.code = [i \in DOMAIN @ |-> IF (i - 1) \in indices THEN <<@[i][1], value, @[i][3]>> ELSE @[i]]]

(* Emits an instruction whose jump operand is patched later: its index is Here(c). *)
JumpTo(c, op, target) == Emits(c, <<With(op, target)>>)

Hidden(base, n) == base \o ToString(n)

ConstFlag(isConst) == IF isConst THEN 1 ELSE 0

FlushPop(c) == IF c.pendingPop THEN [Emit(c, "POP") EXCEPT !.pendingPop = FALSE] ELSE c

RECURSIVE Expression(_, _), DispatchStatement(_, _), PatternBind(_, _, _, _), Postfix(_, _, _),
          ClassTail(_, _), FunctionExpression(_, _)

(***************************************************************************)
(* Statements.  An embedded statement never leaves its POP deferred past   *)
(* its own end; only a top-level one does, for the REPL to read.           *)
(***************************************************************************)
Statement(c, n) == FlushPop(DispatchStatement(FlushPop(c), n))

TopLevelStatement(c, n) == DispatchStatement(FlushPop(c), n)

RECURSIVE Statements(_, _), TopLevelStatements(_, _)
Statements(c, list) ==
  IF list = <<>> \/ ~c.ok THEN c ELSE Statements(Statement(c, Head(list)), Tail(list))
TopLevelStatements(c, list) ==
  IF list = <<>> \/ ~c.ok THEN c ELSE TopLevelStatements(TopLevelStatement(c, Head(list)), Tail(list))

(* Statements between braces in a scope of their own, whose first
   instructions bind what the scope is opened for. *)
ScopedBlock(c, binding, list) ==
  Emit(FlushPop(Statements(Emits(c, <<Do("SCOPE_PUSH")>> \o binding), list)), "SCOPE_POP")

ExpressionAsStatement(c, n) == [Expression(c, n.expression) EXCEPT !.pendingPop = TRUE]

Declarator(c, b, isConst) ==
  LET flags == ConstFlag(isConst)
  IN  IF b.target.k # "identifier"
      THEN PatternBind(Expression(Require(c, b.init # Absent), b.init), b.target, flags, "declare")
      ELSE LET value == IF b.init = Absent THEN Emit(Require(c, ~isConst), "LIT_UNDEFINED")
                        ELSE Expression(c, b.init)
           IN  Emits(value, <<<<"LET_VAR", b.target.name, flags>>>>)

VariableDeclaration(c, n) == FoldLeft(LAMBDA d, b : Declarator(d, b, n.isConst), c, n.bindings)

(***************************************************************************)
(* Destructuring.  The source value is on the operand stack; a pattern     *)
(* consumes it.  In mode "declare" a name is bound with LET_VAR, in mode   *)
(* "assign" with SET_VAR and a POP.                                        *)
(***************************************************************************)
EmitDestructuringBind(c, name, flags, mode) ==
  Emits(c, IF mode = "assign" THEN <<SetVar(name), Do("POP")>> ELSE <<<<"LET_VAR", name, flags>>>>)

EmitDefaultIfUndefined(c, default) ==
  IF default = Absent THEN c
  ELSE LET guard == Emits(c, <<Do("DUP"), Do("LIT_UNDEFINED"), Do("EQ")>>)
           value == Expression(Emit(JumpTo(guard, "JUMP_IF_FALSE", 0), "POP"), default)
       IN  Patch(value, Here(guard), Here(value))

EmitArrayIteratorStep(c, iter) ==
  Emits(c, MethodOf(iter, "next") \o <<CallMethod(0), Do("ASSERT_ITER_RESULT"), GetProp("value")>>)

BindArrayPatternTarget(c, target, flags, mode) ==
  IF target.k = "identifier" THEN EmitDestructuringBind(c, target.name, flags, mode)
  ELSE PatternBind(c, target, flags, mode)

(* ...target in an array pattern: drain the iterator into an array. *)
EmitArrayRestElement(c, iter, target, flags, mode) ==
  LET rest  == Hidden("@dst_rest_", c.counter)
      step  == Hidden("@dst_rstep_", c.counter)
      start == Emits([c EXCEPT !.counter = @ + 1],
                     <<With("MAKE_ARRAY", 0), LetVar(rest), Do("LIT_UNDEFINED"), LetVar(step)>>)
      test  == Emits(start, MethodOf(iter, "next") \o
                     <<CallMethod(0), Do("ASSERT_ITER_RESULT"), SetVar(step), Do("POP"),
                       GetVar(step), GetProp("done")>>)
      body  == Emits(JumpTo(test, "JUMP_IF_TRUE", 0), MethodOf(rest, "push") \o
                     <<GetVar(step), GetProp("value"), CallMethod(1), Do("POP"),
                       With("JUMP", Here(start))>>)
  IN  BindArrayPatternTarget(Emits(Patch(body, Here(test), Here(body)), <<GetVar(rest)>>),
                             target, flags, mode)

ArrayElement(c, e, iter, flags, mode) ==
  CASE "hole" \in e.flags -> Emit(EmitArrayIteratorStep(c, iter), "POP")
    [] "rest" \in e.flags -> EmitArrayRestElement(c, iter, e.target, flags, mode)
    [] OTHER ->
       LET value == EmitArrayIteratorStep(c, iter)
       IN  IF e.target.k = "identifier"
           THEN EmitDestructuringBind(EmitDefaultIfUndefined(value, e.default), e.target.name, flags, mode)
           ELSE PatternBind(Require(value, e.target.k = "arrayPattern" /\ e.default = Absent),
                            e.target, flags, mode)

ArrayPatternBind(c, pattern, flags, mode) ==
  LET src  == Hidden("@dst_src_", c.counter)
      iter == Hidden("@dst_iter_", c.counter)
      open == Emits([c EXCEPT !.counter = @ + 1],
                <<With("ASSERT_ITERABLE", 0), LetVar(src), GetVar(src), GetVar(src),
                  With("LIT_WELL_KNOWN_SYMBOL", 0), Do("GET_INDEX"), With("ASSERT_ITERABLE", 1),
                  CallMethod(0), LetVar(iter)>>)
  IN  FoldLeft(LAMBDA d, e : ArrayElement(d, e, iter, flags, mode), open, pattern.elements)

(* ...target in an object pattern: copy what no named element has bound. *)
EmitObjectRestElement(c, src, boundKeys, target, flags, mode) ==
  LET rest  == Hidden("@dst_rest_", c.counter)
      keys  == Hidden("@dst_keys_", c.counter)
      idx   == Hidden("@dst_i_", c.counter)
      key   == Hidden("@dst_k_", c.counter)
      start == Emits([c EXCEPT !.counter = @ + 1],
                 <<With("MAKE_OBJECT", 0), LetVar(rest)>> \o MethodOf("Object", "keys") \o
                 <<GetVar(src), CallMethod(1), LetVar(keys), With("LIT_RATIONAL_INTEGER", 0),
                   LetVar(idx), Do("LIT_UNDEFINED"), LetVar(key)>>)
      test  == Emits(start, <<GetVar(idx), GetVar(keys), GetProp("length"), Do("LT")>>)
      next  == Emits(JumpTo(test, "JUMP_IF_FALSE", 0),
                     <<GetVar(keys), GetVar(idx), Do("GET_INDEX"), SetVar(key), Do("POP")>>)
      skips == FoldLeft(LAMBDA d, k : Emits(d, <<GetVar(key), With("LIT_STRING", k), Do("EQ"),
                                                 With("JUMP_IF_TRUE", 0)>>), next, boundKeys)
      copy  == Emits(skips, <<GetVar(rest), GetVar(key), GetVar(src), GetVar(key), Do("GET_INDEX"),
                              Do("SET_INDEX"), Do("POP")>>)
      bump  == Emits(PatchAll(copy, {Here(next) + 4 * j - 1 : j \in DOMAIN boundKeys}, Here(copy)),
                     <<GetVar(idx), With("LIT_RATIONAL_INTEGER", 1), Do("ADD"), SetVar(idx), Do("POP"),
                       With("JUMP", Here(start))>>)
  IN  BindArrayPatternTarget(Emits(Patch(bump, Here(test), Here(bump)), <<GetVar(rest)>>),
                             target, flags, mode)

ObjectPatternBind(c, pattern, flags, mode) ==
  LET src   == Hidden("@dst_src_", c.counter)
      open  == Emits([c EXCEPT !.counter = @ + 1], <<LetVar(src)>>)
      named == SelectSeq(pattern.properties, LAMBDA e : {"computed", "rest"} \cap e.flags = {})
      Read(d, e) == IF "computed" \in e.flags
                    THEN Emit(Expression(Emits(d, <<GetVar(src)>>), e.key), "GET_INDEX")
                    ELSE Emits(d, <<GetVar(src), GetProp(e.key)>>)
      Property(d, e) ==
        CASE "rest" \in e.flags ->
             EmitObjectRestElement(d, src, [i \in DOMAIN named |-> named[i].key], e.target, flags, mode)
          [] "rest" \notin e.flags /\ e.target.k = "identifier" ->
             EmitDestructuringBind(EmitDefaultIfUndefined(Read(d, e), e.default), e.target.name, flags, mode)
          [] OTHER -> PatternBind(Require(Read(d, e), e.default = Absent), e.target, flags, mode)
  IN  FoldLeft(Property, open, pattern.properties)

PatternBind(c, pattern, flags, mode) ==
  IF pattern.k = "arrayPattern" THEN ArrayPatternBind(c, pattern, flags, mode)
  ELSE ObjectPatternBind(c, pattern, flags, mode)

(* [a, b] = value and {a, b} = value: the expression's value is the source. *)
DestructuringAssignmentImpl(c, n) ==
  PatternBind(Emit(Expression(c, n.value), "DUP"), n.pattern, 0, "assign")

(***************************************************************************)
(* Branches and loops.  A loop entry remembers the protection under which  *)
(* the loop was opened: the try entries and the grants a break or a        *)
(* continue must leave.  own is 1 for a for-of loop, whose break leaves    *)
(* the loop's own close frame too.                                         *)
(***************************************************************************)
LoopEntry(c, target, isLoop, scopeDepth, own) ==
  [breaks |-> {}, continues |-> {}, continueTarget |-> target, isLoop |-> isLoop,
   scopeDepth |-> scopeDepth, breakProtectionDepth |-> Len(c.tries) - own,
   continueProtectionDepth |-> Len(c.tries), grantProtectionDepth |-> c.grants]

PushLoop(c, entry) == [c EXCEPT !.loops = Append(@, entry)]

PopLoop(c, exitPoint, continueLabel) ==
  LET loop == Last(c.loops)
  IN  [PatchAll(PatchAll(c, loop.breaks, exitPoint), loop.continues, continueLabel)
         EXCEPT !.loops = Front(@)]

IfStatement(c, n) ==
  LET test == Expression(c, n.test)
      then == Statement(JumpTo(test, "JUMP_IF_FALSE", 0), n.consequent)
      else == JumpTo(then, "JUMP", 0)
      done == Statement(Patch(else, Here(test), Here(else)), n.alternate)
  IN  IF n.alternate = Absent THEN Patch(then, Here(test), Here(then))
      ELSE Patch(done, Here(then), Here(done))

WhileStatement(c, n) ==
  LET test == Expression(c, n.test)
      body == Statement(PushLoop(JumpTo(test, "JUMP_IF_FALSE", 0), LoopEntry(c, Here(c), TRUE, 0, 0)), n.body)
      back == JumpTo(body, "JUMP", Here(c))
  IN  PopLoop(Patch(back, Here(test), Here(back)), Here(back), Here(c))

DoWhileStatement(c, n) ==
  LET body == Statement(PushLoop(c, LoopEntry(c, NoTarget, TRUE, 0, 0)), n.body)
      back == JumpTo(Expression(body, n.test), "JUMP_IF_TRUE", Here(c))
  IN  PopLoop(back, Here(back), Here(body))

(* for (init; test; update): init is Absent, a declaration or an expression. *)
ForStatement(c, n) ==
  LET init == CASE n.init = Absent       -> Emit(c, "SCOPE_PUSH")
                [] n.init.k = "variable" -> VariableDeclaration(Emit(c, "SCOPE_PUSH"), n.init)
                [] OTHER                 -> Emit(Expression(Emit(c, "SCOPE_PUSH"), n.init), "POP")
      top    == JumpTo(init, "JUMP", Here(init) + 1)
      test   == IF n.test = Absent THEN top ELSE Expression(top, n.test)
      over   == IF n.test = Absent THEN test ELSE JumpTo(test, "JUMP_IF_FALSE", 0)
      update == JumpTo(over, "JUMP", 0)
      step   == IF n.update = Absent THEN update ELSE Emit(Expression(update, n.update), "POP")
      loop   == JumpTo(step, "JUMP", Here(top))
      body   == Statement(PushLoop(Patch(loop, Here(over), Here(loop)),
                                   LoopEntry(c, Here(update), TRUE, 0, 0)), n.body)
      back   == JumpTo(body, "JUMP", Here(update))
      exit   == IF n.test = Absent THEN back ELSE Patch(back, Here(test), Here(back))
  IN  Emit(PopLoop(exit, Here(back), Here(update)), "SCOPE_POP")

(* await, and for await, belong to an async function or to the top level. *)
AwaitAllowed(c) == c.functions # <<>> => Last(c.functions).isAsync

ForInBody(c, n) ==
  LET keys == Expression(Emits(c, <<Do("SCOPE_PUSH")>> \o MethodOf("Object", "keys")), n.iterable)
      top  == Emits(keys, <<CallMethod(1), LetVar("@keys"), With("LIT_RATIONAL_INTEGER", 0), LetVar("@i")>>)
      test == Emits(top, <<GetVar("@i"), GetVar("@keys"), GetProp("length"), Do("LT")>>)
      bind == Emits(JumpTo(test, "JUMP_IF_FALSE", 0),
                    <<Do("SCOPE_PUSH"), GetVar("@keys"), GetVar("@i"), Do("GET_INDEX"),
                      <<"LET_VAR", n.binding.name, ConstFlag("const" \in n.flags)>>>>)
      body == Statement(PushLoop(bind, LoopEntry(c, NoTarget, TRUE, 0, 0)), n.body)
      back == Emits(body, <<Do("SCOPE_POP"), GetVar("@i"), With("LIT_RATIONAL_INTEGER", 1), Do("ADD"),
                            SetVar("@i"), Do("POP"), With("JUMP", Here(top))>>)
      exit == Patch(back, Here(test), Here(back))
  IN  Emit(PopLoop(exit, Here(back), Here(body)), "SCOPE_POP")

(* The factory of a for-await loop: Symbol.asyncIterator, else Symbol.iterator
   with @syncFallback recording that the values are to be awaited instead. *)
AwaitFactory(c) ==
  LET look     == Emits(c, <<GetVar("@iterable"), With("LIT_WELL_KNOWN_SYMBOL", 1), Do("GET_INDEX"), Do("DUP")>>)
      fallback == Emits(JumpTo(look, "JUMP_IF_TRUE", 0),
                    <<Do("POP"), GetVar("@iterable"), With("LIT_WELL_KNOWN_SYMBOL", 0), Do("GET_INDEX"),
                      Do("LIT_TRUE"), LetVar("@syncFallback"), With("JUMP", Here(look) + 10)>>)
      native   == Emits(Patch(fallback, Here(look), Here(fallback)), <<Do("LIT_FALSE"), LetVar("@syncFallback")>>)
  IN  Emits(native, <<LetVar("@iteratorFactory"), GetVar("@iterable"), GetVar("@iteratorFactory")>>)

AwaitUnless(c, skip) ==
  LET test == Emits(c, <<GetVar("@syncFallback")>>)
      wait == Emit(JumpTo(test, skip, 0), "AWAIT")
  IN  Patch(wait, Here(test), Here(wait))

(* A call of the iterator's return(); the result is dropped. *)
CloseCall(iter, isAwait) ==
  MethodOf(iter, "return") \o <<CallMethod(0)>> \o (IF isAwait THEN <<Do("AWAIT")>> ELSE <<>>) \o <<Do("POP")>>

(* The close block, entered as the close frame's finally on every exit of an
   iteration: a NORMAL completion skips it, under THROW the errors of return()
   are swallowed, under RETURN and JUMP they propagate. *)
CloseBlock(c, iter, isAwait) ==
  LET kind    == Emit(c, "PUSH_COMPLETION_KIND")
      method  == Emits(JumpTo(kind, "JUMP_IF_FALSE", 0), <<GetVar(iter), GetProp("return")>>)
      thrown  == Emits(JumpTo(method, "JUMP_IF_FALSE", 0),
                       <<Do("PUSH_COMPLETION_KIND"), With("LIT_RATIONAL_INTEGER", 1), Do("EQ")>>)
      guard   == JumpTo(thrown, "JUMP_IF_FALSE", 0)
      guarded == Emits(guard, <<With("TRY_PUSH", 0)>> \o CloseCall(iter, isAwait) \o <<Do("TRY_POP")>>)
      plain   == Emits(JumpTo(guarded, "JUMP", 0), CloseCall(iter, isAwait))
      handler == JumpTo(plain, "JUMP", 0)
      tail    == Emits(handler, <<Do("POP"), Do("TRY_POP")>>)
      patched == Patch(Patch(tail, Here(thrown), Here(guarded) + 1), Here(guard), Here(handler))
  IN  Emit(PatchAll(patched, {Here(kind), Here(method), Here(guarded), Here(plain)}, Here(tail)), "FINALLY_END")

ForOfBody(c, n) ==
  LET flags   == ConstFlag("const" \in n.flags)
      isAwait == "await" \in n.flags
      allowed == Require(c, isAwait => AwaitAllowed(c))
      source  == Emits(Expression(Emit(allowed, "SCOPE_PUSH"), n.iterable), <<With("ASSERT_ITERABLE", 0), LetVar("@iterable")>>)
      factory == IF isAwait THEN AwaitFactory(source)
                 ELSE Emits(source, <<GetVar("@iterable"), GetVar("@iterable"),
                                      With("LIT_WELL_KNOWN_SYMBOL", 0), Do("GET_INDEX")>>)
      top     == Emits(factory, <<With("ASSERT_ITERABLE", 1), CallMethod(0), LetVar("@iter"),
                                  Do("LIT_UNDEFINED"), LetVar("@step")>>)
      next    == Emits(top, MethodOf("@iter", "next") \o <<CallMethod(0)>>)
      step    == Emits(IF isAwait THEN AwaitUnless(next, "JUMP_IF_TRUE") ELSE next,
                       <<Do("ASSERT_ITER_RESULT"), SetVar("@step"), Do("POP"), GetVar("@step"), GetProp("done")>>)
      frame   == JumpTo(step, "JUMP_IF_TRUE", 0)
      entered == [JumpTo(frame, "TRY_PUSH", 0) EXCEPT !.tries = Append(@, c.grants)]
      value   == Emits(entered, <<Do("SCOPE_PUSH"), GetVar("@step"), GetProp("value")>>)
      bound   == LET v == IF isAwait THEN AwaitUnless(value, "JUMP_IF_FALSE") ELSE value
                 IN  IF n.binding.k = "identifier" THEN Emits(v, <<<<"LET_VAR", n.binding.name, flags>>>>)
                     ELSE PatternBind(v, n.binding, flags, "declare")
      body    == Statement(PushLoop(bound, LoopEntry(bound, NoTarget, TRUE, 0, 1)), n.body)
      ended   == Emits(body, <<Do("SCOPE_POP"), Do("TRY_POP")>>)
      closed  == [JumpTo(CloseBlock(Patch2(ended, Here(frame), Here(ended)), "@iter", isAwait), "JUMP", Here(top))
                    EXCEPT !.tries = Front(@)]
  IN  Emit(PopLoop(Patch(closed, Here(step), Here(closed)), Here(closed), Here(body)), "SCOPE_POP")

(***************************************************************************)
(* Leaving a loop.  The try entries crossed are unwound by UNWIND_JUMP,    *)
(* whose walk clamps the grant stack at each entry it processes; grants    *)
(* pushed under the outermost entry crossed, or all those crossed when no  *)
(* try intervenes, are popped statically.  The last instruction emitted is *)
(* the jump.                                                               *)
(***************************************************************************)
EmitLoopExit(c, protectionDepth, grantDepth, target) ==
  LET crossed == Len(c.tries) - protectionDepth
      grants  == (IF crossed > 0 THEN c.tries[protectionDepth + 1] ELSE c.grants) - grantDepth
      unwound == IF crossed > 0 THEN Emits(c, <<<<"UNWIND_JUMP", Here(c) + 1, crossed>>>>) ELSE c
  IN  CASE grants > 0  -> Emits(unwound, <<With("GRANT_END", grants), With("JUMP", target)>>)
        [] grants <= 0 /\ crossed > 0 -> Emits(c, <<<<"UNWIND_JUMP", target, crossed>>>>)
        [] OTHER -> JumpTo(c, "JUMP", target)

BreakStatement(c) ==
  IF c.loops = <<>> THEN SyntaxError(c)
  ELSE LET loop == Last(c.loops)
           exit == EmitLoopExit(Emits(c, [i \in 1 .. loop.scopeDepth |-> Do("SCOPE_POP")]),
                                loop.breakProtectionDepth, loop.grantProtectionDepth, 0)
       IN  [exit EXCEPT !.loops[Len(c.loops)].breaks = @ \cup {Here(exit) - 1}]

ContinueStatement(c) ==
  LET candidates == {i \in DOMAIN c.loops : c.loops[i].isLoop}
      at   == Max(candidates)
      loop == c.loops[at]
      pops == MapThenSumSet(LAMBDA i : c.loops[i].scopeDepth, at .. Len(c.loops))
      out  == Emits(c, [i \in 1 .. pops |-> Do("SCOPE_POP")])
      exit == EmitLoopExit(out, loop.continueProtectionDepth, loop.grantProtectionDepth,
                           IF loop.continueTarget = NoTarget THEN 0 ELSE loop.continueTarget)
  IN  CASE candidates = {} -> SyntaxError(c)
        [] candidates # {} /\ loop.continueTarget # NoTarget -> exit
        [] OTHER -> [exit EXCEPT !.loops[at].continues = @ \cup {Here(exit) - 1}]

(* The bodies come first, in the order of the source, so that one falls through
   into the next; the tests follow.  A test compiled where the source has it is
   rolled back and compiled again in the chain of tests. *)
SwitchBodies(c, cases) ==
  FoldLeft(LAMBDA s, case :
             LET seen == IF case.test = Absent THEN s.c
                         ELSE [Expression(s.c, case.test) EXCEPT !.code = s.c.code]
             IN  [c |-> FlushPop(Statements(seen, case.statements)),
                  starts |-> Append(s.starts, Here(seen))],
           [c |-> c, starts |-> <<>>], cases)

SwitchTest(c, test, bodyStart) ==
  LET probe == Emit(Expression(Emit(c, "DUP"), test), "EQ")
      taken == Emits(JumpTo(probe, "JUMP_IF_FALSE", 0), <<Do("POP"), Do("SCOPE_PUSH"), With("JUMP", bodyStart)>>)
  IN  Patch(taken, Here(probe), Here(taken))

SwitchStatement(c, n) ==
  LET value    == Expression(c, n.discriminant)
      open     == PushLoop(JumpTo(value, "JUMP", 0), LoopEntry(value, NoTarget, FALSE, 1, 0))
      bodies   == SwitchBodies(open, n.cases)
      end      == Emit(bodies.c, "SCOPE_POP")
      chain    == JumpTo(end, "JUMP", 0)
      defaults == {i \in DOMAIN n.cases : n.cases[i].test = Absent}
      tests    == FoldLeft(LAMBDA d, i : IF i \in defaults THEN d
                                         ELSE SwitchTest(d, n.cases[i].test, bodies.starts[i]),
                           Patch(chain, Here(value), Here(chain)), [i \in DOMAIN n.cases |-> i])
      missed   == Emit(tests, "POP")
      default  == IF defaults = {} THEN missed
                  ELSE Emits(missed, <<Do("SCOPE_PUSH"), With("JUMP", bodies.starts[Max(defaults)])>>)
  IN  IF n.cases = <<>> THEN Emit(value, "POP")
      ELSE PopLoop(Patch(Require(default, Cardinality(defaults) <= 1), Here(end), Here(default)),
                   Here(default), Here(default))

(***************************************************************************)
(* Abrupt completions, protection and grants.                              *)
(***************************************************************************)
ReturnStatement(c, n) ==
  IF n.value = Absent THEN Emit(c, "RETURN_UNDEFINED")
  ELSE LET value == Expression(c, n.value)
           inAsyncGenerator == c.functions # <<>> /\ Last(c.functions).isAsync /\ Last(c.functions).isGenerator
       IN  Emit(IF inAsyncGenerator THEN Emit(value, "AWAIT") ELSE value, "RETURN")

ThrowStatement(c, n) == Emit(Expression(c, n.value), "THROW")

(* The entry TRY_PUSH makes lives through the try, the catch and the finally block. *)
(* Mutant: a catch block does not pop the entry it was entered from.        *)
TryStatementMutant(c, n) ==
  LET protected == [JumpTo(c, "TRY_PUSH", 0) EXCEPT !.tries = Append(@, c.grants)]
      body      == Emit(ScopedBlock(protected, <<>>, n.block.statements), "TRY_POP")
      after     == JumpTo(body, "JUMP", 0)
      hasCatch  == n.catchBlock # Absent
      hasFinally == n.finallyBlock # Absent
      caught    == IF hasCatch
                   THEN ScopedBlock(after, <<LetVar(n.catchParam)>>, n.catchBlock.statements)
                   ELSE after
      finished  == IF hasFinally THEN Emit(ScopedBlock(caught, <<>>, n.finallyBlock.statements), "FINALLY_END") ELSE caught
      armed     == Patch2(Patch(finished, Here(c), IF hasCatch THEN Here(after) ELSE 0),
                          Here(c), IF hasFinally THEN Here(caught) ELSE 0)
  IN  [Patch(Require(armed, hasCatch \/ hasFinally), Here(body), Here(caught)) EXCEPT !.tries = Front(@)]

TryStatement(c, n) ==
  LET protected == [JumpTo(c, "TRY_PUSH", 0) EXCEPT !.tries = Append(@, c.grants)]
      body      == Emit(ScopedBlock(protected, <<>>, n.block.statements), "TRY_POP")
      after     == JumpTo(body, "JUMP", 0)
      hasCatch  == n.catchBlock # Absent
      hasFinally == n.finallyBlock # Absent
      caught    == IF hasCatch
                   THEN Emit(ScopedBlock(after, <<LetVar(n.catchParam)>>, n.catchBlock.statements), "TRY_POP")
                   ELSE after
      finished  == IF hasFinally THEN Emit(ScopedBlock(caught, <<>>, n.finallyBlock.statements), "FINALLY_END") ELSE caught
      armed     == Patch2(Patch(finished, Here(c), IF hasCatch THEN Here(after) ELSE 0),
                          Here(c), IF hasFinally THEN Here(caught) ELSE 0)
  IN  [Patch(Require(armed, hasCatch \/ hasFinally), Here(body), Here(caught)) EXCEPT !.tries = Front(@)]

GrantStatement(c, n) ==
  LET count   == Len(n.identifiers)
      asked   == FoldLeft(Expression, c, n.identifiers)
      granted == [Emits(asked, <<<<"GRANT_START", 0, count>>>>) EXCEPT !.grants = @ + count]
      body    == [Emits(ScopedBlock(granted, <<>>, n.body.statements), <<With("GRANT_END", count)>>) EXCEPT !.grants = @ - count]
      denied  == JumpTo(body, "JUMP", 0)
      handler == IF n.deniedBody = Absent THEN denied
                 ELSE ScopedBlock(Emits(denied, <<With("GRANT_DENIED", n.deniedParam)>>),
                                  IF n.deniedParam = "" THEN <<>> ELSE <<LetVar(n.deniedParam)>>, n.deniedBody.statements)
  IN  Patch(Patch(handler, Here(body), Here(handler)), Here(asked), Here(denied))

ExportDeclaration(c, n) ==
  DispatchStatement(Require(c, /\ c.scopeDepth <= 0 /\ c.functions = <<>>
                               /\ n.declaration.k \in {"variable", "function", "class"}), n.declaration)

FunctionDeclaration(c, n) == Emits(FunctionExpression(c, n), <<LetVar(n.name)>>)

ClassDeclaration(c, n) == Emits(ClassTail(c, n), <<LetVar(n.name)>>)

DispatchStatement(c, n) ==
  CASE n.k = "empty"      -> c
    [] n.k = "variable"   -> VariableDeclaration(c, n)
    [] n.k = "function"   -> FunctionDeclaration(c, n)
    [] n.k = "class"      -> ClassDeclaration(c, n)
    [] n.k = "if"         -> IfStatement(c, n)
    [] n.k = "while"      -> WhileStatement(c, n)
    [] n.k = "doWhile"    -> DoWhileStatement(c, n)
    [] n.k = "for"        -> ForStatement(c, n)
    [] n.k = "forIn"      -> ForInBody(c, n)
    [] n.k = "forOf"      -> ForOfBody(c, n)
    [] n.k = "break"      -> BreakStatement(c)
    [] n.k = "continue"   -> ContinueStatement(c)
    [] n.k = "return"     -> ReturnStatement(c, n)
    [] n.k = "throw"      -> ThrowStatement(c, n)
    [] n.k = "try"        -> TryStatement(c, n)
    [] n.k = "grant"      -> GrantStatement(c, n)
    [] n.k = "switch"     -> SwitchStatement(c, n)
    [] n.k = "export"     -> ExportDeclaration(c, n)
    [] n.k = "block"      -> ScopedBlock(c, <<>>, n.statements)
    [] n.k = "expression" -> ExpressionAsStatement(c, n)

(***************************************************************************)
(* Functions.  A closure instruction names the body's first and last       *)
(* instruction; a jump leads over the body.                                *)
(***************************************************************************)
ClosureOp(flags) ==
  "MAKE_" \o (IF "async" \in flags THEN "ASYNC_" ELSE "")
          \o (IF "generator" \in flags THEN "GENERATOR_" ELSE IF "arrow" \in flags THEN "ARROW_" ELSE "")
          \o "CLOSURE"

OpenClosure(c, op) == Emits(c, <<Do(op), With("JUMP", 0)>>)

(* Ends the body of the closure whose instruction is number at. *)
CloseClosure(c, at) == Patch(Patch2(Patch(c, at, at + 2), at, Here(c)), at + 1, Here(c))

BindParam(c, p) ==
  LET value == EmitDefaultIfUndefined(c, p.default)
  IN  IF p.target.k = "identifier" THEN Emits(value, <<LetVar(p.target.name)>>)
      ELSE PatternBind(value, p.target, 0, "declare")

(* Without a default the arguments are bound from the last to the first, as
   they lie on the stack; with one they are put aside first, so that a default
   can name the parameters before it. *)
BindParams(c, params) ==
  LET count      == Len(params)
      hasRest    == IF count > 0 /\ "rest" \in params[count].flags THEN 1 ELSE 0
      reconciled == Emits(c, <<<<"RECONCILE_PARAMS", count, hasRest>>>>)
      aside      == Emits(reconciled, [i \in 1 .. count |-> LetVar(Hidden("@param_", count - i))])
  IN  IF \A i \in DOMAIN params : params[i].default = Absent
      THEN FoldRight(LAMBDA p, d : BindParam(d, p), params, reconciled)
      ELSE FoldLeft(LAMBDA d, i : BindParam(Emits(d, <<GetVar(Hidden("@param_", i - 1))>>), params[i]),
                    aside, [i \in 1 .. count |-> i])

EnterFunction(c, flags) ==
  [c EXCEPT !.functions = Append(@, [isAsync |-> "async" \in flags, isGenerator |-> "generator" \in flags,
                                     isArrow |-> "arrow" \in flags])]

LeaveFunction(c) == [c EXCEPT !.functions = Front(@)]

PushSuper(c, kind) == [c EXCEPT !.supers = Append(@, [kind |-> kind, superCalls |-> 0])]

(* A body opens a context of its own for break, continue and unwinding, and,
   unless it is an arrow's, a super frame of the pending kind. *)
EmitFunctionBody(c, params, statements, flags) ==
  LET isArrow == "arrow" \in flags
      bound   == BindParams(OpenClosure(c, ClosureOp(flags)), params)
      framed  == IF isArrow THEN bound ELSE PushSuper(bound, bound.superKind)
      entered == [EnterFunction(framed, flags)
                    EXCEPT !.superKind = "none", !.loops = <<>>, !.tries = <<>>, !.grants = 0]
      left    == [LeaveFunction(Statements(entered, statements))
                    EXCEPT !.loops = bound.loops, !.tries = bound.tries, !.grants = bound.grants]
      frame   == Last(left.supers)
      popped  == IF isArrow THEN left
                 ELSE Require([left EXCEPT !.supers = Front(@)],
                              frame.kind = "ctor-derived" => frame.superCalls > 0)
  IN  CloseClosure(Emit(popped, "RETURN_UNDEFINED"), Here(c))

(* An arrow whose body is an expression returns its value. *)
ArrowFunction(c, n) ==
  LET bound == BindParams(OpenClosure(c, ClosureOp(n.flags)), n.params)
      value == LeaveFunction(Expression(EnterFunction(bound, n.flags), n.body))
  IN  CloseClosure(Emit(value, "RETURN"), Here(c))

FunctionExpression(c, n) ==
  IF n.body.k = "block" THEN EmitFunctionBody(c, n.params, n.body.statements, n.flags)
  ELSE ArrowFunction(c, n)

(***************************************************************************)
(* Literals.                                                               *)
(***************************************************************************)
Literal(c, n) ==
  Emits(c, <<CASE n.k = "integer"   -> With("LIT_RATIONAL_INTEGER", n.value)
               [] n.k = "string"    -> With("LIT_STRING", n.value)
               [] n.k = "boolean"   -> Do(IF n.value THEN "LIT_TRUE" ELSE "LIT_FALSE")
               [] n.k = "null"      -> Do("LIT_NULL")
               [] n.k = "undefined" -> Do("LIT_UNDEFINED")>>)

(* `head${expression}text...`: an empty text after the head adds nothing. *)
TemplateWithSubs(c, n) ==
  LET Part(d, part) ==
        CASE part.k = "string" /\ part.value = "" -> d
          [] OTHER -> Emit(Expression(d, part), "ADD")
  IN  FoldLeft(Part, Literal(c, Head(n.parts)), Tail(n.parts))

(* The array on the stack under the iterable takes every value of it. *)
EmitArrayAppendSpread(c) ==
  LET iter == Hidden("@spread_iter_", c.counter)
      step == Hidden("@spread_step_", c.counter)
      start == Emits([c EXCEPT !.counter = @ + 1],
                 <<With("ASSERT_ITERABLE", 0), Do("DUP"), With("LIT_WELL_KNOWN_SYMBOL", 0), Do("GET_INDEX"),
                   With("ASSERT_ITERABLE", 1), CallMethod(0), LetVar(iter), Do("LIT_UNDEFINED"), LetVar(step)>>)
      test  == Emits(start, MethodOf(iter, "next") \o
                 <<CallMethod(0), Do("ASSERT_ITER_RESULT"), SetVar(step), Do("POP"), GetVar(step), GetProp("done")>>)
      body  == Emits(JumpTo(test, "JUMP_IF_TRUE", 0),
                 <<GetVar(step), GetProp("value"), Do("ARRAY_PUSH_ONE"), With("JUMP", Here(start))>>)
  IN  Patch(body, Here(test), Here(body))

(* The elements of an array, or the arguments of a call: values on the stack,
   until a spread turns those already there into an array that takes the rest. *)
Elements(c, list) ==
  LET Element(s, e) ==
        LET array == IF s.building THEN s.c ELSE Emits(s.c, <<With("MAKE_ARRAY", s.count)>>)
        IN  CASE e.k = "spread" ->
                   [c |-> EmitArrayAppendSpread(Expression(array, e.argument)), count |-> s.count, building |-> TRUE]
              [] e.k # "spread" /\ s.building -> [s EXCEPT !.c = Emit(Expression(s.c, e), "ARRAY_PUSH_ONE")]
              [] OTHER -> [s EXCEPT !.c = Expression(s.c, e), !.count = @ + 1]
  IN  FoldLeft(Element, [c |-> c, count |-> 0, building |-> FALSE], list)

ArrayLiteral_(c, n) ==
  LET s == Elements(c, n.elements)
  IN  IF s.building THEN s.c ELSE Emits(s.c, <<With("MAKE_ARRAY", s.count)>>)

PropertyKey(c, p) == IF "computed" \in p.flags THEN Expression(c, p.key) ELSE Emits(c, <<With("LIT_STRING", p.key)>>)

PropertyValue(c, p) ==
  LET value == IF "method" \in p.flags THEN EmitFunctionBody(c, p.value.params, p.value.body.statements, p.value.flags)
               ELSE Expression(c, p.value)
  IN  CASE "getter" \in p.flags -> Emit(value, "WRAP_GETTER")
        [] "setter" \in p.flags -> Emit(value, "WRAP_SETTER")
        [] OTHER -> value

(* Pairs on the stack, until a spread, a computed key or an accessor turns
   those already there into an object that takes the rest. *)
ObjectLiteral_(c, n) ==
  LET Property(s, p) ==
        LET object == IF s.building THEN s.c ELSE Emits(s.c, <<With("MAKE_OBJECT", s.count)>>)
        IN  CASE "spread" \in p.flags ->
                   [c |-> Emit(Expression(object, p.value), "OBJ_MERGE_SPREAD"), count |-> s.count, building |-> TRUE]
              [] "spread" \notin p.flags /\ (s.building \/ p.flags \cap {"computed", "getter", "setter"} # {}) ->
                   [c |-> Emits(PropertyValue(PropertyKey(Emit(object, "DUP"), p), p), <<Do("SET_INDEX"), Do("POP")>>),
                    count |-> s.count, building |-> TRUE]
              [] OTHER -> [s EXCEPT !.c = PropertyValue(PropertyKey(s.c, p), p), !.count = @ + 1]
      s == FoldLeft(Property, [c |-> c, count |-> 0, building |-> FALSE], n.properties)
  IN  IF s.building THEN s.c ELSE Emits(s.c, <<With("MAKE_OBJECT", s.count)>>)

(***************************************************************************)
(* Operators.                                                              *)
(***************************************************************************)
Binary(c, n) == Emit(Expression(Expression(c, n.left), n.right), n.op)

(* and, or, nullish: the jump lands behind the right operand. *)
Logical(c, n) ==
  LET left  == Expression(c, n.left)
      right == Expression(JumpTo(left, n.op, 0), n.right)
  IN  Patch(right, Here(left), Here(right))

Ternary(c, n) ==
  LET test == Expression(c, n.test)
      then == Expression(JumpTo(test, "JUMP_IF_FALSE", 0), n.consequent)
      else == Expression(Patch(JumpTo(then, "JUMP", 0), Here(test), Here(then) + 1), n.alternate)
  IN  Patch(else, Here(then), Here(else))

Comma(c, n) == Expression([Emit(Expression(c, n.left), "POP") EXCEPT !.methodCall = FALSE], n.right)

(* delete leaves a mark for the last link of its operand's access chain, which
   emits the deletion in place of a read and clears the mark. *)
Unary(c, n) ==
  LET operand == Expression([c EXCEPT !.deleteTarget = @ \/ n.op = "DELETE"], n.operand)
      handled == n.op = "DELETE" /\ ~operand.deleteTarget
      result  == [operand EXCEPT !.deleteTarget = c.deleteTarget]
  IN  IF handled THEN result ELSE Emit(result, n.op)

AwaitExpression(c, n) == Emit(Expression(Require(c, AwaitAllowed(c)), n.argument), "AWAIT")

(***************************************************************************)
(* yield.  Only the body of a generator function reads it as an operator.  *)
(***************************************************************************)
YieldExpression(c, n) ==
  LET value == IF n.argument = Absent THEN Emit(c, "LIT_UNDEFINED") ELSE Expression(c, n.argument)
  IN  Emit(IF Last(c.functions).isAsync THEN Emit(value, "AWAIT") ELSE value, "YIELD")

AwaitIf(isAsync) == IF isAsync THEN <<Do("AWAIT")>> ELSE <<>>

DelegateFactory(c, isAsync) ==
  IF ~isAsync
  THEN Emits(c, <<GetVar("@delegateSource"), GetVar("@delegateSource"), With("LIT_WELL_KNOWN_SYMBOL", 0),
                  Do("GET_INDEX")>>)
  ELSE LET look == Emits(c, <<GetVar("@delegateSource"), With("LIT_WELL_KNOWN_SYMBOL", 1), Do("GET_INDEX"), Do("DUP")>>)
           sync == Emits(JumpTo(look, "JUMP_IF_TRUE", 0),
                         <<Do("POP"), GetVar("@delegateSource"), With("LIT_WELL_KNOWN_SYMBOL", 0), Do("GET_INDEX")>>)
       IN  Emits(Patch(sync, Here(look), Here(sync)),
                 <<LetVar("@delegateFactory"), GetVar("@delegateSource"), GetVar("@delegateFactory")>>)

(* yield* source: a loop that yields what the source yields, under a frame that
   closes the source when the generator is left early. *)
YieldDelegateExpression(c, n) ==
  LET isAsync == Last(c.functions).isAsync
      source  == Emits(Expression(Emit(c, "SCOPE_PUSH"), n.argument),
                       <<With("ASSERT_ITERABLE", 0), LetVar("@delegateSource")>>)
      opened  == Emits(DelegateFactory(source, isAsync),
                       <<With("ASSERT_ITERABLE", 1), CallMethod(0), LetVar("@delegateIterator"), Do("LIT_UNDEFINED"),
                         LetVar("@delegateSent"), Do("LIT_UNDEFINED"), LetVar("@delegateStep")>>)
      top     == JumpTo([opened EXCEPT !.tries = Append(@, c.grants)], "TRY_PUSH", 0)
      test    == Emits(top, MethodOf("@delegateIterator", "next") \o <<GetVar("@delegateSent"), CallMethod(1)>> \o
                       AwaitIf(isAsync) \o <<Do("ASSERT_ITER_RESULT"), SetVar("@delegateStep"), Do("POP"),
                                             GetVar("@delegateStep"), GetProp("done")>>)
      loop    == Emits(JumpTo(test, "JUMP_IF_TRUE", 0),
                       <<GetVar("@delegateStep"), GetProp("value")>> \o AwaitIf(isAsync) \o
                       <<Do("YIELD"), SetVar("@delegateSent"), Do("POP"), With("JUMP", Here(top))>>)
      done    == Emit(Patch(loop, Here(test), Here(loop)), "TRY_POP")
      closed  == CloseBlock(Patch2(done, Here(opened), Here(done)), "@delegateIterator", isAsync)
  IN  Emits([closed EXCEPT !.tries = Front(@)],
            <<GetVar("@delegateStep"), GetProp("value")>> \o AwaitIf(isAsync) \o <<Do("SCOPE_POP")>>)

(***************************************************************************)
(* Private names.  A class registers its names under hidden keys; the      *)
(* innermost class that knows a name gives the key.                        *)
(***************************************************************************)
PrivateKey(c, name) ==
  LET knowing == {i \in DOMAIN c.privates : name \in c.privates[i].names}
  IN  "@" \o name \o "_" \o ToString(c.privates[Max(knowing)].id)

PrivateKnown(c, name) == \E i \in DOMAIN c.privates : name \in c.privates[i].names

Key(c, n) == IF n.private /\ PrivateKnown(c, n.name) THEN PrivateKey(c, n.name) ELSE n.name

ResolvePrivateName(c, n) == Require(c, n.private => PrivateKnown(c, n.name))

PrivateFlag(n) == IF n.private THEN 1 ELSE 0

(***************************************************************************)
(* Access chains.  use says what follows the link in the source: "callee"  *)
(* an argument list, "chained" another link, "value" anything else.  The   *)
(* receiver of a method call is kept under the method; a call reads from   *)
(* methodCall whether it is there.                                         *)
(***************************************************************************)
DeletesHere(c, use) == c.deleteTarget /\ use = "value"

Dot(c, n, use) ==
  LET object == ResolvePrivateName(Postfix(c, n.object, "chained"), n)
      read   == <<"GET_PROP", Key(c, n), PrivateFlag(n)>>
  IN  CASE DeletesHere(object, use) ->
             [Emits(Require(object, ~n.private), <<With("DELETE_PROP", n.name)>>) EXCEPT !.deleteTarget = FALSE]
        [] use = "callee" -> [Emits(object, <<Do("DUP"), read>>) EXCEPT !.methodCall = TRUE]
        [] OTHER -> Emits(object, <<read>>)

(* The receiver of a[i]() is re-read when the instruction before the index's
   last one is a variable's. *)
Index(c, n, use) ==
  LET index  == Expression(Postfix(c, n.object, "chained"), n.index)
      before == IF Here(index) >= 2 THEN index.code[Here(index) - 1] ELSE Do("NOP")
  IN  CASE DeletesHere(index, use) -> [Emit(index, "DELETE_INDEX") EXCEPT !.deleteTarget = FALSE]
        [] use = "callee" /\ before[1] = "GET_VAR" /\ ~DeletesHere(index, use) ->
             [Emits(index, <<Do("GET_INDEX"), GetVar(before[2]), Do("SWAP")>>) EXCEPT !.methodCall = TRUE]
        [] OTHER -> Emit(index, "GET_INDEX")

(* ?. skips the one link it guards. *)
OptionalChain(c, n, use) ==
  LET object  == Postfix(c, IF n.k = "optCall" THEN n.callee ELSE n.object, "chained")
      test    == JumpTo(Emit(object, "DUP"), "NULLISH", 0)
      missing == Emits(test, <<Do("POP"), Do("LIT_UNDEFINED"), With("JUMP", 0)>>)
      present == Emit(Patch(missing, Here(test) - 1, Here(missing)), "POP")
      deletes == DeletesHere(present, use)
      access  == CASE n.k = "optMember" -> Emits(present, <<With(IF deletes THEN "DELETE_PROP" ELSE "GET_PROP", n.name)>>)
                   [] n.k = "optIndex"  -> LET index == Expression(present, n.index)
                                           IN  Emit(index, IF DeletesHere(index, use) THEN "DELETE_INDEX" ELSE "GET_INDEX")
                   [] OTHER -> Emits(FoldLeft(Expression, present, n.args), <<With("CALL", Len(n.args))>>)
      cleared == IF n.k = "optCall" THEN access
                 ELSE [access EXCEPT !.deleteTarget = @ /\ use # "value"]
  IN  Patch(cleared, Here(missing) - 1, Here(cleared))

(* The callee's flags are consumed before the arguments are compiled. *)
CallTail(c, args) ==
  LET isMethod == c.methodCall
      isSuper  == IF c.superCall THEN 1 ELSE 0
      s == Elements([c EXCEPT !.methodCall = FALSE, !.superCall = FALSE], args)
  IN  Emits(s.c, <<CASE s.building /\ isMethod   -> <<"CALL_METHOD_SPREAD", 0, isSuper>>
                     [] s.building /\ ~isMethod  -> Do("CALL_SPREAD")
                     [] ~s.building /\ isMethod  -> <<"CALL_METHOD", s.count, isSuper>>
                     [] OTHER                    -> With("CALL", s.count)>>)

NewExpression(c, n) ==
  LET s == Elements(Postfix(c, n.callee, "callee"), n.args)
  IN  IF s.building THEN Emit(s.c, "NEW_SPREAD") ELSE Emits(s.c, <<With("NEW", s.count)>>)

NewTargetExpression(c) ==
  Emits(Require(c, \E i \in DOMAIN c.functions : ~c.functions[i].isArrow), <<GetVar("@newtarget")>>)

(***************************************************************************)
(* Assignments and updates.  op is "=" or the operator of a compound       *)
(* assignment; an update adds or subtracts one.                            *)
(***************************************************************************)
AssignVariable(c, n) ==
  IF n.op = "=" THEN Emits(Expression(c, n.value), <<SetVar(n.target.name)>>)
  ELSE Emits(Expression(Emits(c, <<GetVar(n.target.name)>>), n.value), <<Do(n.op), SetVar(n.target.name)>>)

AssignProperty(c, n) ==
  LET object == ResolvePrivateName(Postfix(c, n.target.object, "chained"), n.target)
      key    == Key(c, n.target)
      flag   == PrivateFlag(n.target)
  IN  IF n.op = "=" THEN Emits(Expression(object, n.value), <<<<"SET_PROP", key, flag>>>>)
      ELSE Emits(Expression(Emits(object, <<Do("DUP"), <<"GET_PROP", key, flag>>>>), n.value),
                 <<Do(n.op), <<"SET_PROP", key, flag>>>>)

(* The instructions of the index expression, emitted once more as they stand. *)
IndexCode(object, index) == SubSeq(index.code, Here(object) + 1, Here(index))

AssignIndex(c, n) ==
  LET object == Postfix(c, n.target.object, "chained")
      index  == Expression(object, n.target.index)
      again  == Last(object.code)
  IN  IF n.op = "=" THEN Emit(Expression(index, n.value), "SET_INDEX")
      ELSE Emits(Expression(Emits(Require(index, again[1] = "GET_VAR"),
                                  <<GetVar(again[2])>> \o IndexCode(object, index) \o <<Do("GET_INDEX")>>), n.value),
                 <<Do(n.op), Do("SET_INDEX")>>)

ByOne(op) == <<With("LIT_RATIONAL_INTEGER", 1), Do(op)>>

PrefixIncrement(c, n) ==
  LET t == n.operand
  IN  CASE t.k = "identifier" -> Emits(c, <<GetVar(t.name)>> \o ByOne(n.op) \o <<SetVar(t.name)>>)
        [] t.k = "member" /\ t.object.k = "identifier" ->
             Emits(c, <<GetVar(t.object.name), Do("DUP"), GetProp(t.name)>> \o ByOne(n.op) \o
                      <<<<"SET_PROP", t.name, 0>>>>)
        [] t.k = "index" /\ t.object.k = "identifier" ->
             LET index == Expression(c, t.index)
             IN  Emits(index, <<GetVar(t.object.name), Do("SWAP"), GetVar(t.object.name)>> \o IndexCode(c, index) \o
                              <<Do("GET_INDEX")>> \o ByOne(n.op) \o <<Do("SET_INDEX")>>)
        [] OTHER -> SyntaxError(c)

PostfixIncrement(c, n) ==
  LET t      == n.operand
      object == Postfix(c, IF t.k = "identifier" THEN t ELSE t.object, "chained")
      index  == IF t.k = "index" THEN Expression(object, t.index) ELSE object
      base   == Last(object.code)[2]
      read   == <<"GET_PROP", IF t.k = "member" THEN Key(c, t) ELSE "", IF t.k = "member" THEN PrivateFlag(t) ELSE 0>>
      again  == IndexCode(object, index)
      simple == Require(index, Last(object.code)[1] = "GET_VAR")
  IN  CASE t.k = "identifier" ->
             Emits(c, <<GetVar(t.name), GetVar(t.name)>> \o ByOne(n.op) \o <<SetVar(t.name), Do("POP")>>)
        [] t.k = "member" ->
             Emits(ResolvePrivateName(simple, t), <<read, GetVar(base), GetVar(base), read>> \o ByOne(n.op) \o
                   <<<<"SET_PROP", read[2], read[3]>>, Do("POP")>>)
        [] t.k = "index" ->
             Emits(simple, <<Do("GET_INDEX"), GetVar(base)>> \o again \o <<GetVar(base)>> \o again \o
                           <<Do("GET_INDEX")>> \o ByOne(n.op) \o <<Do("SET_INDEX"), Do("POP")>>)

(***************************************************************************)
(* super, in a class with a heritage.                                      *)
(***************************************************************************)
SuperKind(c) == IF c.supers = <<>> THEN "none" ELSE Last(c.supers).kind

SuperAllowed(c) == Require(c, SuperKind(c) \in {"ctor-derived", "method-derived", "static-derived"})

EmitHiddenThisCall(c, name) == Emits(c, <<GetVar("this"), GetVar(name), CallMethod(0), Do("POP")>>)

SuperCall(c, args) ==
  LET counted == IF c.supers = <<>> THEN SyntaxError(c) ELSE [c EXCEPT !.supers[Len(c.supers)].superCalls = @ + 1]
      legal   == Require(counted, SuperKind(c) = "ctor-derived" /\ Last(counted.supers).superCalls = 1)
      callee  == [Emits(legal, <<GetVar("this"), GetVar("@super")>>) EXCEPT !.methodCall = TRUE, !.superCall = TRUE]
  IN  EmitHiddenThisCall(CallTail(callee, args), "@fields")

(* The receiver under the object whose chain is searched. *)
ReceiverAndStart(c) ==
  <<GetVar("this"), GetVar("@super")>> \o (IF SuperKind(c) = "static-derived" THEN <<>> ELSE <<GetProp("prototype")>>)

SuperMethodCall(c, name, args) ==
  CallTail([Emits(SuperAllowed(c), ReceiverAndStart(c) \o <<With("GET_SUPER", name)>>) EXCEPT !.methodCall = TRUE], args)

SuperRead(c, name) ==
  Emits(Require(SuperAllowed(c), ~c.deleteTarget),
        ReceiverAndStart(c) \o <<With("GET_SUPER", name), Do("SWAP"), Do("POP")>>)

SuperAssign(c, n) ==
  LET name  == n.target.name
      start == Emits(SuperAllowed(c), ReceiverAndStart(c))
  IN  IF n.op = "=" THEN Emits(Expression(start, n.value), <<With("SET_SUPER", name)>>)
      ELSE Emits(Expression(Emits(start, ReceiverAndStart(c) \o <<With("GET_SUPER", name)>>), n.value),
                 <<Do(n.op), Do("SWAP"), Do("POP"), With("SET_SUPER", name)>>)

(***************************************************************************)
(* Classes.  The class is evaluated in a hidden scope that holds its parts *)
(* under names no program can spell.  Static members are put off until the *)
(* class function exists.  k is the class's state while its members are    *)
(* compiled: the parser's state, the instance fields seen and whether a    *)
(* constructor was.                                                        *)
(*                                                                         *)
(* The prescan registers the private names the members declare; a member   *)
(* that mentions another class's private name outside braces is left out.  *)
(***************************************************************************)
ScanPrivateDeclarations(c, members) ==
  [c EXCEPT !.privates = Append(@, [id |-> Here(c),
      names |-> {members[i].key : i \in {j \in DOMAIN members : "private" \in members[j].flags}}])]

MemberSuperKind(isStatic, isDerived) ==
  (IF isStatic THEN "static-" ELSE "method-") \o (IF isDerived THEN "derived" ELSE "base")

ClassMethodClosure(c, f, kind) ==
  EmitFunctionBody([c EXCEPT !.superKind = kind], f.params, f.body.statements, f.flags)

WrapAccessor(c, m) ==
  CASE "getter" \in m.flags -> Emit(c, "WRAP_GETTER")
    [] "setter" \in m.flags -> Emit(c, "WRAP_SETTER")
    [] OTHER -> c

MemberKey(c, m) == IF "private" \in m.flags THEN PrivateKey(c, m.key) ELSE m.key

Initializer(c, value, kind) ==
  LET within == Expression(EnterFunction(PushSuper(c, kind), {}), value)
  IN  [LeaveFunction(within) EXCEPT !.supers = Front(@)]

(* One closure for each instance field's initializer, bound to @field_i. *)
EmitInstanceFieldClosure(c, m, index, isDerived) ==
  LET computed == "computed" \in m.flags
      open     == Emits(OpenClosure(c, "MAKE_CLOSURE"),
                        <<<<"RECONCILE_PARAMS", 0, 0>>, GetVar("this")>> \o
                        (IF computed THEN <<GetVar(Hidden("@fieldkey_", index))>> ELSE <<>>))
      value    == IF m.value = Absent THEN Emit(open, "LIT_UNDEFINED")
                  ELSE Initializer(open, m.value, MemberSuperKind(FALSE, isDerived))
      store    == IF computed THEN Do("SET_INDEX") ELSE <<"SET_PROP", MemberKey(c, m), 0>>
  IN  Emits(CloseClosure(Emits(value, <<store, Do("POP"), Do("RETURN_UNDEFINED")>>), Here(c)),
            <<LetVar(Hidden("@field_", index))>>)

(* A static field's initializer is called with the class as this. *)
EmitStaticFieldValue(c, m, isDerived) ==
  IF m.value = Absent THEN Emit(c, "LIT_UNDEFINED")
  ELSE LET at    == Emits(c, <<GetVar("@class")>>)
           open  == Emits(OpenClosure(at, "MAKE_CLOSURE"), <<<<"RECONCILE_PARAMS", 0, 0>>>>)
           value == Emit(Initializer(open, m.value, MemberSuperKind(TRUE, isDerived)), "RETURN")
       IN  Emits(CloseClosure(value, Here(at)), <<CallMethod(0)>>)

StaticBlock(c, m, isDerived) ==
  LET at == Emits([c EXCEPT !.superKind = MemberSuperKind(TRUE, isDerived)], <<GetVar("@class")>>)
  IN  Emits(EmitFunctionBody(at, <<>>, m.value.statements, {}), <<CallMethod(0), Do("POP")>>)

MemberAllowed(m) ==
  /\ "private" \in m.flags => m.key # "#constructor"
  /\ "computed" \notin m.flags /\ "static" \in m.flags => m.key # "prototype"
  /\ "computed" \notin m.flags /\ "static" \notin m.flags /\ "field" \in m.flags => m.key # "constructor"

ClassMemberTail(k, m, isDerived) ==
  LET isStatic == "static" \in m.flags
      c        == Require(k.c, MemberAllowed(m))
      target   == GetVar(IF isStatic THEN "@class" ELSE "@proto")
      keyed    == Expression(c, m.key)
      kind     == MemberSuperKind(isStatic, isDerived)
      isField  == "field" \in m.flags
      Method(d) == WrapAccessor(ClassMethodClosure(d, m.value, kind), m)
      Field(d) == [k EXCEPT !.c = EmitInstanceFieldClosure(d, m, k.fields, isDerived), !.fields = @ + 1]
  IN  CASE "ctor" \in m.flags ->
             [k EXCEPT !.hasCtor = TRUE,
                       !.c = Emits(ClassMethodClosure(Require(c, ~k.hasCtor /\ m.value.flags = {}), m.value,
                                                      IF isDerived THEN "ctor-derived" ELSE "ctor-base"),
                                   <<LetVar("@ctor")>>)]
        [] "block" \in m.flags -> [k EXCEPT !.c = StaticBlock(c, m, isDerived)]
        [] isField /\ ~isStatic /\ "computed" \in m.flags -> Field(Emits(keyed, <<LetVar(Hidden("@fieldkey_", k.fields))>>))
        [] isField /\ ~isStatic /\ "computed" \notin m.flags -> Field(c)
        [] m.flags \cap {"ctor", "block"} = {} /\ (isStatic \/ ~isField) /\ "computed" \in m.flags ->
             LET slot  == Emits(keyed, <<target, Do("SWAP")>>)
                 value == IF isField THEN EmitStaticFieldValue(slot, m, isDerived) ELSE Method(slot)
             IN  [k EXCEPT !.c = Emits(value, <<Do("SET_INDEX"), Do("POP")>>)]
        [] OTHER ->
             LET slot  == Emits(c, <<target>>)
                 value == IF isField THEN EmitStaticFieldValue(slot, m, isDerived) ELSE Method(slot)
             IN  [k EXCEPT !.c = Emits(value, <<<<"SET_PROP", MemberKey(c, m), 0>>, Do("POP")>>)]

(* @fields runs every instance initializer with the instance as this. *)
FieldsClosure(c, count) ==
  LET RunField(d, i) == EmitHiddenThisCall(d, Hidden("@field_", i - 1))
      open  == Emits(OpenClosure(c, "MAKE_CLOSURE"), <<<<"RECONCILE_PARAMS", 0, 0>>>>)
      calls == FoldLeft(RunField, open, [i \in 1 .. count |-> i])
  IN  Emits(CloseClosure(Emit(calls, "RETURN_UNDEFINED"), Here(c)), <<LetVar("@fields")>>)

(* The constructor itself where it can serve as the class function, else a
   wrapper that runs the fields at their place. *)
ClassClosure(k, isDerived) ==
  LET c        == k.c
      open     == Emits(OpenClosure(c, "MAKE_CLOSURE"), <<<<"RECONCILE_PARAMS", 1, 1>>, LetVar("@args")>>)
      Forward(callee) == <<GetVar("this"), GetVar(callee), GetVar("@args"), <<"CALL_METHOD_SPREAD", 0, 1>>>>
      body     == CASE isDerived -> EmitHiddenThisCall(Emits(open, Append(Forward("@super"), Do("POP"))), "@fields")
                    [] ~isDerived /\ k.hasCtor ->
                         Emits(EmitHiddenThisCall(open, "@fields"), Append(Forward("@ctor"), Do("RETURN")))
                    [] OTHER -> EmitHiddenThisCall(open, "@fields")
      wrapper  == CloseClosure(Emit(body, "RETURN_UNDEFINED"), Here(c))
  IN  Emits(IF k.hasCtor /\ (isDerived \/ k.fields = 0) THEN Emits(c, <<GetVar("@ctor")>>) ELSE wrapper,
            <<LetVar("@class")>>)

(* prototype, constructor and name, and the edges to the parent. *)
WireClass(c, name, isDerived) ==
  LET Set(object, value, key) == <<GetVar(object), value, With("SET_PROP", key), Do("POP")>>
  IN  Emits(c, Set("@class", GetVar("@proto"), "prototype") \o Set("@proto", GetVar("@class"), "constructor") \o
               (IF name = "" THEN <<>> ELSE Set("@class", With("LIT_STRING", name), "name")) \o
               (IF isDerived THEN <<GetVar("@super"), GetVar("@class"), Do("CLASS_LINK"), Do("POP")>> ELSE <<>>) \o
               (IF name = "" THEN <<>> ELSE <<GetVar("@class"), <<"LET_VAR", name, 1>>>>))

ClassTail(c, n) ==
  LET isDerived == n.heritage # Absent
      open      == Emit(c, "SCOPE_PUSH")
      parent    == IF isDerived THEN Emits(Expression(open, n.heritage), <<LetVar("@super")>>) ELSE open
      proto     == Emits(ScanPrivateDeclarations(parent, n.members), <<With("MAKE_OBJECT", 0), LetVar("@proto")>>)
      Deferred(m) == "static" \in m.flags
      Members(k, list) == FoldLeft(LAMBDA s, m : ClassMemberTail(s, m, isDerived), k, list)
      instance  == Members([c |-> proto, fields |-> 0, hasCtor |-> FALSE],
                           SelectSeq(n.members, LAMBDA m : ~Deferred(m)))
      class     == ClassClosure([instance EXCEPT !.c = FieldsClosure(@, instance.fields)], isDerived)
      statics   == Members([instance EXCEPT !.c = WireClass(class, n.name, isDerived)], SelectSeq(n.members, Deferred))
  IN  [Emits(statics.c, <<GetVar("@class"), Do("SCOPE_POP")>>) EXCEPT !.privates = Front(@)]

(***************************************************************************)
(* The expression parser: one rule for each construct.                     *)
(***************************************************************************)
CallExpression(c, n) ==
  CASE n.callee.k = "super" -> SuperCall(c, n.args)
    [] n.callee.k = "member" /\ n.callee.object = Super -> SuperMethodCall(c, n.callee.name, n.args)
    [] OTHER -> CallTail(Postfix(c, n.callee, "callee"), n.args)

Postfix(c, n, use) ==
  CASE n.k = "member" /\ n.object # Super  -> Dot(c, n, use)
    [] n.k = "member" /\ n.object = Super  -> SuperRead(c, n.name)
    [] n.k = "index"                       -> Index(c, n, use)
    [] n.k \in {"optMember", "optIndex", "optCall"} -> OptionalChain(c, n, use)
    [] n.k = "call"                        -> CallExpression(c, n)
    [] OTHER                               -> Expression(c, n)

AssignExpression(c, n) ==
  CASE n.target.k = "identifier" -> AssignVariable(c, n)
    [] n.target.k = "member" /\ n.target.object = Super  -> SuperAssign(c, n)
    [] n.target.k = "member" /\ n.target.object # Super  -> AssignProperty(c, n)
    [] n.target.k = "index" -> AssignIndex(c, n)

(* A parenthesised expression that starts with a name knows no postfix ++. *)
GroupingExpression(c, n) ==
  Expression(Require(c, ~(n.expression.k = "update" /\ ~n.expression.prefix /\ n.expression.operand.k = "identifier")),
             n.expression)

Expression(c, n) ==
  CASE n.k \in {"integer", "string", "boolean", "null", "undefined"} -> Literal(c, n)
    [] n.k = "identifier"    -> Emits(c, <<GetVar(n.name)>>)
    [] n.k = "this"          -> Emits(c, <<GetVar("this")>>)
    [] n.k = "newTarget"     -> NewTargetExpression(c)
    [] n.k = "group"         -> GroupingExpression(c, n)
    [] n.k = "template"      -> TemplateWithSubs(c, n)
    [] n.k = "array"         -> ArrayLiteral_(c, n)
    [] n.k = "object"        -> ObjectLiteral_(c, n)
    [] n.k = "function"      -> FunctionExpression(c, n)
    [] n.k = "class"         -> ClassTail(c, n)
    [] n.k = "binary"        -> Binary(c, n)
    [] n.k = "logical"       -> Logical(c, n)
    [] n.k = "unary"         -> Unary(c, n)
    [] n.k = "conditional"   -> Ternary(c, n)
    [] n.k = "sequence"      -> Comma(c, n)
    [] n.k = "assign"        -> AssignExpression(c, n)
    [] n.k = "assignPattern" -> DestructuringAssignmentImpl(c, n)
    [] n.k = "update"        -> IF n.prefix THEN PrefixIncrement(c, n) ELSE PostfixIncrement(c, n)
    [] n.k = "await"         -> AwaitExpression(c, n)
    [] n.k = "yield"         -> IF n.isDelegate THEN YieldDelegateExpression(c, n) ELSE YieldExpression(c, n)
    [] n.k = "new"           -> NewExpression(c, n)
    [] n.k \in {"member", "index", "optMember", "optIndex", "optCall", "call"} -> Postfix(c, n, "value")

(***************************************************************************)
(* A program: its top-level statements and, behind a jump that skips it,   *)
(* the RETURN on which a completion that leaves the program lands.         *)
(***************************************************************************)
Parse(c, statements) ==
  LET open == [c EXCEPT !.scopeDepth = 0, !.counter = Here(c)]
      body == TopLevelStatements(open, statements)
  IN  Emit(JumpTo(body, "JUMP", Here(body) + 2), "RETURN")

Compile(statements) == Parse(NewParser, statements)
=============================================================================
