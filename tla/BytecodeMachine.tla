-------------------------- MODULE BytecodeMachine --------------------------
(***************************************************************************)
(* The bytecode machine of src/src/fuel/interpreter.wat for one context,   *)
(* and what the airlock does for it when it stops at GRANT_START.          *)
(*                                                                         *)
(* vm is the context: besides the heap, the scopes, the log and the tape   *)
(* of ScriptValues it has the instruction index pc, the operand stack      *)
(* (pending), the current scope, and the three stacks whose order the      *)
(* compiler must keep: the call frames, the try entries and the grants     *)
(* (each grant is the call depth at which it was taken).  out is the exit  *)
(* condition.  One step executes one instruction.  A popped scope keeps    *)
(* its number: recycling, fuel, memory pressure and the corrupt-operand    *)
(* traps are left out.                                                     *)
(***************************************************************************)
EXTENDS ScriptValues

CONSTANT CodeOf   \* the instructions of each program, numbered from 0; none if it does not compile

VARIABLES program, vm

vars == <<program, vm>>

Running == [kind |-> "running", value |-> Undefined]
Stopped(kind, v) == [kind |-> kind, value |-> v]

Start ==
  FreshWorld @@ [pc |-> 0, pending |-> <<>>, scope |-> 1, frames |-> <<>>, tries |-> <<>>,
                 grants |-> <<>>, out |-> Running]

code == CodeOf[program]
instruction == code[vm.pc + 1]
opcode   == instruction[1]
operand1 == instruction[2]
operand2 == instruction[3]

(***************************************************************************)
(* The operand stack.  Top(m, 1) is the topmost value.                     *)
(***************************************************************************)
Push(m, v)    == [m EXCEPT !.pending = Append(@, v)]
Drop(m, n)    == [m EXCEPT !.pending = SubSeq(@, 1, Len(@) - n)]
Top(m, i)     == m.pending[Len(m.pending) + 1 - i]
TopSeq(m, n)  == SubSeq(m.pending, Len(m.pending) - n + 1, Len(m.pending))
Advance(m)    == [m EXCEPT !.pc = @ + 1]
Goto(m, pc)   == [m EXCEPT !.pc = pc]
Replace(m, n, v) == Advance(Push(Drop(m, n), v))

(***************************************************************************)
(* Try entries.  An entry is kept, disarmed, while its handler runs, and   *)
(* holds the completion that its finally block has put off.                *)
(***************************************************************************)
Normal == [kind |-> "normal", value |-> Undefined, target |-> 0, remaining |-> 0]
Completion(kind, v) == [Normal EXCEPT !.kind = kind, !.value = v]
JumpCompletion(target, remaining) == [Normal EXCEPT !.kind = "jump", !.target = target, !.remaining = remaining]

TryPush(m, catch, finally) ==
  [m EXCEPT !.tries = Append(@, [catch |-> catch, finally |-> finally, frames |-> Len(m.frames), scope |-> m.scope,
                                 pending |-> Len(m.pending), grants |-> Len(m.grants), completion |-> Normal])]

(* Mutant: a handler runs with the grants of the block that was left.       *)
ClampGrantsMutant(m) == m

ClampGrants(m) ==
  [m EXCEPT !.grants = SubSeq(@, 1, IF Last(m.tries).grants < Len(@) THEN Last(m.tries).grants ELSE Len(@))]

TryPop(m) == [ClampGrants(m) EXCEPT !.tries = Front(@)]

(* Mutant: the operands of the interrupted expression stay on the stack.    *)
RestoreTryMutant(m) == [ClampGrants(m) EXCEPT !.scope = Last(m.tries).scope]

(* Mutant: a handler starts in the scope of the statement that threw.       *)
RestoreScopeMutant(m) == [ClampGrants(m) EXCEPT !.pending = SubSeq(@, 1, Last(m.tries).pending)]

(* A handler starts where its entry was made: operands, scope and grants. *)
RestoreTry(m) ==
  LET t == Last(m.tries)
  IN  [ClampGrants(m) EXCEPT !.pending = SubSeq(@, 1, t.pending), !.scope = t.scope]

DivertToFinally(m, completion) ==
  [RestoreTry(m) EXCEPT !.pc = Last(m.tries).finally,
     !.tries[Len(m.tries)] = [@ EXCEPT !.catch = 0, !.finally = 0, !.completion = completion]]

RECURSIVE ThrowDispatch(_, _)
ThrowDispatch(m, v) ==
  LET t == Last(m.tries)
      unwound == [m EXCEPT !.frames = SubSeq(@, 1, t.frames)]
  IN  CASE m.tries = <<>> -> [m EXCEPT !.out = Stopped("throw", v)]
        [] m.tries # <<>> /\ t.catch # 0 ->
             Push([RestoreTry(unwound) EXCEPT !.pc = t.catch, !.tries[Len(m.tries)].catch = 0,
                                              !.tries[Len(m.tries)].completion = Normal], v)
        [] m.tries # <<>> /\ t.catch = 0 /\ t.finally # 0 -> DivertToFinally(unwound, Completion("throw", v))
        [] OTHER -> ThrowDispatch(TryPop(m), v)

TrimGrantsToFrameDepth(m) == [m EXCEPT !.grants = SelectSeq(@, LAMBDA depth : depth < Len(m.frames))]

(* The return itself, when no finally block of the frame intercepts it. *)
LeaveFrame(m, v) ==
  LET frame == Last(m.frames)
  IN  IF m.frames = <<>> THEN [Push(m, v) EXCEPT !.out = Stopped("done", v)]
      ELSE [TrimGrantsToFrameDepth(m) EXCEPT !.frames = Front(@), !.scope = frame.scope, !.pc = frame.return,
                                             !.pending = Append(SubSeq(@, 1, frame.base), v)]

RECURSIVE ReturnDispatch(_, _)
ReturnDispatch(m, v) ==
  LET t == Last(m.tries)
  IN  CASE m.tries = <<>> -> LeaveFrame(m, v)
        [] m.tries # <<>> /\ t.frames # Len(m.frames) -> LeaveFrame(m, v)
        [] m.tries # <<>> /\ t.frames = Len(m.frames) /\ t.finally # 0 -> DivertToFinally(m, Completion("return", v))
        [] OTHER -> ReturnDispatch(TryPop(m), v)

RECURSIVE UnwindToward(_, _, _)
UnwindToward(m, target, count) ==
  CASE count = 0 -> Goto(m, target)
    [] count # 0 /\ Last(m.tries).finally # 0 -> DivertToFinally(m, JumpCompletion(target, count - 1))
    [] OTHER -> UnwindToward(TryPop(m), target, count - 1)

(* The value of an operation pushed in place of n operands, or its error thrown. *)
Settle(m, n, result) == IF result.thrown THEN ThrowDispatch(Drop(m, n), result.value) ELSE Replace(m, n, result.value)

(***************************************************************************)
(* Calls.  The callee and its arguments stay on the stack until it returns.*)
(***************************************************************************)
IsClosure(m, v) == v[1] = "object" /\ m.heap[v[2]].kind = "function"

MakeClosure(m, arrow) ==
  LET f == [NewObject("function") EXCEPT !.at = operand1, !.of = m.scope]
      made == Allocate(m, SetProperty(f, "@arrow", Boolean(arrow)))
  IN  Advance(Push(made, Newest(made)))

IsArrow(m, f) == m.heap[f[2]].props[1][2] = Boolean(TRUE)

(* argc arguments on top, under them the callee, under it, for a method, the receiver. *)
EnterClosure(m, f, argc, below, this) ==
  LET made   == NewScope(m, m.heap[f[2]].of)
      scope  == Len(made.scopes)
      bound  == IF IsArrow(m, f) THEN made ELSE ScopeDefine(made, scope, "this", this, FALSE)
      frame  == [return |-> m.pc + 1, scope |-> m.scope, base |-> Len(m.pending) - argc - below,
                 args |-> Len(m.pending) - argc, argc |-> argc]
  IN  [bound EXCEPT !.frames = Append(@, frame), !.scope = scope, !.pc = m.heap[f[2]].at]

Invoke(m, argc, below, answer) ==
  LET f    == Top(m, argc + 1)
      this == IF below = 2 THEN Top(m, argc + 2) ELSE Undefined
      r    == CallNative(m, f[2], this, TopSeq(m, argc), answer, Len(m.grants))
  IN  CASE IsClosure(m, f) -> EnterClosure(m, f, argc, below, this)
        [] f[1] = "native" -> Settle(r.m, argc + below, r.out)
        [] OTHER -> ThrowDispatch(m, TypeError)

(* The packed argument array gives way to its elements. *)
Unpacked(m) == [Drop(m, 1) EXCEPT !.pending = @ \o m.heap[Top(m, 1)[2]].elems]

Unpack(m) == IF opcode \in {"CALL_SPREAD", "CALL_METHOD_SPREAD"} THEN Unpacked(m) ELSE m
ArgCount(m) == IF opcode \in {"CALL_SPREAD", "CALL_METHOD_SPREAD"} THEN Len(m.heap[Top(m, 1)[2]].elems) ELSE operand1
Below == IF opcode \in {"CALL", "CALL_SPREAD"} THEN 1 ELSE 2

(* The arguments passed become exactly the declared parameters. *)
ReconcileParams(m) ==
  LET argc   == Last(m.frames).argc
      args   == TopSeq(m, argc)
      fixed  == operand1 - operand2
      padded == [i \in 1 .. fixed |-> IF i <= argc THEN args[i] ELSE Undefined]
      base   == Drop(m, argc)
      rest   == MakeArray(base, SubSeq(args, fixed + 1, argc))
  IN  IF operand2 = 0 THEN [base EXCEPT !.pending = @ \o padded]
      ELSE [rest EXCEPT !.pending = @ \o Append(padded, Newest(rest))]

(***************************************************************************)
(* The instructions, by family.  Each action is enabled at its opcodes.    *)
(***************************************************************************)
At(opcodes) == vm.out = Running /\ vm.pc < Len(code) /\ opcode \in opcodes

Becomes(m) == vm' = m /\ UNCHANGED program

Constants == {"LIT_UNDEFINED", "LIT_NULL", "LIT_TRUE", "LIT_FALSE", "LIT_RATIONAL_INTEGER", "LIT_STRING",
              "LIT_WELL_KNOWN_SYMBOL"}

ConstantOf(i) ==
  CASE i[1] = "LIT_UNDEFINED" -> Undefined
    [] i[1] = "LIT_NULL"      -> Null
    [] i[1] = "LIT_TRUE"      -> Boolean(TRUE)
    [] i[1] = "LIT_FALSE"     -> Boolean(FALSE)
    [] i[1] = "LIT_RATIONAL_INTEGER" -> Number(i[2])
    [] i[1] = "LIT_STRING"    -> String(i[2])
    [] i[1] = "LIT_WELL_KNOWN_SYMBOL" -> Symbol(i[2])

PushLiteral == At(Constants) /\ Becomes(Advance(Push(vm, ConstantOf(instruction))))

Reads(m, name) == IF ScopeLookup(m, m.scope, name) = 0 THEN Error(NameError)
                  ELSE Value(Binding(m, m.scope, name).value)

AccessVariable ==
  \/ At({"GET_VAR"}) /\ Becomes(Settle(vm, 0, Reads(vm, operand1)))
  \/ /\ At({"SET_VAR"})
     /\ Becomes(CASE ScopeLookup(vm, vm.scope, operand1) = 0 -> ThrowDispatch(vm, NameError)
                  [] Binding(vm, vm.scope, operand1).const -> ThrowDispatch(vm, ConstAssign)
                  [] OTHER -> Advance(ScopeSet(vm, vm.scope, operand1, Top(vm, 1))))
  \/ /\ At({"LET_VAR"})
     /\ Becomes(IF Binds(vm, vm.scope, operand1) THEN ThrowDispatch(vm, Redeclaration)
                ELSE Advance(Drop(ScopeDefine(vm, vm.scope, operand1, Top(vm, 1), operand2 = 1), 1)))

ChangeScope ==
  \/ At({"SCOPE_PUSH"}) /\ LET made == NewScope(vm, vm.scope)
                           IN  Becomes(Advance([made EXCEPT !.scope = Len(made.scopes)]))
  \/ At({"SCOPE_POP"})  /\ Becomes(Advance([vm EXCEPT !.scope = vm.scopes[@].parent]))

Operate ==
  \/ At({"ADD", "SUB", "LT", "EQ"}) /\ Becomes(Replace(vm, 2, BinaryResult(opcode, Top(vm, 2), Top(vm, 1))))
  \/ At({"NOT"})  /\ Becomes(Replace(vm, 1, Boolean(~Truthy(Top(vm, 1)))))
  \/ At({"POP"})  /\ Becomes(Advance(Drop(vm, 1)))
  \/ At({"DUP"})  /\ Becomes(Advance(Push(vm, Top(vm, 1))))
  \/ At({"SWAP"}) /\ Becomes(Advance(Push(Push(Drop(vm, 2), Top(vm, 1)), Top(vm, 2))))

(* AND, OR and NULLISH keep the left operand when they jump. *)
KeepsLeft(v) ==
  CASE opcode = "AND" -> ~Truthy(v)
    [] opcode = "OR"  -> Truthy(v)
    [] opcode = "NULLISH" -> ~IsNullish(v)

Branch ==
  \/ At({"JUMP"}) /\ Becomes(Goto(vm, operand1))
  \/ /\ At({"JUMP_IF_FALSE", "JUMP_IF_TRUE"})
     /\ LET popped == Drop(vm, 1)
        IN  Becomes(IF Truthy(Top(vm, 1)) = (opcode = "JUMP_IF_TRUE") THEN Goto(popped, operand1) ELSE Advance(popped))
  \/ /\ At({"AND", "OR", "NULLISH"})
     /\ Becomes(IF KeepsLeft(Top(vm, 1)) THEN Goto(vm, operand1) ELSE Advance(Drop(vm, 1)))

Build ==
  \/ At({"MAKE_ARRAY"})  /\ LET made == MakeArray(vm, TopSeq(vm, operand1))
                            IN  Becomes(Replace(made, operand1, Newest(made)))
  \/ At({"MAKE_OBJECT"}) /\ LET made == MakeObject(vm, TopSeq(vm, 2 * operand1))
                            IN  Becomes(Replace(made, 2 * operand1, Newest(made)))
  \/ At({"ARRAY_PUSH_ONE"})   /\ Becomes(Advance(Drop(PushElement(vm, Top(vm, 2), Top(vm, 1)), 1)))
  \/ At({"OBJ_MERGE_SPREAD"}) /\ Becomes(Advance(Drop(MergeProperties(vm, Top(vm, 2), Top(vm, 1)), 1)))

AccessMember ==
  \/ At({"GET_PROP"})  /\ Becomes(Settle(vm, 1, GetProperty(vm, Top(vm, 1), operand1)))
  \/ At({"GET_INDEX"}) /\ Becomes(Settle(vm, 2, GetElement(vm, Top(vm, 2), Top(vm, 1))))
  \/ /\ At({"SET_PROP"})
     /\ Becomes(IF IsNullish(Top(vm, 2)) THEN ThrowDispatch(vm, TypeError)
                ELSE Replace(PutProperty(vm, Top(vm, 2), operand1, Top(vm, 1)), 2, Top(vm, 1)))
  \/ /\ At({"SET_INDEX"})
     /\ Becomes(Replace(PutElement(vm, Top(vm, 3), Top(vm, 2), Top(vm, 1)), 3, Top(vm, 1)))
  \/ /\ At({"DELETE_PROP"})
     /\ Becomes(Replace(RemoveProperty(vm, Top(vm, 1), operand1), 1, Boolean(TRUE)))
  \/ /\ At({"DELETE_INDEX"})
     /\ Becomes(Replace(RemoveProperty(vm, Top(vm, 2), Top(vm, 1)[2]), 2, Boolean(TRUE)))

CheckIteration ==
  \/ /\ At({"ASSERT_ITERABLE"})
     /\ Becomes(IF (operand1 = 0 /\ CannotIterate(Top(vm, 1))) \/ (operand1 = 1 /\ IsNullish(Top(vm, 1)))
                THEN ThrowDispatch(vm, TypeError) ELSE Advance(vm))
  \/ /\ At({"ASSERT_ITER_RESULT"})
     /\ Becomes(IF IsIteratorResult(Top(vm, 1)) THEN Advance(vm) ELSE ThrowDispatch(vm, TypeError))

KindNumber(kind) == CASE kind = "normal" -> 0 [] kind = "throw" -> 1 [] kind = "return" -> 2 [] kind = "jump" -> 3

(* The pending completion goes on when its finally block has ended. *)
FinallyEnd(m) ==
  LET completion == Last(m.tries).completion
      popped     == TryPop(m)
  IN  CASE completion.kind = "normal" -> Advance(popped)
        [] completion.kind = "throw"  -> ThrowDispatch(popped, completion.value)
        [] completion.kind = "return" -> Goto(Push(popped, completion.value), Len(code) - 1)
        [] completion.kind = "jump"   -> UnwindToward(popped, completion.target, completion.remaining)

Protect ==
  \/ At({"TRY_PUSH"}) /\ Becomes(Advance(TryPush(vm, operand1, operand2)))
  \/ /\ At({"TRY_POP"})
     /\ LET t == Last(vm.tries)
        IN  Becomes(IF t.finally = 0 THEN Advance(TryPop(vm))
                    ELSE [vm EXCEPT !.pc = t.finally,
                            !.tries[Len(vm.tries)] = [@ EXCEPT !.catch = 0, !.finally = 0, !.completion = Normal]])
  \/ At({"THROW"}) /\ Becomes(ThrowDispatch(Drop(vm, 1), Top(vm, 1)))
  \/ At({"UNWIND_JUMP"}) /\ Becomes(UnwindToward(vm, operand1, operand2))
  \/ At({"FINALLY_END"}) /\ Becomes(FinallyEnd(vm))
  \/ At({"PUSH_COMPLETION_KIND"}) /\ Becomes(Advance(Push(vm, Number(KindNumber(Last(vm.tries).completion.kind)))))

(* The host's answer: anything while answers are left, then "no". *)
Answering(asks) == IF asks /\ Len(vm.tape) < MaxAnswers THEN Answers ELSE {"no"}

CallFunction ==
  /\ At({"CALL", "CALL_SPREAD", "CALL_METHOD", "CALL_METHOD_SPREAD"})
  /\ LET m    == Unpack(vm)
         argc == ArgCount(vm)
         f    == Top(m, argc + 1)
         asks == f[1] = "native" /\ AsksHost(m, f[2], IF Below = 2 THEN Top(m, argc + 2) ELSE Undefined)
     IN  \E answer \in Answering(asks) : Becomes(Invoke(m, argc, Below, answer))

EnterOrLeave ==
  \/ At({"MAKE_CLOSURE"}) /\ Becomes(MakeClosure(vm, FALSE))
  \/ At({"MAKE_ARROW_CLOSURE"}) /\ Becomes(MakeClosure(vm, TRUE))
  \/ At({"RECONCILE_PARAMS"}) /\ Becomes(Advance(ReconcileParams(vm)))
  \/ At({"RETURN"}) /\ Becomes(ReturnDispatch(Drop(vm, 1), Top(vm, 1)))
  \/ At({"RETURN_UNDEFINED"}) /\ Becomes(ReturnDispatch(vm, Undefined))

(***************************************************************************)
(* Grants.  GRANT_START leaves the machine; the airlock takes the          *)
(* identifiers off the stack, has the host decide and lets the context go  *)
(* on inside the block or at the denied address.                           *)
(***************************************************************************)
FinalizeGrantApproval(m) ==
  Advance([Drop(m, operand2) EXCEPT !.grants = @ \o [i \in 1 .. operand2 |-> Len(m.frames)]])

FinalizeGrantRejection(m) ==
  LET rejected == MakeArray(m, TopSeq(m, operand2))
      told     == Push(Drop(rejected, operand2), Newest(rejected))
  IN  Goto(IF code[operand1 + 1][1] = "GRANT_DENIED" THEN told ELSE Drop(m, operand2), operand1)

ProcessGrants ==
  /\ At({"GRANT_START"})
  /\ \E answer \in Answering(TRUE) \ {"throw"} :
       LET told == Heard(vm, answer)
       IN  Becomes(IF answer = "yes" THEN FinalizeGrantApproval(told) ELSE FinalizeGrantRejection(told))

EndGrant ==
  \/ At({"GRANT_END"}) /\ Becomes(Advance([vm EXCEPT !.grants = SubSeq(@, 1, Len(@) - operand1)]))
  \/ At({"GRANT_DENIED"}) /\ Becomes(Advance(vm))

(* The code has no further instruction: the value on top is the program's. *)
EndOfCode ==
  /\ vm.out = Running /\ vm.pc = Len(code)
  /\ Becomes([vm EXCEPT !.out = Stopped("done", IF vm.pending = <<>> THEN Undefined ELSE Top(vm, 1))])

Init == program \in {p \in DOMAIN CodeOf : CodeOf[p] # <<>>} /\ vm = Start

Next == \/ PushLiteral \/ AccessVariable \/ ChangeScope \/ Operate \/ Branch \/ Build \/ AccessMember
        \/ CheckIteration \/ Protect \/ CallFunction \/ EnterOrLeave \/ ProcessGrants \/ EndGrant \/ EndOfCode

Spec == Init /\ [][Next]_vars
=============================================================================
