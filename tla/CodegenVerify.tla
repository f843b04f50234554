---------------------------- MODULE CodegenVerify ----------------------------
(***************************************************************************)
(* The stack-depth verifier of src/src/fuel/codegen-verify.js: it walks    *)
(* the code of the top level and of each closure, from instruction to      *)
(* instruction, with the number of operands above the region's baseline,   *)
(* and reports an instruction that two paths reach with different numbers. *)
(* code is a sequence of <<opcode, operand1, operand2>>, numbered from 0.  *)
(***************************************************************************)
EXTENDS Integers, FiniteSets, SequencesExt, TLC

(* Pushes minus pops. *)
Raising  == {"LIT_UNDEFINED", "LIT_NULL", "LIT_TRUE", "LIT_FALSE", "LIT_RATIONAL_INTEGER", "LIT_STRING",
             "LIT_WELL_KNOWN_SYMBOL", "GET_VAR", "DUP", "PUSH_COMPLETION_KIND"}
Keeping  == {"SET_VAR", "NEG", "NOT", "BNOT", "UPLUS", "TYPEOF", "SCOPE_PUSH", "SCOPE_POP", "GET_PROP", "GET_SUPER",
             "AWAIT", "YIELD", "SWAP", "NOP", "TRY_POP", "FINALLY_END", "GRANT_END", "GRANT_DENIED",
             "ASSERT_ITER_RESULT"}
Lowering == {"ADD", "SUB", "MUL", "DIV", "MOD", "POW", "EQ", "NEQ", "LT", "GT", "LTE", "GTE", "BAND", "BOR", "BXOR",
             "SHL", "SHR", "USHR", "INSTANCEOF", "LET_VAR", "SET_PROP", "GET_INDEX", "POP", "ARRAY_PUSH_ONE",
             "OBJ_MERGE_SPREAD", "CALL_SPREAD", "CLASS_LINK"}
CLOSURE_OPS == {"MAKE_CLOSURE", "MAKE_ARROW_CLOSURE", "MAKE_ASYNC_CLOSURE", "MAKE_ASYNC_ARROW_CLOSURE",
                "MAKE_GENERATOR_CLOSURE", "MAKE_ASYNC_GENERATOR_CLOSURE"}

STATIC_EFFECTS ==
  [o \in Raising \cup CLOSURE_OPS |-> 1] @@ [o \in Keeping |-> 0] @@ [o \in Lowering |-> -1]
    @@ [o \in {"SET_INDEX", "SET_SUPER", "CALL_METHOD_SPREAD"} |-> -2]

(* The effects that depend on an operand, as <<constant, factor>>. *)
DYNAMIC_EFFECTS ==
  ("CALL" :> <<0, -1>>) @@ ("CALL_METHOD" :> <<-1, -1>>) @@ ("NEW" :> <<0, -1>>) @@ ("MAKE_ARRAY" :> <<1, -1>>)
    @@ ("MAKE_OBJECT" :> <<1, -2>>)

TERMINATOR_POPS == ("RETURN" :> -1) @@ ("RETURN_UNDEFINED" :> 0) @@ ("THROW" :> -1)

(* What the instructions that branch pop before they do. *)
BranchPops ==
  ("JUMP" :> 0) @@ ("UNWIND_JUMP" :> 0) @@ ("JUMP_IF_FALSE" :> -1) @@ ("JUMP_IF_TRUE" :> -1) @@ ("TRY_PUSH" :> 0)

FIXED_EFFECTS == STATIC_EFFECTS @@ TERMINATOR_POPS @@ BranchPops

Modelled(i) == i[1] \in DOMAIN FIXED_EFFECTS \cup DOMAIN DYNAMIC_EFFECTS \cup {"GRANT_START"}

Effect(i) ==
  CASE i[1] \in DOMAIN FIXED_EFFECTS   -> FIXED_EFFECTS[i[1]]
    [] i[1] \in DOMAIN DYNAMIC_EFFECTS -> DYNAMIC_EFFECTS[i[1]][1] + DYNAMIC_EFFECTS[i[1]][2] * i[2]
    [] i[1] = "GRANT_START"            -> -i[3]

(* The edges that leave the instruction at index, when it leaves depth operands. *)
Edges(code, index, depth) ==
  LET i      == code[index + 1]
      next   == <<<<index + 1, depth>>>>
      marked == i[2] < Len(code) /\ code[i[2] + 1][1] = "GRANT_DENIED"
  IN  CASE i[1] \in DOMAIN TERMINATOR_POPS -> <<>>
        [] i[1] \in {"JUMP", "UNWIND_JUMP"} -> <<<<i[2], depth>>>>
        [] i[1] \in {"JUMP_IF_FALSE", "JUMP_IF_TRUE"} -> Append(next, <<i[2], depth>>)
        [] i[1] = "TRY_PUSH" -> next \o (IF i[2] # 0 THEN <<<<i[2], depth + 1>>>> ELSE <<>>)
                                     \o (IF i[3] # 0 THEN <<<<i[3], depth>>>> ELSE <<>>)
        [] i[1] = "GRANT_START" ->
             next \o (IF i[2] # 0 /\ i[2] < Len(code) THEN <<<<i[2], depth + (IF marked THEN 1 ELSE 0)>>>> ELSE <<>>)
        [] OTHER -> next

Finding(kind, index, depths) == [kind |-> kind, index |-> index, depths |-> depths]

(***************************************************************************)
(* One region.  A body opens with RECONCILE_PARAMS, which sets its depth.  *)
(* The worklist is a stack; an instruction outside the tables blocks the   *)
(* region, and a blocked region has no findings.                           *)
(***************************************************************************)
RECURSIVE Walk(_, _, _, _, _)
Walk(code, start, worklist, depthAt, findings) ==
  LET edge    == Last(worklist)
      opens   == edge[1] = start /\ code[start + 1][1] = "RECONCILE_PARAMS"
      index   == IF opens THEN edge[1] + 1 ELSE edge[1]
      depth   == IF opens THEN code[start + 1][2] ELSE edge[2]
      i       == code[index + 1]
      after   == depth + Effect(i)
      reached == (index :> depth) @@ depthAt
      rest    == Front(worklist)
  IN  CASE worklist = <<>> -> [blocked |-> FALSE, depthAt |-> depthAt, findings |-> findings]
        [] worklist # <<>> /\ edge[1] >= Len(code) -> Walk(code, start, rest, depthAt, findings)
        [] worklist # <<>> /\ edge[1] < Len(code) /\ index \in DOMAIN depthAt ->
             Walk(code, start, rest, depthAt,
                  findings \cup (IF depthAt[index] = depth THEN {}
                                 ELSE {Finding("join-mismatch", index, {depthAt[index], depth})}))
        [] worklist # <<>> /\ edge[1] < Len(code) /\ index \notin DOMAIN depthAt /\ ~Modelled(i) ->
             [blocked |-> TRUE, depthAt |-> reached, findings |-> {}]
        [] OTHER ->
             IF after < 0 THEN Walk(code, start, rest, reached, findings \cup {Finding("negative-depth", index, {after})})
             ELSE Walk(code, start, rest \o Edges(code, index, after), reached, findings)

regionStarts(code) == {0} \cup {code[j][2] : j \in {k \in DOMAIN code : code[k][1] \in CLOSURE_OPS}}

(* The report: what the walk of each region found. *)
verifyCodeBlockStackDepth(code) ==
  [start \in regionStarts(code) |-> Walk(code, start, <<<<start, 0>>>>, <<>>, {})] @@ <<>>

=============================================================================
