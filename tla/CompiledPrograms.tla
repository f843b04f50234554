-------------------------- MODULE CompiledPrograms --------------------------
(***************************************************************************)
(* What the compiler, the verifier and the meaning of the source make of   *)
(* the programs, as tables.  TLC evaluates a definition without parameters *)
(* once, if it comes to it before a definition that uses it: this module   *)
(* stands before Compilation where the two are extended.  The empty        *)
(* function makes TLC keep the values of a table.                          *)
(***************************************************************************)
EXTENDS Codegen, CodegenVerify, Programs, ScriptValues

Source == INSTANCE SourceMeaning

Whole == [name \in Contexts \X Contexts \X Leaves |-> Nested(name[1], name[2], name[3])]
           @@ Bindings @@ Expressions @@ Unwinding
Texts == Whole @@ Partial

(* The parser returns no code with an error. *)
CodeOfText(text) == LET c == Compile(text) IN IF c.ok THEN c.code ELSE <<>>

Compiled(texts) == [name \in DOMAIN texts |-> CodeOfText(texts[name])]
Reported(codes) == [name \in DOMAIN codes |-> verifyCodeBlockStackDepth(codes[name])]
Tapes           == UNION {[1 .. n -> Answers] : n \in 0 .. MaxAnswers}
Meant(texts)    == [name \in DOMAIN texts |-> [tape \in Tapes |-> Source!Meaning(texts[name], tape)]]

CodeTable    == Compiled(Texts) @@ <<>>
ReportTable  == Reported(Compiled(Texts)) @@ <<>>
MeaningTable == Meant(Whole) @@ <<>>
=============================================================================
