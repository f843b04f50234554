----------------------------- MODULE Compilation -----------------------------
(***************************************************************************)
(* A compiled program on the machine, beside what its source means and     *)
(* what the stack-depth verifier says of its code.  The compiler, the      *)
(* verifier and the meaning enter as tables.                               *)
(***************************************************************************)
EXTENDS BytecodeMachine

CONSTANTS Reports,      \* the verifier's report on each program's code
          MeaningOf,    \* what a program does, for each sequence of answers: of those the machine can run
          LeavesBraces, \* the programs in which a break or continue leaves braces
          SharesNames   \* those of them that bind a name both in the scopes left and outside

ASSUME NamesAreOfLeavers == SharesNames \subseteq LeavesBraces

Ended == vm.out # Running

ShowsItsMeaning ==
  LET asked == Len(vm.tape)
      meant == MeaningOf[program][SubSeq(vm.tape, 1, IF asked < MaxAnswers THEN asked ELSE MaxAnswers)]
  IN  /\ vm.log = meant.log
      /\ (vm.out.kind = "throw") = meant.thrown
      /\ meant.thrown => vm.out.value = meant.value

(* However control leaves a loop, a switch, a try block, a catch block, a
   finally block, a granted block or a function, the program shows the host what
   its source means, in order and with the grants the source holds there, and
   throws what its source throws: on the words of parser.js that a continue
   leaves the scope of its iteration, and so of whatever it jumps out of. *)
TraceAsSource == program \in DOMAIN MeaningOf /\ Ended => ShowsItsMeaning

(* The same of every program but those in which a break or continue out of
   braces leaves a scope behind that binds a name used outside (forStatement,
   forOfBody, continueStatement): a try entry, a finally block, a grant or a
   frame is never the wrong one, and a scope left behind never shows. *)
TraceOfDistinctNames == program \notin SharesNames => TraceAsSource

(* A function at its end is in the scope it was called with, the one that binds
   its "this", and a program in the one it began in. *)
InOwnScope ==
    /\ ~Ended /\ vm.pc < Len(code) /\ opcode = "RETURN_UNDEFINED" => Binds(vm, vm.scope, "this")
    /\ vm.out.kind = "done" => vm.scope = Start.scope

(* A program that runs to its end has left every protected region: no try entry
   that a later statement's throw would find, no grant that outlives its block.
   And every throw, return, denied grant and finally block on the way has left
   the scopes it should, if no break or continue of the program leaves braces. *)
NothingLeftOver ==
    /\ vm.out.kind = "done" => vm.tries = <<>> /\ vm.grants = <<>> /\ vm.frames = <<>>
    /\ program \notin LeavesBraces => InOwnScope

(* At every instruction of a region the verifier accepts, the operands above the
   region's baseline are as many as it computed, on whatever path the machine
   came: past throws, returns and jumps through finally blocks too. *)
DepthAgrees ==
  LET report == Reports[program]
      base   == IF vm.frames = <<>> THEN 0 ELSE Last(vm.frames).args
  IN  \A start \in DOMAIN report :
        ~report[start].blocked /\ vm.pc \in DOMAIN report[start].depthAt /\ ~Ended
          => Len(vm.pending) - base = report[start].depthAt[vm.pc]
=============================================================================
