------------------------------- MODULE Syntax -------------------------------
(***************************************************************************)
(* The syntax tree of a SandScript program, as src/src/fuel/ast.js lays    *)
(* it out: one constructor for each node the AST writer knows and the      *)
(* parser emits.  A node is a record whose field k names its tag and whose *)
(* other fields are the child references of the node's layout; byte        *)
(* offsets, flags words and source positions are left out, a reference 0   *)
(* is Absent, and a string of the intern table is the string itself.       *)
(*                                                                         *)
(* The parser reads tokens and emits instructions as it goes, writing the  *)
(* tree beside them.  Here the tree is the input: it stands for the token  *)
(* sequence that has it as its tree.  Two things a token sequence tells    *)
(* and the written tree does not are kept: a parenthesised expression      *)
(* (Grouping) and the keyword of an assigning pattern (AssignPattern).     *)
(***************************************************************************)
EXTENDS Integers, Sequences

Absent == [k |-> "absent"]

(***************************************************************************)
(* Literals, names and access.                                             *)
(***************************************************************************)
LiteralInteger(n)        == [k |-> "integer", value |-> n]
LiteralBoolean(b)        == [k |-> "boolean", value |-> b]
LiteralNull              == [k |-> "null"]
LiteralUndefined         == [k |-> "undefined"]
LiteralString(s)         == [k |-> "string", value |-> s]
Identifier(name)         == [k |-> "identifier", name |-> name]
This                     == [k |-> "this"]
Super                    == [k |-> "super"]
NewTarget                == [k |-> "newTarget"]
MemberAccess(object, name)    == [k |-> "member", object |-> object, name |-> name, private |-> FALSE]
PrivateAccess(object, name)   == [k |-> "member", object |-> object, name |-> name, private |-> TRUE]
IndexAccess(object, index)    == [k |-> "index", object |-> object, index |-> index]
OptionalMember(object, name)  == [k |-> "optMember", object |-> object, name |-> name]
OptionalIndex(object, index)  == [k |-> "optIndex", object |-> object, index |-> index]
Grouping(expression)     == [k |-> "group", expression |-> expression]

(***************************************************************************)
(* Operators.                                                              *)
(***************************************************************************)
BinaryOp(op, left, right)     == [k |-> "binary", op |-> op, left |-> left, right |-> right]
LogicalOp(op, left, right)    == [k |-> "logical", op |-> op, left |-> left, right |-> right]
UnaryOp(op, operand)          == [k |-> "unary", op |-> op, operand |-> operand]
Update(op, operand, prefix)   == [k |-> "update", op |-> op, operand |-> operand, prefix |-> prefix]
Assignment(op, target, value) == [k |-> "assign", op |-> op, target |-> target, value |-> value]
AssignPattern(pattern, value) == [k |-> "assignPattern", pattern |-> pattern, value |-> value]
Conditional(test, consequent, alternate) ==
  [k |-> "conditional", test |-> test, consequent |-> consequent, alternate |-> alternate]
SequenceOf(left, right)  == [k |-> "sequence", left |-> left, right |-> right]
Spread(argument)         == [k |-> "spread", argument |-> argument]

(***************************************************************************)
(* Calls.  The arguments are a sequence of expressions and spreads.        *)
(***************************************************************************)
Call(callee, args)         == [k |-> "call", callee |-> callee, args |-> args]
New(callee, args)          == [k |-> "new", callee |-> callee, args |-> args]
OptionalCall(callee, args) == [k |-> "optCall", callee |-> callee, args |-> args]

(***************************************************************************)
(* Control flow.                                                           *)
(***************************************************************************)
If(test, consequent, alternate) ==
  [k |-> "if", test |-> test, consequent |-> consequent, alternate |-> alternate]
While(test, body)              == [k |-> "while", test |-> test, body |-> body]
DoWhile(body, test)            == [k |-> "doWhile", test |-> test, body |-> body]
For(init, test, update, body)  ==
  [k |-> "for", init |-> init, test |-> test, update |-> update, body |-> body]
ForIn(binding, iterable, body, flags) ==
  [k |-> "forIn", binding |-> binding, iterable |-> iterable, body |-> body, flags |-> flags]
ForOf(binding, iterable, body, flags) ==
  [k |-> "forOf", binding |-> binding, iterable |-> iterable, body |-> body, flags |-> flags]
Break                          == [k |-> "break"]
Continue                       == [k |-> "continue"]
Switch(discriminant, cases)    == [k |-> "switch", discriminant |-> discriminant, cases |-> cases]
SwitchCase(test, statements)   == [test |-> test, statements |-> statements]
Return(value)                  == [k |-> "return", value |-> value]
Throw(value)                   == [k |-> "throw", value |-> value]
Try(block, catchParam, catchBlock, finallyBlock) ==
  [k |-> "try", block |-> block, catchParam |-> catchParam, catchBlock |-> catchBlock,
   finallyBlock |-> finallyBlock]
Grant(identifiers, body, deniedParam, deniedBody) ==
  [k |-> "grant", identifiers |-> identifiers, body |-> body, deniedParam |-> deniedParam,
   deniedBody |-> deniedBody]

(***************************************************************************)
(* Declarations and statements.                                            *)
(***************************************************************************)
FunctionDecl(name, params, body, flags) ==
  [k |-> "function", name |-> name, params |-> params, body |-> body, flags |-> flags]
ClassDecl(name, heritage, members, isExpression) ==
  [k |-> "class", name |-> name, heritage |-> heritage, members |-> members, isExpression |-> isExpression]
ClassMember(key, value, flags)     == [key |-> key, value |-> value, flags |-> flags]
VariableDecl(bindings, isConst)    == [k |-> "variable", bindings |-> bindings, isConst |-> isConst]
VariableBinding(target, init)      == [target |-> target, init |-> init]
ArrayPattern(elements)             == [k |-> "arrayPattern", elements |-> elements]
ObjectPattern(properties)          == [k |-> "objectPattern", properties |-> properties]
PatternElement(key, target, default, flags) ==
  [key |-> key, target |-> target, default |-> default, flags |-> flags]
Block(statements)                  == [k |-> "block", statements |-> statements]
ExpressionStatement(expression)    == [k |-> "expression", expression |-> expression]
EmptyStatement                     == [k |-> "empty"]
Export(declaration)                == [k |-> "export", declaration |-> declaration]

(***************************************************************************)
(* Composite literals, asynchrony.                                         *)
(***************************************************************************)
ArrayLiteral(elements)             == [k |-> "array", elements |-> elements]
ObjectLiteral(properties)          == [k |-> "object", properties |-> properties]
ObjectProperty(key, value, flags)  == [key |-> key, value |-> value, flags |-> flags]
TemplateLiteral(parts)             == [k |-> "template", parts |-> parts]
Await(argument)                    == [k |-> "await", argument |-> argument]
Yield(argument, isDelegate)        == [k |-> "yield", argument |-> argument, isDelegate |-> isDelegate]
=============================================================================
