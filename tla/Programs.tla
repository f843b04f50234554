------------------------------ MODULE Programs ------------------------------
(***************************************************************************)
(* The programs the runs compile: every way to nest a statement that       *)
(* leaves in two contexts, and one program for each kind of expression and *)
(* binding.  Each context has a name of its own for what it binds.         *)
(***************************************************************************)
EXTENDS Syntax, TLC

Id(name)     == Identifier(name)
Str(s)       == LiteralString(s)
Num(n)       == LiteralInteger(n)
Do_(e)       == ExpressionStatement(e)
Log(e)       == Do_(Call(Id("log"), <<e>>))
Ask          == Call(Id("ask"), <<>>)
Declared(target, e) == VariableDecl(<<VariableBinding(target, e)>>, FALSE)
Let(name, e) == Declared(Id(name), e)
Param(name)  == PatternElement("", Id(name), Absent, {})
Hole         == PatternElement("", Absent, Absent, {"hole"})
RestOf(name) == PatternElement("", Id(name), Absent, {"rest"})
Named(key, target, default) == PatternElement(key, target, default, {})
Pair(key, e) == ObjectProperty(key, e, {})
Fn(params, statements)      == FunctionDecl("", params, Block(statements), {})
Arrow(params, e)            == FunctionDecl("", params, e, {"arrow"})
Function(name, params, statements) == FunctionDecl(name, params, Block(statements), {})
Set(target, e)              == Do_(Assignment("=", target, e))
Add(a, b)                   == BinaryOp("ADD", a, b)
CallOf(name, args)          == Call(Id(name), args)

Items == ArrayLiteral(<<Num(1), Num(2)>>)
Keyed == ObjectLiteral(<<Pair("a", Num(1)), Pair("b", Num(2))>>)

(***************************************************************************)
(* The family.                                                             *)
(***************************************************************************)
Contexts == {"block", "if", "while", "do", "for", "forIn", "forOf", "stream", "switch", "try", "tryFinally",
             "catch", "finally", "grant", "denied", "function"}
Leaves == {"log", "break", "continue", "return", "throw"}

LeafOf(leaf) ==
  CASE leaf = "log"      -> Log(Str("leaf"))
    [] leaf = "break"    -> Break
    [] leaf = "continue" -> Continue
    [] leaf = "return"   -> Return(Ask)
    [] leaf = "throw"    -> Throw(Str("t"))

(* The body in the context ctx, which binds the name x. *)
InContext(ctx, x, body) ==
  LET inner == Block(body)
      note  == Block(<<Log(Str(ctx))>>)
  IN  CASE ctx = "block"  -> inner
        [] ctx = "if"     -> If(Ask, inner, note)
        [] ctx = "while"  -> While(Ask, inner)
        [] ctx = "do"     -> DoWhile(inner, Ask)
        [] ctx = "for"    -> For(Let(x, Num(0)), BinaryOp("LT", Id(x), Num(2)), Update("ADD", Id(x), FALSE), inner)
        [] ctx = "forIn"  -> ForIn(Id(x), Keyed, inner, {})
        [] ctx = "forOf"  -> ForOf(Id(x), Items, inner, {})
        [] ctx = "stream" -> ForOf(Id(x), Id("stream"), inner, {})
        [] ctx = "switch" -> Switch(Ask, <<SwitchCase(Num(1), body), SwitchCase(Absent, <<Log(Str(ctx))>>)>>)
        [] ctx = "try"    -> Try(inner, x, Block(<<Log(Id(x))>>), Absent)
        [] ctx = "tryFinally" -> Try(inner, "", Absent, note)
        [] ctx = "catch"  -> Try(Block(<<Throw(Str(x))>>), x, inner, note)
        [] ctx = "finally" -> Try(Block(<<If(Ask, Throw(Str(x)), Absent)>>), "", Absent, inner)
        [] ctx = "grant"  -> Grant(<<Str(x)>>, inner, x, note)
        [] ctx = "denied" -> Grant(<<Str(x)>>, note, x, inner)
        [] ctx = "function" -> Log(Call(Fn(<<>>, body), <<>>))

(* The leaf in two contexts, in a function. *)
Nested(outer, inner, leaf) ==
  <<Function("f", <<>>, <<InContext(outer, "x", <<InContext(inner, "y", <<LeafOf(leaf), Log(Str("in"))>>),
                                                  Log(Str("between"))>>),
                          Log(Str("after"))>>),
    Log(CallOf("f", <<>>))>>

(***************************************************************************)
(* One by one.                                                             *)
(***************************************************************************)
Bindings ==
  (<<"array pattern">> :>
     <<Declared(ArrayPattern(<<Named("", Id("a"), Num(7)), Hole, Named("", Id("b"), Num(5)), RestOf("c")>>),
                ArrayLiteral(<<LiteralUndefined, Num(2), Num(3), Num(4)>>)),
       Log(Id("a")), Log(Id("b")), Log(MemberAccess(Id("c"), "length"))>>) @@
  (<<"object pattern">> :>
     <<Declared(ObjectPattern(<<Named("a", Id("a"), Absent), Named("x", Id("x"), Ask),
                                Named("b", ObjectPattern(<<Named("c", Id("c"), Num(7))>>), Absent), RestOf("rest")>>),
                ObjectLiteral(<<Pair("a", Num(1)), Pair("b", ObjectLiteral(<<>>)), Pair("d", Num(4))>>)),
       Log(Id("a")), Log(Id("x")), Log(Id("c")), Log(MemberAccess(Id("rest"), "d")),
       Log(MemberAccess(Id("rest"), "a"))>>) @@
  (<<"swap">> :>
     <<Let("a", Num(1)), Let("b", Num(2)),
       Do_(AssignPattern(ArrayPattern(<<Param("a"), Param("b")>>), ArrayLiteral(<<Id("b"), Id("a")>>))),
       Log(Id("a")), Log(Id("b")),
       Do_(AssignPattern(ObjectPattern(<<Named("p", Id("a"), Absent)>>), ObjectLiteral(<<Pair("p", Num(9))>>))),
       Log(Id("a"))>>) @@
  (<<"parameters">> :>
     <<Function("f", <<Param("a"), Named("", Id("b"), Add(Id("a"), Num(1))),
                       Named("", ObjectPattern(<<Named("c", Id("c"), Num(3))>>), ObjectLiteral(<<>>)), RestOf("r")>>,
                <<Return(Add(Add(Id("a"), Id("b")), Add(Id("c"), MemberAccess(Id("r"), "length"))))>>),
       Function("g", <<Param("a"), Param("b"), RestOf("r")>>, <<Return(Add(Id("a"), Id("b")))>>),
       Log(CallOf("f", <<Num(1)>>)),
       Log(CallOf("f", <<Num(1), Num(5), LiteralUndefined, Num(0)>>)),
       Log(CallOf("g", <<Num(1), Str("b"), Num(2)>>)), Log(CallOf("g", <<Str("a")>>))>>) @@
  (<<"binding loops">> :>
     <<ForOf(ArrayPattern(<<Param("k"), Param("v")>>), ArrayLiteral(<<Items, Items>>),
             Block(<<If(Ask, Block(<<Continue>>), Absent), Log(Add(Id("k"), Id("v")))>>), {"const"}),
       ForOf(Id("w"), Items, If(BinaryOp("EQ", Id("w"), Num(2)), Break, Absent), {})>>) @@
  (<<"constants">> :>
     <<VariableDecl(<<VariableBinding(Id("k"), Num(1))>>, TRUE),
       Try(Block(<<Set(Id("k"), Num(2))>>), "e", Block(<<Log(Str("const"))>>), Absent),
       Try(Block(<<Log(Id("missing"))>>), "e", Block(<<Log(Str("name"))>>), Absent),
       Try(Block(<<Set(Id("missing"), Num(2))>>), "e", Block(<<Log(Str("name"))>>), Absent),
       Try(Block(<<Let("k", Num(2)), Let("k", Num(3))>>), "e", Block(<<Log(Id("e"))>>), Absent)>>)

Expressions ==
  (<<"spread">> :>
     <<Let("xs", ArrayLiteral(<<Num(1), Spread(Items), Num(4)>>)), Log(MemberAccess(Id("xs"), "length")),
       Function("f", <<Param("a"), RestOf("r")>>, <<Return(Add(Id("a"), MemberAccess(Id("r"), "length")))>>),
       Log(CallOf("f", <<Spread(Id("xs")), Num(5)>>)),
       Let("o", ObjectLiteral(<<ObjectProperty("", Keyed, {"spread"}), Pair("a", Num(5)),
                                ObjectProperty(Add(Str("c"), Num(1)), Num(6), {"computed"}),
                                Pair("f", Fn(<<RestOf("r")>>, <<Return(MemberAccess(Id("r"), "length"))>>))>>)),
       Log(MemberAccess(Id("o"), "a")), Log(MemberAccess(Id("o"), "c1")),
       Log(Call(MemberAccess(Id("o"), "f"), <<Spread(Items), Spread(Items)>>)),
       Try(Block(<<Log(CallOf("f", <<Spread(Id("stream"))>>))>>), "e", Block(<<Log(Id("e"))>>), Absent)>>) @@
  (<<"closures">> :>
     <<Function("mk", <<>>, <<Let("n", Num(0)),
                              Return(Arrow(<<>>, Assignment("ADD", Id("n"), Num(1))))>>),
       Let("k", CallOf("mk", <<>>)), Do_(CallOf("k", <<>>)), Log(CallOf("k", <<>>)),
       Log(Call(CallOf("mk", <<>>), <<>>))>>) @@
  (<<"methods">> :>
     <<Let("o", ObjectLiteral(<<Pair("n", Num(1)),
                                ObjectProperty("inc", Fn(<<Param("by")>>,
                                  <<Do_(Assignment("ADD", MemberAccess(This, "n"), Id("by"))),
                                    Return(Arrow(<<>>, MemberAccess(This, "n")))>>), {"method"})>>)),
       Log(Call(Call(MemberAccess(Id("o"), "inc"), <<Num(2)>>), <<>>)),
       Log(Call(Call(IndexAccess(Id("o"), Str("inc")), <<Ask>>), <<>>)),
       Set(MemberAccess(Id("o"), "m"), MemberAccess(Id("o"), "n")), Log(MemberAccess(Id("o"), "m"))>>) @@
  (<<"updates">> :>
     <<Let("i", Num(0)), Log(Update("ADD", Id("i"), FALSE)), Log(Update("ADD", Id("i"), TRUE)),
       Let("o", ObjectLiteral(<<Pair("c", Num(1)), Pair("a", ArrayLiteral(<<Num(3)>>))>>)),
       Log(Update("SUB", MemberAccess(Id("o"), "c"), FALSE)), Log(Update("ADD", MemberAccess(Id("o"), "c"), TRUE)),
       Let("a", ArrayLiteral(<<Num(3), Num(4)>>)),
       Log(Update("ADD", IndexAccess(Id("a"), Num(1)), FALSE)), Log(Update("SUB", IndexAccess(Id("a"), Num(1)), TRUE)),
       Do_(Assignment("SUB", IndexAccess(Id("a"), Id("i")), Num(9))),
       Set(IndexAccess(Id("a"), Num(0)), Ask), Log(IndexAccess(Id("a"), Num(0))), Log(IndexAccess(Id("a"), Num(1)))>>) @@
  (<<"choices">> :>
     <<Log(LogicalOp("AND", Ask, Str("and"))), Log(LogicalOp("OR", Ask, Str("or"))),
       Log(LogicalOp("NULLISH", LogicalOp("AND", Ask, LiteralNull), Str("nullish"))),
       Log(Conditional(UnaryOp("NOT", Ask), Str("then"), Conditional(Ask, Str("else then"), Str("else else")))),
       Log(Grouping(SequenceOf(Ask, Str("last"))))>>) @@
  (<<"optional">> :>
     <<Let("n", LiteralNull), Log(OptionalMember(Id("n"), "x")), Log(OptionalIndex(Id("n"), Ask)),
       Log(OptionalCall(Id("n"), <<Ask>>)), Log(OptionalMember(Keyed, "b")), Log(OptionalIndex(Items, Num(1))),
       Log(OptionalCall(Arrow(<<Param("x")>>, Id("x")), <<Ask>>)),
       Try(Block(<<Log(MemberAccess(Id("n"), "x"))>>), "e", Block(<<Log(Id("e"))>>), Absent),
       Try(Block(<<Set(MemberAccess(Id("n"), "x"), Num(1))>>), "e", Block(<<Log(Id("e"))>>), Absent),
       Try(Block(<<Do_(CallOf("n", <<Ask>>))>>), "e", Block(<<Log(Id("e"))>>), Absent)>>) @@
  (<<"templates">> :>
     <<Log(TemplateLiteral(<<Str("a"), Ask, Str(""), Num(2), Str("b")>>)), Log(Add(Str("c"), Num(3))),
       Log(LiteralBoolean(TRUE)), Log(LiteralBoolean(FALSE)), EmptyStatement>>) @@
  (<<"deletes">> :>
     <<Let("o", ObjectLiteral(<<Pair("a", Num(1)), Pair("b", Num(2)), Pair("c", Num(3))>>)),
       Do_(UnaryOp("DELETE", MemberAccess(Id("o"), "a"))), Do_(UnaryOp("DELETE", IndexAccess(Id("o"), Str("b")))),
       Log(MemberAccess(Id("o"), "a")), ForIn(Id("k"), Id("o"), Log(Id("k")), {})>>)

Unwinding ==
  (<<"recursive finally">> :>
     <<Function("f", <<Param("n")>>,
                <<Try(Block(<<If(BinaryOp("LT", Id("n"), Num(1)), Block(<<Return(Ask)>>), Absent),
                              Return(Add(CallOf("f", <<BinaryOp("SUB", Id("n"), Num(1))>>), Num(1)))>>),
                      "", Absent, Block(<<Log(Id("n"))>>))>>),
       Try(Block(<<Log(CallOf("f", <<Num(2)>>))>>), "e", Block(<<Log(Id("e"))>>), Absent)>>) @@
  (<<"throw from a granted call">> :>
     <<Function("g", <<>>, <<Grant(<<Str("p"), Str("q")>>, Block(<<Log(Str("in")), Throw(Ask)>>), "d",
                                   Block(<<Return(MemberAccess(Id("d"), "length"))>>))>>),
       Function("f", <<>>, <<Try(Block(<<Return(CallOf("g", <<>>))>>), "", Absent, Block(<<Log(Str("f"))>>))>>),
       Try(Block(<<Log(CallOf("f", <<>>))>>), "e", Block(<<Log(Id("e"))>>), Absent), Log(Str("end"))>>) @@
  (<<"return from a grant">> :>
     <<Function("f", <<>>, <<Grant(<<Str("p")>>, Block(<<Grant(<<Str("q")>>, Block(<<Return(Ask)>>), "", Absent)>>),
                                   "d", Block(<<Throw(Id("d"))>>))>>),
       Grant(<<Str("o")>>, Block(<<Log(CallOf("f", <<>>)), Log(Str("held"))>>), "", Absent), Log(Str("end"))>>) @@
  (<<"switch">> :>
     <<ForOf(Id("i"), ArrayLiteral(<<Num(0), Num(1), Num(2)>>),
             Block(<<Switch(Id("i"), <<SwitchCase(Ask, <<Log(Str("asked"))>>), SwitchCase(Absent, <<Log(Str("default"))>>),
                                       SwitchCase(Num(2), <<Log(Str("two")), Break>>), SwitchCase(Num(3), <<Continue>>)>>),
                     Log(Id("i"))>>), {})>>) @@
  (<<"loops in each other">> :>
     <<For(Let("i", Num(0)), BinaryOp("LT", Id("i"), Num(2)), Update("ADD", Id("i"), FALSE),
           Block(<<Try(Block(<<While(Ask, Block(<<Grant(<<Str("g")>>, Block(<<Break>>), "d", Block(<<Continue>>))>>)),
                               If(Ask, Block(<<Continue>>), Absent), Log(Id("i"))>>),
                       "", Absent, Block(<<Log(Str("round"))>>))>>)),
       Log(Str("end"))>>) @@
  (<<"shadowed variable">> :>
     <<Let("x", Str("outside")),
       ForOf(Id("x"), Items, Block(<<If(Ask, Block(<<Continue>>), Absent), Log(Id("x"))>>), {}),
       Log(Id("x"))>>)

(* The programs in which a break or continue leaves braces; and those of them
   that look up a name which the scopes left behind bind too: a variable outside
   the loop, or the iterator of a loop outside, whose hidden name is the same. *)
ProgramsThatLeaveBraces ==
  Contexts \X Contexts \X {"break", "continue"} \cup
    {<<"binding loops">>, <<"switch">>, <<"loops in each other">>, <<"shadowed variable">>}
ProgramsThatShareNames ==
  UNION {kind \X kind \X {"continue"} : kind \in {{"forIn"}, {"forOf", "stream"}}} \cup {<<"shadowed variable">>}

(***************************************************************************)
(* Programs that reach instructions the machine leaves out: what is        *)
(* checked of them is their code, as far as it runs and as the verifier    *)
(* reads it.                                                               *)
(***************************************************************************)
Yielding(e) == Do_(Yield(e, FALSE))

Partial ==
  (<<"class">> :>
     <<ClassDecl("A", Absent,
         <<ClassMember("constructor", Fn(<<Param("n")>>, <<Set(MemberAccess(This, "n"), Id("n"))>>), {"ctor"}),
           ClassMember("#p", Num(1), {"field", "private"}), ClassMember("s", Ask, {"field", "static"}),
           ClassMember("get", Fn(<<>>, <<Return(PrivateAccess(This, "#p"))>>), {}),
           ClassMember("", Block(<<Log(Str("static"))>>), {"static", "block"})>>, FALSE),
       ClassDecl("B", Id("A"),
         <<ClassMember("constructor", Fn(<<>>, <<Do_(Call(Super, <<Spread(Items)>>)),
                                                 Do_(Update("ADD", MemberAccess(This, "n"), FALSE))>>), {"ctor"}),
           ClassMember("get", Fn(<<>>, <<Return(Call(MemberAccess(Super, "get"), <<>>))>>), {}),
           ClassMember(Add(Str("k"), Str("l")), Num(2), {"field", "computed"})>>, FALSE),
       Log(Call(MemberAccess(New(Id("B"), <<>>), "get"), <<>>))>>) @@
  (<<"generator">> :>
     <<FunctionDecl("g", <<Param("a")>>,
         Block(<<Try(Block(<<Let("s", Yield(Id("a"), FALSE)), Yielding(Id("s")),
                             While(Ask, Block(<<If(Ask, Block(<<Break>>), Absent), Yielding(Num(2))>>))>>),
                     "e", Block(<<Yielding(Id("e"))>>), Block(<<Log(Str("closed"))>>)),
                 Do_(Yield(CallOf("g", <<Num(1)>>), TRUE))>>), {"generator"}),
       Log(CallOf("g", <<Num(1)>>))>>) @@
  (<<"async">> :>
     <<FunctionDecl("h", <<>>,
         Block(<<Let("r", Await(Ask)), ForOf(Id("v"), Id("stream"), Block(<<If(Id("v"), Block(<<Return(Id("r"))>>), Absent)>>),
                                             {"await"})>>), {"async"}),
       FunctionDecl("i", <<>>, Block(<<Yielding(Await(Ask)), Do_(Yield(Id("stream"), TRUE))>>), {"async", "generator"}),
       Log(CallOf("h", <<>>))>>)
=============================================================================
