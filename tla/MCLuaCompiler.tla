--------------------------- MODULE MCLuaCompiler ---------------------------
(* Families of chunks for LuaCompiler.  Each family varies the parts that   *)
(* the code generator treats one case after another; the limits of the cfg  *)
(* are small enough for every list to reach them.  The chunks of a family   *)
(* are the values of an operator over small sets: expressions and contexts. *)
EXTENDS LuaCompiler

n(k) == Const(Num(k))
nil == Const(Nil)
s(w) == Const(Str(w))
x == Name("x")
y == Name("y")
z == Name("z")
t == Name("t")
i == Name("i")
j == Name("j")
f == Name("f")
g == Name("g")
k == Name("k")
v == Name("v")
dots == Dots
emit(es) == Call(Name("emit"), es)
Emit(es) == Do_(emit(es))

MCGlobals == {(Str("emit") :> <<"function", 0>>) @@ (Str("x") :> val) : val \in {Nil, Num(3)}}

----------------------------------------------------------------------------
(* Conditions: and, or, not and comparisons, in every place that needs a    *)
(* value or a jump.  Literal booleans inside them are left out: their code  *)
(* is not right in every place (README, known defects).                     *)
Atom == {x, y, n(1), nil}
Cond1 == Atom \cup {Un("not", a) : a \in Atom}
         \cup {Bin(op, a, b) : op \in {"and", "or"}, a \in Atom, b \in Atom}
         \cup {Bin(op, x, y) : op \in {"==", "~="}}

Nested(shape, op, a, b) ==
  CASE shape = 1 -> Bin(op, a, b) [] shape = 2 -> Bin(op, b, a)
    [] shape = 3 -> Un("not", a)

(* The places a condition e is used in *)
Place1(c, e) ==
  CASE c = 1 -> <<Return(<<e>>)>>
    [] c = 2 -> <<Local(<<"z">>, <<e>>), Return(<<e, z>>)>>
    [] c = 3 -> <<If(<<e>>, <<<<Return(<<n(1)>>)>>>>, <<Return(<<n(2)>>)>>)>>
    [] c = 4 -> <<Assign(<<y>>, <<e>>), Return(<<y>>)>>
    [] c = 5 -> <<Assign(<<x>>, <<e>>), Return(<<x>>)>>
    [] c = 6 -> <<Local(<<"t">>, <<Table(<<Field(n(9), e), Item(e), Item(e)>>)>>),
                  Return(<<Index(t, n(1)), Index(t, n(9))>>)>>
    [] c = 7 -> <<Return(<<emit(<<e, e>>)>>)>>
    [] c = 8 -> <<While(e, <<Emit(<<y>>), Assign(<<x, y>>, <<nil, nil>>),
                             If(<<e>>, <<<<Break>>>>, <<>>)>>)>>
    [] c = 9 -> <<Repeat(<<Local(<<"z">>, <<e>>), Emit(<<z>>)>>, Bin("or", z, n(1)))>>
    [] c = 10 -> <<If(<<e, Un("not", e)>>, <<<<Emit(<<n(1)>>)>>, <<Emit(<<n(2)>>)>>>>,
                      <<Emit(<<n(3)>>)>>)>>

WithY(val, p) == <<Local(<<"y">>, <<val>>)>> \o p

Conditions1 == {WithY(val, Place1(c, e)) : c \in 1 .. 10, e \in Cond1, val \in {nil, n(3)}}

Conditions2 == {WithY(n(3), Place1(c, Nested(shape, op, a, b))) :
                  c \in 1 .. 3, shape \in 1 .. 3, op \in {"and", "or"}, a \in Cond1,
                  b \in {x, nil, Bin("and", y, x)}}

----------------------------------------------------------------------------
(* Assignments: a variable may be both assigned and used as a table or key  *)
Var == {i, j, x, t, Index(t, i), Index(t, j)}

Sources == {<<n(7)>>, <<j, i>>, <<emit(<<i, j>>)>>, <<n(7), emit(<<i>>), n(8)>>,
           <<Bin("+", i, j), Bin("+", j, n(1)), t>>}

Assigned(wrap, vs, es) ==
  LET st == Assign(vs, es)
  IN <<Local(<<"i", "j", "t">>, <<n(1), n(2), Table(<<Item(n(5)), Item(n(6))>>)>>)>>
     \o (IF wrap THEN <<LocalFunction("f", Function(<<>>, FALSE, <<st>>)), Do_(Call(f, <<>>))>>
         ELSE <<st>>)
     \o <<Emit(<<Bin("==", x, t), Bin("==", i, t), Bin("==", j, t)>>),
          Return(<<Index(t, n(1)), Index(t, n(2)), Index(t, n(7))>>)>>

Assignments == {Assigned(wrap, <<a, b>>, es) : wrap \in BOOLEAN, a \in Var, b \in Var, es \in Sources}

Assignments3 == {Assigned(FALSE, <<a, b, c>>, es) :
                   a \in Var, b \in Var \ {x}, c \in Var \ {x, t},
                   es \in {<<j, i, n(7)>>, <<emit(<<i, j>>)>>}}

----------------------------------------------------------------------------
(* Loops whose bodies make closures of their variables, and ways to leave   *)
(* them                                                                     *)
inc(name) == Assign(<<Name(name)>>, <<Bin("+", Name(name), n(1))>>)
Keep(e) == Assign(<<Index(t, k)>>, <<e>>)
Fun(bd) == Function(<<>>, FALSE, bd)

(* What the body of the loop keeps *)
Captures(c) ==
  CASE c = 1 -> <<Local(<<"v">>, <<k>>), Keep(Fun(<<inc("v"), Return(<<v>>)>>))>>
    [] c = 2 -> <<Local(<<"v">>, <<k>>), Keep(Fun(<<inc("k"), inc("v"), Return(<<k, v>>)>>)),
                  inc("v")>>
    [] c = 3 -> <<Local(<<"v", "z">>, <<k, n(4)>>),
                  Do(<<Local(<<"y">>, <<z>>),
                       Keep(Fun(<<inc("y"), Return(<<Call(Fun(<<inc("v"), Return(<<v, y>>)>>),
                                                          <<>>)>>)>>))>>)>>
    [] c = 4 -> <<Keep(Fun(<<inc("i"), Return(<<i>>)>>)), inc("i")>>
    [] c = 5 -> <<Local(<<"v">>, <<k>>), Keep(n(0))>>

(* How it is left *)
Leaves(c) ==
  LET last == Bin("==", k, n(2))
  IN CASE c = 1 -> <<>>
       [] c = 2 -> <<If(<<last>>, <<<<Break>>>>, <<>>)>>
       [] c = 3 -> <<If(<<last>>, <<<<Local(<<"y">>, <<k>>),
                                     Assign(<<Index(t, n(1))>>, <<Fun(<<inc("y"), Return(<<y>>)>>)>>),
                                     Break>>>>, <<Local(<<"y">>, <<k>>)>>)>>
       [] c = 4 -> <<If(<<last>>, <<<<Return(<<k, Index(t, k)>>)>>>>, <<>>)>>

Generate == Function(<<"s", "c">>, FALSE,
  <<If(<<Bin("<", Name("c"), Name("s"))>>,
       <<<<Return(<<Bin("+", Name("c"), n(1)), n(8)>>)>>>>, <<>>)>>)

Loop(c, bd) ==
  CASE c = 1 -> While(Bin("<", k, n(3)), bd)
    [] c = 2 -> Repeat(bd, Bin(">=", k, n(3)))
    [] c = 3 -> Repeat(bd, Bin(">=", v, n(3)))
    [] c = 4 -> ForNum("i", <<n(1), n(3)>>, bd)
    [] c = 5 -> ForNum("i", <<n(3), n(1), Un("-", n(1))>>, bd)
    [] c = 6 -> ForIn(<<"i", "z">>, <<Generate, n(3), n(0)>>, bd)

Looping(c, cap, leave) ==
  <<Local(<<"t", "k", "i">>, <<Table(<<>>), n(0), n(9)>>),
    LocalFunction("f", Fun(<<Loop(c, <<inc("k")>> \o Captures(cap) \o Leaves(leave)),
                             Return(<<k>>)>>)),
    Emit(<<Bin("==", Call(f, <<>>), k), k>>),
    If(<<Bin("==", Index(t, n(1)), n(0))>>, <<<<Return(<<i>>)>>>>, <<>>),
    Emit(<<Call(Index(t, n(1)), <<>>), Call(Index(t, n(1)), <<>>)>>),
    Emit(<<Call(Index(t, n(2)), <<>>)>>),
    Emit(<<Call(Index(t, n(1)), <<>>), k, i>>)>>

Loops_ == {Looping(c, cap, leave) : c \in 1 .. 6, cap \in 1 .. 5, leave \in 1 .. 4}

----------------------------------------------------------------------------
(* Calls: numbers of parameters, arguments and results                      *)
Args == {<<>>, <<n(1)>>, <<n(1), n(2), n(3)>>, <<emit(<<n(4), n(5)>>)>>,
         <<n(1), emit(<<n(4), n(5)>>)>>, <<n(1), Paren(emit(<<n(4), n(5)>>))>>,
         <<emit(<<n(4), n(5)>>), x>>, <<dots>>, <<dots, n(6)>>, <<n(6), dots>>}

Bodies == {<<>>, <<Return(<<i>>)>>, <<Return(<<j, i, x>>)>>, <<Return(<<emit(<<i, j>>)>>)>>,
           <<Local(<<"z">>, <<i>>), Return(<<Call(g, <<j, z>>)>>)>>,
           <<Return(<<Paren(Call(g, <<j>>)), Call(g, <<i>>)>>)>>}

Callee == {Function(ps, FALSE, b) : ps \in {<<>>, <<"i">>, <<"i", "j">>}, b \in Bodies}

(* A vararg function: its extra arguments, as ... or as arg                 *)
VarBodies == {<<Return(<<dots>>)>>, <<Return(<<Paren(dots), n(1)>>)>>, <<Return(<<n(1), dots>>)>>,
              <<Local(<<"z", "y">>, <<dots>>), Return(<<y, z, i>>)>>,
              <<Local(<<"z">>, <<Table(<<Item(n(1)), Item(dots)>>)>>),
                Return(<<Un("#", z), Index(z, n(2))>>)>>,
              <<Return(<<Index(Name("arg"), s("n")), Index(Name("arg"), n(1))>>)>>,
              <<Return(<<Call(g, <<i, dots>>)>>)>>}

Use(c, e) ==
  CASE c = 1 -> <<Do_(e)>>
    [] c = 2 -> <<Return(<<e>>)>>
    [] c = 3 -> <<Local(<<"y", "z">>, <<e>>), Return(<<z, y>>)>>
    [] c = 4 -> <<Return(<<Bin("==", e, n(1)), e>>)>>
    [] c = 5 -> <<Local(<<"t">>, <<Table(<<Item(n(0)), Item(e)>>)>>),
                  Return(<<Index(t, n(2)), Index(t, n(3)), Index(t, n(4))>>)>>

Called(c, fun, args) ==
  <<LocalFunction("g", Function(<<"i">>, FALSE, <<Return(<<i, n(9)>>)>>)),
    LocalFunction("f", fun)>> \o Use(c, Call(f, args))

Calls == {Called(c, fun, args) : c \in {2, 3}, fun \in Callee, args \in Args}
CallUses == {Called(c, Function(<<"i", "j">>, FALSE, b), args) :
               c \in {1, 4, 5}, b \in Bodies, args \in {<<n(1)>>, <<n(6), dots>>}}
VarCalls == {Called(c, Function(<<>>, TRUE, b), args) : c \in {2, 3}, b \in VarBodies, args \in Args}
VarCalls1 == {Called(c, Function(<<"i">>, TRUE, b), args) :
                c \in {2, 5}, b \in VarBodies, args \in Args \ {<<>>}}

----------------------------------------------------------------------------
(* Constructors: items, keys and a last item with several values            *)
Item_ == {Item(n(4)), Item(emit(<<n(5), n(6)>>)), Item(x), Field(s("a"), n(7))}
Lists(len) == [1 .. len -> Item_]
Elements == <<Index(t, n(1)), Index(t, n(2)), Index(t, n(3)), Index(t, n(4)), Index(t, n(5)),
              Index(t, n(6)), Index(t, s("a"))>>

Constructed(items) ==
  <<Local(<<"t">>, <<Table(items)>>), Return(Elements)>>

Constructors == {Constructed(items) : items \in Lists(3)}
Constructors5 == {Constructed(items \o <<Item(n(8)), Item(n(9)), last>>) :
                    items \in Lists(2), last \in Item_ \cup {Item(dots)}}

----------------------------------------------------------------------------
(* Operators: precedence, constant folding and operands in registers        *)
Op2 == {"+", "-", "*", "..", "<", "<=", ">", ">=", "=="}
Leaf == {n(2), y, x}

(* Strings of the model are not numerals, so a text of digits is no operand *)
Numeric(op, e) == op \in {"+", "-", "*"} /\ e.op = ".." /\ e.r = y

Operators == {<<Local(<<"y">>, <<n(5)>>), Return(<<Nested(shape, IF Numeric(op, Bin(op1, a, b)) THEN ".." ELSE op,
                                                              Bin(op1, a, b), c)>>)>> :
                shape \in 1 .. 2, op \in Op2, op1 \in Op2, a \in {n(2), x}, b \in {y, s("w")},
                c \in {n(3), emit(<<y>>)}}

Powers(c, a, b) ==
  CASE c = 1 -> Un("-", Bin("^", a, b))
    [] c = 2 -> Bin("^", Un("-", a), b)
    [] c = 3 -> Bin("^", a, Bin("^", b, n(2)))
    [] c = 4 -> Bin("^", Bin("^", a, b), n(2))
    [] c = 5 -> Bin("*", Bin("%", a, b), n(2))
    [] c = 6 -> Bin("%", a, Bin("*", b, n(2)))
    [] c = 7 -> Bin("+", Un("-", a), Un("#", s("w")))
    [] c = 8 -> Bin("..", a, Bin("..", b, Bin("..", s("w"), a)))
    [] c = 9 -> Bin("..", Bin("..", a, emit(<<b>>)), Bin("+", n(1), b))

Unary == {<<Local(<<"y">>, <<n(2)>>), Return(<<Powers(c, a, b), y>>)>> :
            c \in 1 .. 9, a \in Leaf, b \in {n(2), y}}

----------------------------------------------------------------------------
(* Methods, functions in fields and errors                                  *)
Object == <<Local(<<"t">>, <<Table(<<Field(s("w"), Table(<<>>))>>)>>),
            FunctionDef(Index(t, s("a")), "", Function(<<"i">>, FALSE, <<Return(<<i>>)>>)),
            FunctionDef(Index(t, s("w")), "m", Function(<<"i">>, FALSE,
              <<Assign(<<Index(Name("self"), s("v"))>>, <<i>>), Return(<<Index(Name("self"), s("v"))>>)>>))>>

Ending == {
  <<Return(<<Call(Index(t, s("a")), <<n(4)>>), Method(Index(t, s("w")), "m", <<n(5)>>)>>)>>,
  <<Do_(Method(Index(t, s("w")), "m", <<x>>)), Return(<<Index(Index(t, s("w")), s("v"))>>)>>,
  <<Return(<<Method(Index(t, s("w")), "m", <<dots>>)>>)>>,
  <<Return(<<Method(t, "m", <<>>)>>)>>, <<Return(<<Method(y, "m", <<>>)>>)>>,
  <<Emit(<<Un("#", y)>>)>>, <<Emit(<<Un("-", y)>>)>>, <<Emit(<<Bin("..", n(1), Bin("..", y, n(2)))>>)>>,
  <<Emit(<<Index(y, n(1))>>)>>, <<Assign(<<Index(y, n(1))>>, <<n(1)>>)>>, <<Do_(Call(y, <<>>))>>,
  <<Return(<<Call(y, <<n(1)>>)>>)>>, <<ForNum("i", <<n(1), y>>, <<>>)>>,
  <<ForIn(<<"i">>, <<y>>, <<>>)>>, <<ForIn(<<"i">>, <<Name("emit"), nil>>, <<>>)>>,
  <<ForIn(<<"i", "j">>, <<Name("emit"), n(1), n(2)>>, <<Emit(<<i, j>>), Break>>)>>,
  <<Return(<<Const(Bool(TRUE)), Const(Bool(FALSE))>>)>>,
  <<Do(<<Local(<<"z">>, <<>>), Assign(<<y>>, <<Fun(<<Return(<<z>>)>>)>>)>>), Return(<<Call(y, <<>>)>>)>>}

Methods == {Object \o e : e \in Ending}

----------------------------------------------------------------------------
(* Errors about one operand, after code that used the same registers        *)
Wrong == {y, x, Index(t, s("q")), Index(t, n(2)), Index(Index(t, s("w")), x), Name("w"),
          Paren(Bin("and", x, Name("w"))), Bin("or", Name("w"), y), emit(<<nil>>), v}

Before(c) ==
  CASE c = 1 -> <<>>
    [] c = 2 -> <<Do(<<Local(<<"i", "j">>, <<x, x>>), Emit(<<i>>)>>)>>
    [] c = 3 -> <<If(<<x>>, <<<<Local(<<"i">>, <<x>>)>>>>, <<Local(<<"j">>, <<n(1)>>)>>)>>
    [] c = 4 -> <<ForNum("i", <<n(1), n(2)>>, <<Local(<<"j">>, <<Table(<<Item(x), Item(i)>>)>>)>>)>>
    [] c = 5 -> <<Local(<<"i">>, <<Fun(<<Return(<<y, t>>)>>)>>)>>

Blame(c, e) ==
  CASE c = 1 -> <<Do_(Call(e, <<n(1), x>>))>>
    [] c = 2 -> <<Return(<<Call(e, <<x>>)>>)>>
    [] c = 3 -> <<Return(<<Index(e, n(1))>>)>>
    [] c = 4 -> <<Assign(<<x, Index(e, n(1))>>, <<n(1), n(2)>>)>>
    [] c = 5 -> <<Return(<<Bin("+", e, n(1))>>)>>
    [] c = 6 -> <<Return(<<Bin("-", n(1), e)>>)>>
    [] c = 7 -> <<Return(<<Bin("..", n(1), Bin("..", e, n(2)))>>)>>
    [] c = 8 -> <<Return(<<Un("-", e)>>)>>
    [] c = 9 -> <<Return(<<Un("#", e)>>)>>
    [] c = 10 -> <<Return(<<Method(e, "m", <<x>>)>>)>>

Blamed(before, c, e) ==
  <<Local(<<"v">>, <<>>),
    LocalFunction("f", Fun(<<Local(<<"t", "y">>, <<Table(<<Field(s("w"), Table(<<>>))>>)>>)>>
                           \o Before(before) \o Blame(c, e))),
    Return(<<Call(f, <<>>)>>)>>

Blames == {Blamed(before, c, e) : before \in 1 .. 5, c \in 1 .. 10, e \in Wrong}

----------------------------------------------------------------------------
(* What the parser rejects: a break or ... out of place, too many variables *)
names == <<"a1", "a2", "a3", "a4", "a5", "a6", "a7", "a8", "a9", "a10">>
First_(len) == SubSeq(names, 1, len)
Read(len) == Return([q \in 1 .. len |-> Name(names[q])])

Limit(c, len) ==
  CASE c = 1 -> <<Local(First_(len), <<>>), Read(len)>>
    [] c = 2 -> <<Do(<<Local(First_(len), <<>>)>>), Local(First_(len), <<>>)>>
    [] c = 3 -> <<Local(<<"z">>, <<>>), Do(<<Local(First_(len), <<>>)>>)>>
    [] c = 4 -> <<ForNum("i", <<n(1), n(1)>>, <<Local(First_(len - 4), <<>>)>>)>>
    [] c = 5 -> <<ForIn(<<"i", "j">>, <<Generate, n(0), n(0)>>, <<Local(First_(len - 5), <<>>)>>)>>
    [] c = 6 -> <<LocalFunction("f", Function(First_(len - 1), TRUE, <<Read(1)>>))>>
    [] c = 7 -> <<Local(First_(len - 6), <<>>), LocalFunction("f", Fun(<<Read(len - 6)>>))>>
    [] c = 8 -> <<Local(First_(len - 6), <<>>),
                  Return(<<Call(Fun(<<Return(<<Call(Fun(<<Read(len - 6)>>), <<>>)>>)>>), <<>>)>>)>>
    [] c = 9 -> [q \in 1 .. 3 |-> Do(<<Local(First_(IF q = 3 THEN len - 1 ELSE 5), <<>>)>>)]
    [] c = 10 -> <<LocalFunction("f", Function(<<"i">>, FALSE,
                     <<Do(<<Local(First_(8), <<>>)>>), Do(<<Local(First_(len - 2), <<>>)>>),
                       ForIn(<<"j">>, <<Generate, n(1), n(0)>>, <<Emit(<<j>>)>>)>>)),
                   Do_(Call(f, <<>>))>>

Limits == {Limit(c, len) : c \in 1 .. 10, len \in 8 .. 10}

(* Code that jumps may be too long for: len instructions, in every construct *)
Copies(len) == [q \in 1 .. len |-> Assign(<<y>>, <<x>>)]
clear == Assign(<<x>>, <<nil>>)

Over(c, len) ==
  LET bd == Copies(len)
  IN CASE c = 1 -> <<While(x, Append(bd, clear))>>
       [] c = 2 -> <<Repeat(Append(bd, clear), Un("not", x))>>
       [] c = 3 -> <<ForNum("i", <<n(1), n(2)>>, bd)>>
       [] c = 4 -> <<ForIn(<<"i">>, <<Generate, n(1), n(0)>>, bd)>>
       [] c = 5 -> <<If(<<x>>, <<bd>>, <<>>)>>
       [] c = 6 -> <<If(<<x, Un("not", x)>>, <<<<clear>>, bd>>, <<Emit(<<x>>)>>)>>
       [] c = 7 -> <<While(n(1), <<If(<<n(1)>>, <<<<Break>>>>, <<>>)>> \o bd)>>

Long == {<<Local(<<"y">>, <<n(4)>>)>> \o Over(c, len) \o <<Emit(<<x, y>>)>> :
           c \in 1 .. 7, len \in 28 .. 36}

(* Constants, and functions inside a function, up to their limit            *)
Many == {[q \in 1 .. len |-> Assign(<<x>>, <<IF functions THEN Fun(<<>>) ELSE n(q)>>)] :
           len \in 13 .. 17, functions \in BOOLEAN}

Placed == {<<Break>>, <<If(<<x>>, <<<<Break>>>>, <<Break>>)>>, <<While(x, <<Do(<<Break>>)>>)>>,
           <<While(x, <<LocalFunction("f", Fun(<<Break>>)), Break>>)>>,
           <<Local(<<"f">>, <<Fun(<<Return(<<dots>>)>>)>>)>>,
           <<Local(<<"f">>, <<Function(<<>>, TRUE, <<Return(<<Fun(<<Return(<<dots>>)>>)>>)>>)>>)>>,
           <<Repeat(<<LocalFunction("f", Fun(<<ForNum("i", <<n(1), n(1)>>, <<Break>>)>>))>>, n(1))>>}

MCPrograms == <<Conditions1, Conditions2, Assignments, Assignments3, Loops_, Calls, CallUses,
                VarCalls, VarCalls1, Constructors, Constructors5, Operators, Unary, Methods,
                Blames, Limits, Long, Many, Placed>>

(* A vararg function with parameters, called with fewer arguments than it   *)
(* has parameters, or more                                                  *)
MCVarargs == <<{Called(c, Function(<<"i", "j">>, TRUE, <<Return(<<i, j, dots>>)>>), args) :
                  c \in {2, 3}, args \in Args}>>
============================================================================
