---------------------------- MODULE LuaSemantics ----------------------------
(* What a program means, from the reference manual (sections 2.4 and 2.5),  *)
(* and how it is written.  A program is a syntax tree; Block writes it      *)
(* with the parentheses that the manual's table of precedence asks for, and *)
(* Meaning evaluates it over an environment of cells, one for each local    *)
(* variable.  Nothing here is about code, registers or jumps.               *)
EXTENDS Integers, Sequences, SequencesExt, FiniteSets, TLC

----------------------------------------------------------------------------
(* Syntax trees *)

Const(v) == [x |-> "const", v |-> v]
Name(n) == [x |-> "name", n |-> n]
Index(t, k) == [x |-> "index", t |-> t, k |-> k]
Call(f, args) == [x |-> "call", f |-> f, args |-> args]
Method(o, n, args) == [x |-> "method", o |-> o, n |-> n, args |-> args]
Function(ps, va, body) == [x |-> "function", ps |-> ps, va |-> va, body |-> body]
Dots == [x |-> "dots"]
Paren(e) == [x |-> "paren", e |-> e]
Un(op, e) == [x |-> "un", op |-> op, e |-> e]
Bin(op, l, r) == [x |-> "bin", op |-> op, l |-> l, r |-> r]
Table(items) == [x |-> "table", items |-> items]
Item(v) == [key |-> <<>>, v |-> v]
Field(k, v) == [key |-> <<k>>, v |-> v]

Local(ns, es) == [s |-> "local", ns |-> ns, es |-> es]
LocalFunction(n, f) == [s |-> "localfunction", n |-> n, f |-> f]
FunctionDef(v, self, f) == [s |-> "function", v |-> v, self |-> self, f |-> f]
Assign(vs, es) == [s |-> "assign", vs |-> vs, es |-> es]
Do(b) == [s |-> "do", b |-> b]
While(c, b) == [s |-> "while", c |-> c, b |-> b]
Repeat(b, c) == [s |-> "repeat", b |-> b, c |-> c]
If(c, b, e) == [s |-> "if", c |-> c, b |-> b, e |-> e]
ForNum(n, es, b) == [s |-> "fornum", n |-> n, es |-> es, b |-> b]
ForIn(ns, es, b) == [s |-> "forin", ns |-> ns, es |-> es, b |-> b]
Return(es) == [s |-> "return", es |-> es]
Break == [s |-> "break"]
Do_(e) == [s |-> "call", e |-> e]

----------------------------------------------------------------------------
(* How a program is written *)

T(t) == <<[t |-> t, v |-> ""]>>
Word(n) == <<[t |-> "<name>", v |-> n]>>

Precedence(e) ==
  CASE e.x = "un" -> 7
    [] e.x = "bin" -> (CASE e.op = "or" -> 1 [] e.op = "and" -> 2
                         [] e.op \in {"<", ">", "<=", ">=", "~=", "=="} -> 3
                         [] e.op = ".." -> 4 [] e.op \in {"+", "-"} -> 5
                         [] e.op \in {"*", "/", "%"} -> 6 [] e.op = "^" -> 8)
    [] OTHER -> 9

List(seqs) == FlattenSeq([i \in DOMAIN seqs |->
                IF i = 1 THEN seqs[i] ELSE T(",") \o seqs[i]])

RECURSIVE Written(_), Block(_)

Operand(e, least) ==
  IF Precedence(e) < least THEN T("(") \o Written(e) \o T(")") ELSE Written(e)

Prefix(e) ==
  IF e.x \in {"name", "index", "call", "method", "paren"} THEN Written(e)
  ELSE T("(") \o Written(e) \o T(")")

Expressions(es) == List([i \in DOMAIN es |-> Written(es[i])])
Names(ns) == List([i \in DOMAIN ns |-> Word(ns[i])])

Body(f) ==
  T("(") \o List([i \in DOMAIN f.ps |-> Word(f.ps[i])]
                  \o IF f.va THEN <<T("...")>> ELSE <<>>) \o T(")")
         \o Block(f.body) \o T("end")

Literal(v) ==
  CASE v[1] = "nil" -> T("nil")
    [] v[1] = "boolean" -> IF v[2] THEN T("true") ELSE T("false")
    [] v[1] = "number" -> <<[t |-> "<number>", v |-> v[2]]>>
    [] v[1] = "string" -> <<[t |-> "<string>", v |-> v[2][1]]>>

Written(e) ==
  CASE e.x = "const" -> Literal(e.v)
    [] e.x = "name" -> Word(e.n)
    [] e.x = "index" ->
         IF e.k.x = "const" /\ (e.k.x = "const" => e.k.v[1] = "string")
         THEN Prefix(e.t) \o T(".") \o Word(e.k.v[2][1])
         ELSE Prefix(e.t) \o T("[") \o Written(e.k) \o T("]")
    [] e.x = "call" -> Prefix(e.f) \o T("(") \o Expressions(e.args) \o T(")")
    [] e.x = "method" -> Prefix(e.o) \o T(":") \o Word(e.n)
                           \o T("(") \o Expressions(e.args) \o T(")")
    [] e.x = "function" -> T("function") \o Body(e)
    [] e.x = "dots" -> T("...")
    [] e.x = "paren" -> T("(") \o Written(e.e) \o T(")")
    [] e.x = "un" -> T(e.op) \o Operand(e.e, 7)
    [] e.x = "bin" ->
         LET p == Precedence(e)
             right == e.op \in {"..", "^"}
         IN Operand(e.l, IF right THEN p + 1 ELSE p) \o T(e.op)
            \o Operand(e.r, IF right THEN p ELSE p + 1)
    [] e.x = "table" ->
         T("{") \o List([i \in DOMAIN e.items |->
              (IF e.items[i].key = <<>> THEN <<>>
               ELSE T("[") \o Written(e.items[i].key[1]) \o T("]") \o T("="))
              \o Written(e.items[i].v)]) \o T("}")

Statement(st) ==
  CASE st.s = "local" -> T("local") \o Names(st.ns)
         \o (IF st.es = <<>> THEN <<>> ELSE T("=") \o Expressions(st.es))
    [] st.s = "localfunction" -> T("local") \o T("function") \o Word(st.n) \o Body(st.f)
    [] st.s = "function" -> T("function") \o Written(st.v)
         \o (IF st.self = "" THEN <<>> ELSE T(":") \o Word(st.self)) \o Body(st.f)
    [] st.s = "assign" -> Expressions(st.vs) \o T("=") \o Expressions(st.es)
    [] st.s = "do" -> T("do") \o Block(st.b) \o T("end")
    [] st.s = "while" -> T("while") \o Written(st.c) \o T("do") \o Block(st.b) \o T("end")
    [] st.s = "repeat" -> T("repeat") \o Block(st.b) \o T("until") \o Written(st.c)
    [] st.s = "if" ->
         FlattenSeq([i \in DOMAIN st.c |->
           T(IF i = 1 THEN "if" ELSE "elseif") \o Written(st.c[i]) \o T("then")
             \o Block(st.b[i])])
         \o (IF st.e = <<>> THEN <<>> ELSE T("else") \o Block(st.e)) \o T("end")
    [] st.s = "fornum" -> T("for") \o Word(st.n) \o T("=") \o Expressions(st.es)
                            \o T("do") \o Block(st.b) \o T("end")
    [] st.s = "forin" -> T("for") \o Names(st.ns) \o T("in") \o Expressions(st.es)
                            \o T("do") \o Block(st.b) \o T("end")
    [] st.s = "return" -> T("return") \o Expressions(st.es)
    [] st.s = "break" -> T("break")
    [] st.s = "call" -> Written(st.e)

Block(b) == FlattenSeq([i \in DOMAIN b |-> Statement(b[i]) \o T(";")])

----------------------------------------------------------------------------
(* What a program means.  m is the memory: the cells of local variables,    *)
(* the closures, the tables, the globals and what was emitted; m.ok becomes *)
(* FALSE when an error is raised, and nothing is evaluated after that.      *)
(* env gives each visible local its cell, and the extra arguments.          *)

R(m, vs) == [m |-> m, vs |-> vs]

Error(m) == R([m EXCEPT !.ok = FALSE], <<>>)

(* What an expression is to its reader: a variable, a field, a method       *)
RECURSIVE Described(_, _)
Described(e, env) ==
  CASE e.x = "name" -> [kind |-> IF e.n \in DOMAIN env.var THEN "local" ELSE "global",
                        name |-> e.n]
    [] e.x = "index" ->
         [kind |-> "field",
          name |-> IF e.k.x = "const" /\ (e.k.x = "const" => e.k.v[1] = "string")
                   THEN e.k.v[2][1] ELSE "?"]
    [] e.x = "paren" -> Described(e.e, env)
    [] OTHER -> [kind |-> "", name |-> ""]

(* An error about the value of expression e                                 *)
ErrorIn(m, who) == R([m EXCEPT !.ok = FALSE, !.who = who], <<>>)

True(v) == v # <<"nil">> /\ v # <<"boolean", FALSE>>

First(vs) == IF vs = <<>> THEN <<"nil">> ELSE vs[1]

Nth(vs, i) == IF i \in DOMAIN vs THEN vs[i] ELSE <<"nil">>

Lookup(t, k) == IF k \in DOMAIN t THEN t[k] ELSE <<"nil">>

Visible(env, n) == n \in DOMAIN env.var

(* New cells for names ns with values vs *)
Declare(m, env, ns, vs) ==
  LET c == Len(m.cell)
      last(n) == CHOOSE i \in DOMAIN ns : ns[i] = n /\ \A j \in i + 1 .. Len(ns) : ns[j] # n
  IN [m |-> [m EXCEPT !.cell = @ \o [i \in DOMAIN ns |-> Nth(vs, i)]],
      env |-> [env EXCEPT !.var = [n \in {ns[i] : i \in DOMAIN ns} |-> c + last(n)] @@ @]]

ArithResult(m, op, a, b) ==
  IF a[1] # "number" \/ b[1] # "number" THEN Error(m)
  ELSE R(m, <<CASE op = "+" -> <<"number", a[2] + b[2]>>
                [] op = "-" -> <<"number", a[2] - b[2]>>
                [] op = "*" -> <<"number", a[2] * b[2]>>
                [] op = "%" -> <<"number", a[2] % b[2]>>
                [] op = "^" -> <<"number", a[2] ^ b[2]>>
                [] op = "<" -> <<"boolean", a[2] < b[2]>>
                [] op = "<=" -> <<"boolean", a[2] <= b[2]>>
                [] op = ">" -> <<"boolean", a[2] > b[2]>>
                [] op = ">=" -> <<"boolean", a[2] >= b[2]>>>>)

Text(v) == IF v[1] = "number" THEN <<ToString(v[2])>> ELSE v[2]

BinResult(m, op, a, b) ==
  CASE op = "==" -> R(m, <<<<"boolean", a = b>>>>)
    [] op = "~=" -> R(m, <<<<"boolean", a # b>>>>)
    [] op = ".." -> IF {a[1], b[1]} \subseteq {"number", "string"}
                    THEN R(m, <<<<"string", Text(a) \o Text(b)>>>>) ELSE Error(m)
    [] OTHER -> ArithResult(m, op, a, b)

Length(m, v) ==
  CASE v[1] = "string" -> R(m, <<<<"number", Len(v[2])>>>>)
    [] v[1] = "table" ->
         LET t == m.tab[v[2]]
             n == CHOOSE i \in 0 .. Cardinality(DOMAIN t) :
                    /\ Lookup(t, <<"number", i + 1>>) = <<"nil">>
                    /\ \A j \in 1 .. i : Lookup(t, <<"number", j>>) # <<"nil">>
         IN R(m, <<<<"number", n>>>>)
    [] OTHER -> Error(m)

UnResult(m, op, v) ==
  CASE op = "not" -> R(m, <<<<"boolean", ~True(v)>>>>)
    [] op = "-" -> ArithResult(m, "-", <<"number", 0>>, v)
    [] op = "#" -> Length(m, v)

RECURSIVE Eval(_, _, _), EvalList(_, _, _), Exec(_, _, _), Apply(_, _, _)

(* One value *)
Eval1(e, env, m) ==
  LET r == Eval(e, env, m) IN IF r.m.ok THEN R(r.m, <<First(r.vs)>>) ELSE r

(* A list: all values of the last expression, one of each other             *)
EvalList(es, env, m) ==
  IF es = <<>> THEN R(m, <<>>)
  ELSE IF Len(es) = 1 THEN Eval(es[1], env, m)
  ELSE LET h == Eval1(Head(es), env, m)
           t == EvalList(Tail(es), env, h.m)
       IN IF ~h.m.ok THEN h ELSE IF ~t.m.ok THEN t ELSE R(t.m, h.vs \o t.vs)

(* A call with arguments: function 0 emits them and returns them.           *)
Apply(f, vs, m) ==
  LET c == m.fun[f[2]]
      n == Len(c.f.ps)
      extra == IF c.f.va THEN SubSeq(vs, n + 1, Len(vs)) ELSE <<>>
      argt == [k \in {<<"number", i>> : i \in DOMAIN extra} \cup {<<"string", <<"n">>>>} |->
                 IF k[1] = "number" THEN extra[k[2]] ELSE <<"number", Len(extra)>>]
      m1 == IF c.f.va THEN [m EXCEPT !.tab = Append(@, argt)] ELSE m
      ns == IF c.f.va THEN Append(c.f.ps, "arg") ELSE c.f.ps
      d == Declare(m1, c.env, ns, [i \in 1 .. n |-> Nth(vs, i)] \o <<<<"table", Len(m1.tab)>>>>)
      b == Exec(c.f.body, [d.env EXCEPT !.dots = extra], d.m)
  IN CASE f[1] # "function" -> Error(m)
       [] f[1] = "function" /\ f[2] = 0 -> R([m EXCEPT !.out = Append(@, vs)], vs)
       [] OTHER -> IF b.m.ok THEN R(b.m, IF b.sig = "return" THEN b.vs ELSE <<>>)
                   ELSE Error(b.m)

EvalCall(f, who, es, env, pre) ==
  LET a == EvalList(es, env, f.m)
  IN IF ~f.m.ok THEN f ELSE IF ~a.m.ok THEN a
     ELSE IF f.vs[1][1] # "function" THEN ErrorIn(a.m, who)
     ELSE Apply(f.vs[1], pre \o a.vs, a.m)

RECURSIVE Items(_, _, _, _, _)
Items(is, t, n, env, m) ==
  LET i == Head(is)
      k == Eval1(i.key[1], env, m)
      v == Eval1(i.v, env, IF i.key = <<>> THEN m ELSE k.m)
      all == Eval(i.v, env, m)
      put(mm, f) == [mm EXCEPT !.tab[t] = f @@ @]
  IN CASE is = <<>> -> m
       [] is # <<>> /\ i.key = <<>> /\ Len(is) = 1 ->
            IF ~all.m.ok THEN all.m
            ELSE put(all.m, [q \in {<<"number", n + j - 1>> : j \in DOMAIN all.vs} |->
                               all.vs[q[2] - n + 1]])
       [] is # <<>> /\ i.key = <<>> /\ Len(is) > 1 ->
            IF ~v.m.ok THEN v.m
            ELSE Items(Tail(is), t, n + 1, env, put(v.m, <<"number", n>> :> v.vs[1]))
       [] OTHER -> IF ~v.m.ok THEN v.m
                   ELSE Items(Tail(is), t, n, env, put(v.m, k.vs[1] :> v.vs[1]))

Variable(n, env, m) ==
  IF Visible(env, n) THEN m.cell[env.var[n]] ELSE Lookup(m.G, <<"string", <<n>>>>)

Eval(e, env, m) ==
  CASE e.x = "const" -> R(m, <<e.v>>)
    [] e.x = "name" -> R(m, <<Variable(e.n, env, m)>>)
    [] e.x = "dots" -> R(m, env.dots)
    [] e.x = "paren" -> Eval1(e.e, env, m)
    [] e.x = "function" ->
         R([m EXCEPT !.fun = Append(@, [f |-> e, env |-> env])],
           <<<<"function", Len(m.fun) + 1>>>>)
    [] e.x = "index" ->
         LET t == Eval1(e.t, env, m)
             k == Eval1(e.k, env, t.m)
         IN IF ~t.m.ok THEN t ELSE IF ~k.m.ok THEN k
            ELSE IF t.vs[1][1] # "table" THEN ErrorIn(k.m, Described(e.t, env))
            ELSE R(k.m, <<Lookup(k.m.tab[t.vs[1][2]], k.vs[1])>>)
    [] e.x = "call" -> EvalCall(Eval1(e.f, env, m), Described(e.f, env), e.args, env, <<>>)
    [] e.x = "method" ->
         LET o == Eval1(e.o, env, m)
             f == IF ~o.m.ok THEN o
                  ELSE IF o.vs[1][1] # "table" THEN ErrorIn(o.m, Described(e.o, env))
                  ELSE R(o.m, <<Lookup(o.m.tab[o.vs[1][2]], <<"string", <<e.n>>>>)>>)
         IN EvalCall(f, [kind |-> "method", name |-> e.n], e.args, env, o.vs)
    [] e.x = "un" ->
         LET v == Eval1(e.e, env, m)
             u == UnResult(v.m, e.op, v.vs[1])
         IN IF ~v.m.ok THEN v ELSE IF u.m.ok THEN u ELSE ErrorIn(v.m, Described(e.e, env))
    [] e.x = "bin" ->
         LET l == Eval1(e.l, env, m)
             r == Eval1(e.r, env, l.m)
             b == BinResult(r.m, e.op, l.vs[1], r.vs[1])
             suits == l.vs[1][1] = "number" \/ (e.op = ".." /\ l.vs[1][1] = "string")
             short == \/ e.op = "and" /\ ~True(l.vs[1])
                      \/ e.op = "or" /\ True(l.vs[1])
         IN IF ~l.m.ok THEN l
            ELSE IF short THEN l
            ELSE IF ~r.m.ok \/ e.op \in {"and", "or"} THEN r
            ELSE IF b.m.ok THEN b
            ELSE ErrorIn(r.m, Described(IF suits THEN e.r ELSE e.l, env))
    [] e.x = "table" ->
         LET t == Len(m.tab) + 1
             n == Items(e.items, t, 1, env, [m EXCEPT !.tab = Append(@, <<>>)])
         IN R(n, <<<<"table", t>>>>)

(* A place to assign to: its table and key are evaluated before any store.  *)
Place(v, env, m) ==
  LET t == Eval1(v.t, env, m)
      k == Eval1(v.k, env, t.m)
  IN IF v.x = "name" THEN R(m, <<>>)
     ELSE IF ~t.m.ok THEN t ELSE IF ~k.m.ok THEN k ELSE R(k.m, t.vs \o k.vs)

StoreIn(v, place, val, env, m) ==
  CASE v.x = "name" /\ Visible(env, v.n) -> [m EXCEPT !.cell[env.var[v.n]] = val]
    [] v.x = "name" /\ ~Visible(env, v.n) ->
         [m EXCEPT !.G = (<<"string", <<v.n>>>> :> val) @@ @]
    [] OTHER -> IF place[1][1] # "table" THEN ErrorIn(m, Described(v.t, env)).m
                ELSE [m EXCEPT !.tab[place[1][2]] = (place[2] :> val) @@ @]

RECURSIVE Places(_, _, _)
Places(vs, env, m) ==
  IF vs = <<>> THEN [m |-> m, ps |-> <<>>]
  ELSE LET p == Place(Head(vs), env, m)
           q == Places(Tail(vs), env, p.m)
       IN [m |-> q.m, ps |-> <<p.vs>> \o q.ps]

(* The order of the stores is undefined (2.4.3); this is the code's.        *)
RECURSIVE StoreAll(_, _, _, _, _)
StoreAll(vs, ps, vals, env, m) ==
  IF vs = <<>> \/ ~m.ok THEN m
  ELSE StoreAll(Front(vs), Front(ps), vals, env,
                StoreIn(Last(vs), Last(ps), Nth(vals, Len(vs)), env, m))

(* A statement ends normally, with a break, or with a return and values.    *)
Sig(m, sig, vs, env) == [m |-> m, sig |-> sig, vs |-> vs, env |-> env]
Next_(m, env) == Sig(m, "next", <<>>, env)

Loops(b) == b.m.ok /\ b.sig = "next"

(* How a loop ends when its body did not end normally *)
LoopEnd(b, env) == IF b.sig = "break" THEN Next_(b.m, env) ELSE Sig(b.m, b.sig, b.vs, env)

RECURSIVE ForNumFrom(_, _, _, _, _, _)
ForNumFrom(i, limit, step, st, env, m) ==
  LET d == Declare(m, env, <<st.n>>, <<<<"number", i>>>>)
      b == Exec(st.b, d.env, d.m)
  IN IF (step > 0 /\ i > limit) \/ (step <= 0 /\ i < limit) THEN Next_(m, env)
     ELSE IF Loops(b) THEN ForNumFrom(i + step, limit, step, st, env, b.m)
     ELSE LoopEnd(b, env)

RECURSIVE ForInFrom(_, _, _, _, _, _)
ForInFrom(f, s, v, st, env, m) ==
  LET a == Apply(f, <<s, v>>, m)
      d == Declare(a.m, env, st.ns, a.vs)
      b == Exec(st.b, d.env, d.m)
  IN IF ~a.m.ok \/ First(a.vs) = <<"nil">> THEN Next_(a.m, env)
     ELSE IF Loops(b) THEN ForInFrom(f, s, First(a.vs), st, env, b.m)
     ELSE LoopEnd(b, env)

RECURSIVE WhileLoop(_, _, _)
WhileLoop(st, env, m) ==
  LET c == Eval1(st.c, env, m)
      b == Exec(st.b, env, c.m)
  IN IF ~c.m.ok \/ ~True(First(c.vs)) THEN Next_(c.m, env)
     ELSE IF Loops(b) THEN WhileLoop(st, env, b.m) ELSE LoopEnd(b, env)

RECURSIVE RepeatLoop(_, _, _)
RepeatLoop(st, env, m) ==
  LET b == Exec(st.b, env, m)
      c == Eval1(st.c, b.env, b.m)
  IN IF ~Loops(b) THEN LoopEnd(b, env)
     ELSE IF ~c.m.ok \/ True(First(c.vs)) THEN Next_(c.m, env)
     ELSE RepeatLoop(st, env, c.m)

Inner(b, env) == Sig(b.m, b.sig, b.vs, env)

RECURSIVE IfChain(_, _, _, _)
IfChain(i, st, env, m) ==
  LET c == Eval1(st.c[i], env, m)
  IN IF i > Len(st.c) THEN Inner(Exec(st.e, env, m), env)
     ELSE IF ~c.m.ok THEN Next_(c.m, env)
     ELSE IF True(c.vs[1]) THEN Inner(Exec(st.b[i], env, c.m), env)
     ELSE IfChain(i + 1, st, env, c.m)

Step(st, env, m) ==
  CASE st.s = "local" ->
         LET r == EvalList(st.es, env, m)
             d == Declare(r.m, env, st.ns, r.vs)
         IN Next_(d.m, d.env)
    [] st.s = "localfunction" ->
         LET d == Declare(m, env, <<st.n>>, <<>>)
             r == Eval(st.f, d.env, d.m)
         IN Next_([r.m EXCEPT !.cell[d.env.var[st.n]] = r.vs[1]], d.env)
    [] st.s = "function" ->
         LET ps == IF st.self = "" THEN st.f.ps ELSE <<"self">> \o st.f.ps
             v == IF st.self = "" THEN st.v ELSE Index(st.v, Const(<<"string", <<st.self>>>>))
             p == Place(v, env, m)
             r == Eval([st.f EXCEPT !.ps = ps], env, p.m)
         IN Next_(IF p.m.ok THEN StoreIn(v, p.vs, r.vs[1], env, r.m) ELSE p.m, env)
    [] st.s = "assign" ->
         LET p == Places(st.vs, env, m)
             r == EvalList(st.es, env, p.m)
         IN Next_(IF ~p.m.ok THEN p.m
                  ELSE IF ~r.m.ok THEN r.m ELSE StoreAll(st.vs, p.ps, r.vs, env, r.m), env)
    [] st.s = "do" -> Inner(Exec(st.b, env, m), env)
    [] st.s = "while" -> WhileLoop(st, env, m)
    [] st.s = "repeat" -> RepeatLoop(st, env, m)
    [] st.s = "if" -> IfChain(1, st, env, m)
    [] st.s = "fornum" ->
         LET r == EvalList(st.es, env, m)
         IN IF ~r.m.ok \/ \E i \in 1 .. Len(st.es) : Nth(r.vs, i)[1] # "number"
            THEN Next_([r.m EXCEPT !.ok = FALSE], env)
            ELSE ForNumFrom(r.vs[1][2], r.vs[2][2],
                            IF Len(st.es) = 3 THEN r.vs[3][2] ELSE 1, st, env, r.m)
    [] st.s = "forin" ->
         LET r == EvalList(st.es, env, m)
         IN IF ~r.m.ok THEN Next_(r.m, env)
            ELSE ForInFrom(Nth(r.vs, 1), Nth(r.vs, 2), Nth(r.vs, 3), st, env, r.m)
    [] st.s = "return" ->
         LET r == EvalList(st.es, env, m) IN Sig(r.m, "return", r.vs, env)
    [] st.s = "break" -> Sig(m, "break", <<>>, env)
    [] st.s = "call" -> Next_(Eval(st.e, env, m).m, env)

Exec(b, env, m) ==
  IF b = <<>> THEN Next_(m, env)
  ELSE LET r == Step(Head(b), env, m)
       IN IF r.m.ok /\ r.sig = "next" THEN Exec(Tail(b), r.env, r.m) ELSE r

----------------------------------------------------------------------------
(* Which programs are accepted: a break is in a loop of its function, ...   *)
(* is in a vararg function, and no function has more than maxvars local     *)
(* variables at a time or maxups variables of its outer functions.          *)

(* The expressions and the blocks that a statement is made of               *)
Parts(st) ==
  CASE st.s \in {"local", "return", "fornum", "forin"} -> st.es
    [] st.s = "localfunction" -> <<st.f>>
    [] st.s = "function" -> <<st.v, st.f>>
    [] st.s = "assign" -> st.vs \o st.es
    [] st.s \in {"while", "repeat"} -> <<st.c>>
    [] st.s = "if" -> st.c
    [] st.s = "call" -> <<st.e>>
    [] OTHER -> <<>>

Blocks(st) ==
  CASE st.s \in {"do", "while", "repeat", "fornum", "forin"} -> <<st.b>>
    [] st.s = "if" -> Append(st.b, st.e)
    [] OTHER -> <<>>

Operands(e) ==
  CASE e.x = "index" -> <<e.t, e.k>>
    [] e.x = "call" -> <<e.f>> \o e.args
    [] e.x = "method" -> <<e.o>> \o e.args
    [] e.x \in {"paren", "un"} -> <<e.e>>
    [] e.x = "bin" -> <<e.l, e.r>>
    [] e.x = "table" -> FlattenSeq([i \in DOMAIN e.items |-> Append(e.items[i].key, e.items[i].v)])
    [] OTHER -> <<>>

Loop_ == {"while", "repeat", "fornum", "forin"}

(* Variables a loop or a local statement adds; a loop keeps three of its own *)
NewVars(st) ==
  CASE st.s = "local" -> Len(st.ns)
    [] st.s = "localfunction" -> 1
    [] OTHER -> 0

LoopVars(st) ==
  CASE st.s = "fornum" -> 4 [] st.s = "forin" -> 3 + Len(st.ns) [] OTHER -> 0

(* All the variables of a function, those of blocks that end included       *)
RECURSIVE Declared(_)
Declared(b) ==
  FoldSeq(LAMBDA st, sum : sum + NewVars(st) + LoopVars(st)
            + FoldSeq(LAMBDA inner, s : s + Declared(inner), 0, Blocks(st)), 0, b)

RECURSIVE BlockOK(_, _, _, _, _), ExprOK(_, _, _, _), Free(_), FreeIn(_)

(* The names that a block, or an expression, uses from around it            *)
FreeIn(b) ==
  IF b = <<>> THEN {}
  ELSE LET st == Head(b)
           own == CASE st.s \in {"fornum", "localfunction"} -> {st.n}
                    [] st.s = "forin" -> {st.ns[i] : i \in DOMAIN st.ns}
                    [] OTHER -> {}
           es == UNION {Free(Parts(st)[i]) : i \in DOMAIN Parts(st)}
           bs == UNION {FreeIn(Blocks(st)[i]) : i \in DOMAIN Blocks(st)}
           new == CASE st.s = "local" -> {st.ns[i] : i \in DOMAIN st.ns}
                    [] st.s = "localfunction" -> {st.n}
                    [] OTHER -> {}
       IN (IF st.s = "localfunction" THEN es \ own ELSE es) \cup (bs \ own)
          \cup (FreeIn(Tail(b)) \ new)

Free(e) ==
  CASE e.x = "name" -> {e.n}
    [] e.x = "function" -> FreeIn(e.body) \ {e.ps[i] : i \in DOMAIN e.ps}
    [] OTHER -> UNION {Free(Operands(e)[i]) : i \in DOMAIN Operands(e)}

(* ctx: the limits, the variables in scope, whether ... is allowed          *)
ExprOK(e, vars_, va, lim) ==
  CASE e.x = "dots" -> va
    [] e.x = "function" ->
         LET n == Len(e.ps) + (IF e.va THEN 1 ELSE 0)
             ps == {e.ps[i] : i \in DOMAIN e.ps}
         IN /\ n <= lim.vars /\ n + Declared(e.body) <= lim.all
            /\ Cardinality(Free(e) \cap vars_) <= lim.ups
            /\ BlockOK(e.body, [n |-> n, vars |-> vars_ \cup ps], e.va, FALSE, lim)
    [] OTHER -> \A i \in DOMAIN Operands(e) : ExprOK(Operands(e)[i], vars_, va, lim)

BlockOK(b, sc, va, inloop, lim) ==
  b # <<>> =>
    LET st == Head(b)
        new == CASE st.s = "local" -> {st.ns[i] : i \in DOMAIN st.ns}
                 [] st.s = "localfunction" -> {st.n}
                 [] OTHER -> {}
        after == [n |-> sc.n + NewVars(st), vars |-> sc.vars \cup new]
        inner == [n |-> sc.n + LoopVars(st),
                  vars |-> sc.vars \cup (CASE st.s = "fornum" -> {st.n}
                                           [] st.s = "forin" -> {st.ns[i] : i \in DOMAIN st.ns}
                                           [] OTHER -> {})]
        seen == IF st.s = "localfunction" THEN after.vars ELSE sc.vars
    IN /\ st.s = "break" => inloop
       /\ after.n <= lim.vars /\ inner.n <= lim.vars
       /\ \A i \in DOMAIN Parts(st) : ExprOK(Parts(st)[i], seen, va, lim)
       /\ \A i \in DOMAIN Blocks(st) :
            BlockOK(Blocks(st)[i], inner, va, inloop \/ st.s \in Loop_, lim)
       /\ BlockOK(Tail(b), after, va, inloop, lim)

(* The limits: variables in scope, variables of a function, upvalues         *)
WellFormed(b, lim) ==
  Declared(b) <= lim.all /\ BlockOK(b, [n |-> 0, vars |-> {}], TRUE, FALSE, lim)

(* The meaning of a chunk called with some arguments: whether it ends       *)
(* without error, what it emits and what it returns                         *)
Meaning(b, globals, args) ==
  LET m == [ok |-> TRUE, cell |-> <<>>, fun |-> <<>>, tab |-> <<>>, G |-> globals, out |-> <<>>,
            who |-> [kind |-> "", name |-> ""]]
      r == Exec(b, [var |-> <<>>, dots |-> args], m)
  IN [ok |-> r.m.ok, out |-> r.m.out, who |-> r.m.who, vs |-> IF r.sig = "return" THEN r.vs ELSE <<>>]
=============================================================================
