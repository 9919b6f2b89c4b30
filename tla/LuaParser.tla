----------------------------- MODULE LuaParser -----------------------------
(* The parser, lparser.c: one pass over the tokens that calls the code      *)
(* generator as it goes.  S is the LexState: the tokens and the position of *)
(* the current one, the FuncStates of the functions being compiled (the     *)
(* innermost last), the prototypes already closed, and L->nCcalls.  A rule  *)
(* returns S, or P(S, e) when it yields an expression.  A syntax error ends *)
(* the input: every rule then meets the end of the stream.                  *)
EXTENDS LuaCode, SequencesExt

CONSTANTS LUAI_MAXVARS, LUAI_MAXUPVALUES,
          SHRT_MAX            \* limit of the variables of a function, ended ones included

P(S, e) == [S |-> S, e |-> e]

Cur(S) == Last(S.fs)

With(S, f) == [S EXCEPT !.fs[Len(S.fs)] = f]

(* Apply a function of the code generator to the current function.          *)
Lift(F(_, _), r) ==
  LET x == F(Cur(r.S), r.e) IN P(With(r.S, x.fs), x.e)

Tok(S) ==
  IF \E i \in DOMAIN S.fs : S.fs[i].err THEN [t |-> "<eof>"] ELSE S.toks[S.pos]

luaX_next(S) == [S EXCEPT !.pos = IF @ < Len(S.toks) THEN @ + 1 ELSE @]

lookahead(S) == Tok(luaX_next(S)).t

luaX_syntaxerror(S) == With(S, Failed(Cur(S)))

check_condition(S, c) == IF c THEN S ELSE luaX_syntaxerror(S)

luaY_checklimit(S, v, l) == IF v > l THEN luaX_syntaxerror(S) ELSE S

checknext(S, t) ==
  IF Tok(S).t = t THEN luaX_next(S) ELSE luaX_syntaxerror(S)

hasmultret(k) == k \in {"VCALL", "VVARARG"}

enterlevel(S) ==
  luaY_checklimit([S EXCEPT !.nCcalls = @ + 1], S.nCcalls + 1, LUAI_MAXCCALLS)

leavelevel(S) == [S EXCEPT !.nCcalls = @ - 1]

----------------------------------------------------------------------------
(* Variables *)

(* The variables of blocks that have ended keep their place in locvars.     *)
registerlocalvar(fs, varname) ==
  [FailUnless(fs, Len(fs.locvars) < SHRT_MAX)
     EXCEPT !.locvars = Append(@, [varname |-> varname, startpc |-> 0, endpc |-> 0])]

(* Mutant: the limit counts the variables of blocks that have ended.        *)
new_localvarEver(S, name, n) ==
  LET c == luaY_checklimit(S, Len(Cur(S).locvars) + 1, LUAI_MAXVARS)
      r == registerlocalvar(Cur(c), name)
  IN With(c, [r EXCEPT !.actvar = SubSeq(@, 1, r.nactvar + n) \o <<Len(r.locvars)>>])

new_localvar(S, name, n) ==
  LET c == luaY_checklimit(S, Cur(S).nactvar + n + 1, LUAI_MAXVARS)
      r == registerlocalvar(Cur(c), name)
  IN With(c, [r EXCEPT !.actvar = SubSeq(@, 1, r.nactvar + n) \o <<Len(r.locvars)>>])

adjustlocalvars(S, nvars) ==
  LET fs == Cur(S)
      new == {fs.actvar[i] : i \in fs.nactvar + 1 .. fs.nactvar + nvars}
  IN With(S, [fs EXCEPT !.nactvar = @ + nvars,
                !.locvars = [i \in DOMAIN @ |->
                   IF i \in new THEN [@[i] EXCEPT !.startpc = fs.pc] ELSE @[i]]])

removevars(fs, tolevel) ==
  LET old == {fs.actvar[i] : i \in tolevel + 1 .. fs.nactvar}
  IN [fs EXCEPT !.nactvar = tolevel,
        !.locvars = [i \in DOMAIN @ |->
           IF i \in old THEN [@[i] EXCEPT !.endpc = fs.pc] ELSE @[i]]]

indexupvalue(S, i, name, v) ==
  LET fs == S.fs[i]
      same == {u \in DOMAIN fs.upvalues :
                 fs.upvalues[u].k = v.k /\ fs.upvalues[u].info = v.info}
      f == IF Len(fs.upvalues) + 1 > LUAI_MAXUPVALUES THEN Failed(fs) ELSE fs
      new == [k |-> v.k, info |-> v.info, name |-> name]
  IN IF same # {} THEN [S |-> S, n |-> (CHOOSE u \in same : TRUE) - 1]
     ELSE [S |-> [S EXCEPT !.fs[i] = [f EXCEPT !.upvalues = Append(@, new)]],
           n |-> Len(fs.upvalues)]

searchvar(fs, n) ==
  LET found == {i \in 1 .. fs.nactvar : fs.locvars[fs.actvar[i]].varname = n}
  IN IF found = {} THEN -1 ELSE Max(found) - 1

markupval(fs, level) ==
  LET at == {b \in DOMAIN fs.bl : fs.bl[b].nactvar <= level}
  IN IF at = {} THEN fs ELSE [fs EXCEPT !.bl[Max(at)].upval = TRUE]

RECURSIVE singlevaraux(_, _, _, _)
singlevaraux(S, i, n, base) ==
  LET v == searchvar(S.fs[i], n)
      up == singlevaraux(S, i - 1, n, FALSE)
      idx == indexupvalue(up.S, i, n, up.e)
  IN CASE i = 0 -> P(S, init_exp("VGLOBAL", NO_REG))
       [] i > 0 /\ v >= 0 ->
            P(IF base THEN S ELSE [S EXCEPT !.fs[i] = markupval(@, v)],
              init_exp("VLOCAL", v))
       [] OTHER -> IF up.e.k = "VGLOBAL" THEN up
                   ELSE P(idx.S, [up.e EXCEPT !.info = idx.n, !.k = "VUPVAL"])

codestring(S, s) ==
  LET k == luaK_stringK(Cur(S), s) IN P(With(S, k.fs), init_exp("VK", k.n))

str_checkname(S) == checknext(S, "<name>")

checkname(S) ==
  IF Tok(S).t = "<name>" THEN codestring(str_checkname(S), Tok(S).v)
  ELSE P(luaX_syntaxerror(S), init_exp("VVOID", 0))

singlevar(S) ==
  LET v == singlevaraux(str_checkname(S), Len(S.fs), Tok(S).v, TRUE)
      k == luaK_stringK(Cur(v.S), Tok(S).v)
  IN IF v.e.k = "VGLOBAL" THEN P(With(v.S, k.fs), [v.e EXCEPT !.info = k.n]) ELSE v

adjust_assign(S, nvars, nexps, e) ==
  LET fs == Cur(S)
      extra == nvars - nexps
      want == IF extra + 1 < 0 THEN 0 ELSE extra + 1
      open == luaK_setreturns(fs, e, want)
      shut == IF e.k = "VVOID" THEN fs ELSE luaK_exp2nextreg(fs, e).fs
  IN With(S, CASE hasmultret(e.k) ->
                    IF want > 1 THEN luaK_reserveregs(open, want - 1) ELSE open
               [] ~hasmultret(e.k) /\ extra > 0 ->
                    luaK_nil(luaK_reserveregs(shut, extra), shut.freereg, extra)
               [] OTHER -> shut)

----------------------------------------------------------------------------
(* Blocks and functions *)

enterblock(fs, isbreakable) ==
  Checked([fs EXCEPT !.bl = Append(@, [breaklist |-> NO_JUMP, upval |-> FALSE,
              isbreakable |-> isbreakable, nactvar |-> fs.nactvar])],
          fs.freereg = fs.nactvar)

leaveblock(fs) ==
  LET bl == Last(fs.bl)
      r == removevars([fs EXCEPT !.bl = Front(@)], bl.nactvar)
      c == IF bl.upval THEN luaK_codeABC(r, "CLOSE", bl.nactvar, 0, 0) ELSE r
  IN luaK_patchtohere(Checked([c EXCEPT !.freereg = c.nactvar],
                              ~bl.isbreakable \/ ~bl.upval), bl.breaklist)

open_func(S) ==
  [S EXCEPT !.fs = Append(@,
    [code |-> <<>>, pc |-> 0, lasttarget |-> -1, jpc |-> NO_JUMP, freereg |-> 0,
     k |-> <<>>, p |-> <<>>, locvars |-> <<>>, actvar |-> <<>>, nactvar |-> 0,
     bl |-> <<>>, upvalues |-> <<>>, maxstacksize |-> 2, numparams |-> 0,
     is_vararg |-> {}, sane |-> TRUE, err |-> FALSE])]

(* The closed function joins the prototypes: what the virtual machine needs *)
(* of it, the flags of the generator and the names of its variables.        *)
close_func(S) ==
  LET fs == luaK_ret(removevars(Cur(S), 0), 0, 0)
      f == [code |-> [pc \in 0 .. fs.pc - 1 |-> fs.code[pc]], k |-> fs.k,
            p |-> fs.p, nups |-> Len(fs.upvalues), upvalues |-> fs.upvalues,
            locvars |-> fs.locvars, maxstacksize |-> fs.maxstacksize,
            numparams |-> fs.numparams, is_vararg |-> fs.is_vararg,
            sane |-> fs.sane /\ fs.bl = <<>>, err |-> fs.err]
      outer == Front(S.fs)
      n == Len(outer)
  IN [S EXCEPT !.protos = Append(@, f),
        !.fs = IF n > 0 /\ fs.err THEN [outer EXCEPT ![n].err = TRUE] ELSE outer]

RECURSIVE UpvalueCode(_, _)
UpvalueCode(fs, ups) ==
  IF ups = <<>> THEN fs
  ELSE UpvalueCode(luaK_codeABC(fs, IF Head(ups).k = "VLOCAL" THEN "MOVE" ELSE "GETUPVAL",
                                0, Head(ups).info, 0), Tail(ups))

(* The function just closed is prototype Len(S.protos) of the chunk.        *)
pushclosure(S) ==
  LET fs == [FailUnless(Cur(S), Len(Cur(S).p) < MAXARG_Bx) EXCEPT !.p = Append(@, Len(S.protos))]
      c == luaK_codeABx(fs, "CLOSURE", 0, Len(fs.p) - 1)
  IN P(With(S, UpvalueCode(c, Last(S.protos).upvalues)),
       init_exp("VRELOCABLE", fs.pc))

----------------------------------------------------------------------------
(* Expressions *)

RECURSIVE chunk(_), subexpr(_, _), primarysuffix(_), explist(_)

priority == [o \in {"+", "-", "*", "/", "%", "^", "..", "~=", "==", "<", "<=",
                    ">", ">=", "and", "or"} |->
  CASE o \in {"+", "-"} -> [left |-> 6, right |-> 6]
    [] o \in {"*", "/", "%"} -> [left |-> 7, right |-> 7]
    [] o = "^" -> [left |-> 10, right |-> 9]
    [] o = ".." -> [left |-> 5, right |-> 4]
    [] o \in {"~=", "==", "<", "<=", ">", ">="} -> [left |-> 3, right |-> 3]
    [] o = "and" -> [left |-> 2, right |-> 2]
    [] o = "or" -> [left |-> 1, right |-> 1]]

UNARY_PRIORITY == 8

expr(S) == subexpr(S, 0)

(* explist1: every expression but the last goes to the next register.       *)
explist(r) ==
  IF Tok(r.S).t # "," THEN r
  ELSE LET v == Lift(luaK_exp2nextreg, r)
           e == expr(luaX_next(v.S))
       IN explist([S |-> e.S, e |-> e.e, n |-> r.n + 1])

explist1(S) ==
  LET e == expr(S) IN explist([S |-> e.S, e |-> e.e, n |-> 1])

field(r) ==
  LET v == Lift(luaK_exp2anyreg, r)
      key == checkname(luaX_next(v.S))
      x == luaK_indexed(Cur(key.S), v.e, key.e)
  IN P(With(key.S, x.fs), x.e)

yindex(S) ==
  LET v == Lift(luaK_exp2val, expr(luaX_next(S)))
  IN P(checknext(v.S, "]"), v.e)

(* A constructor in progress: S, the table t, the last list item v.         *)
recfield(cc) ==
  LET reg == Cur(cc.S).freereg
      key == IF Tok(cc.S).t = "<name>" THEN checkname(cc.S) ELSE yindex(cc.S)
      rk == luaK_exp2RK(Cur(key.S), key.e)
      val == expr(checknext(With(key.S, rk.fs), "="))
      rv == luaK_exp2RK(Cur(val.S), val.e)
      c == luaK_codeABC(rv.fs, "SETTABLE", cc.t, rk.r, rv.r)
  IN [cc EXCEPT !.S = With(val.S, [c EXCEPT !.freereg = reg])]

closelistfield(cc) ==
  LET v == Lift(luaK_exp2nextreg, P(cc.S, cc.v))
      shut == [cc EXCEPT !.S = v.S, !.v.k = "VVOID"]
  IN CASE cc.v.k = "VVOID" -> cc
       [] cc.v.k # "VVOID" /\ cc.tostore = LFIELDS_PER_FLUSH ->
            [shut EXCEPT !.tostore = 0,
               !.S = With(v.S, luaK_setlist(Cur(v.S), cc.t, cc.na, cc.tostore))]
       [] OTHER -> shut

lastlistfield(cc) ==
  LET open == luaK_setreturns(Cur(cc.S), cc.v, MULTRET)
      v == IF cc.v.k = "VVOID" THEN Cur(cc.S)
           ELSE luaK_exp2nextreg(Cur(cc.S), cc.v).fs
  IN CASE cc.tostore = 0 -> cc.S
       [] cc.tostore # 0 /\ hasmultret(cc.v.k) ->
            With(cc.S, luaK_setlist(open, cc.t, cc.na, MULTRET))
       [] OTHER -> With(cc.S, luaK_setlist(v, cc.t, cc.na, cc.tostore))

listfield(cc) ==
  LET v == expr(cc.S)
  IN [cc EXCEPT !.S = v.S, !.v = v.e, !.na = @ + 1, !.tostore = @ + 1]

RECURSIVE fields(_)
fields(cc) ==
  LET shut == closelistfield(cc)
      rec == \/ Tok(cc.S).t = "["
             \/ Tok(cc.S).t = "<name>" /\ lookahead(cc.S) = "="
      next == IF rec THEN recfield(shut) ELSE listfield(shut)
  IN CASE Tok(cc.S).t \in {"}", "<eof>"} -> cc
       [] OTHER -> IF Tok(next.S).t \in {",", ";"}
                   THEN fields([next EXCEPT !.S = luaX_next(@)]) ELSE next

(* The sizes that OP_NEWTABLE preallocates change no value: left out.       *)
constructor(S) ==
  LET new == luaK_codeABC(Cur(S), "NEWTABLE", 0, 0, 0)
      t == Lift(luaK_exp2nextreg, P(With(S, new), init_exp("VRELOCABLE", new.pc - 1)))
      cc == fields([S |-> checknext(t.S, "{"), t |-> t.e.info, na |-> 0,
                    tostore |-> 0, v |-> init_exp("VVOID", 0)])
  IN P(lastlistfield([cc EXCEPT !.S = checknext(cc.S, "}")]), t.e)

RECURSIVE params(_, _)
params(S, n) ==
  LET dots == new_localvar(luaX_next(S), "arg", n)
      v == new_localvar(str_checkname(S), Tok(S).v, n)
  IN CASE Tok(S).t = "<name>" -> IF Tok(v).t = "," THEN params(luaX_next(v), n + 1)
                                 ELSE [S |-> v, n |-> n + 1]
       [] Tok(S).t = "..." ->
            [S |-> With(dots, [Cur(dots) EXCEPT
                       !.is_vararg = {"HASARG", "NEEDSARG", "ISVARARG"}]), n |-> n + 1]
       [] OTHER -> [S |-> luaX_syntaxerror(S), n |-> n]

parlist(S) ==
  LET ps == IF Tok(S).t = ")" THEN [S |-> S, n |-> 0] ELSE params(S, 0)
      a == Cur(adjustlocalvars(ps.S, ps.n))
      hasarg == IF "HASARG" \in a.is_vararg THEN 1 ELSE 0
  IN With(ps.S, luaK_reserveregs([a EXCEPT !.numparams = a.nactvar - hasarg], a.nactvar))

body(S, needself) ==
  LET o == checknext(open_func(S), "(")
      s == IF needself THEN adjustlocalvars(new_localvar(o, "self", 0), 1) ELSE o
      c == chunk(checknext(parlist(s), ")"))
  IN pushclosure(close_func(checknext(c, "end")))

funcargs(r) ==
  LET S == r.S
      l == explist1(luaX_next(S))
      args == CASE Tok(S).t = "(" /\ lookahead(S) = ")" ->
                     P(luaX_next(luaX_next(S)), init_exp("VVOID", 0))
                [] Tok(S).t = "(" /\ lookahead(S) # ")" ->
                     P(checknext(With(l.S, luaK_setreturns(Cur(l.S), l.e, MULTRET)), ")"),
                       l.e)
                [] Tok(S).t = "{" -> constructor(S)
                [] Tok(S).t = "<string>" -> codestring(luaX_next(S), Tok(S).v)
                [] OTHER -> P(luaX_syntaxerror(S), init_exp("VVOID", 0))
      S1 == IF hasmultret(args.e.k) \/ args.e.k = "VVOID" THEN args.S
            ELSE Lift(luaK_exp2nextreg, args).S
      base == r.e.info
      nparams == IF hasmultret(args.e.k) THEN MULTRET ELSE Cur(S1).freereg - (base + 1)
      c == Checked(luaK_codeABC(Cur(S1), "CALL", base, nparams + 1, 2),
                   r.e.k = "VNONRELOC")
  IN P(With(S1, [c EXCEPT !.freereg = base + 1]), init_exp("VCALL", c.pc - 1))

prefixexp(S) ==
  LET v == expr(luaX_next(S))
  IN CASE Tok(S).t = "(" -> Lift(luaK_dischargevars, P(checknext(v.S, ")"), v.e))
       [] Tok(S).t = "<name>" -> singlevar(S)
       [] OTHER -> P(luaX_syntaxerror(S), init_exp("VVOID", 0))

primarysuffix(r) ==
  LET any == Lift(luaK_exp2anyreg, r)
      key == yindex(any.S)
      idx == luaK_indexed(Cur(key.S), any.e, key.e)
      name == checkname(luaX_next(r.S))
      self == luaK_self(Cur(name.S), r.e, name.e)
  IN CASE Tok(r.S).t = "." -> primarysuffix(field(r))
       [] Tok(r.S).t = "[" -> primarysuffix(P(With(key.S, idx.fs), idx.e))
       [] Tok(r.S).t = ":" -> primarysuffix(funcargs(P(With(name.S, self.fs), self.e)))
       [] Tok(r.S).t \in {"(", "<string>", "{"} ->
            primarysuffix(funcargs(Lift(luaK_exp2nextreg, r)))
       [] OTHER -> r

primaryexp(S) == primarysuffix(prefixexp(S))

vararg(S) ==
  LET s == check_condition(S, Cur(S).is_vararg # {})
      fs == [Cur(s) EXCEPT !.is_vararg = @ \ {"NEEDSARG"}]
  IN P(With(s, luaK_codeABC(fs, "VARARG", 0, 1, 0)), init_exp("VVARARG", fs.pc))

simpleexp(S) ==
  LET n == luaX_next(S)
      v == vararg(S)
  IN CASE Tok(S).t = "<number>" -> P(n, [init_exp("VKNUM", 0) EXCEPT !.nval = Tok(S).v])
       [] Tok(S).t = "<string>" -> codestring(n, Tok(S).v)
       [] Tok(S).t = "nil" -> P(n, init_exp("VNIL", 0))
       [] Tok(S).t = "true" -> P(n, init_exp("VTRUE", 0))
       [] Tok(S).t = "false" -> P(n, init_exp("VFALSE", 0))
       [] Tok(S).t = "..." -> P(luaX_next(v.S), v.e)
       [] Tok(S).t = "{" -> constructor(S)
       [] Tok(S).t = "function" -> body(n, FALSE)
       [] OTHER -> primaryexp(S)

(* Expand while operators have priorities higher than limit.                *)
RECURSIVE binops(_, _)
binops(r, limit) ==
  LET op == Tok(r.S).t
      v == luaK_infix(Cur(r.S), op, r.e)
      v2 == subexpr(luaX_next(With(r.S, v.fs)), priority[op].right)
      x == luaK_posfix(Cur(v2.S), op, v.e, v2.e)
  IN IF op \in DOMAIN priority /\ (op \in DOMAIN priority => priority[op].left > limit)
     THEN binops(P(With(v2.S, x.fs), x.e), limit) ELSE r

subexpr(S0, limit) ==
  LET S == enterlevel(S0)
      op == Tok(S).t
      v == subexpr(luaX_next(S), UNARY_PRIORITY)
      x == luaK_prefix(Cur(v.S), op, v.e)
      first == IF op \in {"not", "-", "#"} THEN P(With(v.S, x.fs), x.e) ELSE simpleexp(S)
      all == binops(first, limit)
  IN P(leavelevel(all.S), all.e)

----------------------------------------------------------------------------
(* Statements *)

block_follow(t) == t \in {"else", "elseif", "end", "until", "<eof>"}

block(S) ==
  LET c == chunk(With(S, enterblock(Cur(S), FALSE)))
      fs == Cur(c)
  IN With(c, leaveblock(Checked(fs, Last(fs.bl).breaklist = NO_JUMP)))

(* Mutant: the table of a variable t[i] is not compared with the local.     *)
check_conflictKey(S, lhs, v) ==
  LET fs == Cur(S)
      uses(x) == x.k = "VINDEXED" /\ v.info = x.aux
      safe(x) == IF ~uses(x) THEN x ELSE [x EXCEPT !.aux = fs.freereg]
  IN IF \E i \in DOMAIN lhs : uses(lhs[i])
     THEN [S |-> With(S, luaK_reserveregs(
                           luaK_codeABC(fs, "MOVE", fs.freereg, v.info, 0), 1)),
           lhs |-> [i \in DOMAIN lhs |-> safe(lhs[i])]]
     ELSE [S |-> S, lhs |-> lhs]

(* A local assigned after a variable t[i] that uses it is copied first.     *)
check_conflict(S, lhs, v) ==
  LET fs == Cur(S)
      uses(x) == x.k = "VINDEXED" /\ v.info \in {x.info, x.aux}
      safe(x) == IF ~uses(x) THEN x
                 ELSE [x EXCEPT !.info = IF @ = v.info THEN fs.freereg ELSE @,
                                !.aux = IF @ = v.info THEN fs.freereg ELSE @]
  IN IF \E i \in DOMAIN lhs : uses(lhs[i])
     THEN [S |-> With(S, luaK_reserveregs(
                           luaK_codeABC(fs, "MOVE", fs.freereg, v.info, 0), 1)),
           lhs |-> [i \in DOMAIN lhs |-> safe(lhs[i])]]
     ELSE [S |-> S, lhs |-> lhs]

(* The variables left to assign take their values from the top registers.   *)
RECURSIVE storeall(_, _)
storeall(S, lhs) ==
  IF lhs = <<>> THEN S
  ELSE storeall(With(S, luaK_storevar(Cur(S), Last(lhs),
                          init_exp("VNONRELOC", Cur(S).freereg - 1))), Front(lhs))

RECURSIVE assignment(_, _)
assignment(S0, lhs) ==
  LET S == check_condition(S0, Last(lhs).k \in {"VLOCAL", "VUPVAL", "VGLOBAL", "VINDEXED"})
      nvars == Len(lhs)
      nv == primaryexp(luaX_next(S))
      cc == IF nv.e.k = "VLOCAL" THEN check_conflict(nv.S, lhs, nv.e)
            ELSE [S |-> nv.S, lhs |-> lhs]
      es == explist1(checknext(S, "="))
      adj == adjust_assign(es.S, nvars, es.n, es.e)
      drop == IF es.n > nvars THEN es.n - nvars ELSE 0
      one == luaK_setoneret(Cur(es.S), es.e)
  IN CASE Tok(S).t = "," ->
            assignment(luaY_checklimit(cc.S, nvars, LUAI_MAXCCALLS - cc.S.nCcalls),
                       Append(cc.lhs, nv.e))
       [] Tok(S).t # "," /\ es.n # nvars ->
            storeall(With(adj, [Cur(adj) EXCEPT !.freereg = @ - drop]), lhs)
       [] OTHER -> storeall(With(es.S, luaK_storevar(one.fs, Last(lhs), one.e)), Front(lhs))

cond(S) ==
  LET v == expr(S)
      e == [v.e EXCEPT !.k = IF @ = "VNIL" THEN "VFALSE" ELSE @]
      g == luaK_goiftrue(Cur(v.S), e)
  IN [S |-> With(v.S, g.fs), l |-> g.e.f]

breakstat(S) ==
  LET fs == Cur(S)
      loops == {b \in DOMAIN fs.bl : fs.bl[b].isbreakable}
      b == Max(loops)
      upval == \E i \in b + 1 .. Len(fs.bl) : fs.bl[i].upval
      j == luaK_jump(IF upval THEN luaK_codeABC(fs, "CLOSE", fs.bl[b].nactvar, 0, 0)
                     ELSE fs)
      c == luaK_concat(j.fs, fs.bl[b].breaklist, j.l)
  IN IF loops = {} THEN luaX_syntaxerror(S)
     ELSE With(S, [c.fs EXCEPT !.bl[b].breaklist = c.l])

(* Jump back to a label that was coded before.                              *)
jumpback(fs, label) ==
  LET j == luaK_jump(fs) IN luaK_patchlist(j.fs, j.l, label)

whilestat(S) ==
  LET whileinit == Cur(S).pc
      c == cond(With(luaX_next(S), luaK_getlabel(Cur(S))))
      b == block(checknext(With(c.S, enterblock(Cur(c.S), TRUE)), "do"))
      e == checknext(With(b, jumpback(Cur(b), whileinit)), "end")
  IN With(e, luaK_patchtohere(leaveblock(Cur(e)), c.l))

repeatstat(S) ==
  LET init == Cur(S).pc
      enter == enterblock(enterblock(luaK_getlabel(Cur(S)), TRUE), FALSE)
      c == cond(checknext(chunk(luaX_next(With(S, enter))), "until"))
      b == breakstat(c.S)
      done == IF ~Last(Cur(c.S).bl).upval
              THEN With(c.S, luaK_patchlist(leaveblock(Cur(c.S)), c.l, init))
              ELSE With(b, jumpback(leaveblock(luaK_patchtohere(Cur(b), c.l)), init))
  IN With(done, leaveblock(Cur(done)))

exp1(S) == Lift(luaK_exp2nextreg, expr(S)).S

forbody(S0, base, nvars, isnum) ==
  LET S == checknext(adjustlocalvars(S0, 3), "do")
      j == IF isnum THEN [fs |-> luaK_codeABx(Cur(S), "FORPREP", base, NO_JUMP),
                          l |-> Cur(S).pc]
           ELSE luaK_jump(Cur(S))
      a == adjustlocalvars(With(S, enterblock(j.fs, FALSE)), nvars)
      b == block(With(a, luaK_reserveregs(Cur(a), nvars)))
      h == luaK_patchtohere(leaveblock(Cur(b)), j.l)
      num == luaK_codeABx(h, "FORLOOP", base, NO_JUMP)
      gen == luaK_codeABC(h, "TFORLOOP", base, 0, nvars)
  IN With(b, IF isnum THEN luaK_patchlist(num, num.pc - 1, j.l + 1)
             ELSE jumpback(gen, j.l + 1))

RECURSIVE newlocals(_, _, _)
newlocals(S, names, n) ==
  IF names = <<>> THEN S ELSE newlocals(new_localvar(S, Head(names), n), Tail(names), n + 1)

fornum(S, varname) ==
  LET base == Cur(S).freereg
      v == newlocals(S, <<"(for index)", "(for limit)", "(for step)", varname>>, 0)
      l == exp1(checknext(exp1(checknext(v, "=")), ","))
      k == luaK_numberK(Cur(l), 1)
      one == luaK_codeABx(k.fs, "LOADK", k.fs.freereg, k.n)
      step == IF Tok(l).t = "," THEN exp1(luaX_next(l))
              ELSE With(l, luaK_reserveregs(one, 1))
  IN forbody(step, base, 1, TRUE)

RECURSIVE namelist(_, _)
namelist(S, n) ==
  LET v == new_localvar(str_checkname(S), Tok(S).v, n)
  IN CASE Tok(S).t # "<name>" -> [S |-> luaX_syntaxerror(S), n |-> n]
       [] Tok(S).t = "<name>" /\ Tok(v).t = "," -> namelist(luaX_next(v), n + 1)
       [] OTHER -> [S |-> v, n |-> n + 1]

forlist(S, indexname) ==
  LET base == Cur(S).freereg
      v == newlocals(S, <<"(for generator)", "(for state)", "(for control)", indexname>>, 0)
      ns == IF Tok(v).t = "," THEN namelist(luaX_next(v), 4) ELSE [S |-> v, n |-> 4]
      es == explist1(checknext(ns.S, "in"))
      a == adjust_assign(es.S, 3, es.n, es.e)
  IN forbody(With(a, luaK_checkstack(Cur(a), 3)), base, ns.n - 3, FALSE)

forstat(S) ==
  LET n == luaX_next(With(S, enterblock(Cur(S), TRUE)))
      v == str_checkname(n)
      f == CASE Tok(v).t = "=" -> fornum(v, Tok(n).v)
             [] Tok(v).t \in {",", "in"} -> forlist(v, Tok(n).v)
             [] OTHER -> luaX_syntaxerror(v)
      e == checknext(f, "end")
  IN With(e, leaveblock(Cur(e)))

test_then_block(S) ==
  LET c == cond(luaX_next(S)) IN [S |-> block(checknext(c.S, "then")), l |-> c.l]

(* Leave the block just parsed, and start the next one when flist jumps.    *)
escape(S, escapelist, flist) ==
  LET j == luaK_jump(Cur(S))
      c == luaK_concat(j.fs, escapelist, j.l)
  IN [S |-> With(S, luaK_patchtohere(c.fs, flist)), l |-> c.l]

RECURSIVE ifrest(_, _, _)
ifrest(S, escapelist, flist) ==
  LET e == escape(S, escapelist, flist)
      t == test_then_block(e.S)
      b == block(luaX_next(e.S))
      c == luaK_concat(Cur(S), escapelist, flist)
  IN CASE Tok(S).t = "elseif" -> ifrest(t.S, e.l, t.l)
       [] Tok(S).t = "else" ->
            checknext(With(b, luaK_patchtohere(Cur(b), e.l)), "end")
       [] OTHER -> checknext(With(S, luaK_patchtohere(c.fs, c.l)), "end")

ifstat(S) == LET t == test_then_block(S) IN ifrest(t.S, NO_JUMP, t.l)

localfunc(S) ==
  LET n == new_localvar(str_checkname(S), Tok(S).v, 0)
      v == init_exp("VLOCAL", Cur(n).freereg)
      b == body(adjustlocalvars(With(n, luaK_reserveregs(Cur(n), 1)), 1), FALSE)
      s == luaK_storevar(Cur(b.S), v, b.e)
  IN With(b.S, [s EXCEPT !.locvars[s.actvar[s.nactvar]].startpc = s.pc])

localstat(S) ==
  LET ns == namelist(S, 0)
      es == IF Tok(ns.S).t = "=" THEN explist1(luaX_next(ns.S))
            ELSE [S |-> ns.S, e |-> init_exp("VVOID", 0), n |-> 0]
  IN adjustlocalvars(adjust_assign(es.S, ns.n, es.n, es.e), ns.n)

RECURSIVE funcname(_)
funcname(r) ==
  CASE Tok(r.S).t = "." -> funcname(field(r))
    [] Tok(r.S).t = ":" -> LET f == field(r) IN [S |-> f.S, e |-> f.e, needself |-> TRUE]
    [] OTHER -> [S |-> r.S, e |-> r.e, needself |-> FALSE]

funcstat(S) ==
  LET v == funcname(singlevar(luaX_next(S)))
      b == body(v.S, v.needself)
  IN With(b.S, luaK_storevar(Cur(b.S), v.e, b.e))

exprstat(S) ==
  LET v == primaryexp(S)
  IN IF v.e.k = "VCALL" THEN With(v.S, [Cur(v.S) EXCEPT !.code[v.e.info].c = 1])
     ELSE assignment(v.S, <<v.e>>)

retstat(S0) ==
  LET S == luaX_next(S0)
      none == block_follow(Tok(S).t) \/ Tok(S).t = ";"
      es == explist1(S)
      fs == Cur(es.S)
      multi == luaK_setreturns(fs, es.e, MULTRET)
      tail == IF es.e.k = "VCALL" /\ es.n = 1
              THEN Checked([multi EXCEPT !.code[es.e.info].op = "TAILCALL"],
                           fs.code[es.e.info].a = fs.nactvar)
              ELSE multi
      any == luaK_exp2anyreg(fs, es.e)
      next == luaK_exp2nextreg(fs, es.e).fs
  IN CASE none -> With(S, luaK_ret(Cur(S), 0, 0))
       [] ~none /\ hasmultret(es.e.k) -> With(es.S, luaK_ret(tail, fs.nactvar, MULTRET))
       [] ~none /\ ~hasmultret(es.e.k) /\ es.n = 1 ->
            With(es.S, luaK_ret(any.fs, any.e.info, 1))
       [] OTHER -> With(es.S, luaK_ret(Checked(next, es.n = next.freereg - fs.nactvar),
                                       fs.nactvar, es.n))

statement(S) ==
  LET t == Tok(S).t
      n == luaX_next(S)
      do == block(n)
  IN CASE t = "if" -> ifstat(S)
       [] t = "while" -> whilestat(S)
       [] t = "do" -> checknext(do, "end")
       [] t = "for" -> forstat(S)
       [] t = "repeat" -> repeatstat(S)
       [] t = "function" -> funcstat(S)
       [] t = "local" -> IF Tok(n).t = "function" THEN localfunc(luaX_next(n)) ELSE localstat(n)
       [] t = "return" -> retstat(S)
       [] t = "break" -> breakstat(n)
       [] OTHER -> exprstat(S)

RECURSIVE statements(_)
statements(S) ==
  LET s == statement(S)
      n == IF Tok(s).t = ";" THEN luaX_next(s) ELSE s
      fs == Cur(n)
      free == With(n, Checked([fs EXCEPT !.freereg = fs.nactvar],
                              fs.maxstacksize >= fs.freereg /\ fs.freereg >= fs.nactvar))
  IN CASE block_follow(Tok(S).t) -> S
       [] Tok(S).t \in {"return", "break"} -> free
       [] OTHER -> statements(free)

chunk(S) == leavelevel(statements(enterlevel(S)))

(* The prototypes of a chunk: the main function is the last one closed.     *)
luaY_parser(tokens) ==
  LET o == open_func([toks |-> Append(tokens, [t |-> "<eof>"]), pos |-> 1, fs |-> <<>>,
                      protos |-> <<>>, nCcalls |-> 0])
      c == chunk(With(o, [Cur(o) EXCEPT !.is_vararg = {"ISVARARG"}]))
      e == IF Tok(c).t = "<eof>" THEN c ELSE luaX_syntaxerror(c)
      done == close_func(e)
  IN [protos |-> done.protos, err |-> Last(done.protos).err, levels |-> done.nCcalls]
============================================================================
