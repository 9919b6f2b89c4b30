------------------------------ MODULE LuaCode ------------------------------
(* The code generator, lcode.c.  A FuncState fs is the code of the function *)
(* being compiled and the generator's registers; an expdesc e says where    *)
(* the value of an expression is, with the lists of jumps that leave it     *)
(* when it is true (t) and when it is false (f).  The jumps of a list are   *)
(* threaded through the jump offsets themselves, as in the code.            *)
(*                                                                          *)
(* Each operator is the function of its name.  A function that changes its  *)
(* expdesc returns both, X(fs, e); one that returns a jump list or an RK    *)
(* operand has it as l or r.  lua_assert accumulates in fs.sane, and an     *)
(* error in fs.err: the parser then reads no further token.                 *)
EXTENDS Integers, Sequences, FiniteSets, TLC

CONSTANTS MAXINDEXRK,         \* last constant an RK operand can name
          MAXSTACK,           \* limit of the registers of a function
          MAXARG_C,           \* limit of the block number of OP_SETLIST
          MAXARG_Bx,          \* limit of the constants, and of the functions, of one function
          MAXARG_sBx,         \* longest jump
          LFIELDS_PER_FLUSH,  \* items of a constructor stored at a time
          LUAI_MAXCCALLS      \* limit of nested rules and of nested loads

ASSUME LimitsAssumption ==
  /\ MAXINDEXRK \in 0 .. 255 /\ MAXSTACK \in 2 .. 250
  /\ {MAXARG_C, MAXARG_Bx, MAXARG_sBx, LFIELDS_PER_FLUSH, LUAI_MAXCCALLS} \subseteq Nat \ {0}

NO_JUMP == -1
NO_REG == 255
MULTRET == -1
BITRK == 256
ISK(r) == r >= BITRK
INDEXK(r) == r - BITRK
RKASK(i) == i + BITRK

(* Values: the tag first, so that values of two types are never equal.      *)
Nil == <<"nil">>
Bool(b) == <<"boolean", b>>
Num(n) == <<"number", n>>
Str(s) == <<"string", <<s>>>>

Ins(op, a, b, c) == [op |-> op, a |-> a, b |-> b, c |-> c]

TMode == {"EQ", "LT", "LE", "TEST", "TESTSET", "TFORLOOP"}

X(fs, e) == [fs |-> fs, e |-> e]

init_exp(k, info) ==
  [k |-> k, info |-> info, aux |-> 0, nval |-> 0, t |-> NO_JUMP, f |-> NO_JUMP]

Checked(fs, cond) == [fs EXCEPT !.sane = @ /\ cond]

Failed(fs) == [fs EXCEPT !.err = TRUE]

hasjumps(e) == e.t # e.f

isnumeral(e) == e.k = "VKNUM" /\ e.t = NO_JUMP /\ e.f = NO_JUMP

----------------------------------------------------------------------------
(* Jump lists *)

SetB(fs, pc, b) == [fs EXCEPT !.code[pc].b = b]

(* A jump that is too long for its instruction is an error.                 *)
ShortEnough(pc, dest) == dest - (pc + 1) \in -MAXARG_sBx .. MAXARG_sBx

FailUnless(fs, cond) == [fs EXCEPT !.err = @ \/ ~cond]

fixjump(fs, pc, dest) ==
  FailUnless(Checked(SetB(fs, pc, dest - (pc + 1)), dest # NO_JUMP), ShortEnough(pc, dest))

luaK_getlabel(fs) == [fs EXCEPT !.lasttarget = fs.pc]

getjump(fs, pc) ==
  IF fs.code[pc].b = NO_JUMP THEN NO_JUMP ELSE pc + 1 + fs.code[pc].b

getjumpcontrol(fs, pc) ==
  IF pc >= 1 /\ fs.code[pc - 1].op \in TMode THEN pc - 1 ELSE pc

(* The jumps of a list *)
RECURSIVE Jumps(_, _)
Jumps(fs, list) ==
  IF list = NO_JUMP THEN {} ELSE {list} \cup Jumps(fs, getjump(fs, list))

(* Those that carry the value they tested *)
Carrying(fs, list) ==
  {j \in Jumps(fs, list) : fs.code[getjumpcontrol(fs, j)].op = "TESTSET"}

need_value(fs, list) == Jumps(fs, list) # Carrying(fs, list)

patchtestreg(i, reg) ==
  IF reg # NO_REG /\ reg # i.b THEN [i EXCEPT !.a = reg]
  ELSE Ins("TEST", i.b, 0, i.c)

removevalues(fs, list) ==
  LET tests == {getjumpcontrol(fs, j) : j \in Carrying(fs, list)}
  IN [fs EXCEPT !.code = [pc \in DOMAIN fs.code |->
        IF pc \in tests THEN patchtestreg(fs.code[pc], NO_REG) ELSE fs.code[pc]]]

patchlistaux(fs, list, vtarget, reg, dtarget) ==
  LET all == Jumps(fs, list)
      carry == Carrying(fs, list)
      tests == {getjumpcontrol(fs, j) : j \in carry}
      target(j) == IF j \in carry THEN vtarget ELSE dtarget
      patched == [fs EXCEPT !.code = [pc \in DOMAIN fs.code |->
        CASE pc \in all -> [fs.code[pc] EXCEPT !.b = target(pc) - (pc + 1)]
          [] pc \in tests -> patchtestreg(fs.code[pc], reg)
          [] OTHER -> fs.code[pc]]]
  IN FailUnless(Checked(patched, \A j \in all : target(j) # NO_JUMP),
                \A j \in all : ShortEnough(j, target(j)))

dischargejpc(fs) ==
  [patchlistaux(fs, fs.jpc, fs.pc, NO_REG, fs.pc) EXCEPT !.jpc = NO_JUMP]

luaK_code(fs, i) ==
  LET d == dischargejpc(fs)
  IN [d EXCEPT !.code = (fs.pc :> i) @@ @, !.pc = @ + 1]

luaK_codeABC(fs, op, a, b, c) == luaK_code(fs, Ins(op, a, b, c))

luaK_codeABx(fs, op, a, b) == luaK_code(fs, Ins(op, a, b, 0))

RECURSIVE LastJump(_, _)
LastJump(fs, list) ==
  IF getjump(fs, list) = NO_JUMP THEN list ELSE LastJump(fs, getjump(fs, list))

luaK_concat(fs, l1, l2) ==
  CASE l2 = NO_JUMP -> [fs |-> fs, l |-> l1]
    [] l2 # NO_JUMP /\ l1 = NO_JUMP -> [fs |-> fs, l |-> l2]
    [] OTHER -> [fs |-> fixjump(fs, LastJump(fs, l1), l2), l |-> l1]

luaK_patchtohere(fs, list) ==
  LET j == luaK_concat(luaK_getlabel(fs), fs.jpc, list)
  IN [j.fs EXCEPT !.jpc = j.l]

luaK_patchlist(fs, list, target) ==
  IF target = fs.pc THEN luaK_patchtohere(fs, list)
  ELSE Checked(patchlistaux(fs, list, target, NO_REG, target), target < fs.pc)

luaK_jump(fs) ==
  luaK_concat(luaK_codeABx([fs EXCEPT !.jpc = NO_JUMP], "JMP", 0, NO_JUMP),
              fs.pc, fs.jpc)

condjump(fs, op, a, b, c) == luaK_jump(luaK_codeABC(fs, op, a, b, c))

luaK_ret(fs, first, nret) == luaK_codeABC(fs, "RETURN", first, nret + 1, 0)

luaK_nil(fs, from, n) ==
  LET previous == fs.code[fs.pc - 1]
      mayjoin == fs.pc > fs.lasttarget
      connects == /\ previous.op = "LOADNIL"
                  /\ previous.a <= from /\ from <= previous.b + 1
  IN CASE mayjoin /\ fs.pc = 0 /\ from >= fs.nactvar -> fs
       [] mayjoin /\ fs.pc > 0 /\ connects ->
            IF from + n - 1 > previous.b
            THEN SetB(fs, fs.pc - 1, from + n - 1) ELSE fs
       [] OTHER -> luaK_codeABC(fs, "LOADNIL", from, from + n - 1, 0)

----------------------------------------------------------------------------
(* Registers and constants *)

(* Mutant: the stack size is one register short.                            *)
luaK_checkstackShort(fs, n) ==
  LET newstack == fs.freereg + n
  IN CASE newstack <= fs.maxstacksize -> fs
       [] newstack > fs.maxstacksize /\ newstack >= MAXSTACK -> Failed(fs)
       [] OTHER -> [fs EXCEPT !.maxstacksize = newstack - 1]

luaK_checkstack(fs, n) ==
  LET newstack == fs.freereg + n
  IN CASE newstack <= fs.maxstacksize -> fs
       [] newstack > fs.maxstacksize /\ newstack >= MAXSTACK -> Failed(fs)
       [] OTHER -> [fs EXCEPT !.maxstacksize = newstack]

luaK_reserveregs(fs, n) == [luaK_checkstack(fs, n) EXCEPT !.freereg = @ + n]

freereg(fs, reg) ==
  IF ISK(reg) \/ reg < fs.nactvar THEN fs
  ELSE Checked([fs EXCEPT !.freereg = @ - 1], reg = fs.freereg - 1)

freeexp(fs, e) == IF e.k = "VNONRELOC" THEN freereg(fs, e.info) ELSE fs

(* The index of constant v; k[n + 1] is constant n.                        *)
addk(fs, v) ==
  IF \E n \in 1 .. Len(fs.k) : fs.k[n] = v
  THEN [fs |-> fs, n |-> (CHOOSE n \in 1 .. Len(fs.k) : fs.k[n] = v) - 1]
  ELSE [fs |-> [FailUnless(fs, Len(fs.k) < MAXARG_Bx) EXCEPT !.k = Append(@, v)], n |-> Len(fs.k)]

luaK_stringK(fs, s) == addk(fs, Str(s))
luaK_numberK(fs, n) == addk(fs, Num(n))
boolK(fs, b) == addk(fs, Bool(b))
nilK(fs) == addk(fs, Nil)

----------------------------------------------------------------------------
(* Where the value of an expression is *)

luaK_setreturns(fs, e, nresults) ==
  CASE e.k = "VCALL" -> [fs EXCEPT !.code[e.info].c = nresults + 1]
    [] e.k = "VVARARG" ->
         luaK_reserveregs([fs EXCEPT !.code[e.info].b = nresults + 1,
                                     !.code[e.info].a = fs.freereg], 1)
    [] OTHER -> fs

luaK_setoneret(fs, e) ==
  CASE e.k = "VCALL" ->
         X(fs, [e EXCEPT !.k = "VNONRELOC", !.info = fs.code[e.info].a])
    [] e.k = "VVARARG" -> X(SetB(fs, e.info, 2), [e EXCEPT !.k = "VRELOCABLE"])
    [] OTHER -> X(fs, e)

Relocable(fs, e, i) ==
  X(luaK_code(fs, i), [e EXCEPT !.k = "VRELOCABLE", !.info = fs.pc])

luaK_dischargevars(fs, e) ==
  CASE e.k = "VLOCAL" -> X(fs, [e EXCEPT !.k = "VNONRELOC"])
    [] e.k = "VUPVAL" -> Relocable(fs, e, Ins("GETUPVAL", 0, e.info, 0))
    [] e.k = "VGLOBAL" -> Relocable(fs, e, Ins("GETGLOBAL", 0, e.info, 0))
    [] e.k = "VINDEXED" -> Relocable(freereg(freereg(fs, e.aux), e.info), e,
                                     Ins("GETTABLE", 0, e.info, e.aux))
    [] OTHER -> luaK_setoneret(fs, e)

code_label(fs, a, b, jump) ==
  luaK_codeABC(luaK_getlabel(fs), "LOADBOOL", a, b, jump)

discharge2reg(fs0, e0, reg) ==
  LET d == luaK_dischargevars(fs0, e0)
      fs == d.fs
      e == d.e
      k == luaK_numberK(fs, e.nval)
      in(f) == X(f, [e EXCEPT !.info = reg, !.k = "VNONRELOC"])
  IN CASE e.k = "VNIL" -> in(luaK_nil(fs, reg, 1))
       [] e.k = "VFALSE" -> in(luaK_codeABC(fs, "LOADBOOL", reg, 0, 0))
       [] e.k = "VTRUE" -> in(luaK_codeABC(fs, "LOADBOOL", reg, 1, 0))
       [] e.k = "VK" -> in(luaK_codeABx(fs, "LOADK", reg, e.info))
       [] e.k = "VKNUM" -> in(luaK_codeABx(k.fs, "LOADK", reg, k.n))
       [] e.k = "VRELOCABLE" -> in([fs EXCEPT !.code[e.info].a = reg])
       [] e.k = "VNONRELOC" -> in(IF reg = e.info THEN fs
                                  ELSE luaK_codeABC(fs, "MOVE", reg, e.info, 0))
       [] OTHER -> X(Checked(fs, e.k \in {"VVOID", "VJMP"}), e)

discharge2anyreg(fs, e) ==
  IF e.k = "VNONRELOC" THEN X(fs, e)
  ELSE LET r == luaK_reserveregs(fs, 1) IN discharge2reg(r, e, r.freereg - 1)

(* The part of exp2reg for an expression with jumps: LOAD false and LOAD    *)
(* true are coded when some jump does not carry a value of its own.         *)
Values(fs, e, reg) ==
  LET loads == need_value(fs, e.t) \/ need_value(fs, e.f)
      fj == IF e.k = "VJMP" THEN [fs |-> fs, l |-> NO_JUMP] ELSE luaK_jump(fs)
      p_f == code_label(fj.fs, reg, 0, 1)
      p_t == code_label(p_f, reg, 1, 0)
      done == luaK_getlabel(IF loads THEN luaK_patchtohere(p_t, fj.l) ELSE fs)
      pos(f) == IF loads THEN f.pc - 1 ELSE NO_JUMP
  IN patchlistaux(patchlistaux(done, e.f, done.pc, reg, pos(p_f)),
                  e.t, done.pc, reg, pos(p_t))

exp2reg(fs, e, reg) ==
  LET d == discharge2reg(fs, e, reg)
      c == IF d.e.k = "VJMP" THEN luaK_concat(d.fs, d.e.t, d.e.info)
           ELSE [fs |-> d.fs, l |-> d.e.t]
      e1 == [d.e EXCEPT !.t = c.l]
  IN X(IF hasjumps(e1) THEN Values(c.fs, e1, reg) ELSE c.fs,
       [init_exp("VNONRELOC", reg) EXCEPT !.aux = e.aux])

luaK_exp2nextreg(fs, e) ==
  LET d == luaK_dischargevars(fs, e)
      r == luaK_reserveregs(freeexp(d.fs, d.e), 1)
  IN exp2reg(r, d.e, r.freereg - 1)

luaK_exp2anyreg(fs, e) ==
  LET d == luaK_dischargevars(fs, e)
  IN CASE d.e.k = "VNONRELOC" /\ ~hasjumps(d.e) -> d
       [] d.e.k = "VNONRELOC" /\ hasjumps(d.e) /\ d.e.info >= fs.nactvar ->
            exp2reg(d.fs, d.e, d.e.info)
       [] OTHER -> luaK_exp2nextreg(d.fs, d.e)

luaK_exp2val(fs, e) ==
  IF hasjumps(e) THEN luaK_exp2anyreg(fs, e) ELSE luaK_dischargevars(fs, e)

RK(x, r) == [fs |-> x.fs, e |-> x.e, r |-> r]

luaK_exp2RK(fs0, e0) ==
  LET d == luaK_exp2val(fs0, e0)
      fs == d.fs
      e == d.e
      k == CASE e.k = "VNIL" -> nilK(fs)
             [] e.k = "VKNUM" -> luaK_numberK(fs, e.nval)
             [] OTHER -> boolK(fs, e.k = "VTRUE")
      any == luaK_exp2anyreg(fs, e)
  IN CASE e.k \in {"VKNUM", "VTRUE", "VFALSE", "VNIL"} /\ Len(fs.k) <= MAXINDEXRK ->
            RK(X(k.fs, [e EXCEPT !.k = "VK", !.info = k.n]), RKASK(k.n))
       [] e.k = "VK" /\ e.info <= MAXINDEXRK -> RK(d, RKASK(e.info))
       [] OTHER -> RK(any, any.e.info)

luaK_storevar(fs, var, ex) ==
  LET any == luaK_exp2anyreg(fs, ex)
      rk == luaK_exp2RK(fs, ex)
  IN CASE var.k = "VLOCAL" -> exp2reg(freeexp(fs, ex), ex, var.info).fs
       [] var.k = "VUPVAL" ->
            freeexp(luaK_codeABC(any.fs, "SETUPVAL", any.e.info, var.info, 0), any.e)
       [] var.k = "VGLOBAL" ->
            freeexp(luaK_codeABx(any.fs, "SETGLOBAL", any.e.info, var.info), any.e)
       [] var.k = "VINDEXED" ->
            freeexp(luaK_codeABC(rk.fs, "SETTABLE", var.info, var.aux, rk.r), rk.e)
       [] OTHER -> Checked(fs, FALSE)

luaK_self(fs, e, key) ==
  LET o == luaK_exp2anyreg(fs, e)
      f == freeexp(o.fs, o.e)
      func == f.freereg
      k == luaK_exp2RK(luaK_reserveregs(f, 2), key)
      c == luaK_codeABC(k.fs, "SELF", func, o.e.info, k.r)
  IN X(freeexp(c, k.e), [o.e EXCEPT !.info = func, !.k = "VNONRELOC"])

luaK_indexed(fs, t, k) ==
  LET r == luaK_exp2RK(fs, k)
  IN X(r.fs, [t EXCEPT !.aux = r.r, !.k = "VINDEXED"])

----------------------------------------------------------------------------
(* Conditions *)

invertjump(fs, e) ==
  LET pc == getjumpcontrol(fs, e.info)
  IN Checked([fs EXCEPT !.code[pc].a = 1 - @],
             fs.code[pc].op \in TMode \ {"TESTSET", "TEST"})

jumponcond(fs, e, cond) ==
  LET ie == fs.code[e.info]
      d == discharge2anyreg(fs, e)
      j == condjump(freeexp(d.fs, d.e), "TESTSET", NO_REG, d.e.info, cond)
  IN IF e.k = "VRELOCABLE" /\ ie.op = "NOT"
     THEN LET n == condjump([fs EXCEPT !.pc = @ - 1], "TEST", ie.b, 0, 1 - cond)
          IN [fs |-> n.fs, e |-> e, l |-> n.l]
     ELSE [fs |-> j.fs, e |-> d.e, l |-> j.l]

luaK_goiftrue(fs0, e0) ==
  LET d == luaK_dischargevars(fs0, e0)
      e == d.e
      jump == luaK_jump(d.fs)
      pc == CASE e.k \in {"VK", "VKNUM", "VTRUE"} ->
                   [fs |-> d.fs, e |-> e, l |-> NO_JUMP]
              [] e.k = "VFALSE" -> [fs |-> jump.fs, e |-> e, l |-> jump.l]
              [] e.k = "VJMP" ->
                   [fs |-> invertjump(d.fs, e), e |-> e, l |-> e.info]
              [] OTHER -> jumponcond(d.fs, e, 0)
      f == luaK_concat(pc.fs, pc.e.f, pc.l)
  IN X(luaK_patchtohere(f.fs, pc.e.t), [pc.e EXCEPT !.f = f.l, !.t = NO_JUMP])

luaK_goiffalse(fs0, e0) ==
  LET d == luaK_dischargevars(fs0, e0)
      e == d.e
      jump == luaK_jump(d.fs)
      pc == CASE e.k \in {"VNIL", "VFALSE"} ->
                   [fs |-> d.fs, e |-> e, l |-> NO_JUMP]
              [] e.k = "VTRUE" -> [fs |-> jump.fs, e |-> e, l |-> jump.l]
              [] e.k = "VJMP" -> [fs |-> d.fs, e |-> e, l |-> e.info]
              [] OTHER -> jumponcond(d.fs, e, 1)
      t == luaK_concat(pc.fs, pc.e.t, pc.l)
  IN X(luaK_patchtohere(t.fs, pc.e.f), [pc.e EXCEPT !.t = t.l, !.f = NO_JUMP])

codenot(fs, e0) ==
  LET d == luaK_dischargevars(fs, e0)
      e == d.e
      r == discharge2anyreg(d.fs, e)
      n == CASE e.k \in {"VNIL", "VFALSE"} -> X(d.fs, [e EXCEPT !.k = "VTRUE"])
             [] e.k \in {"VK", "VKNUM", "VTRUE"} -> X(d.fs, [e EXCEPT !.k = "VFALSE"])
             [] e.k = "VJMP" -> X(invertjump(d.fs, e), e)
             [] e.k \in {"VRELOCABLE", "VNONRELOC"} ->
                  Relocable(freeexp(r.fs, r.e), r.e, Ins("NOT", 0, r.e.info, 0))
             [] OTHER -> X(Checked(d.fs, FALSE), e)
  IN X(removevalues(removevalues(n.fs, n.e.f), n.e.t),
       [n.e EXCEPT !.f = n.e.t, !.t = n.e.f])

----------------------------------------------------------------------------
(* Operators *)

Arith(op, a, b) ==
  CASE op = "ADD" -> a + b
    [] op = "SUB" -> a - b
    [] op = "MUL" -> a * b
    [] op = "DIV" -> a \div b
    [] op = "MOD" -> a % b
    [] op = "POW" -> a ^ b
    [] op = "UNM" -> -a

Folds(op, e1, e2) ==
  /\ isnumeral(e1) /\ isnumeral(e2) /\ op \notin {"LEN", "CONCAT"}
  /\ op \in {"DIV", "MOD"} => e2.nval # 0

codearith(fs, op, e1, e2) ==
  LET o2 == IF op \in {"UNM", "LEN"} THEN RK(X(fs, e2), 0) ELSE luaK_exp2RK(fs, e2)
      o1 == luaK_exp2RK(o2.fs, e1)
      freed == IF o1.r > o2.r THEN freeexp(freeexp(o1.fs, o1.e), o2.e)
               ELSE freeexp(freeexp(o1.fs, o2.e), o1.e)
  IN IF Folds(op, e1, e2)
     THEN X(fs, [e1 EXCEPT !.nval = Arith(op, e1.nval, e2.nval)])
     ELSE Relocable(freed, o1.e, Ins(op, 0, o1.r, o2.r))

codecomp(fs, op, cond, e1, e2) ==
  LET o1 == luaK_exp2RK(fs, e1)
      o2 == luaK_exp2RK(o1.fs, e2)
      f == freeexp(freeexp(o2.fs, o2.e), o1.e)
      j == IF cond = 0 /\ op # "EQ" THEN condjump(f, op, 1, o2.r, o1.r)
           ELSE condjump(f, op, cond, o1.r, o2.r)
  IN X(j.fs, [o1.e EXCEPT !.info = j.l, !.k = "VJMP"])

luaK_prefix(fs, op, e) ==
  LET any == luaK_exp2anyreg(fs, e)
      e2 == init_exp("VKNUM", 0)
      o == IF op = "-" /\ isnumeral(e) THEN X(fs, e) ELSE any
  IN CASE op = "-" -> codearith(o.fs, "UNM", o.e, e2)
       [] op = "not" -> codenot(fs, e)
       [] op = "#" -> codearith(any.fs, "LEN", any.e, e2)

ArithOp == [o \in {"+", "-", "*", "/", "%", "^"} |->
  CASE o = "+" -> "ADD" [] o = "-" -> "SUB" [] o = "*" -> "MUL"
    [] o = "/" -> "DIV" [] o = "%" -> "MOD" [] o = "^" -> "POW"]

luaK_infix(fs, op, v) ==
  LET r == luaK_exp2RK(fs, v)
  IN CASE op = "and" -> luaK_goiftrue(fs, v)
       [] op = "or" -> luaK_goiffalse(fs, v)
       [] op = ".." -> luaK_exp2nextreg(fs, v)
       [] op \in DOMAIN ArithOp /\ isnumeral(v) -> X(fs, v)
       [] OTHER -> X(r.fs, r.e)

(* a .. (b .. c): the second OP_CONCAT takes the first one's operands too.  *)
JoinConcat(fs, e1, e2) ==
  X(SetB(Checked(freeexp(fs, e1), e1.info = fs.code[e2.info].b - 1),
         e2.info, e1.info),
    [e1 EXCEPT !.k = "VRELOCABLE", !.info = e2.info])

luaK_posfix(fs, op, e1, e2) ==
  LET d == luaK_dischargevars(fs, e2)
      f == luaK_concat(Checked(d.fs, e1.t = NO_JUMP), d.e.f, e1.f)
      t == luaK_concat(Checked(d.fs, e1.f = NO_JUMP), d.e.t, e1.t)
      v == luaK_exp2val(fs, e2)
      n == luaK_exp2nextreg(v.fs, v.e)
  IN CASE op = "and" -> X(f.fs, [d.e EXCEPT !.f = f.l])
       [] op = "or" -> X(t.fs, [d.e EXCEPT !.t = t.l])
       [] op = ".." -> IF v.e.k = "VRELOCABLE" /\ v.fs.code[v.e.info].op = "CONCAT"
                       THEN JoinConcat(v.fs, e1, v.e)
                       ELSE codearith(n.fs, "CONCAT", e1, n.e)
       [] op \in DOMAIN ArithOp -> codearith(fs, ArithOp[op], e1, e2)
       [] op = "==" -> codecomp(fs, "EQ", 1, e1, e2)
       [] op = "~=" -> codecomp(fs, "EQ", 0, e1, e2)
       [] op = "<" -> codecomp(fs, "LT", 1, e1, e2)
       [] op = "<=" -> codecomp(fs, "LE", 1, e1, e2)
       [] op = ">" -> codecomp(fs, "LT", 0, e1, e2)
       [] op = ">=" -> codecomp(fs, "LE", 0, e1, e2)

(* The items of a constructor that wait in registers; a block number that   *)
(* does not fit follows OP_SETLIST in an instruction of its own.            *)
luaK_setlist(fs, base, nelems, tostore) ==
  LET c == (nelems - 1) \div LFIELDS_PER_FLUSH + 1
      b == IF tostore = MULTRET THEN 0 ELSE tostore
      list == IF c <= MAXARG_C THEN luaK_codeABC(fs, "SETLIST", base, b, c)
              ELSE luaK_code(luaK_codeABC(fs, "SETLIST", base, b, 0),
                             Ins("COUNT", 0, c, 0))
  IN [Checked(list, tostore # 0) EXCEPT !.freereg = base + 1]
============================================================================
