------------------------------ MODULE LuaDebug ------------------------------
(* The code checker of ldebug.c and the names it finds for error messages.  *)
(* symbexec goes over the instructions of a function once: with no register *)
(* it checks them all; with a register it finds the last instruction before *)
(* lastpc that may have changed it.  protos are the functions of the chunk, *)
(* which pt.p refers to.                                                    *)
EXTENDS LuaCode

sizecode(pt) == Cardinality(DOMAIN pt.code)

(* luaP_opmodes: T, a test; A, register A is set; the kinds of B and C      *)
Mode(t, a, b, c, m) == [t |-> t, a |-> a, b |-> b, c |-> c, m |-> m]

luaP_opmodes(op) ==
  CASE op = "MOVE" -> Mode(FALSE, TRUE, "R", "N", "iABC")
    [] op \in {"LOADK", "GETGLOBAL"} -> Mode(FALSE, TRUE, "K", "N", "iABx")
    [] op \in {"LOADBOOL", "NEWTABLE", "CALL", "TAILCALL"} -> Mode(FALSE, TRUE, "U", "U", "iABC")
    [] op \in {"LOADNIL", "UNM", "NOT", "LEN"} -> Mode(FALSE, TRUE, "R", "N", "iABC")
    [] op \in {"GETUPVAL", "VARARG"} -> Mode(FALSE, TRUE, "U", "N", "iABC")
    [] op \in {"GETTABLE", "SELF"} -> Mode(FALSE, TRUE, "R", "K", "iABC")
    [] op = "SETGLOBAL" -> Mode(FALSE, FALSE, "K", "N", "iABx")
    [] op \in {"SETUPVAL", "RETURN"} -> Mode(FALSE, FALSE, "U", "N", "iABC")
    [] op = "SETTABLE" -> Mode(FALSE, FALSE, "K", "K", "iABC")
    [] op \in {"ADD", "SUB", "MUL", "DIV", "MOD", "POW"} -> Mode(FALSE, TRUE, "K", "K", "iABC")
    [] op = "CONCAT" -> Mode(FALSE, TRUE, "R", "R", "iABC")
    [] op = "JMP" -> Mode(FALSE, FALSE, "R", "N", "iAsBx")
    [] op \in {"EQ", "LT", "LE"} -> Mode(TRUE, FALSE, "K", "K", "iABC")
    [] op \in {"TEST", "TESTSET"} -> Mode(TRUE, TRUE, "R", "U", "iABC")
    [] op \in {"FORLOOP", "FORPREP"} -> Mode(FALSE, TRUE, "R", "N", "iAsBx")
    [] op = "TFORLOOP" -> Mode(TRUE, FALSE, "N", "U", "iABC")
    [] op = "SETLIST" -> Mode(FALSE, FALSE, "U", "U", "iABC")
    [] op = "CLOSE" -> Mode(FALSE, FALSE, "N", "N", "iABC")
    [] op = "CLOSURE" -> Mode(FALSE, TRUE, "U", "N", "iABx")

precheck(pt) ==
  /\ pt.maxstacksize <= MAXSTACK
  /\ pt.numparams + (IF "HASARG" \in pt.is_vararg THEN 1 ELSE 0) <= pt.maxstacksize
  /\ "NEEDSARG" \in pt.is_vararg => "HASARG" \in pt.is_vararg
  /\ Len(pt.upvalues) <= pt.nups
  /\ sizecode(pt) > 0 /\ pt.code[sizecode(pt) - 1].op = "RETURN"

(* The instructions that may follow one with an open number of results      *)
luaG_checkopenop(i) == i.op \in {"CALL", "TAILCALL", "RETURN", "SETLIST"} /\ i.b = 0

checkreg(pt, r) == r < pt.maxstacksize

checkArgMode(pt, r, mode) ==
  CASE mode = "N" -> r = 0
    [] mode = "U" -> TRUE
    [] mode = "R" -> checkreg(pt, r)
    [] mode = "K" -> IF ISK(r) THEN INDEXK(r) < Len(pt.k) ELSE checkreg(pt, r)

(* A jump lands on an instruction, not on the count of an OP_SETLIST.       *)
checkdest(pt, dest) ==
  /\ dest \in 0 .. sizecode(pt) - 1
  /\ pt.code[dest].op # "COUNT"

checkargs(pt, pc, i) ==
  LET mode == luaP_opmodes(i.op)
  IN CASE mode.m = "iABC" -> checkArgMode(pt, i.b, mode.b) /\ checkArgMode(pt, i.c, mode.c)
       [] mode.m = "iABx" -> mode.b = "K" => i.b < Len(pt.k)
       [] mode.m = "iAsBx" -> mode.b = "R" => checkdest(pt, pc + 1 + i.b)

(* The checks of single operations                                          *)
checkop(pt, pc, i, protos) ==
  LET size == sizecode(pt)
      next == pt.code[pc + 1]
      open(n) == n = MULTRET => luaG_checkopenop(next)
  IN CASE i.op = "LOADBOOL" -> i.c = 1 => pc + 2 < size /\ ~(next.op = "SETLIST" /\ next.c = 0)
       [] i.op \in {"GETUPVAL", "SETUPVAL"} -> i.b < pt.nups
       [] i.op \in {"GETGLOBAL", "SETGLOBAL"} -> pt.k[i.b + 1][1] = "string"
       [] i.op = "SELF" -> checkreg(pt, i.a + 1)
       [] i.op = "CONCAT" -> i.b < i.c
       [] i.op = "TFORLOOP" -> i.c >= 1 /\ checkreg(pt, i.a + 2 + i.c)
       [] i.op \in {"FORLOOP", "FORPREP"} -> checkreg(pt, i.a + 3)
       [] i.op \in {"CALL", "TAILCALL"} ->
            /\ i.b # 0 => checkreg(pt, i.a + i.b - 1)
            /\ open(i.c - 1)
            /\ i.c - 1 > 0 => checkreg(pt, i.a + i.c - 2)
       [] i.op = "RETURN" -> i.b - 1 > 0 => checkreg(pt, i.a + i.b - 2)
       [] i.op = "SETLIST" ->
            /\ i.b > 0 => checkreg(pt, i.a + i.b)
            /\ i.c = 0 => pc + 1 < size - 1
       [] i.op = "CLOSURE" ->
            /\ i.b < Len(pt.p)
            /\ pc + protos[pt.p[i.b + 1]].nups < size
            /\ \A j \in 1 .. protos[pt.p[i.b + 1]].nups : pt.code[pc + j].op \in {"GETUPVAL", "MOVE"}
       [] i.op = "VARARG" ->
            /\ "ISVARARG" \in pt.is_vararg /\ "NEEDSARG" \notin pt.is_vararg
            /\ open(i.b - 1)
            /\ checkreg(pt, i.a + i.b - 2)
       [] OTHER -> TRUE

checkinstruction(pt, pc, protos) ==
  LET i == pt.code[pc]
  IN /\ checkreg(pt, i.a)
     /\ checkargs(pt, pc, i)
     /\ luaP_opmodes(i.op).t => pc + 2 < sizecode(pt) /\ pt.code[pc + 1].op = "JMP"
     /\ checkop(pt, pc, i, protos)

(* symbexec with NO_REG: every instruction, the counts left out             *)
luaG_checkcode(pt, protos) ==
  /\ precheck(pt)
  /\ \A pc \in DOMAIN pt.code : pt.code[pc].op # "COUNT" => checkinstruction(pt, pc, protos)

----------------------------------------------------------------------------
(* Whether an instruction may change a register *)
changes(i, reg) ==
  \/ luaP_opmodes(i.op).a /\ i.a = reg
  \/ i.op = "LOADNIL" /\ reg \in i.a .. i.b
  \/ i.op = "SELF" /\ reg = i.a + 1
  \/ i.op = "TFORLOOP" /\ reg >= i.a + 2
  \/ i.op \in {"CALL", "TAILCALL"} /\ reg >= i.a

(* Mutant: no jump is taken.                                                *)
tracedStraight(pt, pc, lastpc, protos) ==
  LET i == pt.code[pc]
  IN CASE i.op = "CLOSURE" -> pc + 1 + protos[pt.p[i.b + 1]].nups
       [] i.op = "SETLIST" /\ i.c = 0 -> pc + 2
       [] OTHER -> pc + 1

(* The instruction traced after the one at pc: a jump forward is taken, the *)
(* upvalues of a closure and the count of a list are not instructions.      *)
traced(pt, pc, lastpc, protos) ==
  LET i == pt.code[pc]
      dest == pc + 1 + i.b
  IN CASE i.op \in {"JMP", "FORLOOP", "FORPREP"} /\ pc < dest /\ dest <= lastpc -> dest
       [] i.op = "CLOSURE" -> pc + 1 + protos[pt.p[i.b + 1]].nups
       [] i.op = "SETLIST" /\ i.c = 0 -> pc + 2
       [] OTHER -> pc + 1

RECURSIVE symbexec(_, _, _, _, _, _)
symbexec(pt, pc, lastpc, reg, last, protos) ==
  IF pc >= lastpc THEN pt.code[last]
  ELSE symbexec(pt, traced(pt, pc, lastpc, protos), lastpc, reg,
                IF changes(pt.code[pc], reg) THEN pc ELSE last, protos)

(* The n-th local variable that is active at pc, in the order of the list   *)
luaF_getlocalname(pt, number, pc) ==
  LET active == SelectSeq(pt.locvars, LAMBDA l : l.startpc <= pc /\ pc < l.endpc)
  IN IF number \in DOMAIN active THEN active[number].varname ELSE ""

kname(pt, c) ==
  IF ISK(c) /\ pt.k[INDEXK(c) + 1][1] = "string" THEN pt.k[INDEXK(c) + 1][2][1] ELSE "?"

NoName == [kind |-> "", name |-> ""]

RECURSIVE getobjname(_, _, _, _)
getobjname(pt, pc, stackpos, protos) ==
  LET name == luaF_getlocalname(pt, stackpos + 1, pc)
      i == symbexec(pt, 0, pc, stackpos, sizecode(pt) - 1, protos)
      Named(kind, n) == [kind |-> kind, name |-> n]
  IN IF name # "" THEN Named("local", name)
     ELSE CASE i.op = "GETGLOBAL" -> Named("global", pt.k[i.b + 1][2][1])
            [] i.op = "MOVE" /\ i.b < i.a -> getobjname(pt, pc, i.b, protos)
            [] i.op = "GETTABLE" -> Named("field", kname(pt, i.c))
            [] i.op = "GETUPVAL" -> Named("upvalue", pt.upvalues[i.b + 1].name)
            [] i.op = "SELF" -> Named("method", kname(pt, i.c))
            [] OTHER -> NoName

(* luaG_typeerror: a name for the operand, if it is a register              *)
luaG_typeerror(pt, pc, operand, protos) ==
  IF operand < 0 THEN NoName ELSE getobjname(pt, pc, operand, protos)
=============================================================================
