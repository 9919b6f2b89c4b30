------------------------------- MODULE LuaVM -------------------------------
(* luaV_execute over the code the parser makes: one action per instruction. *)
(* The stack is one array shared by the frames, as in the code; a frame's   *)
(* registers start at its base and top is L->top.  A value is a tuple whose *)
(* tag comes first.  Function 0 is a C function that records its arguments  *)
(* and returns them; there are no metatables, so an operand of the wrong    *)
(* type is an error, which ends the run.                                    *)
EXTENDS LuaCode, SequencesExt

CONSTANTS Slots,              \* size of the stack array
          Compile(_)          \* luaY_parser, which f_parser calls for a source

VARIABLES status,             \* "source", "loaded", "running", "done", "error", "rejected"
          chunks,             \* what luaY_parser made
          stack, top, ci,     \* the stack, L->top and the CallInfo array
          uv,                 \* upvalues: at = a stack slot while open, else -1
          cl,                 \* Lua closures: prototype and upvalues
          tab,                \* tables, as functions from keys to values
          G,                  \* global variables
          out,                \* argument lists of the calls of function 0
          result,             \* what the main function returned
          wrong               \* the operand an error message is about

heap == <<uv, cl, tab, G>>
run == <<stack, top, ci, uv, cl, tab, G, out, result, wrong>>

Frame == Last(ci)
base == Frame.base
Proto(id) == chunks.protos[cl[id].p]
Self == stack[Frame.func][2]
pt == Proto(Self)
I == pt.code[Frame.pc]
RA == base + I.a
RB == base + I.b
K(n) == pt.k[n + 1]
RK_(r) == IF ISK(r) THEN K(INDEXK(r)) ELSE stack[base + r]
RKB == RK_(I.b)
RKC == RK_(I.c)

Op(op) == status = "running" /\ ~Frame.tfor /\ I.op = op

l_isfalse(v) == v = Nil \/ v = Bool(FALSE)
IsNum(v) == v[1] = "number"
IsStr(v) == v[1] = "string"
IsTab(v) == v[1] = "table"
IsFun(v) == v[1] = "function"

Get(t, k) == IF k \in DOMAIN t THEN t[k] ELSE Nil
Put(t, k, v) == (k :> v) @@ t

At(pc) == ci' = [ci EXCEPT ![Len(ci)].pc = pc]
Skip(n) == At(Frame.pc + n)
dojump(n) == At(Frame.pc + 1 + n)

(* The jump that follows a test, taken or skipped *)
TestJump(taken) ==
  IF taken THEN At(Frame.pc + 2 + pt.code[Frame.pc + 1].b) ELSE Skip(2)

Store(slot, v) == stack' = [stack EXCEPT ![slot] = v]

Clear(stk, from, to) ==
  [i \in DOMAIN stk |-> IF i \in from .. to - 1 THEN Nil ELSE stk[i]]

Ends(s) == status' = s /\ UNCHANGED <<chunks, stack, top, ci, uv, cl, tab, G, out, result>>

(* luaG_typeerror about operand o: a register, or a constant (-1)           *)
Raise(o) == Ends("error") /\ wrong' = o

RKpos(r) == IF ISK(r) THEN -1 ELSE r

rest == <<status, chunks, result, wrong>>

----------------------------------------------------------------------------
(* Moves, variables and tables *)

SetRegister(v) == Store(RA, v) /\ Skip(1) /\ UNCHANGED <<top, heap, out, rest>>

OP_MOVE == Op("MOVE") /\ SetRegister(stack[RB])

OP_LOADK == Op("LOADK") /\ SetRegister(K(I.b))

OP_LOADBOOL ==
  /\ Op("LOADBOOL")
  /\ Store(RA, Bool(I.b = 1))
  /\ Skip(IF I.c # 0 THEN 2 ELSE 1)
  /\ UNCHANGED <<top, heap, out, rest>>

OP_LOADNIL ==
  /\ Op("LOADNIL")
  /\ stack' = Clear(stack, RA, RB + 1)
  /\ Skip(1) /\ UNCHANGED <<top, heap, out, rest>>

Upvalue(u) == IF uv[u].at >= 0 THEN stack[uv[u].at] ELSE uv[u].v

OP_GETUPVAL == Op("GETUPVAL") /\ SetRegister(Upvalue(cl[Self].upvals[I.b + 1]))

OP_GETGLOBAL == Op("GETGLOBAL") /\ SetRegister(Get(G, K(I.b)))

OP_GETTABLE ==
  /\ Op("GETTABLE")
  /\ IF IsTab(stack[RB]) THEN SetRegister(Get(tab[stack[RB][2]], RKC)) ELSE Raise(I.b)

OP_SETGLOBAL ==
  /\ Op("SETGLOBAL")
  /\ G' = Put(G, K(I.b), stack[RA])
  /\ Skip(1) /\ UNCHANGED <<stack, top, uv, cl, tab, out, rest>>

OP_SETUPVAL ==
  LET u == cl[Self].upvals[I.b + 1]
  IN /\ Op("SETUPVAL")
     /\ IF uv[u].at >= 0 THEN Store(uv[u].at, stack[RA]) /\ UNCHANGED uv
        ELSE uv' = [uv EXCEPT ![u].v = stack[RA]] /\ UNCHANGED stack
     /\ Skip(1) /\ UNCHANGED <<top, cl, tab, G, out, rest>>

OP_SETTABLE ==
  /\ Op("SETTABLE")
  /\ IF IsTab(stack[RA])
     THEN /\ tab' = [tab EXCEPT ![stack[RA][2]] = Put(@, RKB, RKC)]
          /\ Skip(1) /\ UNCHANGED <<stack, top, uv, cl, G, out, rest>>
     ELSE Raise(I.a)

OP_NEWTABLE ==
  /\ Op("NEWTABLE")
  /\ tab' = Append(tab, <<>>)
  /\ Store(RA, <<"table", Len(tab) + 1>>)
  /\ Skip(1) /\ UNCHANGED <<top, uv, cl, G, out, rest>>

(* The object goes to ra+1 first, and ra+1 may be the register of rb.       *)
OP_SELF ==
  LET o == stack[RB]
  IN /\ Op("SELF")
     /\ IF IsTab(o)
        THEN stack' = [stack EXCEPT ![RA + 1] = o, ![RA] = Get(tab[o[2]], RKC)]
             /\ Skip(1) /\ UNCHANGED <<top, heap, out, rest>>
        ELSE Raise(I.b)

----------------------------------------------------------------------------
(* Operators *)

OP_ARITH ==
  /\ status = "running" /\ ~Frame.tfor /\ I.op \in {"ADD", "SUB", "MUL", "DIV", "MOD", "POW"}
  /\ IF IsNum(RKB) /\ IsNum(RKC) THEN SetRegister(Num(Arith(I.op, RKB[2], RKC[2])))
     ELSE Raise(RKpos(IF IsNum(RKB) THEN I.c ELSE I.b))

OP_UNM ==
  /\ Op("UNM")
  /\ IF IsNum(stack[RB]) THEN SetRegister(Num(-stack[RB][2])) ELSE Raise(I.b)

OP_NOT == Op("NOT") /\ SetRegister(Bool(l_isfalse(stack[RB])))

(* luaH_getn of a sequence (LuaTable has the search for a border)           *)
Border(t) == CHOOSE n \in 0 .. Cardinality(DOMAIN t) :
               /\ Get(t, Num(n + 1)) = Nil
               /\ \A i \in 1 .. n : Get(t, Num(i)) # Nil

OP_LEN ==
  LET v == stack[RB]
  IN /\ Op("LEN")
     /\ CASE IsTab(v) -> SetRegister(Num(Border(tab[v[2]])))
          [] IsStr(v) -> SetRegister(Num(Len(v[2])))
          [] OTHER -> Raise(I.b)

tostring(v) == IF IsNum(v) THEN <<ToString(v[2])>> ELSE v[2]

(* From the last operand to the first, the last two at once: the operand in *)
(* error is the last but one, or else the first wrong one from the right.   *)
luaV_concat(b, c) ==
  LET bad == {r \in b .. c : ~IsNum(stack[base + r]) /\ ~IsStr(stack[base + r])}
      text == FlattenSeq([n \in 1 .. c - b + 1 |-> tostring(stack[base + b + n - 1])])
  IN IF bad # {} THEN Raise(IF c - 1 \in bad THEN c - 1 ELSE Max(bad))
     ELSE /\ stack' = [Clear(stack, RB + 1, base + c + 1) EXCEPT
                         ![RB] = <<"string", text>>, ![RA] = <<"string", text>>]
          /\ Skip(1) /\ UNCHANGED <<top, heap, out, rest>>

OP_CONCAT == Op("CONCAT") /\ luaV_concat(I.b, I.c)

OP_JMP == Op("JMP") /\ dojump(I.b) /\ UNCHANGED <<stack, top, heap, out, rest>>

OP_EQ ==
  /\ Op("EQ")
  /\ TestJump((RKB = RKC) = (I.a = 1))
  /\ UNCHANGED <<stack, top, heap, out, rest>>

OP_LT ==
  /\ Op("LT")
  /\ IF IsNum(RKB) /\ IsNum(RKC)
     THEN TestJump((RKB[2] < RKC[2]) = (I.a = 1)) /\ UNCHANGED <<stack, top, heap, out, rest>>
     ELSE Raise(-1)

OP_LE ==
  /\ Op("LE")
  /\ IF IsNum(RKB) /\ IsNum(RKC)
     THEN TestJump((RKB[2] <= RKC[2]) = (I.a = 1)) /\ UNCHANGED <<stack, top, heap, out, rest>>
     ELSE Raise(-1)

OP_TEST ==
  /\ Op("TEST")
  /\ TestJump(l_isfalse(stack[RA]) # (I.c = 1))
  /\ UNCHANGED <<stack, top, heap, out, rest>>

OP_TESTSET ==
  LET set == l_isfalse(stack[RB]) # (I.c = 1)
  IN /\ Op("TESTSET")
     /\ IF set THEN Store(RA, stack[RB]) ELSE UNCHANGED stack
     /\ TestJump(set)
     /\ UNCHANGED <<top, heap, out, rest>>

----------------------------------------------------------------------------
(* Calls *)

(* The fixed parameters of a vararg function move above the arguments, one  *)
(* by one; `actual' still counts the arguments of the call.                 *)
adjust_varargs(stk, tp, p, actual) ==
  LET n == p.numparams
      t == IF actual < n THEN tp + n - actual ELSE tp
      fixed == t - actual
      move(s, i) == [[s EXCEPT ![t + i - 1] = s[fixed + i - 1]] EXCEPT ![fixed + i - 1] = Nil]
      nvar == actual - n
  IN [stack |-> FoldLeft(move, stk, [i \in 1 .. n |-> i]), base |-> t, top |-> t + n,
      arg |-> [key \in {Num(i) : i \in 1 .. nvar} \cup {Str("n")} |->
                 IF key = Str("n") THEN Num(nvar) ELSE stk[t - nvar + key[2] - 1]],
      ok |-> "NEEDSARG" \in p.is_vararg => nvar >= 0]

(* luaD_precall of a Lua function: its frame, ready to run                  *)
Enter(stk, tp, func, nresults, fresh) ==
  LET p == Proto(stk[func][2])
      v == adjust_varargs(stk, tp, p, tp - func - 1)
      needsarg == "NEEDSARG" \in p.is_vararg
      fix == func + 1 + p.numparams
      a == IF p.is_vararg # {} THEN v
           ELSE [stack |-> Clear(stk, fix, tp), base |-> func + 1, ok |-> TRUE]
      t == a.base + p.maxstacksize
      s == IF needsarg THEN [a.stack EXCEPT ![v.top] = <<"table", Len(tab) + 1>>]
           ELSE a.stack
  IN [stack |-> Clear(s, t, tp), top |-> t, ok |-> a.ok,
      tab |-> IF needsarg THEN Append(tab, v.arg) ELSE tab,
      frame |-> [func |-> func, base |-> a.base, top |-> t, pc |-> 0,
                 nresults |-> nresults, fresh |-> fresh, tfor |-> FALSE]]

(* Mutant: what lies above the results stays there.                         *)
luaD_poscallLeave(stk, tp, first, res, wanted) ==
  LET n == tp - first
      kept == IF wanted = MULTRET THEN n ELSE wanted
      moved == [i \in DOMAIN stk |->
                 IF i \in res .. res + kept - 1
                 THEN IF i - res < n THEN stk[first + i - res] ELSE Nil
                 ELSE stk[i]]
  IN [stack |-> moved, top |-> res + kept]

luaD_poscall(stk, tp, first, res, wanted) ==
  LET n == tp - first
      kept == IF wanted = MULTRET THEN n ELSE wanted
      moved == [i \in DOMAIN stk |->
                 IF i \in res .. res + kept - 1
                 THEN IF i - res < n THEN stk[first + i - res] ELSE Nil
                 ELSE stk[i]]
  IN [stack |-> Clear(moved, res + kept, tp), top |-> res + kept]

(* A C call: function 0 returns its arguments.                              *)
CallC(stk, tp, func, nresults) == luaD_poscall(stk, tp, func + 1, func, nresults)

Arguments(stk, tp, func) == [i \in 1 .. tp - func - 1 |-> stk[func + i]]

(* The stack as OP_CALL leaves it: nothing above the arguments              *)
Pushed == IF I.b # 0 THEN [stack |-> Clear(stack, RA + I.b, top), top |-> RA + I.b]
          ELSE [stack |-> stack, top |-> top]

caller == [ci EXCEPT ![Len(ci)].pc = @ + 1]

OP_CALL_Lua ==
  LET e == Enter(Pushed.stack, Pushed.top, RA, I.c - 1, FALSE)
  IN /\ Op("CALL") /\ IsFun(stack[RA]) /\ stack[RA] # <<"function", 0>>
     /\ IF e.ok
        THEN /\ stack' = e.stack /\ top' = e.top /\ tab' = e.tab
             /\ ci' = Append(caller, e.frame)
             /\ UNCHANGED <<uv, cl, G, out, rest>>
        ELSE Ends("error") /\ wrong' = -1

OP_CALL_C ==
  LET p == CallC(Pushed.stack, Pushed.top, RA, I.c - 1)
  IN /\ Op("CALL") /\ stack[RA] = <<"function", 0>>
     /\ out' = Append(out, Arguments(Pushed.stack, Pushed.top, RA))
     /\ IF I.c = 0 THEN stack' = p.stack /\ top' = p.top
        ELSE stack' = Clear(p.stack, Frame.top, p.top) /\ top' = Frame.top
     /\ ci' = caller /\ UNCHANGED <<heap, rest>>

OP_CALL_error ==
  /\ Op("CALL") \/ Op("TAILCALL")
  /\ ~IsFun(stack[RA]) /\ Raise(I.a)

Closed(level) ==
  [u \in DOMAIN uv |-> IF uv[u].at >= level THEN [at |-> -1, v |-> stack[uv[u].at]]
                       ELSE uv[u]]

(* A tail call puts the new frame in place of the previous one.             *)
OP_TAILCALL_Lua ==
  LET e == Enter(Pushed.stack, Pushed.top, RA, MULTRET, FALSE)
      func == Frame.func
      n == e.top - RA
      moved == [i \in DOMAIN stack |->
                  IF i \in func .. func + n - 1 THEN e.stack[RA + i - func] ELSE e.stack[i]]
  IN /\ Op("TAILCALL") /\ IsFun(stack[RA]) /\ stack[RA] # <<"function", 0>>
     /\ IF e.ok
        THEN /\ uv' = Closed(base)
             /\ stack' = Clear(moved, func + n, e.top) /\ top' = func + n
             /\ ci' = [ci EXCEPT ![Len(ci)] =
                         [@ EXCEPT !.base = func + (e.frame.base - RA), !.top = func + n,
                                   !.pc = 0]]
             /\ tab' = e.tab /\ UNCHANGED <<cl, G, out, rest>>
        ELSE Ends("error") /\ wrong' = -1

OP_TAILCALL_C ==
  LET p == CallC(Pushed.stack, Pushed.top, RA, MULTRET)
  IN /\ Op("TAILCALL") /\ stack[RA] = <<"function", 0>>
     /\ out' = Append(out, Arguments(Pushed.stack, Pushed.top, RA))
     /\ stack' = p.stack /\ top' = p.top
     /\ ci' = caller /\ UNCHANGED <<heap, rest>>

OP_RETURN ==
  LET cut == IF I.b # 0 THEN RA + I.b - 1 ELSE top
      p == luaD_poscall(Clear(stack, cut, top), cut, RA, Frame.func, Frame.nresults)
      below == ci[Len(ci) - 1]
      fixed == ~Frame.fresh /\ Frame.nresults # MULTRET
  IN /\ Op("RETURN")
     /\ uv' = Closed(base)
     /\ ci' = Front(ci)
     /\ IF fixed THEN stack' = Clear(p.stack, below.top, p.top) /\ top' = below.top
        ELSE stack' = p.stack /\ top' = p.top
     /\ IF Len(ci) = 1
        THEN status' = "done" /\ result' = [i \in 1 .. p.top |-> p.stack[i - 1]]
        ELSE UNCHANGED <<status, result>>
     /\ UNCHANGED <<cl, tab, G, out, chunks, wrong>>

----------------------------------------------------------------------------
(* Loops *)

OP_FORPREP ==
  /\ Op("FORPREP")
  /\ IF \A i \in 0 .. 2 : IsNum(stack[RA + i])
     THEN /\ Store(RA, Num(stack[RA][2] - stack[RA + 2][2]))
          /\ dojump(I.b) /\ UNCHANGED <<top, heap, out, rest>>
     ELSE Raise(-1)

OP_FORLOOP ==
  LET step == stack[RA + 2][2]
      idx == stack[RA][2] + step
      limit == stack[RA + 1][2]
  IN /\ Op("FORLOOP")
     /\ IF IF 0 < step THEN idx <= limit ELSE limit <= idx
        THEN /\ stack' = [stack EXCEPT ![RA] = Num(idx), ![RA + 3] = Num(idx)]
             /\ dojump(I.b)
        ELSE Skip(1) /\ UNCHANGED stack
     /\ UNCHANGED <<top, heap, out, rest>>

(* The generator, the state and the control variable are copied and called. *)
Generator ==
  LET cb == RA + 3
      s == [stack EXCEPT ![cb] = stack[RA], ![cb + 1] = stack[RA + 1],
                         ![cb + 2] = stack[RA + 2]]
  IN Clear(s, cb + 3, top)

waiting == [ci EXCEPT ![Len(ci)].tfor = TRUE]

OP_TFORLOOP ==
  LET e == Enter(Generator, RA + 6, RA + 3, I.c, TRUE)
      p == CallC(Generator, RA + 6, RA + 3, I.c)
  IN /\ Op("TFORLOOP")
     /\ CASE stack[RA] = <<"function", 0>> ->
               /\ out' = Append(out, Arguments(Generator, RA + 6, RA + 3))
               /\ stack' = p.stack /\ top' = p.top /\ ci' = waiting
               /\ UNCHANGED <<heap, rest>>
          [] IsFun(stack[RA]) /\ stack[RA] # <<"function", 0>> ->
               IF e.ok THEN /\ stack' = e.stack /\ top' = e.top /\ tab' = e.tab
                            /\ ci' = Append(waiting, e.frame)
                            /\ UNCHANGED <<uv, cl, G, out, rest>>
               ELSE Ends("error") /\ wrong' = -1
          [] OTHER -> Raise(I.a + 3)

(* The rest of OP_TFORLOOP, when luaD_call has returned                     *)
TFORLOOP_returned ==
  LET cb == RA + 3
      s == Clear(stack, Frame.top, top)
      go == s[cb] # Nil
  IN /\ status = "running" /\ Frame.tfor
     /\ stack' = IF go THEN [s EXCEPT ![cb - 1] = s[cb]] ELSE s
     /\ top' = Frame.top
     /\ ci' = [ci EXCEPT ![Len(ci)].tfor = FALSE,
                 ![Len(ci)].pc = IF go THEN @ + 2 + pt.code[@ + 1].b ELSE @ + 2]
     /\ UNCHANGED <<heap, out, rest>>

----------------------------------------------------------------------------
(* Constructors and functions *)

OP_SETLIST ==
  LET n == IF I.b = 0 THEN top - RA - 1 ELSE I.b
      c == IF I.c = 0 THEN pt.code[Frame.pc + 1].b ELSE I.c
      first == (c - 1) * LFIELDS_PER_FLUSH
      items == [k \in {Num(first + i) : i \in 1 .. n} |-> stack[RA + k[2] - first]]
  IN /\ Op("SETLIST")
     /\ tab' = [tab EXCEPT ![stack[RA][2]] = items @@ @]
     /\ stack' = Clear(stack, Frame.top, top) /\ top' = Frame.top
     /\ Skip(IF I.c = 0 THEN 2 ELSE 1)
     /\ UNCHANGED <<uv, cl, G, out, rest>>

OP_CLOSE ==
  /\ Op("CLOSE")
  /\ uv' = Closed(RA)
  /\ Skip(1) /\ UNCHANGED <<stack, top, cl, tab, G, out, rest>>

(* The pseudo-instructions after OP_CLOSURE name the upvalues: luaF_findupval *)
(* shares the open upvalue of a register, or makes one.                     *)
OP_CLOSURE ==
  LET p == pt.p[I.b + 1]
      nup == chunks.protos[p].nups
      ref(j) == pt.code[Frame.pc + j]
      slots == {base + ref(j).b : j \in {j \in 1 .. nup : ref(j).op = "MOVE"}}
      fresh == SetToSortSeq({s \in slots : \A u \in DOMAIN uv : uv[u].at # s}, <)
      new == uv \o [i \in DOMAIN fresh |-> [at |-> fresh[i], v |-> Nil]]
      find(s) == CHOOSE u \in DOMAIN new : new[u].at = s
      up(j) == IF ref(j).op = "GETUPVAL" THEN cl[Self].upvals[ref(j).b + 1]
               ELSE find(base + ref(j).b)
  IN /\ Op("CLOSURE")
     /\ uv' = new
     /\ cl' = Append(cl, [p |-> p, upvals |-> [j \in 1 .. nup |-> up(j)]])
     /\ Store(RA, <<"function", Len(cl) + 1>>)
     /\ Skip(1 + nup) /\ UNCHANGED <<top, tab, G, out, rest>>

OP_VARARG ==
  LET n == base - Frame.func - pt.numparams - 1
      b == IF I.b = 0 THEN n ELSE I.b - 1
      s == IF I.b = 0 THEN Clear(stack, RA + n, top) ELSE stack
  IN /\ Op("VARARG")
     /\ stack' = [i \in DOMAIN s |->
                    IF i \in RA .. RA + b - 1
                    THEN IF i - RA < n THEN stack[base - n + i - RA] ELSE Nil
                    ELSE s[i]]
     /\ top' = IF I.b = 0 THEN RA + n ELSE top
     /\ Skip(1) /\ UNCHANGED <<heap, out, rest>>

----------------------------------------------------------------------------
Execute ==
  \/ OP_MOVE \/ OP_LOADK \/ OP_LOADBOOL \/ OP_LOADNIL
  \/ OP_GETUPVAL \/ OP_GETGLOBAL \/ OP_GETTABLE
  \/ OP_SETGLOBAL \/ OP_SETUPVAL \/ OP_SETTABLE
  \/ OP_NEWTABLE \/ OP_SELF \/ OP_ARITH \/ OP_UNM \/ OP_NOT \/ OP_LEN \/ OP_CONCAT
  \/ OP_JMP \/ OP_EQ \/ OP_LT \/ OP_LE \/ OP_TEST \/ OP_TESTSET
  \/ OP_CALL_Lua \/ OP_CALL_C \/ OP_CALL_error
  \/ OP_TAILCALL_Lua \/ OP_TAILCALL_C \/ OP_RETURN
  \/ OP_FORLOOP \/ OP_FORPREP \/ OP_TFORLOOP \/ TFORLOOP_returned
  \/ OP_SETLIST \/ OP_CLOSE \/ OP_CLOSURE \/ OP_VARARG

(* lua_load: f_parser makes the main function, or the chunk is rejected.    *)
lua_load(tokens) ==
  LET c == Compile(tokens)
  IN /\ status = "source"
     /\ chunks' = c
     /\ cl' = <<[p |-> Len(c.protos), upvals |-> <<>>]>>
     /\ status' = IF c.err THEN "rejected" ELSE "loaded"
     /\ UNCHANGED <<stack, top, ci, uv, tab, G, out, result, wrong>>

(* The host calls the main function with two arguments.                     *)
lua_call ==
  LET s == [stack EXCEPT ![0] = <<"function", 1>>, ![1] = Num(1), ![2] = Num(2)]
      e == Enter(s, 3, 0, MULTRET, TRUE)
  IN /\ status = "loaded"
     /\ status' = "running"
     /\ stack' = e.stack /\ top' = e.top /\ ci' = <<e.frame>>
     /\ UNCHANGED <<chunks, heap, out, result, wrong>>

InitVM(globals) ==
  /\ status = "source" /\ chunks = [protos |-> <<>>, err |-> FALSE, levels |-> 0]
  /\ stack = [i \in 0 .. Slots - 1 |-> Nil] /\ top = 0 /\ ci = <<>>
  /\ uv = <<>> /\ cl = <<>> /\ tab = <<>> /\ G = globals
  /\ out = <<>> /\ result = <<>> /\ wrong = -1
============================================================================
