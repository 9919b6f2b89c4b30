------------------------------ MODULE LuaChunk ------------------------------
(* Precompiled chunks: luaU_dump writes the functions of a chunk and        *)
(* luaU_undump reads them back.  A chunk is a sequence of units, each what  *)
(* one DumpBlock writes and one LoadBlock reads: its kind and its value.    *)
(* Line information is left out, as in the functions of LuaParser.          *)
EXTENDS LuaDebug, SequencesExt

Unit(kind, v) == <<[kind |-> kind, v |-> v]>>

luaU_header == Unit("header", "1Lua")

----------------------------------------------------------------------------
(* Dump *)

DumpInt(n) == Unit("int", n)
DumpChar(c) == Unit("char", c)

(* A string is its size, and then its characters unless it is NULL.         *)
DumpString(s) == IF s = "" THEN Unit("size", 0) ELSE Unit("size", 1) \o Unit("bytes", s)

DumpCode(f) == DumpInt(sizecode(f)) \o Unit("code", f.code)

Each(Dump(_), s) == FlattenSeq([i \in DOMAIN s |-> Dump(s[i])])

DumpConstant(o) ==
  DumpChar(o[1]) \o
  (CASE o[1] = "nil" -> <<>>
     [] o[1] = "boolean" -> DumpChar(o[2])
     [] o[1] = "number" -> Unit("number", o[2])
     [] o[1] = "string" -> DumpString(o[2][1]))

DumpDebug(f, strip) ==
  LET locvars == IF strip THEN <<>> ELSE f.locvars
      upvalues == IF strip THEN <<>> ELSE f.upvalues
  IN DumpInt(Len(locvars))
     \o Each(LAMBDA l : DumpString(l.varname) \o DumpInt(l.startpc) \o DumpInt(l.endpc), locvars)
     \o DumpInt(Len(upvalues)) \o Each(LAMBDA u : DumpString(u.name), upvalues)

(* The source is written for the main function; the others have the same.   *)
RECURSIVE DumpFunction(_, _, _, _)
DumpFunction(i, source, protos, strip) ==
  LET f == protos[i]
  IN DumpString(IF strip THEN "" ELSE source)
     \o DumpChar(f.nups) \o DumpChar(f.numparams) \o DumpChar(f.is_vararg)
     \o DumpChar(f.maxstacksize)
     \o DumpCode(f)
     \o DumpInt(Len(f.k)) \o Each(DumpConstant, f.k)
     \o DumpInt(Len(f.p)) \o Each(LAMBDA j : DumpFunction(j, "", protos, strip), f.p)
     \o DumpDebug(f, strip)

luaU_dump(protos, strip) ==
  luaU_header \o DumpFunction(Len(protos), "source", protos, strip)

----------------------------------------------------------------------------
(* Undump.  S is the LoadState: the units left, the functions loaded, their *)
(* number of nested loads (L->nCcalls) and whether an error was thrown; a   *)
(* step returns S and the value v it has read.                              *)

Loaded(S, v) == [S |-> S, v |-> v]
Thrown(S) == [S EXCEPT !.err = TRUE]

LoadBlock(S, kind) ==
  IF S.err \/ S.units = <<>> THEN Loaded(Thrown(S), 0)
  ELSE IF Head(S.units).kind # kind THEN Loaded(Thrown(S), 0)
  ELSE Loaded([S EXCEPT !.units = Tail(@)], Head(S.units).v)

LoadInt(S) ==
  LET r == LoadBlock(S, "int") IN IF r.v < 0 THEN Loaded(Thrown(r.S), 0) ELSE r

LoadChar(S) == LoadBlock(S, "char")

LoadString(S) ==
  LET size == LoadBlock(S, "size")
  IN IF size.v = 0 THEN Loaded(size.S, "") ELSE LoadBlock(size.S, "bytes")

LoadCode(S) == LoadBlock(LoadInt(S).S, "code")

LoadConstant(S) ==
  LET t == LoadChar(S)
      b == LoadChar(t.S)
      n == LoadBlock(t.S, "number")
      s == LoadString(t.S)
  IN IF t.S.err THEN Loaded(t.S, Nil)
     ELSE CASE t.v = "nil" -> Loaded(t.S, Nil)
            [] t.v = "boolean" -> Loaded(b.S, Bool(b.v))
            [] t.v = "number" -> Loaded(n.S, Num(n.v))
            [] t.v = "string" -> Loaded(s.S, Str(s.v))
            [] OTHER -> Loaded(Thrown(t.S), Nil)

LoadLocVar(S) ==
  LET s == LoadString(S)
      start == LoadInt(s.S)
      end == LoadInt(start.S)
  IN Loaded(end.S, [varname |-> s.v, startpc |-> start.v, endpc |-> end.v])

LoadUpvalue(S) == LET s == LoadString(S) IN Loaded(s.S, [name |-> s.v])

(* A vector: its length and its elements, one after the other               *)
LoadVector(Load(_), S) ==
  LET n == LoadInt(S)
      next(r, i) == LET one == Load(r.S) IN Loaded(one.S, Append(r.v, one.v))
  IN FoldLeft(next, Loaded(n.S, <<>>), [i \in 1 .. n.v |-> i])

(* Mutant: the level of a nested function is not given back.                *)
LeaveLevelNot(S) == S

LeaveLevel(S) == [S EXCEPT !.nCcalls = @ - 1]

(* A function, and the functions in it first: it becomes the last of        *)
(* S.protos, and its value is its place there.  Without a source of its own *)
(* it has that of the function around it.                                   *)
RECURSIVE LoadFunction(_, _)
LoadFunction(S, parent) ==
  LET deep == [S EXCEPT !.nCcalls = @ + 1]
      source == LoadString(IF deep.nCcalls > LUAI_MAXCCALLS THEN Thrown(deep) ELSE deep)
      origin == IF source.v = "" THEN parent ELSE source.v
      nups == LoadChar(source.S)
      numparams == LoadChar(nups.S)
      is_vararg == LoadChar(numparams.S)
      maxstacksize == LoadChar(is_vararg.S)
      code == LoadCode(maxstacksize.S)
      k == LoadVector(LoadConstant, code.S)
      p == LoadVector(LAMBDA T : LoadFunction(T, origin), k.S)
      locvars == LoadVector(LoadLocVar, p.S)
      upvalues == LoadVector(LoadUpvalue, locvars.S)
      f == [source |-> origin, code |-> code.v, k |-> k.v, p |-> p.v, nups |-> nups.v,
            upvalues |-> upvalues.v, locvars |-> locvars.v, maxstacksize |-> maxstacksize.v,
            numparams |-> numparams.v, is_vararg |-> is_vararg.v]
      end == upvalues.S
  IN IF end.err THEN Loaded(end, 0)
     ELSE IF ~luaG_checkcode(f, end.protos) THEN Loaded(Thrown(end), 0)
     ELSE Loaded(LeaveLevel([end EXCEPT !.protos = Append(@, f)]), Len(end.protos) + 1)

luaU_undump(units) ==
  LET S == [units |-> units, protos |-> <<>>, nCcalls |-> 0, err |-> FALSE]
      h == LoadBlock(S, "header")
      ok == ~h.S.err /\ Unit("header", h.v) = luaU_header
  IN LoadFunction(IF ok THEN h.S ELSE Thrown(h.S), "=?").S
=============================================================================
