---------------------------- MODULE LuaCompiler ----------------------------
(* A chunk is compiled and run: the parser and the code generator make the  *)
(* code, luaV_execute runs it, and the result is compared with what the     *)
(* manual says the chunk means.                                             *)
EXTENDS LuaParser, LuaVM, LuaChunk, LuaSemantics

CONSTANTS Denotation(_, _, _), \* Meaning of LuaSemantics, for a chunk, globals and arguments
          Programs,           \* families of chunks
          Globals,            \* initial values of the global variables
          MaxSteps            \* bound: instructions that a chunk may run

VARIABLES prog,               \* the chunk
          expected,           \* its meaning
          steps               \* instructions run so far

vars == <<prog, expected, steps, status, chunks, run>>

Init ==
  /\ \E family \in DOMAIN Programs : prog \in Programs[family]
  /\ expected = <<>> /\ steps = 0
  /\ \E g \in Globals : InitVM(g)

Load ==
  /\ lua_load(Block(prog))
  /\ expected' = Denotation(prog, G, <<Num(1), Num(2)>>)
  /\ UNCHANGED <<prog, steps>>

Run ==
  /\ lua_call \/ Execute
  /\ steps' = steps + 1
  /\ UNCHANGED <<prog, expected>>

Ended == status \in {"done", "error", "rejected"} /\ UNCHANGED vars

Next == Load \/ Run \/ Ended

Spec == Init /\ [][Next]_vars

(* A chunk whose meaning is finite ends (no jump goes to a wrong place and  *)
(* makes it run on); if without error, it has emitted and returned what the *)
(* manual says, and one that fails has emitted what it emits before the     *)
(* error: the parser, the code generator and luaV_execute together.         *)
MeaningKept ==
  /\ steps <= MaxSteps
  /\ status = "done" => /\ expected.ok /\ out = expected.out /\ result = expected.vs
  /\ status = "error" => ~expected.ok /\ out = expected.out

(* The mapping from arguments to parameters and to the vararg expression,   *)
(* manual 2.5.9: "g(3)  a=3, b=nil, ... --> (nothing)".                      *)
ParametersBound == status = "done" => result = expected.vs

(* Every function that is generated passes the code checker (the assertion  *)
(* of close_func), and the asserts of the parser and the generator hold.    *)
CodeChecks ==
  status = "loaded" => \A i \in DOMAIN chunks.protos :
                   /\ chunks.protos[i].sane
                   /\ luaG_checkcode(chunks.protos[i], chunks.protos)

(* The jumps of a function, which the code keeps as offsets                 *)
Jumping(p) == {pc \in DOMAIN p.code : p.code[pc].op \in {"JMP", "FORLOOP", "FORPREP"}}

(* What one function may need too much of: room for its jumps, constants    *)
(* and functions inside it                                                  *)
Oversized(p) ==
  \/ Cardinality(DOMAIN p.code) > MAXARG_sBx
  \/ Len(p.k) > MAXARG_Bx \/ Len(p.p) > MAXARG_Bx

(* A chunk is rejected when it breaks a rule of the language or goes over a *)
(* limit: variables in scope (given back when their block ends), upvalues,  *)
(* all the variables a function declares (which nothing gives back), the    *)
(* length of a jump, constants, functions inside a function.  One that does *)
(* none of this is loaded, at the level of C calls it was parsed from, with *)
(* every jump within what its instruction can hold.  (No chunk of Programs  *)
(* comes to the limit of registers or of nested rules.)                     *)
RejectedRightly ==
  LET wellformed == WellFormed(prog, [vars |-> LUAI_MAXVARS, all |-> SHRT_MAX, ups |-> LUAI_MAXUPVALUES])
      functions == ToSet(chunks.protos)
  IN /\ status = "loaded" =>
          /\ wellformed /\ chunks.levels = 0
          /\ \A p \in functions :
               /\ Len(p.k) <= MAXARG_Bx /\ Len(p.p) <= MAXARG_Bx
               /\ \A pc \in Jumping(p) : p.code[pc].b \in -MAXARG_sBx .. MAXARG_sBx
     /\ status = "rejected" => ~wellformed \/ \E p \in functions : Oversized(p)

(* What is dumped of a function *)
Saved(f, strip) ==
  [source |-> IF strip THEN "=?" ELSE "source",
   code |-> f.code, k |-> f.k, p |-> f.p, nups |-> f.nups,
   upvalues |-> IF strip THEN <<>> ELSE [i \in DOMAIN f.upvalues |-> [name |-> f.upvalues[i].name]],
   locvars |-> IF strip THEN <<>> ELSE f.locvars,
   maxstacksize |-> f.maxstacksize, numparams |-> f.numparams, is_vararg |-> f.is_vararg]

(* A chunk that was dumped, stripped or not, is loaded as it was, at the    *)
(* level of C calls it was loaded from; one that was cut short is an error. *)
DumpKept ==
  status = "loaded" => \A strip \in BOOLEAN :
    LET d == luaU_dump(chunks.protos, strip)
        u == luaU_undump(d)
    IN /\ ~u.err /\ u.units = <<>> /\ u.nCcalls = 0
       /\ u.protos = [i \in DOMAIN chunks.protos |-> Saved(chunks.protos[i], strip)]
       /\ \A n \in {0, Len(d) \div 2, Len(d) - 1} : luaU_undump(SubSeq(d, 1, n)).err

(* The assertion of luaV_execute: the top is the frame's, but between an    *)
(* instruction with an open number of results and the one that takes them;  *)
(* and slots above the top are nil, which adjust_varargs and luaD_precall   *)
(* count on for missing arguments.                                          *)
TopKept ==
  status = "running" =>
    /\ Frame.base <= top
    /\ Frame.tfor \/ top = Frame.top \/ luaG_checkopenop(I)
    /\ \A i \in top .. Slots - 1 : stack[i] = Nil

(* An error message names no variable but the one whose value is wrong,     *)
(* though symbexec follows the code only forwards and in one pass.          *)
NamesRight ==
  LET who == expected.who
      said == luaG_typeerror(pt, Frame.pc, wrong, chunks.protos)
  IN (status = "error" /\ I.op # "TFORLOOP") =>
       \/ said = NoName
       \/ said.kind = "upvalue" /\ who = [kind |-> "local", name |-> said.name]
       \/ said.kind = "field" /\ said.name = "?" /\ who.kind = "field"
       \/ said = who
============================================================================
