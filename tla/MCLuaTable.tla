----------------------------- MODULE MCLuaTable -----------------------------
(* An instance of LuaTable: the hash of an integer is the sum of the two   *)
(* words of its double; the string and the object collide with others.     *)
EXTENDS LuaTable

CONSTANTS str, obj

MCHash == [k \in Key |-> CASE k = 1 -> 1072693248 [] k = 2 -> 1073741824
                           [] k = 3 -> 1074266112
                           [] k = str -> 2 [] k = obj -> 5]
=============================================================================
