------------------------------ MODULE LuaTable ------------------------------
(***************************************************************************)
(* ltable.c: a table with an array part and a hash part (chained scatter   *)
(* with Brent's variation), rehashing, traversal with luaH_next, the       *)
(* border luaH_getn, and the references that key slots hold.               *)
(*                                                                         *)
(* A table is a record: `array' is the array part, `node' the vector of    *)
(* nodes indexed from 0, `lastfree' the index all free positions lie       *)
(* below, `dummy' whether node is the shared dummynode, `ref' what the key *)
(* slots have added to the counts of the keys, less what they have         *)
(* subtracted, and `nested' whether an insertion made on behalf of a       *)
(* rehash was itself out of room.  A value stored under a key is the key   *)
(* itself, so that a value that turns up under another key is seen.        *)
(***************************************************************************)
EXTENDS Integers, Sequences, FiniteSets, SequencesExt, FiniteSetsExt

CONSTANTS IntKey,     \* integer keys
          StrKey,     \* string keys: hashed modulo the size, collectable
          ObjKey,     \* table and userdata keys: collectable
          Hash,       \* the hash of each key
          Nil,
          MaxBits,    \* MAXBITS: the array part has at most 2^MaxBits slots
          MaxInt,     \* MAX_INT
          MaxPart,    \* bound: the sizes luaH_new and SETLIST ask for
          MaxRef      \* bound: references to a key (freed nodes may leak some)

Key == IntKey \cup StrKey \cup ObjKey
Collectable == StrKey \cup ObjKey

(* twoto[x] is 1 << x.                                                     *)
twoto[x \in 0 .. MaxBits] == IF x = 0 THEN 1 ELSE 2 * twoto[x - 1]

Powers == {twoto[i] : i \in 0 .. MaxBits}

(* There are no more keys than nodes: setnodevector never has to raise     *)
(* "table overflow".                                                       *)
ASSUME TableAssumption ==
  /\ IntKey \subseteq Nat /\ Nil \notin Key /\ \A k \in Collectable : k \notin Nat
  /\ Hash \in [Key -> Nat] /\ MaxBits \in Nat /\ MaxInt \in Nat
  /\ MaxPart \in Nat /\ MaxRef \in Nat
  /\ IsFiniteSet(Key)
  /\ Cardinality(Key) <= twoto[MaxBits] /\ MaxPart <= twoto[MaxBits]

VARIABLES t,        \* the table
          content,  \* what the program has stored: the table's meaning
          trav      \* the traversal with next: see NoTraversal

vars == <<t, content, trav>>

NULL == -1

sizenode(T) == Cardinality(DOMAIN T.node)

(* The smallest power of two that is at least n                            *)
CeilPow2(n) == CHOOSE p \in Powers : p >= n /\ (p = 1 \/ p \div 2 < n)

-----------------------------------------------------------------------------
(* Search                                                                  *)

(* hashpow2 for strings, hashmod for numbers and pointers                  *)
mainposition(T, k) ==
  IF k \in StrKey THEN Hash[k] % sizenode(T)
  ELSE Hash[k] % (IF sizenode(T) <= 2 THEN 1 ELSE sizenode(T) - 1)

arrayindex(k) == IF k \in StrKey \cup ObjKey THEN -1 ELSE k

InArray(T, k) == 0 < arrayindex(k) /\ arrayindex(k) <= Len(T.array)

(* The chain that starts at node i                                         *)
Chain(T, i) ==
  LET chain[n \in 0 .. sizenode(T)] ==
        IF n = 0 THEN <<i>>
        ELSE LET c == chain[n - 1]
                 e == T.node[Last(c)].next
             IN IF e = NULL THEN c ELSE Append(c, e)
  IN chain[sizenode(T)]

(* The nodes of k's chain that hold k: none, or the one luaH_get stops at. *)
NodesOf(T, k) ==
  {i \in ToSet(Chain(T, mainposition(T, k))) : T.node[i].key = k /\ ~T.node[i].dead}

(* An integer outside IntKey, which nobody stores, is in no node.          *)
luaH_get(T, k) ==
  IF InArray(T, k) THEN T.array[k]
  ELSE IF k \notin Key \/ NodesOf(T, k) = {} THEN Nil
  ELSE T.node[CHOOSE i \in NodesOf(T, k) : TRUE].val

(* Is there a slot for k, maybe with a nil in it?                          *)
HasSlot(T, k) == InArray(T, k) \/ NodesOf(T, k) # {}

-----------------------------------------------------------------------------
(* Insertion                                                               *)

FreeNode == [key |-> Nil, val |-> Nil, next |-> NULL, dead |-> FALSE]

(* setnodevector                                                           *)
NodeVector(size) ==
  IF size = 0
  THEN [node |-> [i \in 0 .. 0 |-> FreeNode], lastfree |-> 0, dummy |-> TRUE]
  ELSE [node |-> [i \in 0 .. CeilPow2(size) - 1 |-> FreeNode],
        lastfree |-> CeilPow2(size), dummy |-> FALSE]

Table(array, vec, ref) ==
  [array |-> array, node |-> vec.node, lastfree |-> vec.lastfree,
   dummy |-> vec.dummy, ref |-> ref, nested |-> FALSE]

(* getfreepos: the last free node below lastfree.  A key that has lost its *)
(* value still occupies its node.                                          *)
getfreepos(T) ==
  LET free == {i \in 0 .. T.lastfree - 1 : T.node[i].key = Nil}
  IN IF free = {} THEN NULL ELSE Max(free)

(* Mutant: the moved node's chain is not redone.                           *)
MoveColliderUnlinked(T, mp, n) ==
  [T EXCEPT !.lastfree = n, !.node[n] = T.node[mp], !.node[mp] = FreeNode]

(* The colliding node goes from mp to the free position n, and the chain   *)
(* it belongs to is redone.                                                *)
MoveCollider(T, mp, n) ==
  LET othern == mainposition(T, T.node[mp].key)
      before == CHOOSE i \in ToSet(Chain(T, othern)) : T.node[i].next = mp
  IN [T EXCEPT !.lastfree = n, !.node[n] = T.node[mp], !.node[mp] = FreeNode,
               !.node[IF before = mp THEN n ELSE before].next = n]

(* newkey when it needs no rehash: the table and the node that receives k. *)
Placed(T, k) ==
  LET mp == mainposition(T, k)
      n  == getfreepos(T)
  IN IF T.node[mp].val = Nil /\ ~T.dummy THEN [tab |-> T, at |-> mp]
     ELSE IF mainposition(T, T.node[mp].key) # mp
     THEN [tab |-> MoveCollider(T, mp, n), at |-> mp]
     ELSE [tab |-> [T EXCEPT !.lastfree = n, !.node[n].next = T.node[mp].next,
                             !.node[mp].next = n],
           at |-> n]

(* Must newkey rehash before it can place k?                               *)
Full(T, k) ==
  /\ T.node[mainposition(T, k)].val # Nil \/ T.dummy
  /\ getfreepos(T) = NULL

(* Mutant: the reference of a dead key is given back again.               *)
ReplacedAlways(ref, nd) ==
  [k \in Collectable |-> ref[k] - (IF nd.key = k THEN 1 ELSE 0)]

(* The key of node nd gives back its reference, unless it is dead: then    *)
(* removeentry has done so.                                                *)
Replaced(ref, nd) ==
  [k \in Collectable |-> ref[k] - (IF nd.key = k /\ ~nd.dead THEN 1 ELSE 0)]

(* The nodes in S give back their references.                              *)
GivenUp(ref, node, S) ==
  [k \in Collectable |->
     ref[k] - Cardinality({i \in S : node[i].key = k /\ ~node[i].dead})]

Taken(ref, k) == IF k \in Collectable THEN [ref EXCEPT ![k] = @ + 1] ELSE ref

(* newkey without a rehash, then the store of the value v                  *)
Insert(T, k, v) ==
  IF Full(T, k) THEN [T EXCEPT !.nested = TRUE]
  ELSE LET p == Placed(T, k)
       IN [p.tab EXCEPT !.node[p.at] = [@ EXCEPT !.key = k, !.dead = FALSE, !.val = v],
                        !.ref = Replaced(Taken(@, k), p.tab.node[p.at])]

(* The store into a slot that exists                                       *)
Update(T, k, v) ==
  IF InArray(T, k) THEN [T EXCEPT !.array[k] = v]
  ELSE [T EXCEPT !.node[CHOOSE i \in NodesOf(T, k) : TRUE].val = v]

(* luaH_set or luaH_setnum, and the store, where no rehash is needed       *)
Store(T, k, v) == IF HasSlot(T, k) THEN Update(T, k, v) ELSE Insert(T, k, v)

-----------------------------------------------------------------------------
(* Rehash                                                                  *)

InUse(T) == {i \in DOMAIN T.node : T.node[i].val # Nil}

(* numusearray, numusehash and countint: the integer keys in use, and ek   *)
IntegersInUse(T, ek) ==
  {k \in 1 .. twoto[MaxBits] :
     \/ k = ek
     \/ k <= Len(T.array) /\ T.array[k] # Nil
     \/ \E i \in InUse(T) : T.node[i].key = k}

(* nums[i] is the number of keys in (2^(i-1), 2^i].                        *)
Nums(keys) ==
  [i \in 0 .. MaxBits |->
     Cardinality({k \in keys : k <= twoto[i] /\ (i = 0 \/ k > twoto[i - 1])})]

(* Mutant: at least half of the slots in use are enough, as the header of  *)
(* ltable.c puts it.                                                       *)
HalfUsedOrMore(a, twotoi) == a >= twotoi \div 2

(* "more than half elements present?", the comment of this test           *)
HalfUsed(a, twotoi) == a > twotoi \div 2

(* computesizes: the loop over the slices, which stops early               *)
computesizes(nums, narray) ==
  LET loop[i \in 0 .. MaxBits + 1] ==
        IF i = 0 THEN [a |-> 0, na |-> 0, n |-> 0, stop |-> FALSE]
        ELSE LET s      == loop[i - 1]
                 twotoi == twoto[i - 1]
                 a      == s.a + nums[i - 1]
                 better == nums[i - 1] > 0 /\ HalfUsed(a, twotoi)
             IN IF s.stop \/ twotoi \div 2 >= narray THEN [s EXCEPT !.stop = TRUE]
                ELSE [a |-> a, na |-> IF better THEN a ELSE s.na,
                      n |-> IF better THEN twotoi ELSE s.n, stop |-> a = narray]
  IN loop[MaxBits + 1]

(* The array part with nasize slots                                        *)
ArrayVector(T, nasize) ==
  [k \in 1 .. nasize |-> IF k <= Len(T.array) THEN T.array[k] ELSE Nil]

(* The elements of the vanishing slice are inserted again, first to last.  *)
FromSlice(T, nasize, tab) ==
  LET shrink[i \in 0 .. Len(T.array)] ==
        IF i = 0 THEN tab
        ELSE IF i > nasize /\ T.array[i] # Nil THEN Store(shrink[i - 1], i, T.array[i])
        ELSE shrink[i - 1]
  IN shrink[Len(T.array)]

(* Those of the old hash part are inserted again, last to first.           *)
FromNodes(T, tab) ==
  LET old(i) == T.node[sizenode(T) - i]
      refill[i \in 0 .. sizenode(T)] ==
        IF i = 0 THEN tab
        ELSE IF old(i).val # Nil THEN Store(refill[i - 1], old(i).key, old(i).val)
        ELSE refill[i - 1]
  IN refill[sizenode(T)]

(* Then the old nodes with a value give up their keys; those without one   *)
(* are freed as they are.                                                  *)
resize(T, nasize, nhsize) ==
  LET new   == Table(ArrayVector(T, nasize), NodeVector(nhsize), T.ref)
      moved == FromNodes(T, FromSlice(T, nasize, new))
  IN [moved EXCEPT !.ref = GivenUp(@, T.node, InUse(T))]

(* Mutant: the extra key is not counted.                                   *)
TotalUseWithout(T) ==
  Cardinality({k \in 1 .. Len(T.array) : T.array[k] # Nil}) + Cardinality(InUse(T))

(* totaluse: all the keys in use and the extra key                         *)
TotalUse(T) ==
  Cardinality({k \in 1 .. Len(T.array) : T.array[k] # Nil}) + Cardinality(InUse(T)) + 1

(* The sizes rehash computes for the extra key ek                          *)
NewSizes(T, ek) ==
  LET ints == IntegersInUse(T, ek)
      s    == computesizes(Nums(ints), Cardinality(ints))
  IN [array |-> s.n, hash |-> TotalUse(T) - s.na]

rehash(T, ek) == resize(T, NewSizes(T, ek).array, NewSizes(T, ek).hash)

(* luaH_set with the store of v: a full table is rehashed first.           *)
luaH_set(T, k, v) ==
  IF ~HasSlot(T, k) /\ Full(T, k) THEN Store(rehash(T, k), k, v) ELSE Store(T, k, v)

-----------------------------------------------------------------------------
(* The border                                                              *)

(* Bisection between i, present or zero, and j, absent                     *)
BinarySearch(T, i, j) ==
  LET search[n \in 0 .. j - i] ==
        IF n = 0 THEN <<i, j>>
        ELSE LET s == search[n - 1]
                 m == (s[1] + s[2]) \div 2
             IN IF s[2] - s[1] <= 1 THEN s
                ELSE IF luaH_get(T, m) = Nil THEN <<s[1], m>> ELSE <<m, s[2]>>
  IN search[j - i][1]

(* unbound_search: j doubles until it is absent; beyond MAX_INT the search *)
(* is linear, and one of the first numbers is absent.                      *)
unbound_search(T, j0) ==
  LET double[n \in 0 .. MaxInt + 1] ==
        IF n = 0 THEN <<j0, j0 + 1>>
        ELSE LET s == double[n - 1]
             IN IF s[2] > MaxInt \/ luaH_get(T, s[2]) = Nil THEN s
                ELSE <<s[2], 2 * s[2]>>
      last == double[MaxInt + 1]
  IN IF last[2] > MaxInt
     THEN Min({i \in 1 .. Cardinality(Key) + 1 : luaH_get(T, i) = Nil}) - 1
     ELSE BinarySearch(T, last[1], last[2])

(* Mutant: the hash part is not looked at.                                 *)
luaH_getnArray(T) ==
  LET j == Len(T.array)
  IN IF j > 0 /\ T.array[j] = Nil THEN BinarySearch(T, 0, j) ELSE j

luaH_getn(T) ==
  LET j == Len(T.array)
  IN IF j > 0 /\ T.array[j] = Nil THEN BinarySearch(T, 0, j)
     ELSE IF T.dummy THEN j
     ELSE unbound_search(T, j)

-----------------------------------------------------------------------------
(* Traversal                                                               *)

(* Mutant: a dead key is not recognised.                                   *)
FoundLiveOnly(nd, k) == nd.key = k /\ ~nd.dead

(* findindex's test: a dead key may still be given to next.                *)
Found(nd, k) == nd.key = k

Invalid == -2

(* The places in k's chain of the nodes that hold k, dead or not           *)
Places(T, k) ==
  LET chain == Chain(T, mainposition(T, k))
  IN {n \in 1 .. Len(chain) : Found(T.node[chain[n]], k)}

FirstNode(T, k) == Chain(T, mainposition(T, k))[Min(Places(T, k))]

(* Mutant: the nodes are not numbered after the array part.                *)
findindexNode(T, k) ==
  IF k = Nil THEN -1
  ELSE IF InArray(T, k) THEN k - 1
  ELSE IF Places(T, k) = {} THEN Invalid ELSE FirstNode(T, k)

(* findindex: the position of k, counted from 0, array part first          *)
findindex(T, k) ==
  IF k = Nil THEN -1
  ELSE IF InArray(T, k) THEN k - 1
  ELSE IF Places(T, k) = {} THEN Invalid ELSE Len(T.array) + FirstNode(T, k)

ValueAt(T, p) ==
  IF p < Len(T.array) THEN T.array[p + 1] ELSE T.node[p - Len(T.array)].val

KeyAt(T, p) ==
  IF p < Len(T.array) THEN p + 1 ELSE T.node[p - Len(T.array)].key

(* The positions after k's that hold a value                               *)
Following(T, k) ==
  {p \in findindex(T, k) + 1 .. Len(T.array) + sizenode(T) - 1 : ValueAt(T, p) # Nil}

-----------------------------------------------------------------------------
(* The garbage collector's part                                            *)

(* removeentry: an empty entry with a collectable key dies and gives back  *)
(* the key's reference.                                                    *)
removeentry(nd) == [nd EXCEPT !.dead = nd.key \in Collectable]

RemoveEmpty(T) ==
  LET empty == {i \in DOMAIN T.node : T.node[i].val = Nil}
  IN [T EXCEPT !.node = [i \in DOMAIN T.node |->
                           IF i \in empty THEN removeentry(T.node[i]) ELSE T.node[i]],
               !.ref = GivenUp(@, T.node, empty)]

-----------------------------------------------------------------------------
(* Behaviour                                                               *)

(* trav: `at' is the key the program would give to next, `seen' the keys   *)
(* next has returned, `must' the keys present all along, `lost' those of   *)
(* them a finished traversal has not returned.                             *)
NoTraversal == [on |-> FALSE, at |-> Nil, seen |-> {}, must |-> {},
                lost |-> {}, invalid |-> FALSE]

luaH_new(narray, nhash) ==
  Table([i \in 1 .. narray |-> Nil], NodeVector(nhash), [k \in Collectable |-> 0])

Init ==
  /\ \E narray, nhash \in 0 .. MaxPart : t = luaH_new(narray, nhash)
  /\ content = [k \in Key |-> Nil]
  /\ trav = NoTraversal

(* t[k] = v.  The manual forbids to assign to a field that does not exist  *)
(* while the table is traversed.                                           *)
Set(k, v) ==
  /\ trav.on => content[k] # Nil
  /\ t' = luaH_set(t, k, v)
  /\ \A c \in Collectable : t'.ref[c] <= MaxRef
  /\ content' = [content EXCEPT ![k] = v]
  /\ trav' = [trav EXCEPT !.must = IF v = Nil THEN @ \ {k} ELSE @]

(* luaH_resizearray                                                        *)
luaH_resizearray(T, nasize) ==
  resize(T, nasize, IF T.dummy THEN 0 ELSE sizenode(T))

(* OP_SETLIST of the n values vals: the array part is grown at once and    *)
(* filled from the end.                                                    *)
SetList(vals) ==
  LET n     == Len(vals)
      grown == IF n > Len(t.array) THEN luaH_resizearray(t, n) ELSE t
      fill[i \in 0 .. n] ==
        IF i = 0 THEN grown ELSE luaH_set(fill[i - 1], n + 1 - i, vals[n + 1 - i])
  IN /\ ~trav.on
     /\ t' = fill[n]
     /\ content' = [k \in Key |-> IF k \in DOMAIN vals THEN vals[k] ELSE content[k]]
     /\ \A c \in Collectable : t'.ref[c] <= MaxRef
     /\ UNCHANGED trav

(* traversetable removes the empty entries.                                *)
TraverseTable ==
  /\ t' = RemoveEmpty(t)
  /\ UNCHANGED <<content, trav>>

(* cleartable takes the entry of k, whose key or value was collected, out  *)
(* of a weak table.                                                        *)
ClearTable(k) ==
  /\ content[k] # Nil
  /\ t' = IF InArray(t, k) THEN Update(t, k, Nil)
          ELSE LET i == CHOOSE i \in NodesOf(t, k) : TRUE
               IN [t EXCEPT !.node[i] = removeentry([@ EXCEPT !.val = Nil]),
                            !.ref = Replaced(@, t.node[i])]
  /\ content' = [content EXCEPT ![k] = Nil]
  /\ trav' = [trav EXCEPT !.must = @ \ {k}]

(* The program starts to traverse the table.                               *)
StartTraversal ==
  /\ ~trav.on
  /\ trav' = [NoTraversal EXCEPT !.on = TRUE, !.must = {k \in Key : content[k] # Nil}]
  /\ UNCHANGED <<t, content>>

luaH_next ==
  /\ trav.on
  /\ LET following == Following(t, trav.at)
         k         == KeyAt(t, Min(following))
     IN trav' = IF findindex(t, trav.at) = Invalid
                THEN [NoTraversal EXCEPT !.invalid = TRUE]
                ELSE IF following = {} THEN [NoTraversal EXCEPT !.lost = trav.must \ trav.seen]
                ELSE [trav EXCEPT !.at = k, !.seen = @ \cup {k}]
  /\ UNCHANGED <<t, content>>

Lists == UNION {[1 .. n -> Key \cup {Nil}] : n \in 1 .. MaxPart}

Next ==
  \/ \E k \in Key : Set(k, k) \/ Set(k, Nil) \/ ClearTable(k)
  \/ \E vals \in {l \in Lists : \A i \in DOMAIN l : l[i] \in {i, Nil}} : SetList(vals)
  \/ TraverseTable
  \/ StartTraversal
  \/ luaH_next

Spec == Init /\ [][Next]_vars

-----------------------------------------------------------------------------
(* Properties                                                              *)

(* Every variable has its type.                                            *)
TypeOK ==
  /\ t.array \in Seq(Key \cup {Nil})
  /\ \A i \in DOMAIN t.node :
       t.node[i] \in [key : Key \cup {Nil}, val : Key \cup {Nil},
                     next : DOMAIN t.node \cup {NULL}, dead : BOOLEAN]
  /\ t.ref \in [Collectable -> Nat]
  /\ content \in [Key -> Key \cup {Nil}]
  /\ trav.at \in Key \cup {Nil} /\ trav.seen \subseteq Key

(* luaH_get finds under every key what the program last stored there,      *)
(* through collisions, moves of nodes, dead keys and rehashes.             *)
GetMatches == \A k \in Key : luaH_get(t, k) = content[k]

(* A rehash makes room for the key that caused it, and for every element   *)
(* resize inserts again: newkey never rehashes inside a rehash.            *)
RehashMakesRoom == ~t.nested

(* rehash gives the array part the largest size n, a power of two, such    *)
(* that more than half of the slots 1 .. n are in use.  This is what       *)
(* computesizes says of itself (ltable.c 202); the header of the file says *)
(* "at least half" (ltable.c 12-13), which is not what the code does: an   *)
(* array of two slots is not made for the key 2 alone.                     *)
ArraySizeOptimal ==
  \A k \in Key :
    LET ints == IntegersInUse(t, k)
        good == {n \in Powers :
                   2 * Cardinality({j \in ints : j <= n}) > n}
    IN ~HasSlot(t, k) /\ Full(t, k) => NewSizes(t, k).array = Max(good \cup {0})

(* luaH_getn returns a boundary: t[n] is present, or n is 0, and t[n+1] is *)
(* absent.                                                                 *)
IsBorder ==
  LET n == luaH_getn(t)
      Present(i) == i \in IntKey /\ content[i] # Nil
  IN (n = 0 \/ Present(n)) /\ ~Present(n + 1)

(* A traversal that only assigns to existing fields never gives an         *)
(* "invalid key to 'next'" and returns every key that stays present, even  *)
(* if the collector removes entries meanwhile.                             *)
NextComplete == trav.lost = {} /\ ~trav.invalid

(* A traversal returns no key twice.                                       *)
NextOnce == [][trav.on /\ trav'.at # trav.at => trav'.at \notin trav.seen]_vars

(* The slots that hold k as a key that is not dead                         *)
KeySlots(k) == {i \in DOMAIN t.node : t.node[i].key = k /\ ~t.node[i].dead}

(* A key in a node that is not dead is covered by a reference: releasing   *)
(* the other references never frees a key that the table can still read.   *)
KeyRefsCover == \A k \in Collectable : t.ref[k] >= Cardinality(KeySlots(k))
=============================================================================
