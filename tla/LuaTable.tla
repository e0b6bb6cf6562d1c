------------------------------- MODULE LuaTable -------------------------------
(***************************************************************************)
(* The tables of Lua: ltable.c.  A table is an array, and a vector of      *)
(* nodes in which colliding keys are chained (chained scatter with Brent's *)
(* variation).  A node is [key, val, next]; positions begin at 1, and 0 is *)
(* no node.  All nodes from lastfree on have been used.                    *)
(*                                                                         *)
(* No operator here is RECURSIVE, so that LuaTable_proofs can reason about *)
(* them: a loop is a function of how often it has been run, up to a bound  *)
(* it never reaches.                                                       *)
(***************************************************************************)
EXTENDS LuaOpcodes, FiniteSets

CONSTANTS Hash(_),    \* the hash of a string or a number, the address of an object
          MAXASIZE,   \* the greatest index that rehash counts for the array: 2^26
          MAX_INT     \* the greatest index: 2^31 - 3

(* What the collector makes of the key of an entry without a value.        *)
Dead(key) == <<"dead", key>>
iscollectable(v) == v[1] \notin {"nil", "bool", "num", "dead"}

(* The key of a metamethod; the events that flags are kept of, those up to *)
(* TM_EQ, without __gc and __mode.                                         *)
Event(e) == Str("__" \o e)
FlaggedEvents == {"index", "newindex", "eq"}

NULL == 0
FreeNode == [key |-> Nil, val |-> Nil, next |-> NULL]

sizearray(t) == Len(t.array)
sizenode(t) == Len(t.node)

(* An integer key; 0 for a key that is not one. *)
arrayindex(key) == IF IsNumber(key) THEN key[2] ELSE 0
InArray(t, key) == arrayindex(key) \in 1 .. sizearray(t)

hashmod(h, n) == h % (IF n % 2 = 0 THEN n - 1 ELSE n)
HashIn(key, n) == CASE IsString(key) -> Hash(key) % n
                    [] key = Num(0) -> 0
                    [] key[1] = "bool" -> (IF key[2] THEN 1 ELSE 0) % n
                    [] OTHER -> hashmod(Hash(key), n)
mainposition(t, key) == 1 + HashIn(key, sizenode(t))

(* The chain from node n on, as far as to the first of the nodes that are  *)
(* looked for; NULL if none is on it.  It has no more nodes than the table.*)
Search(t, n, wanted) ==
  LET onward == [m \in 0 .. sizenode(t) |-> IF m = NULL \/ m \in wanted THEN m ELSE t.node[m].next]
      at[i \in 0 .. sizenode(t)] == IF i = 0 THEN n ELSE onward[at[i - 1]]
  IN at[sizenode(t)]

Holding(t, key) == {n \in 1 .. sizenode(t) : t.node[n].key = key}
NodeOf(t, key) == Search(t, mainposition(t, key), Holding(t, key))

Present(t, key) == key # Nil /\ (InArray(t, key) \/ NodeOf(t, key) # NULL)

ValueOf(t, n) == IF n = NULL THEN Nil ELSE t.node[n].val
luaH_get(t, key) ==
  IF key = Nil THEN Nil
  ELSE IF InArray(t, key) THEN t.array[key[2]] ELSE ValueOf(t, NodeOf(t, key))

(* The value of a key that is present. *)
Store(t, key, val) ==
  IF InArray(t, key) THEN [t EXCEPT !.array[key[2]] = val]
  ELSE [t EXCEPT !.node[NodeOf(t, key)].val = val]

--------------------------------------------------------------------------------
(* The sizes of the two parts. *)
twoto[i \in Nat] == IF i = 0 THEN 1 ELSE 2 * twoto[i - 1]
CeilLog2(x) == CHOOSE i \in 0 .. x : x <= twoto[i] /\ (i > 0 => twoto[i - 1] < x)

setarrayvector(t, size) ==
  [t EXCEPT !.array = [i \in 1 .. size |-> IF i <= Len(@) THEN @[i] ELSE Nil]]

(* Without nodes a table has the one dummynode, which is not written.      *)
NodeVector(t, n) == [t EXCEPT !.node = [i \in 1 .. n |-> FreeNode], !.lastfree = n + 1]
setnodevector(t, size) ==
  IF size = 0 THEN [t EXCEPT !.node = <<FreeNode>>, !.dummy = TRUE, !.lastfree = 1]
  ELSE [NodeVector(t, twoto[CeilLog2(size)]) EXCEPT !.dummy = FALSE]

luaH_new(narray, nhash) ==
  setnodevector([array |-> [i \in 1 .. narray |-> Nil], node |-> <<FreeNode>>, dummy |-> TRUE,
                 lastfree |-> 1, metatable |-> NULL, flags |-> FlaggedEvents], nhash)

(* The keys that have a value. *)
UsedNodes(t) == {n \in 1 .. sizenode(t) : t.node[n].val # Nil}
ArrayKeys(t) == {i \in 1 .. sizearray(t) : t.array[i] # Nil}
Keys(t) == {Num(i) : i \in ArrayKeys(t)} \cup {t.node[n].key : n \in UsedNodes(t)}

(* computesizes: the largest power of two such that more than half of the  *)
(* array would be in use.                                                  *)
Within(indices, n) == Cardinality({i \in indices : i <= n})
GreatestOf(S) == IF S = {} THEN 0 ELSE CHOOSE n \in S : \A m \in S : m <= n
computesizes(indices, n) ==
  GreatestOf({size \in {twoto[i] : i \in 0 .. CeilLog2(n) + 1} :
               size \div 2 < n /\ Within(indices, size) > size \div 2})

--------------------------------------------------------------------------------
(* A new key. *)

(* A free node below lastfree; NULL if there is none. *)
getfreepos(t) == GreatestOf({n \in 1 .. t.lastfree - 1 : t.node[n].key = Nil})

(* The node before n on the chain that begins at a node. *)
Previous(t, n, from) == Search(t, from, {m \in 1 .. sizenode(t) : t.node[m].next = n})

(* A key that is not in the table.  A node in its way that is not in its   *)
(* own main position moves away; one that is gets it as its successor.     *)
Take(t, n, key) == [t EXCEPT !.node[n].key = key]
(* A mutant: the chain still leads to the place that the node has left. *)
MovedAwayUnlinked(t, mp, n, othern) ==
  [t EXCEPT !.node[n] = t.node[mp], !.node[mp] = FreeNode, !.lastfree = n]
MovedAway(t, mp, n, othern) ==
  [t EXCEPT !.node[Previous(t, mp, othern)].next = n, !.node[n] = t.node[mp],
            !.node[mp] = FreeNode, !.lastfree = n]
Chained(t, mp, n) ==
  [t EXCEPT !.node[n].next = t.node[mp].next, !.node[mp].next = n, !.lastfree = n]
Collides(t, key, mp, n, othern) ==
  IF othern # mp THEN Take(MovedAway(t, mp, n, othern), mp, key) ELSE Take(Chained(t, mp, n), n, key)

IsFree(t, n) == t.node[n].val = Nil /\ ~t.dummy
Inserted(t, key, mp, n) ==
  IF IsFree(t, mp) THEN Take(t, mp, key)
  ELSE Collides(t, key, mp, n, mainposition(t, t.node[mp].key))

(* No place is left for a key but in a table with more nodes. *)
Crowded(t, key) == ~IsFree(t, mainposition(t, key)) /\ getfreepos(t) = NULL

(* The table with a place for the key, where there is one. *)
Placed(t, key) ==
  IF Present(t, key) THEN t ELSE Inserted(t, key, mainposition(t, key), getfreepos(t))

--------------------------------------------------------------------------------
(* More nodes, or fewer. *)

(* Places of a table are counted through: the array, then the nodes. *)
EntryKey(t, i) == IF i <= sizearray(t) THEN Num(i) ELSE t.node[i - sizearray(t)].key
EntryValue(t, i) == IF i <= sizearray(t) THEN t.array[i] ELSE t.node[i - sizearray(t)].val

(* The entries of the old table are put in again: those of its array that  *)
(* are not in the new one, from the first to the last, by luaH_setnum, and *)
(* those of its nodes, from the last to the first, by luaH_set.  A newkey  *)
(* among them finds a place: a table has room for what it is made for.     *)
Refilled(t, old) ==
  LET kept == IF sizearray(t) < sizearray(old) THEN sizearray(t) ELSE sizearray(old)
      places == sizearray(old) + sizenode(old)
      place(i) == IF i <= sizearray(old) THEN i ELSE places + sizearray(old) + 1 - i
      cleared(s, i) == IF i <= sizearray(old) THEN s ELSE [s EXCEPT !.flags = {}]
      filled[i \in kept .. places] ==
        IF i = kept THEN t
        ELSE LET s == cleared(filled[i - 1], i)
                 key == EntryKey(old, place(i))
                 val == EntryValue(old, place(i))
             IN IF val = Nil THEN filled[i - 1] ELSE Store(Placed(s, key), key, val)
  IN filled[places]
resize(t, nasize, nhsize) == Refilled(setnodevector(setarrayvector(t, nasize), nhsize), t)

luaH_resizearray(t, nasize) == resize(t, nasize, IF t.dummy THEN 0 ELSE sizenode(t))

(* All keys, the new one too, in an array of nasize or in the nodes.       *)
Distributed(t, n, indices, nasize) == resize(t, nasize, n - Within(indices, nasize))
Counted(t, n, indices) == Distributed(t, n, indices, computesizes(indices, Cardinality(indices)))
Indices(keys) == {i \in {arrayindex(k) : k \in keys} : i \in 1 .. MAXASIZE}
Rehashed(t, keys) == Counted(t, Cardinality(keys), Indices(keys))
rehash(t, ek) == Rehashed(t, Keys(t) \cup {ek})

(* After a rehash the key is put in by luaH_set. *)
newkey(t, key) ==
  IF Crowded(t, key) THEN Placed([rehash(t, key) EXCEPT !.flags = {}], key) ELSE Placed(t, key)

(* luaH_setnum, luaH_setstr, luaH_set: the table with a place for the key. *)
luaH_setnum(t, key) == IF Present(t, key) THEN t ELSE newkey(t, key)
(* A mutant: setting what is there keeps the notes of absent metamethods.  *)
luaH_setKeepingFlags(t, key) ==
  IF Present(t, key) THEN t ELSE luaH_setnum([t EXCEPT !.flags = {}], key)
luaH_set(t, key) == luaH_setnum([t EXCEPT !.flags = {}], key)

(* luaH_set gives the table new nodes: what points into the old ones is    *)
(* gone.                                                                   *)
Rehashes(t, key) == ~Present(t, key) /\ Crowded(t, key)

--------------------------------------------------------------------------------
(* The length: an i such that t[i] is not nil and t[i + 1] is. *)
BinarySearch(t, i, j) ==
  LET halved(p, m) ==
        IF p[2] - p[1] <= 1 THEN p
        ELSE IF luaH_get(t, Num(m)) = Nil THEN <<p[1], m>> ELSE <<m, p[2]>>
      range[k \in 0 .. j - i] ==
        IF k = 0 THEN <<i, j>> ELSE LET p == range[k - 1] IN halved(p, (p[1] + p[2]) \div 2)
  IN range[j - i][1]
(* Where doubling goes beyond the integers, the first index without a value *)
(* is looked for from 1 on.                                                *)
LinearSearch(t) ==
  CHOOSE i \in 0 .. MAX_INT :
    luaH_get(t, Num(i + 1)) = Nil /\ \A j \in 1 .. i : luaH_get(t, Num(j)) # Nil
(* Each doubling finds one more node. *)
unbound_search(t, j) ==
  LET ends(p) == p[2] > MAX_INT \/ luaH_get(t, Num(p[2])) = Nil
      range[k \in 0 .. sizenode(t)] ==
        IF k = 0 THEN <<j, j + 1>>
        ELSE LET p == range[k - 1] IN IF ends(p) THEN p ELSE <<p[2], 2 * p[2]>>
      p == range[sizenode(t)]
  IN IF p[2] > MAX_INT THEN LinearSearch(t) ELSE BinarySearch(t, p[1], p[2])
(* A mutant: the array is taken to be full. *)
luaH_getnFull(t) == IF t.dummy THEN sizearray(t) ELSE unbound_search(t, sizearray(t))
luaH_getn(t) ==
  LET j == sizearray(t)
  IN IF j > 0 /\ t.array[j] = Nil THEN BinarySearch(t, 0, j)
     ELSE IF t.dummy THEN j
     ELSE unbound_search(t, j)

(* A traversal goes through the places.  findindex gives -1 for a key that *)
(* is not in the table; a dead one still is.                               *)
Remembering(t, key) ==
  Holding(t, key) \cup (IF iscollectable(key) THEN Holding(t, Dead(key)) ELSE {})
IndexOfNode(t, n) == IF n = NULL THEN -1 ELSE sizearray(t) + n
(* A mutant: a key that was collected is not found. *)
findindexLive(t, key) ==
  IF key = Nil THEN 0
  ELSE IF InArray(t, key) THEN key[2] ELSE IndexOfNode(t, NodeOf(t, key))
findindex(t, key) ==
  IF key = Nil THEN 0
  ELSE IF InArray(t, key) THEN key[2]
  ELSE IndexOfNode(t, Search(t, mainposition(t, key), Remembering(t, key)))
Following(t, from) == {i \in from + 1 .. sizearray(t) + sizenode(t) : EntryValue(t, i) # Nil}
Entry(t, i) == <<EntryKey(t, i), EntryValue(t, i)>>
First(t, rest) == IF rest = {} THEN <<Nil>> ELSE Entry(t, CHOOSE x \in rest : \A y \in rest : x <= y)
luaH_next(t, key) == First(t, Following(t, findindex(t, key)))

--------------------------------------------------------------------------------
(* What holds of a table: what has a value is found from its main position *)
(* on, no key is twice in it, the dummy node is empty, and no free node is *)
(* kept back from getfreepos.                                              *)
WellFormed(t) ==
  /\ \A n \in UsedNodes(t) : ~InArray(t, t.node[n].key) /\ NodeOf(t, t.node[n].key) = n
  /\ t.dummy => t.node = <<FreeNode>>
  /\ ~t.dummy => /\ sizenode(t) = twoto[CeilLog2(sizenode(t))]
                 /\ \A n \in t.lastfree .. sizenode(t) : t.node[n].key # Nil
  /\ \A n \in 1 .. sizenode(t) : t.node[n].next # NULL => t.node[n].key # Nil
(* The border that the length of a table is. *)
IsBorder(t, n) ==
  /\ n = 0 \/ luaH_get(t, Num(n)) # Nil
  /\ luaH_get(t, Num(n + 1)) = Nil
================================================================================
