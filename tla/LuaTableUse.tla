------------------------------ MODULE LuaTableUse ------------------------------
(***************************************************************************)
(* One table in use: the machine, the library and the constructor set its  *)
(* fields, metamethods are looked for in it, the collector goes over it    *)
(* and a script traverses it, in any order.                                *)
(***************************************************************************)
EXTENDS LuaTable

CONSTANTS Fields,   \* the keys that scripts use
          Values,   \* the values they set, but nil
          NoKey     \* there is no traversal

(* Keys that are asked for: fields, events, the indices of the array and    *)
(* one more.                                                               *)
Indexes == 1 .. MAX_INT + 1
Places == Fields \cup {Num(i) : i \in Indexes} \cup {Event(e) : e \in FlaggedEvents}

ASSUME SizesAssumption == MAXASIZE \in Nat /\ MAX_INT \in Nat /\ 2 * MAXASIZE <= MAX_INT
ASSUME FieldsAssumption ==
  /\ \A key \in Fields :
       /\ key[1] \notin {"nil", "dead"}
       /\ IsNumber(key) => key[2] \in -MAX_INT .. MAX_INT /\ key = Num(key[2])
       /\ key[1] = "bool" => key[2] \in BOOLEAN
  /\ \A key \in Places : key[1] # "bool" => Hash(key) \in Int
ASSUME NothingAssumption == Nil \notin Values /\ NoKey \notin Fields \cup {Nil}

VARIABLES table,
          at,       \* the key a traversal has come to: nil before the first
          seen      \* the keys it has come to

vars == <<table, at, seen>>

Init == table = luaH_new(0, 0) /\ at = NoKey /\ seen = {}

(* A script that sets a field that has no value must not go on with next.  *)
Given(key) == IF luaH_get(table, key) = Nil THEN at' = NoKey /\ seen' = {} ELSE UNCHANGED <<at, seen>>

(* luaV_settable and lua_rawset; where __newindex is called instead there  *)
(* is only a place made for the key.                                       *)
Set(key, val) == Given(key) /\ table' = Store(luaH_set(table, key), key, val)
SetElsewhere(key) ==
  luaH_get(table, key) = Nil /\ Given(key) /\ table' = luaH_set(table, key)

(* lua_rawseti and the items of OP_SETLIST. *)
SetIndex(key, val) ==
  IsNumber(key) /\ Given(key) /\ table' = Store(luaH_setnum(table, key), key, val)

(* OP_SETLIST, while a constructor makes the table. *)
Grow(n) ==
  /\ at = NoKey /\ n > sizearray(table)
  /\ table' = luaH_resizearray(table, n) /\ UNCHANGED <<at, seen>>

(* luaT_gettm: an event, of those that are set at times, is noted as absent. *)
Look(e) ==
  /\ Event(e) \in Fields /\ luaH_get(table, Event(e)) = Nil
  /\ table' = [table EXCEPT !.flags = @ \cup {e}] /\ UNCHANGED <<at, seen>>

(* The keys of entries without a value may be freed next. *)
removeentry(node) ==
  IF node.val = Nil /\ iscollectable(node.key) THEN [node EXCEPT !.key = Dead(@)] ELSE node
traversetable(t) == [t EXCEPT !.node = [n \in 1 .. sizenode(t) |-> removeentry(t.node[n])]]
Collect == table' = traversetable(table) /\ UNCHANGED <<at, seen>>

(* A call of next; an invalid key, and no more entries, end a traversal.   *)
Start == at = NoKey /\ at' = Nil /\ seen' = {} /\ UNCHANGED table
Traverse ==
  /\ at # NoKey /\ UNCHANGED table
  /\ LET entry == IF findindex(table, at) = -1 THEN <<Nil>> ELSE luaH_next(table, at)
     IN IF entry[1] = Nil THEN at' = Nil /\ seen' = {}
        ELSE at' = entry[1] /\ seen' = seen \cup {entry[1]}

Next ==
  \/ \E key \in Fields :
       SetElsewhere(key) \/ \E val \in Values \cup {Nil} : Set(key, val) \/ SetIndex(key, val)
  \/ \E n \in 1 .. MAXASIZE : Grow(n)
  \/ \E e \in FlaggedEvents : Look(e)
  \/ Collect \/ Start \/ Traverse

Spec == Init /\ [][Next]_vars

--------------------------------------------------------------------------------
(* Array, nodes, links and traversal have their types, and a node without  *)
(* a live key has no value.                                                *)
TypeOK ==
  /\ table.array \in Seq(Values \cup {Nil}) /\ sizearray(table) <= MAX_INT
  /\ \A n \in 1 .. sizenode(table) :
       LET node == table.node[n]
       IN /\ node.val \in Values \cup {Nil} /\ node.next \in 0 .. sizenode(table)
          /\ \/ node.key \in Fields
             \/ node.val = Nil /\ (node.key = Nil \/ node.key \in {Dead(key) : key \in Fields})
  /\ sizenode(table) > 0 /\ table.flags \subseteq FlaggedEvents
  /\ at \in Fields \cup {Nil, NoKey} /\ seen \subseteq Fields

(* No metamethod that is there is noted as absent (flags of lobject.h).    *)
FlagsRight == \A e \in table.flags : luaH_get(table, Event(e)) = Nil

(* The table stays well formed: newkey and rehash leave every key where    *)
(* luaH_get looks for it, through collisions, moved nodes and dead keys,   *)
(* and every way to set a key forgets which metamethods were absent.       *)
TableOK == WellFormed(table) /\ FlagsRight

(* luaH_getn finds a border, by halving and doubling, wherever the indices *)
(* are, and when doubling leaves the integers.                             *)
LengthIsBorder == IsBorder(table, luaH_getn(table))

(* A rehash makes room for the key it is for: luaH_set, which newkey calls *)
(* again, does not come back to rehash.                                    *)
RehashOnce ==
  \A key \in Fields :
    LET grown == rehash(table, key)
    IN Rehashes(table, key) => Present(grown, key) \/ ~Crowded(grown, key)

(* A table is a map, and next visits each of its fields once, whatever is  *)
(* changed, cleared and collected meanwhile.                               *)
Map == INSTANCE LuaMap WITH map <- [key \in Fields |-> luaH_get(table, key)]
IsMap == Map!Spec
================================================================================
