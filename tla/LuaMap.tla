-------------------------------- MODULE LuaMap --------------------------------
(***************************************************************************)
(* What a table promises to a script: it is a map, and a traversal visits  *)
(* each field once that has a value, while the script may change and clear *)
(* those that have one.  A field that had none, once it is assigned to,    *)
(* makes an end of the traversal.                                          *)
(***************************************************************************)
CONSTANTS Fields, Values,
          Nil,      \* what a field has that was never set
          NoKey     \* there is no traversal

VARIABLES map,      \* what each field has
          at,       \* the field a traversal is at; Nil before the first one
          seen      \* the fields it has visited

Init == map = [k \in Fields |-> Nil] /\ at = NoKey /\ seen = {}

Assign(k, v) ==
  /\ map' = [map EXCEPT ![k] = v]
  /\ IF map[k] = Nil THEN at' = NoKey /\ seen' = {} ELSE UNCHANGED <<at, seen>>

Start == at = NoKey /\ at' = Nil /\ seen' = {} /\ UNCHANGED map

Visit(k) ==
  /\ at # NoKey /\ map[k] # Nil /\ k \notin seen
  /\ at' = k /\ seen' = seen \cup {k} /\ UNCHANGED map

(* The end of a traversal; another one may begin. *)
Finish ==
  /\ at # NoKey /\ \A k \in Fields : map[k] # Nil => k \in seen
  /\ at' = Nil /\ seen' = {} /\ UNCHANGED map

Next ==
  \/ \E k \in Fields : Visit(k) \/ \E v \in Values \cup {Nil} : Assign(k, v)
  \/ Start \/ Finish

Spec == Init /\ [][Next]_<<map, at, seen>>
================================================================================
