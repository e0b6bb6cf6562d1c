-------------------------------- MODULE MCLuaGC --------------------------------
(***************************************************************************)
(* Three heaps: a weak table with a userdata that has a finalizer; a       *)
(* function closed over a level of a coroutine; and a function with a      *)
(* nested one and a constant.  The registry is the metatable that makes    *)
(* weak and finalizes.                                                     *)
(***************************************************************************)
EXTENDS LuaGC, TLC

CONSTANTS g, r, w,    \* tables
          f, c, o,    \* functions and a method
          p, q, u, main, co, v, s

Symmetry == Permutations(Whites)

MCRank == main :> 1 @@ g :> 2 @@ r :> 3 @@ u :> 4 @@ w :> 5 @@ f :> 6 @@ c :> 7
            @@ p :> 8 @@ q :> 9 @@ co :> 10 @@ v :> 11 @@ s :> 12 @@ o :> 13

MCHash == [x \in Strings |-> 0]

None(S) == [x \in S |-> Nil]
Empty == [n \in Node |-> Nil]

Base == [exists |-> {g, r, main}, meta |-> None(Tables \cup Userdata),
         key |-> [x \in Tables |-> Empty], val |-> [x \in Tables |-> Empty],
         env |-> [x \in Closures \cup Userdata \cup Threads |-> IF x = main THEN g ELSE Nil],
         proto |-> None(Closures), upval |-> None(Closures),
         k |-> None(Protos), inner |-> None(Protos),
         stack |-> [th \in Threads |-> [l \in Level |-> Nil]],
         place |-> [x \in UpVals |-> Closed], value |-> None(UpVals)]

WithUserdata(kk, m) ==
  [Base EXCEPT !.exists = @ \cup {w, u}, !.meta[w] = m, !.meta[u] = r, !.env[u] = g,
               !.key[w][1] = kk, !.val[w][1] = u, !.stack[main][1] = w]

WithClosure ==
  [Base EXCEPT !.exists = @ \cup {c, q, co, v, w},
               !.proto[c] = q, !.env[c] = g, !.env[co] = g, !.upval[c] = v,
               !.place[v] = <<co, 1>>, !.stack[co][1] = w,
               !.val[g][1] = co, !.key[g][1] = Number, !.stack[main][1] = c]

WithFunction ==
  [Base EXCEPT !.exists = @ \cup {f, p, q, s},
               !.proto[f] = p, !.inner[p] = q, !.k[p] = s, !.env[f] = g,
               !.key[g][1] = Number, !.val[g][1] = f]

MCFiles == {[c |-> f, p |-> p, inner |-> q, k |-> s], [c |-> c, p |-> q, inner |-> Nil, k |-> Nil]}

MCHeaps == {WithUserdata(u, r), WithClosure, WithFunction}
================================================================================
