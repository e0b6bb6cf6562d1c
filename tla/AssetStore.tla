------------------------------ MODULE AssetStore ------------------------------
(***************************************************************************)
(* What the asset store of a Project promises a script, without the loader *)
(* thread, the lock or the order of the load queue: a request names a set  *)
(* of assets, every one of them is later loaded (reference counted, and    *)
(* findable from that very step on) or fails to load, and the store is     *)
(* changed by a command only while no requested asset is outstanding.      *)
(***************************************************************************)
EXTENDS Naturals

CONSTANTS Assets,     \* Asset objects the project created
          Names,      \* names an asset can have
          NoName,     \* the nil name of a default asset
          Classes,    \* Asset subclasses
          NoAsset,    \* nil
          Name,       \* [Assets -> Names \cup {NoName}]
          Class       \* [Assets -> Classes]

VARIABLES pending,    \* requested assets that are not yet loaded or refused
          refs,       \* reference count of each asset
          byName,     \* the asset a name finds
          byClass     \* the default asset of a class

storeVars == <<pending, refs, byName, byClass>>

Init == /\ pending = {}
        /\ refs = [a \in Assets |-> 0]
        /\ byName = [n \in Names |-> NoAsset]
        /\ byClass = [c \in Classes |-> NoAsset]

(* A new set of assets is requested; never while another is outstanding.   *)
Request(S) == /\ pending = {}
              /\ pending' = S
              /\ UNCHANGED <<refs, byName, byClass>>

(* An outstanding asset becomes loaded and findable in one step.           *)
Publish(a) ==
  /\ a \in pending
  /\ pending' = pending \ {a}
  /\ refs' = [refs EXCEPT ![a] = @ + 1]
  /\ \/ /\ Name[a] = NoName
        /\ byClass' = [byClass EXCEPT ![Class[a]] = a]
        /\ UNCHANGED byName
     \/ /\ Name[a] # NoName
        /\ byName' = [byName EXCEPT ![Name[a]] = a]
        /\ UNCHANGED byClass

(* Only an asset that is not in memory can fail to load.                   *)
Refuse(a) == /\ a \in pending
             /\ refs[a] = 0
             /\ pending' = pending \ {a}
             /\ UNCHANGED <<refs, byName, byClass>>

(* One reference to each asset of a group goes, and all their names.       *)
Unload(S) ==
  /\ pending = {}
  /\ refs' = [a \in Assets |-> IF a \in S /\ refs[a] > 0 THEN refs[a] - 1
                                                         ELSE refs[a]]
  /\ byName' = [n \in Names |-> IF \E a \in S : Name[a] = n THEN NoAsset
                                                            ELSE byName[n]]
  /\ UNCHANGED <<pending, byClass>>

Next == \/ \E S \in SUBSET Assets : Request(S) \/ Unload(S)
        \/ \E a \in Assets : Publish(a) \/ Refuse(a)

Spec == Init /\ [][Next]_storeVars
===============================================================================
