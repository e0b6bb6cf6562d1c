------------------------------ MODULE AssetLoader ------------------------------
(***************************************************************************)
(* Project.m and Asset.m: the two threads that share the project's assets. *)
(*                                                                         *)
(* The main thread runs the scripts.  A script calls load_assets,          *)
(* unload_assets and is_load_complete, and anything it runs looks assets   *)
(* up by name.  The loader thread (assetLoader) sleeps until there is a    *)
(* load queue and then loads it.  Both use one NSConditionLock whose       *)
(* condition is 0 when there is nothing to load and 1 when there is; the   *)
(* lookups and is_load_complete do not take the lock.                      *)
(*                                                                         *)
(* A group the manifest does not know behaves as one with no assets (both  *)
(* enqueue nothing and still wake the loader), so Groups may hold a group  *)
(* whose sequence is empty.  DefaultGroup is the list of engine assets     *)
(* passed to loadDefaultAssetGroup when the Engine is created.             *)
(***************************************************************************)
EXTENDS Naturals, Sequences

CONSTANTS Assets, Names, NoName, Classes, NoAsset, Name, Class,
          Groups, DefaultGroup,
          Manifest,      \* the assets of each group, in file order
          NoGroup,
          MaxRefs,       \* bound: a script stops loading a group at this count
          Reload         \* may a script load a group it has loaded already?

GroupAssets(g) == {Manifest[g][i] : i \in DOMAIN Manifest[g]}

(* loadAssetGroup allocates one Asset object per <asset> element and keeps *)
(* it in that group alone; an element without a name is skipped, so only   *)
(* the engine's own assets can have no name, and names in a group differ.  *)
ASSUME ManifestAssumption ==
  /\ NoAsset \notin Assets
  /\ NoName \notin Names
  /\ Name \in [Assets -> Names \cup {NoName}]
  /\ Class \in [Assets -> Classes]
  /\ DefaultGroup \in Groups /\ NoGroup \notin Groups
  /\ Manifest \in [Groups -> Seq(Assets)]
  /\ \A g \in Groups : \A i, j \in DOMAIN Manifest[g] :
        i # j => Manifest[g][i] # Manifest[g][j]
  /\ \A g, h \in Groups : g # h => GroupAssets(g) \cap GroupAssets(h) = {}
  /\ \A g \in Groups : \A a, b \in GroupAssets(g) :
        Name[a] = Name[b] /\ Name[a] # NoName => a = b
  /\ \A g \in Groups \ {DefaultGroup} : \A a \in GroupAssets(g) :
        Name[a] # NoName

ASSUME BoundAssumption == MaxRefs \in Nat \ {0} /\ Reload \in BOOLEAN

VARIABLES
  condition,       \* the condition of m_lock: 0 idle, 1 something to load
  owner,           \* the thread that holds m_lock
  m_loadQueue, m_refs, m_assets, m_defaultAssets,
  mainPc, callGroup, callWait,       \* where the main thread is, its arguments
  ask, torn, found,                  \* the lookup in progress and its result
  loaderPc, pos,                     \* where the loader thread is in the queue
  known,           \* ghost: the script saw completion and loaded nothing since
  asked,           \* ghost: the last command for a group was load_assets
  claim            \* ghost: the group whose load was the last command to touch a
                   \* name, NoGroup once a group with that name is unloaded

lockVars   == <<condition, owner>>
storeVars  == <<m_loadQueue, m_refs, m_assets, m_defaultAssets>>
callVars   == <<mainPc, callGroup, callWait>>
lookupVars == <<ask, torn, found>>
loaderVars == <<loaderPc, pos>>
ghostVars  == <<known, asked, claim>>
vars == <<lockVars, storeVars, callVars, lookupVars, loaderVars, ghostVars>>

(* Project.initWithPath has created the lock with condition 0 and detached *)
(* the loader; Engine then calls loadDefaultAssetGroup.                    *)
Init == /\ condition = 0 /\ owner = "none"
        /\ m_loadQueue = <<>>
        /\ m_refs = [a \in Assets |-> 0]
        /\ m_assets = [n \in Names |-> NoAsset]
        /\ m_defaultAssets = [c \in Classes |-> NoAsset]
        /\ mainPc = "load" /\ callGroup = DefaultGroup /\ callWait = TRUE
        /\ ask \in Names \X Classes /\ torn = FALSE /\ found = NoAsset
        /\ loaderPc = "idle" /\ pos = 1
        /\ known = FALSE
        /\ asked = [g \in Groups |-> FALSE]
        /\ claim = [n \in Names |-> NoGroup]

--------------------------------------------------------------------------------
(* The lock. *)

LockWhenCondition(c, thread) == /\ owner = "none" /\ condition = c
                                /\ owner' = thread
                                /\ UNCHANGED condition

UnlockWithCondition(c) == owner' = "none" /\ condition' = c

--------------------------------------------------------------------------------
(* The main thread. *)

(* The documented obligation of a project: the assets that are loaded at   *)
(* one time have different names.  A script can only keep it for groups: a *)
(* group counts until it is unloaded, whether its assets loaded or failed. *)
InUse(g) == asked[g] \/ \E a \in GroupAssets(g) : m_refs[a] > 0

NamesFree(g) == \A h \in Groups \ {g} : InUse(h) =>
                  \A a \in GroupAssets(g), b \in GroupAssets(h) : Name[a] # Name[b]

(* Ghost: a command for group g has settled whose its names are. *)
ClaimedFor(g, owning) == [n \in Names |-> IF \E a \in GroupAssets(g) : Name[a] = n
                                          THEN owning ELSE claim[n]]

(* l_loadAssets, up to the lock. *)
CallLoadAssets(g, wait) ==
  /\ mainPc = "script"
  /\ NamesFree(g)
  /\ Reload \/ ~asked[g]
  /\ \A a \in GroupAssets(g) : m_refs[a] < MaxRefs
  /\ mainPc' = "load" /\ callGroup' = g /\ callWait' = wait
  /\ UNCHANGED <<lockVars, storeVars, lookupVars, loaderVars, ghostVars>>

(* Mutant of LockToLoad: the request does not take the lock. *)
LockToLoadUnlocked ==
  /\ mainPc = "load"
  /\ mainPc' = "enqueue"
  /\ UNCHANGED <<lockVars, storeVars, callGroup, callWait, lookupVars, loaderVars,
                 ghostVars>>

LockToLoad ==
  /\ mainPc = "load"
  /\ LockWhenCondition(0, "main")
  /\ mainPc' = "enqueue"
  /\ UNCHANGED <<storeVars, callGroup, callWait, lookupVars, loaderVars, ghostVars>>

(* Mutant of Enqueue: the lock is released with the idle condition. *)
EnqueueIdle ==
  /\ mainPc = "enqueue"
  /\ m_loadQueue' = m_loadQueue \o Manifest[callGroup]
  /\ UnlockWithCondition(0)
  /\ mainPc' = IF callWait THEN "wait" ELSE "script"
  /\ known' = FALSE
  /\ asked' = [asked EXCEPT ![callGroup] = TRUE]
  /\ claim' = ClaimedFor(callGroup, callGroup)
  /\ UNCHANGED <<m_refs, m_assets, m_defaultAssets, callGroup, callWait,
                 lookupVars, loaderVars>>

(* The body of loadAssets (and, with callWait, of loadDefaultAssetGroup    *)
(* and loadAsset).                                                         *)
Enqueue ==
  /\ mainPc = "enqueue"
  /\ m_loadQueue' = m_loadQueue \o Manifest[callGroup]
  /\ UnlockWithCondition(1)
  /\ mainPc' = IF callWait THEN "wait" ELSE "script"
  /\ known' = FALSE
  /\ asked' = [asked EXCEPT ![callGroup] = TRUE]
  /\ claim' = ClaimedFor(callGroup, callGroup)
  /\ UNCHANGED <<m_refs, m_assets, m_defaultAssets, callGroup, callWait,
                 lookupVars, loaderVars>>

(* waitUntilLoadComplete: lockWhenCondition:0, then unlockWithCondition:0. *)
WaitUntilLoadComplete ==
  /\ mainPc = "wait"
  /\ owner = "none" /\ condition = 0
  /\ mainPc' = "script"
  /\ known' = TRUE
  /\ UNCHANGED <<lockVars, storeVars, callGroup, callWait, lookupVars,
                 loaderVars, asked, claim>>

(* l_unloadAssets, up to the lock; nobody asks whether the group is loaded. *)
CallUnloadAssets(g) ==
  /\ mainPc = "script"
  /\ mainPc' = "unload" /\ callGroup' = g
  /\ UNCHANGED <<lockVars, storeVars, callWait, lookupVars, loaderVars, ghostVars>>

LockToUnload ==
  /\ mainPc = "unload"
  /\ LockWhenCondition(0, "main")
  /\ mainPc' = "remove"
  /\ UNCHANGED <<storeVars, callGroup, callWait, lookupVars, loaderVars, ghostVars>>

(* Asset.unload of every loaded asset of a group. *)
Unloaded(g) == [a \in Assets |-> IF a \in GroupAssets(g) /\ m_refs[a] > 0
                                 THEN m_refs[a] - 1 ELSE m_refs[a]]

(* Mutant of WithoutNames: a name is removed only with the asset's last     *)
(* reference.                                                              *)
NamesOfLast(g) == [n \in Names |->
                    IF \E a \in GroupAssets(g) : Name[a] = n /\ m_refs[a] <= 1
                    THEN NoAsset ELSE m_assets[n]]

(* The names of the group's assets are removed, loaded or not. *)
WithoutNames(g) == [n \in Names |-> IF \E a \in GroupAssets(g) : Name[a] = n
                                    THEN NoAsset ELSE m_assets[n]]

(* The body of unloadAssets. *)
Remove ==
  /\ mainPc = "remove"
  /\ m_refs' = Unloaded(callGroup)
  /\ m_assets' = WithoutNames(callGroup)
  /\ UnlockWithCondition(0)
  /\ mainPc' = "script"
  /\ asked' = [asked EXCEPT ![callGroup] = FALSE]
  /\ claim' = ClaimedFor(callGroup, NoGroup)
  /\ UNCHANGED <<m_loadQueue, m_defaultAssets, callGroup, callWait, lookupVars,
                 loaderVars, known>>

(* l_isLoadComplete reads the condition without taking the lock. *)
IsLoadComplete ==
  /\ mainPc = "script"
  /\ condition = 0
  /\ known' = TRUE
  /\ UNCHANGED <<lockVars, storeVars, callVars, lookupVars, loaderVars,
                 asked, claim>>

(* assetWithName:type: reads m_assets without the lock.  The read takes    *)
(* time; if the loader writes the dictionary during it, the read is torn.  *)
LookupBegin(n, c) ==
  /\ mainPc = "script"
  /\ mainPc' = "lookup"
  /\ ask' = <<n, c>>
  /\ torn' = (loaderPc = "store")
  /\ UNCHANGED <<lockVars, storeVars, callGroup, callWait, found, loaderVars,
                 ghostVars>>

(* Mutant of AssetWithName: any asset of the name will do. *)
AssetOfAnyClass(n, c) == IF m_assets[n] = NoAsset THEN m_defaultAssets[c] ELSE m_assets[n]

(* A name that finds nothing, or an asset of another class, finds the      *)
(* default asset of the class.                                             *)
AssetWithName(n, c) ==
  LET object == m_assets[n]
  IN  IF object = NoAsset \/ Class[object] # c THEN m_defaultAssets[c] ELSE object

LookupEnd ==
  /\ mainPc = "lookup"
  /\ mainPc' = "found"
  /\ \/ /\ torn
        /\ found' \in Assets \cup {NoAsset}
     \/ /\ ~torn
        /\ found' = AssetWithName(ask[1], ask[2])
  /\ UNCHANGED <<lockVars, storeVars, callGroup, callWait, ask, torn, loaderVars,
                 ghostVars>>

(* The caller is done with the result. *)
LookupReturn ==
  /\ mainPc = "found"
  /\ mainPc' = "script"
  /\ found' = NoAsset /\ torn' = FALSE
  /\ UNCHANGED <<lockVars, storeVars, callGroup, callWait, ask, loaderVars,
                 ghostVars>>

--------------------------------------------------------------------------------
(* The loader thread. *)

LockToWork ==
  /\ loaderPc = "idle"
  /\ LockWhenCondition(1, "loader")
  /\ loaderPc' = "load" /\ pos' = 1
  /\ UNCHANGED <<storeVars, callVars, lookupVars, ghostVars>>

(* The asset of the queue the loader is at. *)
Current == m_loadQueue[pos]

(* Asset.load: an asset already in memory only gains a reference; another  *)
(* is read from disk first.                                                *)
LoadAsset ==
  /\ loaderPc = "load"
  /\ pos <= Len(m_loadQueue)
  /\ m_refs' = [m_refs EXCEPT ![Current] = @ + 1]
  /\ loaderPc' = "store"
  /\ torn' = IF mainPc = "lookup" THEN TRUE ELSE torn
  /\ UNCHANGED <<lockVars, m_loadQueue, m_assets, m_defaultAssets, callVars,
                 ask, found, pos, ghostVars>>

(* Mutant of LoadFails: an asset in memory is read again, and can fail. *)
LoadFailsAgain ==
  /\ loaderPc = "load"
  /\ pos <= Len(m_loadQueue)
  /\ pos' = pos + 1
  /\ UNCHANGED <<lockVars, storeVars, callVars, lookupVars, loaderPc, ghostVars>>

(* Reading it failed: the loop goes on to the next asset. *)
LoadFails ==
  /\ loaderPc = "load"
  /\ pos <= Len(m_loadQueue)
  /\ m_refs[Current] = 0
  /\ pos' = pos + 1
  /\ UNCHANGED <<lockVars, storeVars, callVars, lookupVars, loaderPc, ghostVars>>

(* The dictionary write of the loop; a nil name is a default asset. *)
StoreAsset ==
  /\ loaderPc = "store"
  /\ \/ /\ Name[Current] = NoName
        /\ m_defaultAssets' = [m_defaultAssets EXCEPT ![Class[Current]] = Current]
        /\ UNCHANGED m_assets
     \/ /\ Name[Current] # NoName
        /\ m_assets' = [m_assets EXCEPT ![Name[Current]] = Current]
        /\ UNCHANGED m_defaultAssets
  /\ loaderPc' = "load" /\ pos' = pos + 1
  /\ UNCHANGED <<lockVars, m_loadQueue, m_refs, callVars, lookupVars, ghostVars>>

(* Mutant: the condition stays 1. *)
FinishStillWorking ==
  /\ loaderPc = "load"
  /\ pos > Len(m_loadQueue)
  /\ m_loadQueue' = <<>>
  /\ UnlockWithCondition(1)
  /\ loaderPc' = "idle" /\ pos' = 1
  /\ UNCHANGED <<m_refs, m_assets, m_defaultAssets, callVars, lookupVars, ghostVars>>

(* removeAllObjects and unlockWithCondition:0 after the loop. *)
FinishWork ==
  /\ loaderPc = "load"
  /\ pos > Len(m_loadQueue)
  /\ m_loadQueue' = <<>>
  /\ UnlockWithCondition(0)
  /\ loaderPc' = "idle" /\ pos' = 1
  /\ UNCHANGED <<m_refs, m_assets, m_defaultAssets, callVars, lookupVars, ghostVars>>

--------------------------------------------------------------------------------
ScriptGroups == Groups \ {DefaultGroup}

MainCall == \/ \E g \in ScriptGroups, wait \in BOOLEAN : CallLoadAssets(g, wait)
            \/ \E g \in ScriptGroups : CallUnloadAssets(g)
            \/ \E n \in Names, c \in Classes : LookupBegin(n, c)
            \/ IsLoadComplete

MainContinue == \/ LockToLoad \/ Enqueue \/ WaitUntilLoadComplete
                \/ LockToUnload \/ Remove
                \/ LookupEnd \/ LookupReturn

Loader == LockToWork \/ LoadAsset \/ LoadFails \/ StoreAsset \/ FinishWork

Next == MainCall \/ MainContinue \/ Loader

(* Both threads are scheduled: a call that can proceed does, and so does   *)
(* the loader.  What scripts call, and whether they do, is left free.      *)
Fairness == WF_vars(MainContinue) /\ WF_vars(Loader)

Spec == Init /\ [][Next]_vars /\ Fairness

--------------------------------------------------------------------------------
(* Properties. *)

TypeOK ==
  /\ condition \in {0, 1}
  /\ owner \in {"none", "main", "loader"}
  /\ m_loadQueue \in Seq(Assets)
  /\ m_refs \in [Assets -> Nat]
  /\ m_assets \in [Names -> Assets \cup {NoAsset}]
  /\ m_defaultAssets \in [Classes -> Assets \cup {NoAsset}]
  /\ mainPc \in {"script", "load", "enqueue", "wait", "unload", "remove",
                 "lookup", "found"}
  /\ callGroup \in Groups /\ callWait \in BOOLEAN
  /\ ask \in Names \X Classes /\ torn \in BOOLEAN
  /\ found \in Assets \cup {NoAsset}
  /\ loaderPc \in {"idle", "load", "store"}
  /\ pos \in Nat \ {0}
  /\ known \in BOOLEAN
  /\ asked \in [Groups -> BOOLEAN]
  /\ claim \in [Names -> Groups \cup {NoGroup}]

(* A script that has been told the load is complete, and has loaded        *)
(* nothing since, can look assets up although neither the poll nor the     *)
(* lookup takes the lock: the loader is not inside the dictionaries then,  *)
(* and has nothing left to load.                                           *)
CompleteMeansQuiet == known => /\ loaderPc = "idle"
                               /\ m_loadQueue = <<>>
                               /\ ~torn

(* What such a lookup returns is in memory, has the class that was asked   *)
(* for, and unless it is the default asset has the name asked for.         *)
LookupReturnsLoaded ==
  known /\ mainPc = "found" /\ found # NoAsset =>
    /\ m_refs[found] > 0
    /\ Class[found] = ask[2]
    /\ Name[found] = ask[1] \/ found = m_defaultAssets[ask[2]]

(* A name finds only an asset that is in memory and has that name, also    *)
(* while the loader is at work.                                            *)
FindsLoaded ==
  /\ \A n \in Names : m_assets[n] # NoAsset =>
        m_refs[m_assets[n]] > 0 /\ Name[m_assets[n]] = n
  /\ \A c \in Classes : m_defaultAssets[c] # NoAsset =>
        m_refs[m_defaultAssets[c]] > 0 /\ Class[m_defaultAssets[c]] = c

(* Between loads, a named asset is found exactly if it is in memory and    *)
(* the last command that touched its name was a load of its own group: the *)
(* last of any sequence of loads and unloads decides, whatever failed and  *)
(* however often a group was loaded.  unload_assets takes a name away from *)
(* whichever group has it, also when its own group was never loaded.       *)
LastCommandDecides ==
  condition = 0 /\ owner = "none" =>
    \A g \in Groups : \A a \in GroupAssets(g) : Name[a] # NoName =>
      (m_assets[Name[a]] = a <=> claim[Name[a]] = g /\ m_refs[a] > 0)

(* What is being loaded at any time is the assets of one request: a second *)
(* request waits for the first, it is never appended to a queue the loader *)
(* is enumerating.                                                         *)
QueueStableWhileLoading ==
  [][loaderPc # "idle" /\ loaderPc' # "idle" => m_loadQueue' = m_loadQueue]_vars

(* No wait is for ever: every call a script makes returns, and every asset *)
(* that is queued is eventually dealt with.                                *)
NoneWaitsForEver == /\ mainPc # "script" ~> mainPc = "script"
                    /\ m_loadQueue # <<>> ~> m_loadQueue = <<>>

(* The assets of the queue the loader has not dealt with yet. *)
Outstanding == {m_loadQueue[i] : i \in pos .. Len(m_loadQueue)}

(* The two threads implement the store that knows neither: the loader's    *)
(* load and its dictionary write appear as one step.                       *)
Store == INSTANCE AssetStore WITH
  pending <- Outstanding,
  refs    <- [a \in Assets |-> IF loaderPc = "store" /\ a = Current
                               THEN m_refs[a] - 1 ELSE m_refs[a]],
  byName  <- m_assets,
  byClass <- m_defaultAssets

ImplementsStore == Store!Init /\ [][Store!Next]_(Store!storeVars)
================================================================================
