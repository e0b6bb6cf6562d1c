-------------------------- MODULE AssetLoader_proofs --------------------------
(***************************************************************************)
(* Proofs about the two threads of AssetLoader, for every set of assets    *)
(* and groups and every manifest.                                          *)
(***************************************************************************)
EXTENDS AssetLoader, TLAPS

(* The lock and its condition: who holds it, and what holding it or seeing *)
(* condition 0 implies about the queue and the other thread.               *)
LockInv ==
  /\ owner = "main" <=> mainPc \in {"enqueue", "remove"}
  /\ owner = "loader" <=> loaderPc # "idle"
  /\ owner = "main" => condition = 0
  /\ owner = "loader" => condition = 1
  /\ condition = 0 => m_loadQueue = <<>>
  /\ loaderPc = "idle" => pos = 1
  /\ loaderPc = "store" => /\ pos <= Len(m_loadQueue)
                           /\ m_refs[Current] > 0
  /\ torn => mainPc \in {"lookup", "found"}
  /\ known => condition = 0 /\ ~torn
  /\ mainPc \in {"unload", "remove"} => callGroup # DefaultGroup

(* The queue is the assets of one group, in use; and the default assets of *)
(* the classes are in the engine's own group, which no script can unload.  *)
QueueInv ==
  /\ m_loadQueue # <<>> => \E g \in Groups : asked[g] /\ m_loadQueue = Manifest[g]
  /\ \A c \in Classes : m_defaultAssets[c] # NoAsset =>
        m_defaultAssets[c] \in GroupAssets(DefaultGroup)

IInv == TypeOK /\ LockInv /\ FindsLoaded /\ QueueInv /\ LookupReturnsLoaded

--------------------------------------------------------------------------------
(* Every asset of a group is an asset, and the groups are disjoint. *)
LEMMA GroupFacts ==
  /\ \A g \in Groups : GroupAssets(g) \subseteq Assets
  /\ \A g, h \in Groups : g # h => GroupAssets(g) \cap GroupAssets(h) = {}
  /\ \A g \in Groups : \A a \in GroupAssets(g) : Name[a] = NoName => g = DefaultGroup
<1>1. \A g \in Groups : Manifest[g] \in Seq(Assets)
  BY ManifestAssumption
<1>2. \A g \in Groups : GroupAssets(g) \subseteq Assets
  BY <1>1 DEF GroupAssets
<1>. QED BY <1>2, ManifestAssumption

(* A position inside a queue of assets holds an asset. *)
LEMMA QueuedIsAsset ==
  ASSUME m_loadQueue \in Seq(Assets), pos \in Nat \ {0}, pos <= Len(m_loadQueue)
  PROVE  Current \in Assets
BY DEF Current

(* The specification's initial state satisfies the invariant. *)
LEMMA InitIInv == Init => IInv
<1>. SUFFICES ASSUME Init PROVE IInv
  OBVIOUS
<1>1. TypeOK
  <2>1. m_loadQueue \in Seq(Assets)
    BY DEF Init
  <2>2. DefaultGroup \in Groups
    BY ManifestAssumption
  <2>3. /\ m_refs \in [Assets -> Nat]
        /\ m_assets \in [Names -> Assets \cup {NoAsset}]
        /\ m_defaultAssets \in [Classes -> Assets \cup {NoAsset}]
        /\ asked \in [Groups -> BOOLEAN]
        /\ claim \in [Names -> Groups \cup {NoGroup}]
    BY DEF Init
  <2>4. /\ condition \in {0, 1} /\ pos \in Nat \ {0}
        /\ callGroup \in Groups
        /\ ask \in Names \X Classes /\ found \in Assets \cup {NoAsset}
    BY <2>2 DEF Init
  <2>5. callWait \in BOOLEAN /\ torn \in BOOLEAN /\ known \in BOOLEAN
    BY DEF Init
  <2>6. owner = "none" /\ mainPc = "load" /\ loaderPc = "idle"
    BY DEF Init
  <2>. QED BY <2>1, <2>3, <2>4, <2>5, <2>6 DEF TypeOK
<1>2. LockInv
  BY DEF Init, LockInv
<1>3. FindsLoaded /\ QueueInv /\ LookupReturnsLoaded
  BY DEF Init, FindsLoaded, QueueInv, LookupReturnsLoaded
<1>. QED BY <1>1, <1>2, <1>3 DEF IInv

(* Types are kept by every step. *)
LEMMA TypeStep == IInv /\ [Next]_vars => TypeOK'
<1>. SUFFICES ASSUME IInv, [Next]_vars PROVE TypeOK'
  OBVIOUS
<1>. USE DEF IInv, TypeOK
<1>1. ASSUME NEW g \in ScriptGroups, NEW wait \in BOOLEAN, CallLoadAssets(g, wait)
      PROVE TypeOK'
  BY <1>1 DEF CallLoadAssets, lockVars, storeVars, lookupVars, loaderVars, ghostVars,
              ScriptGroups
<1>2. ASSUME NEW g \in ScriptGroups, CallUnloadAssets(g) PROVE TypeOK'
  BY <1>2 DEF CallUnloadAssets, lockVars, storeVars, lookupVars, loaderVars, ghostVars,
              ScriptGroups
<1>3. ASSUME NEW n \in Names, NEW c \in Classes, LookupBegin(n, c) PROVE TypeOK'
  BY <1>3 DEF LookupBegin, lockVars, storeVars, loaderVars, ghostVars
<1>4. CASE IsLoadComplete
  BY <1>4 DEF IsLoadComplete, lockVars, storeVars, callVars, lookupVars, loaderVars
<1>5. CASE LockToLoad
  BY <1>5 DEF LockToLoad, LockWhenCondition, storeVars, lookupVars, loaderVars, ghostVars
<1>6. CASE Enqueue
  <2>1. Manifest[callGroup] \in Seq(Assets)
    BY ManifestAssumption
  <2>2. m_loadQueue' \in Seq(Assets)
    BY <1>6, <2>1 DEF Enqueue
  <2>3. claim' \in [Names -> Groups \cup {NoGroup}]
    BY <1>6 DEF Enqueue, ClaimedFor
  <2>. QED BY <1>6, <2>2, <2>3 DEF Enqueue, UnlockWithCondition, lookupVars, loaderVars
<1>7. CASE WaitUntilLoadComplete
  BY <1>7 DEF WaitUntilLoadComplete, lockVars, storeVars, lookupVars, loaderVars
<1>8. CASE LockToUnload
  BY <1>8 DEF LockToUnload, LockWhenCondition, storeVars, lookupVars, loaderVars, ghostVars
<1>9. CASE Remove
  <2>1. m_refs' \in [Assets -> Nat] /\ m_assets' \in [Names -> Assets \cup {NoAsset}]
    BY <1>9 DEF Remove, Unloaded, WithoutNames
  <2>2. claim' \in [Names -> Groups \cup {NoGroup}]
    BY <1>9 DEF Remove, ClaimedFor
  <2>. QED BY <1>9, <2>1, <2>2 DEF Remove, UnlockWithCondition, lookupVars, loaderVars
<1>10. CASE LookupEnd
  <2>1. found' \in Assets \cup {NoAsset}
    BY <1>10 DEF LookupEnd, AssetWithName
  <2>. QED BY <1>10, <2>1 DEF LookupEnd, lockVars, storeVars, loaderVars, ghostVars
<1>11. CASE LookupReturn
  BY <1>11 DEF LookupReturn, lockVars, storeVars, loaderVars, ghostVars
<1>12. CASE LockToWork
  BY <1>12 DEF LockToWork, LockWhenCondition, storeVars, callVars, lookupVars, ghostVars
<1>13. CASE LoadAsset
  <2>1. Current \in Assets
    BY <1>13, QueuedIsAsset DEF LoadAsset
  <2>2. m_refs' \in [Assets -> Nat]
    BY <1>13, <2>1 DEF LoadAsset
  <2>. QED BY <1>13, <2>2 DEF LoadAsset, lockVars, callVars, ghostVars
<1>17. CASE LoadFails
  BY <1>17 DEF LoadFails, lockVars, storeVars, callVars, lookupVars, ghostVars
<1>14. CASE StoreAsset
  <2>1. Current \in Assets
    BY <1>14, QueuedIsAsset DEF StoreAsset, LockInv
  <2>2. Name[Current] \in Names \cup {NoName} /\ Class[Current] \in Classes
    BY <2>1, ManifestAssumption
  <2>3. m_assets' \in [Names -> Assets \cup {NoAsset}]
    BY <1>14, <2>1, <2>2 DEF StoreAsset
  <2>4. m_defaultAssets' \in [Classes -> Assets \cup {NoAsset}]
    BY <1>14, <2>1, <2>2 DEF StoreAsset
  <2>. QED BY <1>14, <2>3, <2>4 DEF StoreAsset, lockVars, callVars, lookupVars, ghostVars
<1>15. CASE FinishWork
  BY <1>15 DEF FinishWork, UnlockWithCondition, callVars, lookupVars, ghostVars
<1>16. CASE UNCHANGED vars
  BY <1>16 DEF vars, lockVars, storeVars, callVars, lookupVars, loaderVars, ghostVars
<1>. QED
  BY <1>1, <1>2, <1>3, <1>4, <1>5, <1>6, <1>7, <1>8, <1>9, <1>10, <1>11, <1>12,
     <1>13, <1>14, <1>15, <1>16, <1>17
  DEF Next, MainCall, MainContinue, Loader

--------------------------------------------------------------------------------
(* The lock hands the queue and the dictionaries from one thread to the    *)
(* other: condition 0 is only ever seen with an empty queue.               *)
LEMMA LockStep == IInv /\ [Next]_vars => LockInv'
<1>. SUFFICES ASSUME IInv, [Next]_vars PROVE LockInv'
  OBVIOUS
<1>. USE DEF IInv, TypeOK, LockInv
<1>1. ASSUME NEW g \in ScriptGroups, NEW wait \in BOOLEAN, CallLoadAssets(g, wait)
      PROVE LockInv'
  BY <1>1 DEF CallLoadAssets, lockVars, storeVars, lookupVars, loaderVars, ghostVars,
              Current
<1>2. ASSUME NEW g \in ScriptGroups, CallUnloadAssets(g) PROVE LockInv'
  BY <1>2 DEF CallUnloadAssets, lockVars, storeVars, lookupVars, loaderVars, ghostVars,
              ScriptGroups, Current
<1>3. ASSUME NEW n \in Names, NEW c \in Classes, LookupBegin(n, c) PROVE LockInv'
  BY <1>3 DEF LookupBegin, lockVars, storeVars, loaderVars, ghostVars, Current
<1>4. CASE IsLoadComplete
  BY <1>4 DEF IsLoadComplete, lockVars, storeVars, callVars, lookupVars, loaderVars, Current
<1>5. CASE LockToLoad
  BY <1>5 DEF LockToLoad, LockWhenCondition, storeVars, lookupVars, loaderVars, ghostVars, Current
<1>6. CASE Enqueue
  BY <1>6 DEF Enqueue, UnlockWithCondition, lookupVars, loaderVars, Current
<1>7. CASE WaitUntilLoadComplete
  BY <1>7 DEF WaitUntilLoadComplete, lockVars, storeVars, lookupVars, loaderVars, Current
<1>8. CASE LockToUnload
  BY <1>8 DEF LockToUnload, LockWhenCondition, storeVars, lookupVars, loaderVars, ghostVars, Current
<1>9. CASE Remove
  BY <1>9 DEF Remove, UnlockWithCondition, lookupVars, loaderVars, Current
<1>10. CASE LookupEnd
  BY <1>10 DEF LookupEnd, lockVars, storeVars, loaderVars, ghostVars, Current
<1>11. CASE LookupReturn
  BY <1>11 DEF LookupReturn, lockVars, storeVars, loaderVars, ghostVars, Current
<1>12. CASE LockToWork
  BY <1>12 DEF LockToWork, LockWhenCondition, storeVars, callVars, lookupVars, ghostVars, Current
<1>13. CASE LoadAsset
  BY <1>13 DEF LoadAsset, lockVars, callVars, ghostVars, Current
<1>14. CASE LoadFails
  BY <1>14 DEF LoadFails, lockVars, storeVars, callVars, lookupVars, ghostVars, Current
<1>15. CASE StoreAsset
  BY <1>15 DEF StoreAsset, lockVars, callVars, lookupVars, ghostVars, Current
<1>16. CASE FinishWork
  BY <1>16 DEF FinishWork, UnlockWithCondition, callVars, lookupVars, ghostVars, Current
<1>17. CASE UNCHANGED vars
  BY <1>17 DEF vars, lockVars, storeVars, callVars, lookupVars, loaderVars,
               ghostVars, Current
<1>. QED
  BY <1>1, <1>2, <1>3, <1>4, <1>5, <1>6, <1>7, <1>8, <1>9, <1>10, <1>11, <1>12, <1>13, <1>14, <1>15, <1>16, <1>17
  DEF Next, MainCall, MainContinue, Loader

--------------------------------------------------------------------------------
(* The steps that change neither a reference count nor a dictionary. *)
LEMMA QuietSteps ==
  ASSUME [Next]_vars, ~Remove, ~LoadAsset, ~StoreAsset
  PROVE  UNCHANGED <<m_refs, m_assets, m_defaultAssets>>
<1>. USE DEF lockVars, storeVars, callVars, lookupVars, loaderVars, ghostVars
<1>1. CASE MainCall
  BY <1>1 DEF MainCall, CallLoadAssets, CallUnloadAssets, LookupBegin, IsLoadComplete
<1>2. CASE MainContinue
  BY <1>2 DEF MainContinue, LockToLoad, Enqueue, WaitUntilLoadComplete, LockToUnload,
              LookupEnd, LookupReturn
<1>3. CASE Loader
  BY <1>3 DEF Loader, LockToWork, LoadFails, FinishWork
<1>4. CASE UNCHANGED vars
  BY <1>4 DEF vars
<1>. QED BY <1>1, <1>2, <1>3, <1>4 DEF Next

(* A dictionary only ever leads to assets in memory: the loader counts the *)
(* reference before it writes the entry, and unloading a group removes     *)
(* every entry of it, the last reference or not.                           *)
LEMMA FindsLoadedStep == IInv /\ [Next]_vars => FindsLoaded'
<1>. SUFFICES ASSUME IInv, [Next]_vars PROVE FindsLoaded'
  OBVIOUS
<1>. USE DEF IInv, TypeOK, FindsLoaded
<1>1. CASE Remove
  <2>1. callGroup # DefaultGroup /\ callGroup \in Groups /\ DefaultGroup \in Groups
    BY <1>1, ManifestAssumption DEF Remove, LockInv
  <2>2. GroupAssets(DefaultGroup) \cap GroupAssets(callGroup) = {}
    BY <2>1, GroupFacts
  <2>3. ASSUME NEW n \in Names, m_assets'[n] # NoAsset
        PROVE  m_refs'[m_assets'[n]] > 0 /\ Name[m_assets'[n]] = n
    <3>1. m_assets'[n] = m_assets[n] /\ m_assets[n] \in Assets
      BY <1>1, <2>3 DEF Remove, WithoutNames
    <3>2. Name[m_assets[n]] = n /\ m_refs[m_assets[n]] > 0
      BY <3>1, <2>3
    <3>3. m_assets[n] \notin GroupAssets(callGroup)
      BY <1>1, <2>3, <3>2 DEF Remove, WithoutNames
    <3>. QED BY <1>1, <3>1, <3>2, <3>3 DEF Remove, Unloaded
  <2>4. ASSUME NEW c \in Classes, m_defaultAssets'[c] # NoAsset
        PROVE  m_refs'[m_defaultAssets'[c]] > 0 /\ Class[m_defaultAssets'[c]] = c
    <3>1. m_defaultAssets' = m_defaultAssets
      BY <1>1 DEF Remove
    <3>2. m_defaultAssets[c] \in Assets \ GroupAssets(callGroup)
      BY <2>2, <2>4, <3>1 DEF QueueInv
    <3>. QED BY <1>1, <2>4, <3>1, <3>2 DEF Remove, Unloaded
  <2>. QED BY <2>3, <2>4
<1>2. CASE LoadAsset
  <2>1. Current \in Assets
    BY <1>2, QueuedIsAsset DEF LoadAsset
  <2>2. \A a \in Assets : m_refs[a] > 0 => m_refs'[a] > 0
    BY <1>2, <2>1 DEF LoadAsset
  <2>. QED BY <1>2, <2>2 DEF LoadAsset
<1>3. CASE StoreAsset
  <2>1. Current \in Assets /\ m_refs[Current] > 0
    BY <1>3, QueuedIsAsset DEF StoreAsset, LockInv
  <2>2. m_refs' = m_refs
    BY <1>3 DEF StoreAsset
  <2>3. CASE Name[Current] = NoName
    <3>1. /\ m_assets' = m_assets
          /\ m_defaultAssets' = [m_defaultAssets EXCEPT ![Class[Current]] = Current]
      BY <1>3, <2>3 DEF StoreAsset
    <3>. QED BY <2>1, <2>2, <3>1
  <2>4. CASE Name[Current] # NoName
    <3>1. /\ m_defaultAssets' = m_defaultAssets
          /\ m_assets' = [m_assets EXCEPT ![Name[Current]] = Current]
      BY <1>3, <2>4 DEF StoreAsset
    <3>. QED BY <2>1, <2>2, <3>1
  <2>. QED BY <2>3, <2>4
<1>4. CASE ~Remove /\ ~LoadAsset /\ ~StoreAsset
  BY <1>4, QuietSteps
<1>. QED BY <1>1, <1>2, <1>3, <1>4

(* An asset of the queue is in a group that is in use. *)
LEMMA CurrentGroup ==
  ASSUME IInv, pos <= Len(m_loadQueue)
  PROVE  /\ Current \in Assets
         /\ \E g \in Groups : /\ asked[g] /\ m_loadQueue = Manifest[g]
                            /\ Current \in GroupAssets(g)
<1>. USE DEF IInv, TypeOK
<1>1. Current \in Assets
  BY QueuedIsAsset
<1>2. m_loadQueue # <<>> /\ pos \in DOMAIN m_loadQueue
  OBVIOUS
<1>3. PICK g \in Groups : asked[g] /\ m_loadQueue = Manifest[g]
  BY <1>2 DEF QueueInv
<1>4. Current \in GroupAssets(g)
  BY <1>2, <1>3 DEF GroupAssets, Current
<1>. QED BY <1>1, <1>3, <1>4

(* A request is only ever put into an empty queue, so the queue is always  *)
(* one group's; and the default assets stay those of the engine's group.   *)
LEMMA QueueStep == IInv /\ [Next]_vars => QueueInv'
<1>. SUFFICES ASSUME IInv, [Next]_vars PROVE QueueInv'
  OBVIOUS
<1>. USE DEF IInv, TypeOK, QueueInv
<1>1. CASE Enqueue
  <2>1. m_loadQueue = <<>>
    BY <1>1 DEF Enqueue, LockInv
  <2>2. Manifest[callGroup] \in Seq(Assets)
    BY ManifestAssumption
  <2>3. m_loadQueue' = Manifest[callGroup] /\ asked'[callGroup] = TRUE
    BY <1>1, <2>1, <2>2 DEF Enqueue
  <2>4. m_defaultAssets' = m_defaultAssets
    BY <1>1 DEF Enqueue
  <2>. QED BY <2>3, <2>4
<1>2. CASE FinishWork
  BY <1>2 DEF FinishWork
<1>3. CASE StoreAsset
  <2>1. Current \in Assets /\ \E g \in Groups : Current \in GroupAssets(g)
    BY <1>3, CurrentGroup DEF StoreAsset, LockInv
  <2>2. Name[Current] = NoName => Current \in GroupAssets(DefaultGroup)
    BY <2>1, GroupFacts
  <2>3. m_loadQueue' = m_loadQueue /\ asked' = asked
    BY <1>3 DEF StoreAsset, ghostVars
  <2>. QED BY <1>3, <2>1, <2>2, <2>3 DEF StoreAsset
<1>4. CASE Remove
  <2>1. m_loadQueue = <<>>
    BY <1>4 DEF Remove, LockInv
  <2>. QED BY <1>4, <2>1 DEF Remove
<1>5. CASE ~Enqueue /\ ~FinishWork /\ ~StoreAsset /\ ~Remove
  <2>. USE DEF lockVars, storeVars, callVars, lookupVars, loaderVars, ghostVars
  <2>1. UNCHANGED <<m_loadQueue, m_defaultAssets, asked>>
    <3>1. CASE MainCall
      BY <3>1 DEF MainCall, CallLoadAssets, CallUnloadAssets, LookupBegin, IsLoadComplete
    <3>2. CASE MainContinue
      BY <1>5, <3>2 DEF MainContinue, LockToLoad, WaitUntilLoadComplete, LockToUnload,
                        LookupEnd, LookupReturn
    <3>3. CASE Loader
      BY <1>5, <3>3 DEF Loader, LockToWork, LoadAsset, LoadFails
    <3>4. CASE UNCHANGED vars
      BY <3>4 DEF vars
    <3>. QED BY <3>1, <3>2, <3>3, <3>4 DEF Next
  <2>. QED BY <2>1
<1>. QED BY <1>1, <1>2, <1>3, <1>4, <1>5

(* A lookup made by a script that knows the load is complete reads settled *)
(* dictionaries, and they stay settled until the caller has its result.    *)
LEMMA LookupStep == IInv /\ [Next]_vars => LookupReturnsLoaded'
<1>. SUFFICES ASSUME IInv, [Next]_vars, known', mainPc' = "found", found' # NoAsset
              PROVE  /\ m_refs'[found'] > 0
                     /\ Class[found'] = ask'[2]
                     /\ Name[found'] = ask'[1] \/ found' = m_defaultAssets'[ask'[2]]
  BY DEF LookupReturnsLoaded
<1>. USE DEF IInv, TypeOK
<1>1. CASE LookupEnd
  <2>1. known /\ ~torn /\ ask' = ask /\ m_refs' = m_refs /\ m_defaultAssets' = m_defaultAssets
    BY <1>1 DEF LookupEnd, LockInv, ghostVars, storeVars
  <2>2. found' = AssetWithName(ask[1], ask[2]) /\ ask[1] \in Names /\ ask[2] \in Classes
    BY <1>1, <2>1 DEF LookupEnd
  <2>3. CASE m_assets[ask[1]] = NoAsset \/ Class[m_assets[ask[1]]] # ask[2]
    BY <2>1, <2>2, <2>3 DEF AssetWithName, FindsLoaded
  <2>4. CASE ~(m_assets[ask[1]] = NoAsset \/ Class[m_assets[ask[1]]] # ask[2])
    BY <2>1, <2>2, <2>4 DEF AssetWithName, FindsLoaded
  <2>. QED BY <2>3, <2>4
<1>2. CASE ~LookupEnd
  <2>. USE DEF lockVars, storeVars, callVars, lookupVars, loaderVars, ghostVars
  <2>1. mainPc = "found" /\ known /\ found' = found /\ ask' = ask
    <3>1. CASE MainCall
      BY <3>1 DEF MainCall, CallLoadAssets, CallUnloadAssets, LookupBegin, IsLoadComplete
    <3>2. CASE MainContinue
      BY <1>2, <3>2 DEF MainContinue, LockToLoad, Enqueue, WaitUntilLoadComplete,
                        LockToUnload, Remove, LookupReturn
    <3>3. CASE Loader
      BY <3>3 DEF Loader, LockToWork, LoadAsset, LoadFails, StoreAsset, FinishWork
    <3>4. CASE UNCHANGED vars
      BY <3>4 DEF vars
    <3>. QED BY <3>1, <3>2, <3>3, <3>4 DEF Next
  <2>2. loaderPc = "idle"
    BY <2>1 DEF LockInv
  <2>3. ~Remove /\ ~LoadAsset /\ ~StoreAsset
    BY <2>1, <2>2 DEF Remove, LoadAsset, StoreAsset
  <2>4. UNCHANGED <<m_refs, m_assets, m_defaultAssets>>
    BY <2>3, QuietSteps
  <2>. QED BY <2>1, <2>4 DEF LookupReturnsLoaded
<1>. QED BY <1>1, <1>2

--------------------------------------------------------------------------------
(* The invariant of the two threads. *)
THEOREM Invariance == Spec => []IInv
<1>1. Init => IInv
  BY InitIInv
<1>2. IInv /\ [Next]_vars => IInv'
  BY TypeStep, LockStep, FindsLoadedStep, QueueStep, LookupStep DEF IInv
<1>. QED BY <1>1, <1>2, PTL DEF Spec

(* The state of both threads is always well typed. *)
THEOREM Typing == Spec => []TypeOK
<1>1. IInv => TypeOK
  BY DEF IInv
<1>. QED BY <1>1, Invariance, PTL

(* is_load_complete and the end of a waiting load_assets can be trusted,   *)
(* although the one reads the condition without the lock.                  *)
THEOREM Completeness == Spec => []CompleteMeansQuiet
<1>1. IInv => CompleteMeansQuiet
  BY DEF IInv, TypeOK, LockInv, CompleteMeansQuiet
<1>. QED BY <1>1, Invariance, PTL

(* A request is queued under the lock and with condition 0, so never while *)
(* the loader enumerates the queue, for every manifest.                    *)
THEOREM Queueing == Spec => QueueStableWhileLoading
<1>. DEFINE Stable == loaderPc # "idle" /\ loaderPc' # "idle" => m_loadQueue' = m_loadQueue
<1>1. ASSUME IInv, [Next]_vars PROVE Stable
  <2>. USE DEF lockVars, storeVars, callVars, lookupVars, loaderVars, ghostVars
  <2>1. CASE Enqueue
    BY <1>1, <2>1 DEF IInv, LockInv, Enqueue
  <2>2. CASE FinishWork
    BY <2>2 DEF FinishWork
  <2>3. CASE ~Enqueue /\ ~FinishWork
    <3>1. CASE MainCall
      BY <3>1 DEF MainCall, CallLoadAssets, CallUnloadAssets, LookupBegin, IsLoadComplete
    <3>2. CASE MainContinue
      BY <2>3, <3>2 DEF MainContinue, LockToLoad, WaitUntilLoadComplete, LockToUnload, Remove,
                        LookupEnd, LookupReturn
    <3>3. CASE Loader
      BY <2>3, <3>3 DEF Loader, LockToWork, LoadAsset, LoadFails, StoreAsset
    <3>4. CASE UNCHANGED vars
      BY <3>4 DEF vars
    <3>. QED BY <1>1, <3>1, <3>2, <3>3, <3>4 DEF Next
  <2>. QED BY <2>1, <2>2, <2>3
<1>2. IInv /\ [Next]_vars => [Stable]_vars
  BY <1>1
<1>. QED BY <1>2, Invariance, PTL DEF Spec, QueueStableWhileLoading

(* No name and no class ever leads to an asset that is not in memory. *)
THEOREM Finding == Spec => []FindsLoaded
<1>1. IInv => FindsLoaded
  BY DEF IInv
<1>. QED BY <1>1, Invariance, PTL

(* assetWithName:type: after completion returns what it was asked for. *)
THEOREM Lookups == Spec => []LookupReturnsLoaded
<1>1. IInv => LookupReturnsLoaded
  BY DEF IInv
<1>. QED BY <1>1, Invariance, PTL

--------------------------------------------------------------------------------
(***************************************************************************)
(* The last command for a name decides which asset it finds.  The          *)
(* invariant says it of every asset the loader has nothing left to do for, *)
(* also in the middle of a load; that groups in use have different names;  *)
(* and that a name the loader has yet to write is claimed by the group     *)
(* that is being loaded.                                                   *)
(***************************************************************************)
Distinct(g, h) == \A a \in GroupAssets(g), b \in GroupAssets(h) : Name[a] # Name[b]

GroupsApart == \A g, h \in Groups : g # h /\ asked[g] /\ asked[h] => Distinct(g, h)

CallsApart == mainPc \in {"load", "enqueue"} =>
                \A h \in Groups : h # callGroup /\ asked[h] => Distinct(callGroup, h)

Claims == \A n \in Names : claim[n] # NoGroup =>
             /\ asked[claim[n]]
             /\ \E a \in GroupAssets(claim[n]) : Name[a] = n

ClaimedWhileLoading ==
  \A g \in Groups : \A a \in GroupAssets(g) \cap Outstanding :
     Name[a] # NoName => claim[Name[a]] = g

Settled == \A g \in Groups : \A a \in GroupAssets(g) \ Outstanding :
              Name[a] # NoName =>
                (m_assets[Name[a]] = a <=> claim[Name[a]] = g /\ m_refs[a] > 0)

SettledInv == GroupsApart /\ CallsApart /\ Claims /\ ClaimedWhileLoading /\ Settled

(* The manifest read as facts about groups and names. *)
LEMMA NameFacts ==
  /\ \A g \in Groups : \A a \in GroupAssets(g) :
        a \in Assets /\ Name[a] \in Names \cup {NoName}
  /\ NoName \notin Names
  /\ \A g \in Groups : \A a, b \in GroupAssets(g) :
        Name[a] = Name[b] /\ Name[a] # NoName => a = b
  /\ \A g, h \in Groups : \A a \in Assets :
        a \in GroupAssets(g) /\ a \in GroupAssets(h) => g = h
<1>1. \A g \in Groups : GroupAssets(g) \subseteq Assets
  BY GroupFacts
<1>2. \A g, h \in Groups : \A a \in Assets :
        a \in GroupAssets(g) /\ a \in GroupAssets(h) => g = h
  BY GroupFacts
<1>. QED BY <1>1, <1>2, ManifestAssumption

(* The queue holds an asset once, so what is left of it after one more     *)
(* position is what was left without the asset at that position.           *)
LEMMA OutstandingStep ==
  ASSUME IInv, pos <= Len(m_loadQueue), pos' = pos + 1, m_loadQueue' = m_loadQueue
  PROVE  Current \in Outstanding /\ Outstanding' = Outstanding \ {Current}
<1>. USE DEF IInv, TypeOK
<1>1. PICK g \in Groups : m_loadQueue = Manifest[g]
  BY CurrentGroup
<1>2. \A i, j \in DOMAIN m_loadQueue : i # j => m_loadQueue[i] # m_loadQueue[j]
  BY <1>1, ManifestAssumption
<1>3. pos \in pos .. Len(m_loadQueue) /\ pos .. Len(m_loadQueue) \subseteq DOMAIN m_loadQueue
  OBVIOUS
<1>4. Current \in Outstanding
  BY <1>3 DEF Current, Outstanding
<1>5. Outstanding' = {m_loadQueue[i] : i \in pos + 1 .. Len(m_loadQueue)}
  BY DEF Outstanding
<1>6. \A i \in pos .. Len(m_loadQueue) : i = pos \/ i \in pos + 1 .. Len(m_loadQueue)
  OBVIOUS
<1>7. \A i \in pos + 1 .. Len(m_loadQueue) : i \in pos .. Len(m_loadQueue) /\ i # pos
  OBVIOUS
<1>8. \A i \in pos + 1 .. Len(m_loadQueue) : m_loadQueue[i] # m_loadQueue[pos]
  BY <1>2, <1>3, <1>7
<1>9. Outstanding' \subseteq Outstanding \ {Current}
  BY <1>5, <1>7, <1>8 DEF Outstanding, Current
<1>10. Outstanding \ {Current} \subseteq Outstanding'
  BY <1>5, <1>6 DEF Outstanding, Current
<1>. QED BY <1>4, <1>9, <1>10

LEMMA AssetNotNil == NoAsset \notin Assets
BY ManifestAssumption

LEMMA InitSettled == Init => SettledInv
<1>. SUFFICES ASSUME Init PROVE SettledInv
  OBVIOUS
<1>1. \A g \in Groups : ~asked[g]
  BY DEF Init
<1>2. GroupsApart /\ CallsApart
  BY <1>1 DEF GroupsApart, CallsApart
<1>3. \A n \in Names : m_assets[n] = NoAsset /\ claim[n] = NoGroup
  BY DEF Init
<1>4. Settled
  BY <1>3, NameFacts, ManifestAssumption DEF Settled
<1>5. Outstanding = {}
  BY DEF Init, Outstanding
<1>6. Claims /\ ClaimedWhileLoading
  BY <1>3, <1>5 DEF Claims, ClaimedWhileLoading
<1>. QED BY <1>2, <1>4, <1>6 DEF SettledInv

(* A call that loads a group first checks its names against the groups in  *)
(* use.                                                                    *)
LEMMA ApartStep ==
  ASSUME IInv, SettledInv, [Next]_vars
  PROVE  GroupsApart' /\ CallsApart'
<1>. USE DEF IInv, TypeOK, SettledInv, GroupsApart, CallsApart
<1>1. ASSUME NEW g \in ScriptGroups, NEW wait \in BOOLEAN, CallLoadAssets(g, wait)
      PROVE  GroupsApart' /\ CallsApart'
  BY <1>1 DEF CallLoadAssets, NamesFree, InUse, Distinct, ghostVars
<1>2. ASSUME NEW g \in ScriptGroups, CallUnloadAssets(g)
      PROVE  GroupsApart' /\ CallsApart'
  BY <1>2 DEF CallUnloadAssets, ghostVars, Distinct
<1>3. CASE Enqueue
  <2>1. asked' = [asked EXCEPT ![callGroup] = TRUE] /\ mainPc' \in {"wait", "script"}
    BY <1>3 DEF Enqueue
  <2>2. \A h \in Groups : h # callGroup /\ asked[h] =>
           Distinct(callGroup, h) /\ Distinct(h, callGroup)
    BY <1>3 DEF Enqueue, Distinct
  <2>3. GroupsApart'
    BY <2>1, <2>2 DEF Distinct
  <2>. QED BY <2>1, <2>3
<1>4. CASE Remove
  BY <1>4 DEF Remove, Distinct
<1>5. ASSUME ~Enqueue, ~Remove,
             ~\E g \in ScriptGroups, wait \in BOOLEAN : CallLoadAssets(g, wait),
             ~\E g \in ScriptGroups : CallUnloadAssets(g)
      PROVE  GroupsApart' /\ CallsApart'
  <2>. USE DEF lockVars, storeVars, callVars, lookupVars, loaderVars, ghostVars
  <2>1. /\ UNCHANGED <<asked, callGroup>>
        /\ mainPc' \in {"load", "enqueue"} => mainPc \in {"load", "enqueue"}
    <3>1. CASE MainCall
      BY <1>5, <3>1 DEF MainCall, LookupBegin, IsLoadComplete
    <3>2. CASE MainContinue
      BY <1>5, <3>2 DEF MainContinue, LockToLoad, WaitUntilLoadComplete, LockToUnload,
                        LookupEnd, LookupReturn
    <3>3. CASE Loader
      BY <3>3 DEF Loader, LockToWork, LoadAsset, LoadFails, StoreAsset, FinishWork
    <3>4. CASE UNCHANGED vars
      BY <3>4 DEF vars
    <3>. QED BY <3>1, <3>2, <3>3, <3>4 DEF Next
  <2>. QED BY <2>1 DEF Distinct
<1>. QED BY <1>1, <1>2, <1>3, <1>4, <1>5

(* The steps that are no command and do not move the loader on. *)
LEMMA IdleSteps ==
  ASSUME IInv, [Next]_vars, ~Enqueue, ~Remove, ~LoadFails, ~StoreAsset, ~FinishWork
  PROVE  UNCHANGED <<asked, claim, Outstanding>>
<1>. USE DEF lockVars, storeVars, callVars, lookupVars, loaderVars, ghostVars
<1>1. UNCHANGED <<m_loadQueue, asked, claim>> /\ (pos' = pos \/ LockToWork)
  <2>1. CASE MainCall
    BY <2>1 DEF MainCall, CallLoadAssets, CallUnloadAssets, LookupBegin, IsLoadComplete
  <2>2. CASE MainContinue
    BY <2>2 DEF MainContinue, LockToLoad, WaitUntilLoadComplete, LockToUnload,
                LookupEnd, LookupReturn
  <2>3. CASE Loader
    BY <2>3 DEF Loader, LockToWork, LoadAsset
  <2>4. CASE UNCHANGED vars
    BY <2>4 DEF vars
  <2>. QED BY <2>1, <2>2, <2>3, <2>4 DEF Next
<1>2. pos' = pos
  BY <1>1 DEF LockToWork, IInv, LockInv
<1>. QED BY <1>1, <1>2 DEF Outstanding

(* A load claims the names of its group and an unload frees those of its   *)
(* own; what the loader has yet to deal with only shrinks.                 *)
LEMMA ClaimStep ==
  ASSUME IInv, SettledInv, [Next]_vars
  PROVE  Claims' /\ ClaimedWhileLoading'
<1>. USE DEF IInv, TypeOK, SettledInv
<1>1. CASE Enqueue
  <2>1. Manifest[callGroup] \in Seq(Assets) /\ m_loadQueue = <<>> /\ pos = 1
    BY <1>1, ManifestAssumption DEF Enqueue, LockInv
  <2>2. m_loadQueue' = Manifest[callGroup] /\ pos' = 1
    BY <1>1, <2>1 DEF Enqueue, loaderVars
  <2>3. Outstanding' = GroupAssets(callGroup)
    BY <2>2 DEF Outstanding, GroupAssets
  <2>4. /\ claim' = ClaimedFor(callGroup, callGroup)
        /\ asked' = [asked EXCEPT ![callGroup] = TRUE]
    BY <1>1 DEF Enqueue
  <2>5. ASSUME NEW n \in Names, claim'[n] # NoGroup
        PROVE  asked'[claim'[n]] /\ \E a \in GroupAssets(claim'[n]) : Name[a] = n
    <3>1. CASE \E a \in GroupAssets(callGroup) : Name[a] = n
      BY <2>4, <3>1 DEF ClaimedFor
    <3>2. CASE ~\E a \in GroupAssets(callGroup) : Name[a] = n
      <4>1. claim'[n] = claim[n]
        BY <2>4, <3>2 DEF ClaimedFor
      <4>. QED BY <2>4, <2>5, <4>1 DEF Claims
    <3>. QED BY <3>1, <3>2
  <2>6. ASSUME NEW g \in Groups, NEW a \in GroupAssets(g) \cap Outstanding',
               Name[a] # NoName
        PROVE  claim'[Name[a]] = g
    <3>1. g = callGroup /\ Name[a] \in Names
      BY <2>3, <2>6, NameFacts
    <3>. QED BY <2>4, <3>1 DEF ClaimedFor
  <2>. QED BY <2>5, <2>6 DEF Claims, ClaimedWhileLoading
<1>2. CASE Remove
  <2>1. m_loadQueue = <<>> /\ m_loadQueue' = <<>> /\ pos' = pos
    BY <1>2 DEF Remove, LockInv, loaderVars
  <2>2. Outstanding' = {}
    BY <2>1 DEF Outstanding
  <2>3. /\ claim' = ClaimedFor(callGroup, NoGroup)
        /\ asked' = [asked EXCEPT ![callGroup] = FALSE]
    BY <1>2 DEF Remove
  <2>4. ASSUME NEW n \in Names, claim'[n] # NoGroup
        PROVE  asked'[claim'[n]] /\ \E a \in GroupAssets(claim'[n]) : Name[a] = n
    <3>1. claim'[n] = claim[n] /\ ~\E a \in GroupAssets(callGroup) : Name[a] = n
      BY <2>3, <2>4 DEF ClaimedFor
    <3>2. asked[claim[n]] /\ \E a \in GroupAssets(claim[n]) : Name[a] = n
      BY <2>4, <3>1 DEF Claims
    <3>3. claim[n] # callGroup
      BY <3>1, <3>2
    <3>. QED BY <2>3, <3>1, <3>2, <3>3
  <2>. QED BY <2>2, <2>4 DEF Claims, ClaimedWhileLoading
<1>3. CASE LoadFails \/ StoreAsset
  <2>1. /\ pos <= Len(m_loadQueue) /\ pos' = pos + 1 /\ m_loadQueue' = m_loadQueue
        /\ UNCHANGED <<asked, claim>>
    BY <1>3 DEF LoadFails, StoreAsset, storeVars, ghostVars, LockInv
  <2>2. Outstanding' \subseteq Outstanding
    BY <2>1, OutstandingStep
  <2>. QED BY <2>1, <2>2 DEF Claims, ClaimedWhileLoading
<1>4. CASE FinishWork
  <2>1. m_loadQueue' = <<>> /\ pos' = 1 /\ UNCHANGED <<asked, claim>>
    BY <1>4 DEF FinishWork, ghostVars
  <2>2. Outstanding' = {}
    BY <2>1 DEF Outstanding
  <2>. QED BY <2>1, <2>2 DEF Claims, ClaimedWhileLoading
<1>5. CASE ~Enqueue /\ ~Remove /\ ~LoadFails /\ ~StoreAsset /\ ~FinishWork
  <2>1. UNCHANGED <<asked, claim, Outstanding>>
    BY <1>5, IdleSteps
  <2>. QED BY <2>1 DEF Claims, ClaimedWhileLoading
<1>. QED BY <1>1, <1>2, <1>3, <1>4, <1>5

(* Each step of the loader settles the asset it has dealt with and leaves  *)
(* the others; a command touches only the names of its own group.          *)
LEMMA SettledStep ==
  ASSUME IInv, SettledInv, [Next]_vars
  PROVE  Settled'
<1>. SUFFICES ASSUME NEW g \in Groups, NEW a \in GroupAssets(g),
                     a \notin Outstanding', Name[a] # NoName
              PROVE  m_assets'[Name[a]] = a <=> claim'[Name[a]] = g /\ m_refs'[a] > 0
  BY DEF Settled
<1>. USE DEF IInv, TypeOK, SettledInv
<1>0. a \in Assets /\ Name[a] \in Names
  BY NameFacts
<1>1. CASE Enqueue
  <2>1. Manifest[callGroup] \in Seq(Assets) /\ m_loadQueue = <<>> /\ pos = 1
    BY <1>1, ManifestAssumption DEF Enqueue, LockInv
  <2>2. m_loadQueue' = Manifest[callGroup] /\ pos' = 1
    BY <1>1, <2>1 DEF Enqueue, loaderVars
  <2>3. Outstanding = {} /\ Outstanding' = GroupAssets(callGroup)
    <3>1. Outstanding = {}
      BY <2>1 DEF Outstanding
    <3>2. Outstanding' = {m_loadQueue'[i] : i \in 1 .. Len(m_loadQueue')}
      BY <2>2 DEF Outstanding
    <3>. QED BY <2>1, <2>2, <3>1, <3>2 DEF GroupAssets
  <2>4. g # callGroup /\ m_assets' = m_assets /\ m_refs' = m_refs
    BY <1>1, <2>3 DEF Enqueue
  <2>5. claim' = ClaimedFor(callGroup, callGroup)
    BY <1>1 DEF Enqueue
  <2>6. m_assets[Name[a]] = a <=> claim[Name[a]] = g /\ m_refs[a] > 0
    BY <2>3 DEF Settled
  <2>7. CASE \E b \in GroupAssets(callGroup) : Name[b] = Name[a]
    <3>1. claim'[Name[a]] = callGroup
      BY <1>0, <2>5, <2>7 DEF ClaimedFor
    <3>2. ~asked[g]
      BY <1>1, <2>4, <2>7 DEF Enqueue, CallsApart, Distinct
    <3>3. claim[Name[a]] # g
      BY <1>0, <3>2, ManifestAssumption DEF Claims
    <3>. QED BY <2>4, <2>6, <3>1, <3>3
  <2>8. CASE ~\E b \in GroupAssets(callGroup) : Name[b] = Name[a]
    <3>1. claim'[Name[a]] = claim[Name[a]]
      BY <1>0, <2>5, <2>8 DEF ClaimedFor
    <3>. QED BY <2>4, <2>6, <3>1
  <2>. QED BY <2>7, <2>8
<1>2. CASE Remove
  <2>1. m_loadQueue = <<>> /\ m_loadQueue' = <<>> /\ pos' = pos
    BY <1>2 DEF Remove, LockInv, loaderVars
  <2>2. Outstanding = {}
    BY <2>1 DEF Outstanding
  <2>3. claim' = ClaimedFor(callGroup, NoGroup) /\ m_assets' = WithoutNames(callGroup)
    BY <1>2 DEF Remove
  <2>4. CASE \E b \in GroupAssets(callGroup) : Name[b] = Name[a]
    <3>1. m_assets'[Name[a]] = NoAsset /\ claim'[Name[a]] = NoGroup
      BY <1>0, <2>3, <2>4 DEF WithoutNames, ClaimedFor
    <3>. QED BY <1>0, <3>1, AssetNotNil, ManifestAssumption
  <2>5. CASE ~\E b \in GroupAssets(callGroup) : Name[b] = Name[a]
    <3>1. m_assets'[Name[a]] = m_assets[Name[a]] /\ claim'[Name[a]] = claim[Name[a]]
      BY <1>0, <2>3, <2>5 DEF WithoutNames, ClaimedFor
    <3>2. a \notin GroupAssets(callGroup)
      BY <2>5
    <3>3. m_refs'[a] = m_refs[a]
      BY <1>0, <1>2, <3>2 DEF Remove, Unloaded
    <3>. QED BY <2>2, <3>1, <3>3 DEF Settled
  <2>. QED BY <2>4, <2>5
<1>3. CASE LoadAsset
  <2>1. m_loadQueue' = m_loadQueue /\ pos' = pos /\ m_assets' = m_assets /\ claim' = claim
    BY <1>3 DEF LoadAsset, ghostVars
  <2>2. Outstanding' = Outstanding
    BY <2>1 DEF Outstanding
  <2>3. Current \in Outstanding
    BY <1>3 DEF LoadAsset, Current, Outstanding
  <2>4. m_refs'[a] = m_refs[a]
    BY <1>0, <1>3, <2>2, <2>3 DEF LoadAsset
  <2>. QED BY <2>1, <2>2, <2>4 DEF Settled
<1>4. CASE LoadFails
  <2>1. pos <= Len(m_loadQueue) /\ pos' = pos + 1 /\ m_loadQueue' = m_loadQueue
        /\ m_assets' = m_assets /\ claim' = claim /\ m_refs' = m_refs
        /\ m_refs[Current] = 0
    BY <1>4 DEF LoadFails, storeVars, ghostVars
  <2>2. Outstanding' = Outstanding \ {Current}
    BY <2>1, OutstandingStep
  <2>3. CASE a = Current
    <3>1. m_assets[Name[a]] # a
      <4>. SUFFICES ASSUME m_assets[Name[a]] = a PROVE FALSE
        OBVIOUS
      <4>1. m_refs[a] > 0
        BY <1>0, AssetNotNil DEF FindsLoaded
      <4>. QED BY <2>1, <2>3, <4>1
    <3>2. ~(m_refs'[a] > 0)
      BY <2>1, <2>3
    <3>. QED BY <2>1, <3>1, <3>2
  <2>4. CASE a # Current
    BY <2>1, <2>2, <2>4 DEF Settled
  <2>. QED BY <2>3, <2>4
<1>5. CASE StoreAsset
  <2>1. pos <= Len(m_loadQueue) /\ pos' = pos + 1 /\ m_loadQueue' = m_loadQueue
        /\ claim' = claim /\ m_refs' = m_refs /\ m_refs[Current] > 0
    BY <1>5 DEF StoreAsset, ghostVars, LockInv
  <2>2. Outstanding' = Outstanding \ {Current}
    BY <2>1, OutstandingStep
  <2>3. PICK h \in Groups : Current \in GroupAssets(h)
    BY <2>1, CurrentGroup
  <2>8. Name[Current] # NoName => claim[Name[Current]] = h
    BY <2>1, <2>3, OutstandingStep DEF ClaimedWhileLoading
  <2>4. Current \in Assets /\ Name[Current] \in Names \cup {NoName}
    BY <2>3, NameFacts
  <2>5. CASE a = Current
    <3>1. g = h
      BY <1>0, <2>3, <2>5, NameFacts
    <3>2. m_assets' = [m_assets EXCEPT ![Name[Current]] = Current]
      BY <1>5, <2>5 DEF StoreAsset
    <3>. QED BY <1>0, <2>1, <2>5, <2>8, <3>1, <3>2
  <2>6. CASE a # Current /\ Name[a] = Name[Current]
    <3>1. g # h
      BY <2>3, <2>6, NameFacts
    <3>2. claim[Name[a]] # g
      BY <2>6, <2>8, <3>1
    <3>3. m_assets' = [m_assets EXCEPT ![Name[Current]] = Current]
      BY <1>5, <2>6 DEF StoreAsset
    <3>. QED BY <1>0, <2>1, <2>6, <3>2, <3>3
  <2>7. CASE a # Current /\ Name[a] # Name[Current]
    <3>1. m_assets'[Name[a]] = m_assets[Name[a]]
      <4>1. CASE Name[Current] = NoName
        BY <1>5, <4>1 DEF StoreAsset
      <4>2. CASE Name[Current] # NoName
        <5>1. m_assets' = [m_assets EXCEPT ![Name[Current]] = Current]
          BY <1>5, <4>2 DEF StoreAsset
        <5>. QED BY <1>0, <2>7, <5>1
      <4>. QED BY <4>1, <4>2
    <3>. QED BY <2>1, <2>2, <2>7, <3>1 DEF Settled
  <2>. QED BY <2>5, <2>6, <2>7
<1>6. CASE FinishWork
  <2>1. pos > Len(m_loadQueue)
        /\ m_assets' = m_assets /\ claim' = claim /\ m_refs' = m_refs
    BY <1>6 DEF FinishWork, ghostVars
  <2>2. Outstanding = {}
    BY <2>1 DEF Outstanding
  <2>. QED BY <2>1, <2>2 DEF Settled
<1>7. CASE ~Enqueue /\ ~Remove /\ ~LoadAsset /\ ~LoadFails /\ ~StoreAsset /\ ~FinishWork
  <2>1. UNCHANGED <<claim, Outstanding, m_refs, m_assets>>
    BY <1>7, IdleSteps, QuietSteps
  <2>. QED BY <2>1 DEF Settled
<1>. QED BY <1>1, <1>2, <1>3, <1>4, <1>5, <1>6, <1>7

(* Whether a script finds an asset between loads is decided by the last    *)
(* command that touched the asset's name, in any sequence of loads and     *)
(* unloads, also of groups that were never loaded.                         *)
THEOREM LastCommand == Spec => []LastCommandDecides
<1>1. Init => SettledInv
  BY InitSettled
<1>2. IInv /\ SettledInv /\ [Next]_vars => SettledInv'
  BY ApartStep, ClaimStep, SettledStep DEF SettledInv
<1>3. IInv /\ SettledInv => LastCommandDecides
  <2>. SUFFICES ASSUME IInv, SettledInv, condition = 0 PROVE LastCommandDecides
    BY DEF LastCommandDecides
  <2>1. m_loadQueue = <<>> /\ pos \in Nat \ {0}
    BY DEF IInv, LockInv, TypeOK
  <2>2. Outstanding = {}
    BY <2>1 DEF Outstanding
  <2>. QED BY <2>2 DEF LastCommandDecides, SettledInv, Settled
<1>. QED BY <1>1, <1>2, <1>3, Invariance, PTL DEF Spec

--------------------------------------------------------------------------------
(***************************************************************************)
(* Refinement: seen through Outstanding and the reference counts without   *)
(* the reference the loader has taken but not published, every step is one *)
(* step of the store or none.                                              *)
(***************************************************************************)
Published == [a \in Assets |-> IF loaderPc = "store" /\ a = Current
                               THEN m_refs[a] - 1 ELSE m_refs[a]]

StoreSame == UNCHANGED <<Outstanding, Published, m_assets, m_defaultAssets>>

LEMMA StoreInit == Init => Store!Init
<1>. SUFFICES ASSUME Init PROVE Store!Init
  OBVIOUS
<1>1. Outstanding = {}
  BY DEF Init, Outstanding
<1>2. Published = [a \in Assets |-> 0]
  BY DEF Init, Published
<1>. QED BY <1>1, <1>2 DEF Init, Store!Init, Published

LEMMA StoreStep == IInv /\ [Next]_vars => Store!Next \/ StoreSame
<1>. SUFFICES ASSUME IInv, [Next]_vars PROVE Store!Next \/ StoreSame
  OBVIOUS
<1>. USE DEF IInv, TypeOK
<1>1. CASE Enqueue
  <2>1. /\ Manifest[callGroup] \in Seq(Assets) /\ m_loadQueue = <<>> /\ pos = 1
        /\ loaderPc = "idle"
    BY <1>1, ManifestAssumption DEF Enqueue, LockInv
  <2>2. m_loadQueue' = Manifest[callGroup] /\ pos' = 1 /\ loaderPc' = "idle"
    BY <1>1, <2>1 DEF Enqueue, loaderVars
  <2>3. Outstanding = {} /\ Outstanding' = GroupAssets(callGroup)
    BY <2>1, <2>2 DEF Outstanding, GroupAssets
  <2>4. GroupAssets(callGroup) \in SUBSET Assets
    BY GroupFacts
  <2>5. Published' = Published
    BY <1>1, <2>1, <2>2 DEF Enqueue, Published
  <2>6. Store!Request(GroupAssets(callGroup))
    BY <1>1, <2>3, <2>5 DEF Enqueue, Store!Request, Published
  <2>. QED BY <2>4, <2>6 DEF Store!Next
<1>2. CASE Remove
  <2>1. m_loadQueue = <<>> /\ m_loadQueue' = <<>> /\ pos' = pos
        /\ loaderPc = "idle" /\ loaderPc' = "idle"
    BY <1>2 DEF Remove, LockInv, loaderVars
  <2>2. Outstanding = {} /\ Outstanding' = {}
    BY <2>1 DEF Outstanding
  <2>3. GroupAssets(callGroup) \in SUBSET Assets
    BY GroupFacts
  <2>4. Published = m_refs /\ Published' = m_refs'
    BY <1>2, <2>1, TypeStep DEF Published
  <2>5. /\ Published' = [a \in Assets |->
              IF a \in GroupAssets(callGroup) /\ Published[a] > 0
              THEN Published[a] - 1 ELSE Published[a]]
        /\ m_assets' = [n \in Names |->
              IF \E a \in GroupAssets(callGroup) : Name[a] = n THEN NoAsset
                                                             ELSE m_assets[n]]
        /\ m_defaultAssets' = m_defaultAssets
    BY <1>2, <2>4 DEF Remove, Unloaded, WithoutNames
  <2>6. PICK S \in SUBSET Assets : S = GroupAssets(callGroup)
    BY <2>3
  <2>7. Store!Unload(S)
    BY <2>2, <2>5, <2>6 DEF Store!Unload, Published
  <2>. QED BY <2>7 DEF Store!Next
<1>3. CASE LoadAsset
  <2>1. pos <= Len(m_loadQueue) /\ m_loadQueue' = m_loadQueue /\ pos' = pos
        /\ m_assets' = m_assets /\ m_defaultAssets' = m_defaultAssets
        /\ loaderPc = "load" /\ loaderPc' = "store"
        /\ m_refs' = [m_refs EXCEPT ![Current] = @ + 1]
    BY <1>3 DEF LoadAsset
  <2>2. Current \in Assets /\ Current' = Current /\ Outstanding' = Outstanding
    BY <2>1, CurrentGroup DEF Current, Outstanding
  <2>3. Published = m_refs
    BY <2>1 DEF Published
  <2>4. Published' = [a \in Assets |-> IF a = Current THEN m_refs'[a] - 1 ELSE m_refs'[a]]
    BY <2>1, <2>2 DEF Published
  <2>5. Published' = m_refs
    BY <2>1, <2>2, <2>4
  <2>. QED BY <2>1, <2>2, <2>3, <2>5 DEF StoreSame
<1>4. CASE LoadFails
  <2>1. pos <= Len(m_loadQueue) /\ pos' = pos + 1 /\ m_loadQueue' = m_loadQueue
        /\ m_assets' = m_assets /\ m_defaultAssets' = m_defaultAssets
        /\ loaderPc = "load" /\ loaderPc' = "load" /\ m_refs' = m_refs
        /\ m_refs[Current] = 0
    BY <1>4 DEF LoadFails, storeVars
  <2>2. Current \in Outstanding /\ Outstanding' = Outstanding \ {Current}
    BY <2>1, OutstandingStep
  <2>3. Current \in Assets
    BY <2>1, CurrentGroup
  <2>4. Published = m_refs /\ Published' = m_refs
    BY <2>1 DEF Published
  <2>5. Store!Refuse(Current)
    BY <2>1, <2>2, <2>3, <2>4 DEF Store!Refuse, Published
  <2>. QED BY <2>3, <2>5 DEF Store!Next
<1>5. CASE StoreAsset
  <2>1. pos <= Len(m_loadQueue) /\ pos' = pos + 1 /\ m_loadQueue' = m_loadQueue
        /\ loaderPc = "store" /\ loaderPc' = "load" /\ m_refs' = m_refs
    BY <1>5 DEF StoreAsset, LockInv
  <2>2. Current \in Outstanding /\ Outstanding' = Outstanding \ {Current}
    BY <2>1, OutstandingStep
  <2>3. Current \in Assets
    BY <2>1, CurrentGroup
  <2>4. Published = [a \in Assets |-> IF a = Current THEN m_refs[a] - 1 ELSE m_refs[a]]
    BY <2>1 DEF Published
  <2>5. Published' = m_refs
    BY <2>1 DEF Published
  <2>6. Published' = [Published EXCEPT ![Current] = @ + 1]
    BY <2>3, <2>4, <2>5
  <2>7. \/ /\ Name[Current] = NoName
           /\ m_defaultAssets' = [m_defaultAssets EXCEPT ![Class[Current]] = Current]
           /\ UNCHANGED m_assets
        \/ /\ Name[Current] # NoName
           /\ m_assets' = [m_assets EXCEPT ![Name[Current]] = Current]
           /\ UNCHANGED m_defaultAssets
    BY <1>5 DEF StoreAsset
  <2>8. PICK a \in Assets : a = Current
    BY <2>3
  <2>9. Store!Publish(a)
    BY <2>2, <2>6, <2>7, <2>8 DEF Store!Publish, Published
  <2>. QED BY <2>9 DEF Store!Next
<1>6. CASE FinishWork
  <2>1. pos > Len(m_loadQueue) /\ m_loadQueue' = <<>> /\ pos' = 1
        /\ m_assets' = m_assets /\ m_defaultAssets' = m_defaultAssets
        /\ loaderPc = "load" /\ loaderPc' = "idle" /\ m_refs' = m_refs
    BY <1>6 DEF FinishWork
  <2>2. Outstanding = {} /\ Outstanding' = {}
    BY <2>1 DEF Outstanding
  <2>3. Published = m_refs /\ Published' = m_refs
    BY <2>1 DEF Published
  <2>. QED BY <2>1, <2>2, <2>3 DEF StoreSame
<1>7. CASE ~Enqueue /\ ~Remove /\ ~LoadAsset /\ ~LoadFails /\ ~StoreAsset /\ ~FinishWork
  <2>. USE DEF lockVars, storeVars, callVars, lookupVars, loaderVars, ghostVars
  <2>1. UNCHANGED m_loadQueue /\ (UNCHANGED <<pos, loaderPc>> \/ LockToWork)
    <3>1. CASE MainCall
      BY <3>1 DEF MainCall, CallLoadAssets, CallUnloadAssets, LookupBegin, IsLoadComplete
    <3>2. CASE MainContinue
      BY <1>7, <3>2 DEF MainContinue, LockToLoad, WaitUntilLoadComplete, LockToUnload,
                        LookupEnd, LookupReturn
    <3>3. CASE Loader
      BY <1>7, <3>3 DEF Loader, LockToWork
    <3>4. CASE UNCHANGED vars
      BY <3>4 DEF vars
    <3>. QED BY <3>1, <3>2, <3>3, <3>4 DEF Next
  <2>2. pos' = pos /\ (loaderPc' = loaderPc \/ (loaderPc # "store" /\ loaderPc' # "store"))
    <3>1. CASE UNCHANGED <<pos, loaderPc>>
      BY <3>1
    <3>2. CASE LockToWork
      BY <3>2 DEF LockToWork, LockInv
    <3>. QED BY <2>1, <3>1, <3>2
  <2>3. UNCHANGED <<m_refs, m_assets, m_defaultAssets>>
    BY <1>7, QuietSteps
  <2>4. Outstanding' = Outstanding /\ Current' = Current
    BY <2>1, <2>2 DEF Outstanding, Current
  <2>5. Published' = Published
    BY <2>2, <2>3, <2>4 DEF Published
  <2>. QED BY <2>3, <2>4, <2>5 DEF StoreSame
<1>. QED BY <1>1, <1>2, <1>3, <1>4, <1>5, <1>6, <1>7

(* The two threads, their lock and their queue implement the asset store   *)
(* in which a request, a load and an unload are single steps.              *)
THEOREM Implementation == Spec => ImplementsStore
<1>1. Init => Store!Init
  BY StoreInit
<1>2. IInv /\ [Next]_vars => [Store!Next]_(Store!storeVars)
  BY StoreStep DEF StoreSame, Store!storeVars, Published
<1>. QED BY <1>1, <1>2, Invariance, PTL DEF Spec, ImplementsStore
===============================================================================
