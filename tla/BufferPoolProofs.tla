-------------------------- MODULE BufferPoolProofs --------------------------
(***************************************************************************)
(* Theorems about module BufferPool for every number of threads and spaces *)
(* and every limit.  PInv is the inductive invariant.  That a space is in  *)
(* one place only rests on who holds which lock at each place of a call,   *)
(* and on what a thread knows of its space between two lock operations:    *)
(* nobody else has it while it is handed out or given back (Alone).        *)
(***************************************************************************)
EXTENDS BufferPool, FiniteSetTheorems, SequenceTheorems, TLAPS

(* Where a thread holds have, and where it holds the use lock of its space *)
HoldsHave == {"getChoose", "getUnlink", "dropLink"}
HoldsUse  == {"getUnlink", "getUse", "useTwist", "dropLook", "dropLink",
              "dropTwist"}

(* The places of a thread that has no space, that is a user of its space,  *)
(* and where no other thread can have that space.                          *)
NoSpaceYet == {"idle", "getHave", "getChoose"}
IsUser     == {"usePossess", "useTwist", "dropUse", "dropLook", "dropLink",
               "dropTwist"}
OnlyOne    == {"getUse", "getNew", "dropLink", "dropTwist"}

LocksHeld ==
    /\ \A t \in Threads : owner[Have] = t <=> pc[t] \in HoldsHave
    /\ \A t \in Threads : \A s \in Spaces :
           owner[s] = t <=> space[t] = s /\ pc[t] \in HoldsUse

(* Only spaces that have been made are named, and a closed pool has none.  *)
SpacesNamed ==
    /\ \A t \in Threads : IF pc[t] \in NoSpaceYet THEN space[t] = NoSpace
                                                  ELSE space[t] \in 1 .. made
    /\ \A s \in Spaces : s > made => refs[s] = 0
    /\ \A i \in DOMAIN head : head[i] <= made
    /\ ~open => /\ head = <<>> /\ made = 0 /\ limit = 0
                /\ \A t \in Threads : pc[t] = "idle"

(* The list, which the value of have counts, has no space twice; the one   *)
(* that get_space is about to unlink is still its first.                   *)
FreeList ==
    /\ value[Have] = Len(head)
    /\ \A i, k \in DOMAIN head : head[i] = head[k] => i = k
    /\ \A t \in Threads :
           pc[t] = "getUnlink" => head # <<>> /\ space[t] = head[1]

(* The value of a use lock counts the references to the space.             *)
Counted == \A s \in Spaces : value[s] = References(s)

(* A space in the list has no reference but that of the call that links it *)
(* and a space that is not there has one or is being handed out.           *)
ListedUnused ==
    \A i \in DOMAIN head :
        /\ refs[head[i]] = 0
        /\ \A t \in Threads :
               space[t] = head[i] => pc[t] \in {"getUnlink", "dropTwist"}

UnlistedUsed ==
    \A s \in 1 .. made : (\A i \in DOMAIN head : head[i] # s) =>
        refs[s] > 0 \/ \E t \in Threads : space[t] = s /\ pc[t] # "dropTwist"

(* No other thread has a space that is being handed out or given back.     *)
Alone ==
    \A t \in Threads : pc[t] \in OnlyOne =>
        /\ refs[space[t]] = 0
        /\ \A u \in Threads : space[u] = space[t] => u = t

(* limit counts down the spaces that may still be made; without a limit    *)
(* the callers on their way find a space or room for one (BOUND).          *)
Capacity ==
    /\ limit \in {-1} \cup Nat
    /\ limit >= 0 => made + limit <= MaxSpaces
    /\ limit < 0 => Cardinality(Choosing) <= Len(head) + MaxSpaces - made

PInv == /\ TypeOK /\ LocksHeld /\ SpacesNamed /\ FreeList /\ Counted
        /\ ListedUnused /\ UnlistedUsed /\ Alone /\ Capacity
-----------------------------------------------------------------------------
(* What is known of the locks by their names.                              *)
LEMMA LockNames ==
    /\ Have \in Locks /\ Spaces \subseteq Locks /\ Have \notin Spaces
    /\ MaxSpaces \in Nat
    /\ Getters \subseteq Threads /\ Droppers \subseteq Threads
BY PoolAssumption DEF Have, Spaces

(* A thread inside a call that has a space has one that was made.          *)
LEMMA SpaceThere ==
    ASSUME PInv, NEW t \in Threads, pc[t] \notin NoSpaceYet
    PROVE  space[t] \in 1 .. made /\ space[t] \in Spaces
<1>1. space[t] \in 1 .. made
  BY DEF PInv, SpacesNamed
<1> QED BY <1>1, LockNames DEF PInv, TypeOK, Spaces

(* A step of one thread's call leaves the others where they are.           *)
OnlyMoves(t) == \A u \in Threads \ {t} : space'[u] = space[u] /\ pc'[u] = pc[u]

(* A call's step changes the users of a space by its own thread at most.   *)
LEMMA UsingStep ==
    ASSUME NEW t \in Threads, NEW s,
           OnlyMoves(t)
    PROVE  /\ Cardinality(Using(s)) \in Nat /\ Cardinality(Using(s)') \in Nat
           /\ t \in Using(s) => Cardinality(Using(s)) > 0
           /\ Cardinality(Using(s)')
                  = Cardinality(Using(s)) - (IF t \in Using(s) THEN 1 ELSE 0)
                                          + (IF t \in Using(s)' THEN 1 ELSE 0)
<1> DEFINE rest == Using(s) \ {t}
<1>1. /\ IsFiniteSet(Using(s)) /\ IsFiniteSet(Using(s)') /\ IsFiniteSet(rest)
      /\ Cardinality(Using(s)) \in Nat /\ Cardinality(Using(s)') \in Nat
      /\ Cardinality(rest) \in Nat
  <2>1. Using(s) \in SUBSET Threads /\ Using(s)' \in SUBSET Threads
    BY DEF Using
  <2> QED BY <2>1, PoolAssumption, FS_Subset, FS_CardinalityType
<1>2. rest = Using(s)' \ {t}
  BY DEF Using, OnlyMoves
<1> HIDE DEF rest
<1>3. Cardinality(rest) = Cardinality(Using(s)) - (IF t \in Using(s) THEN 1 ELSE 0)
  BY <1>1, FS_RemoveElement DEF rest
<1>4. Cardinality(rest) = Cardinality(Using(s)') - (IF t \in Using(s)' THEN 1 ELSE 0)
  BY <1>1, <1>2, FS_RemoveElement
<1> QED BY <1>1, <1>3, <1>4

(* The same for the callers that get_space has not served yet.             *)
LEMMA ChoosingStep ==
    ASSUME NEW t \in Getters,
           OnlyMoves(t)
    PROVE  /\ Cardinality(Choosing) \in Nat /\ Cardinality(Choosing') \in Nat
           /\ t \in Choosing => Cardinality(Choosing) > 0
           /\ Cardinality(Choosing')
                  = Cardinality(Choosing) - (IF t \in Choosing THEN 1 ELSE 0)
                                          + (IF t \in Choosing' THEN 1 ELSE 0)
<1> DEFINE rest == Choosing \ {t}
<1>1. /\ IsFiniteSet(Choosing) /\ IsFiniteSet(Choosing') /\ IsFiniteSet(rest)
      /\ Cardinality(Choosing) \in Nat /\ Cardinality(Choosing') \in Nat
      /\ Cardinality(rest) \in Nat
  <2>1. Choosing \in SUBSET Threads /\ Choosing' \in SUBSET Threads
    BY PoolAssumption DEF Choosing
  <2> QED BY <2>1, PoolAssumption, FS_Subset, FS_CardinalityType
<1>2. rest = Choosing' \ {t}
  BY PoolAssumption DEF Choosing, OnlyMoves
<1> HIDE DEF rest
<1>3. Cardinality(rest) = Cardinality(Choosing) - (IF t \in Choosing THEN 1 ELSE 0)
  BY <1>1, FS_RemoveElement DEF rest
<1>4. Cardinality(rest) = Cardinality(Choosing') - (IF t \in Choosing' THEN 1 ELSE 0)
  BY <1>1, <1>2, FS_RemoveElement
<1> QED BY <1>1, <1>3, <1>4

(* The counts stay right when the value of each use lock moves with the    *)
(* references to the space.                                                *)
LEMMA CountedStep ==
    ASSUME Counted, value \in [Locks -> Int], refs \in [Spaces -> Nat],
           value' \in [Locks -> Int], refs' \in [Spaces -> Nat],
           Spaces \subseteq Locks, NEW t \in Threads, OnlyMoves(t),
           \A s \in Spaces :
               value'[s] = value[s] + (refs'[s] - refs[s])
                              - (IF t \in Using(s) THEN 1 ELSE 0)
                              + (IF t \in Using(s)' THEN 1 ELSE 0)
    PROVE  Counted'
<1>1. \A s \in Spaces : value'[s] = refs'[s] + Cardinality(Using(s)')
  <2> TAKE s \in Spaces
  <2>1. /\ Cardinality(Using(s)) \in Nat /\ Cardinality(Using(s)') \in Nat
        /\ Cardinality(Using(s)')
               = Cardinality(Using(s)) - (IF t \in Using(s) THEN 1 ELSE 0)
                                       + (IF t \in Using(s)' THEN 1 ELSE 0)
    BY UsingStep
  <2>2. value[s] = refs[s] + Cardinality(Using(s))
    BY DEF Counted, References
  <2>3. value[s] \in Int /\ value'[s] \in Int /\ refs[s] \in Int /\ refs'[s] \in Int
    OBVIOUS
  <2> HIDE DEF Using
  <2> QED BY <2>1, <2>2, <2>3
<1> QED BY <1>1 DEF Counted, References

(* A space stays used or listed unless the step takes away its last user.  *)
LEMMA UnlistedStep ==
    ASSUME UnlistedUsed, NEW t \in Threads, OnlyMoves(t),
           \A s \in 1 .. made' : (\A i \in DOMAIN head' : head'[i] # s) =>
               \/ refs'[s] > 0
               \/ space'[t] = s /\ pc'[t] # "dropTwist"
               \/ /\ s \in 1 .. made /\ \A i \in DOMAIN head : head[i] # s
                  /\ refs[s] > 0 => refs'[s] > 0
                  /\ space[t] = s => pc[t] = "dropTwist"
    PROVE  UnlistedUsed'
<1> SUFFICES ASSUME NEW s \in 1 .. made', \A i \in DOMAIN head' : head'[i] # s,
                    ~(refs'[s] > 0)
             PROVE  \E u \in Threads : space'[u] = s /\ pc'[u] # "dropTwist"
  BY Zenon DEF UnlistedUsed
<1>1. CASE space'[t] = s /\ pc'[t] # "dropTwist"
  BY <1>1
<1>2. CASE /\ s \in 1 .. made /\ \A i \in DOMAIN head : head[i] # s
           /\ ~(refs[s] > 0)
           /\ space[t] = s => pc[t] = "dropTwist"
  <2>1. PICK u \in Threads : space[u] = s /\ pc[u] # "dropTwist"
    BY <1>2, Zenon DEF UnlistedUsed
  <2>2. u \in Threads \ {t}
    BY <1>2, <2>1
  <2> QED BY <2>1, <2>2 DEF OnlyMoves
<1> QED BY <1>1, <1>2
-----------------------------------------------------------------------------
(* A caller that enters get_space has room for a space.                    *)
LEMMA GetCallInv ==
    ASSUME PInv, NEW t \in Getters, GetCall(t)
    PROVE  PInv'
<1> USE LockNames DEF PInv
<1>1. pc[t] = "idle" /\ open /\ t \in Threads /\ space[t] = NoSpace
  BY DEF GetCall, SpacesNamed, NoSpaceYet
<1>2. /\ pc' = [pc EXCEPT ![t] = "getHave"] /\ OnlyMoves(t)
      /\ UNCHANGED <<value, owner, asleep, space, head, open, limit, made, refs, shared>>
  BY <1>1 DEF GetCall, Goto, lockVars, poolState, OnlyMoves, TypeOK
<1> USE <1>1, <1>2
<1>3. TypeOK'
  BY DEF TypeOK, Places
<1>4. LocksHeld'
  <2>1. \A u \in Threads : owner'[Have] = u <=> pc'[u] \in HoldsHave
    BY LockAssumption DEF TypeOK, LocksHeld, HoldsHave
  <2>2. \A u \in Threads : \A x \in Spaces :
            owner'[x] = u <=> space'[u] = x /\ pc'[u] \in HoldsUse
    BY LockAssumption DEF TypeOK, LocksHeld, HoldsUse, SpacesNamed,
                           NoSpaceYet, NoSpace
  <2> QED BY <2>1, <2>2 DEF LocksHeld
<1>5. SpacesNamed'
  BY DEF TypeOK, SpacesNamed, NoSpaceYet, NoSpace
<1>6. FreeList'
  BY DEF TypeOK, FreeList, LocksHeld, HoldsHave
<1>7. Counted'
  <2>1. \A x \in Spaces : t \in Using(x) <=> t \in Using(x)'
    BY DEF TypeOK, Using
  <2>2. \A x \in Spaces :
            value'[x] = value[x] + (refs'[x] - refs[x])
                           - (IF t \in Using(x) THEN 1 ELSE 0)
                           + (IF t \in Using(x)' THEN 1 ELSE 0)
    BY <2>1 DEF TypeOK
  <2> QED BY <1>3, <2>2, CountedStep, Zenon DEF TypeOK
<1>8. ListedUnused'
  BY DEF TypeOK, ListedUnused
<1>9. UnlistedUsed'
  <2>1. \A x \in 1 .. made : (\A i \in DOMAIN head : head[i] # x) =>
            \/ refs'[x] > 0
            \/ space'[t] = x /\ pc'[t] # "dropTwist"
            \/ /\ refs[x] > 0 => refs'[x] > 0
               /\ space[t] = x => pc[t] = "dropTwist"
    BY DEF TypeOK, SpacesNamed, NoSpaceYet, NoSpace
  <2> QED BY <2>1, UnlistedStep
<1>10. Alone'
  BY DEF TypeOK, Alone, OnlyOne
<1>11. Capacity'
  <2>1. limit < 0 => Cardinality(Choosing) < Len(head) + MaxSpaces - made
    BY DEF GetCall, RoomForCall
  <2>2. /\ Cardinality(Choosing) \in Nat /\ Cardinality(Choosing') \in Nat
        /\ Cardinality(Choosing') <= Cardinality(Choosing) + 1
    BY ChoosingStep
  <2>3. Len(head) \in Nat
    BY DEF TypeOK
  <2> QED BY <2>1, <2>2, <2>3 DEF TypeOK, Capacity
<1> QED BY <1>3, <1>4, <1>5, <1>6, <1>7, <1>8, <1>9, <1>10, <1>11

(* possess(pool->have)                                                     *)
LEMMA GetPossessHaveInv ==
    ASSUME PInv, NEW t \in Getters, GetPossessHave(t)
    PROVE  PInv'
<1> USE LockNames DEF PInv
<1>1. pc[t] = "getHave" /\ t \in Threads /\ space[t] = NoSpace /\ owner[Have] = Nobody
  BY DEF GetPossessHave, Possess, SpacesNamed, NoSpaceYet
<1>2. /\ pc' = [pc EXCEPT ![t] = "getChoose"] /\ OnlyMoves(t)
      /\ owner' = [owner EXCEPT ![Have] = t]
      /\ UNCHANGED <<value, asleep, space, head, open, limit, made, refs, shared>>
  BY <1>1 DEF GetPossessHave, Possess, Goto, poolState, OnlyMoves, TypeOK
<1> USE <1>1, <1>2
<1>3. TypeOK'
  BY DEF TypeOK, Places
<1>4. LocksHeld'
  <2>1. \A u \in Threads : owner'[Have] = u <=> pc'[u] \in HoldsHave
    BY LockAssumption DEF TypeOK, LocksHeld, HoldsHave
  <2>2. \A u \in Threads : \A x \in Spaces :
            owner'[x] = u <=> space'[u] = x /\ pc'[u] \in HoldsUse
    BY LockAssumption DEF TypeOK, LocksHeld, HoldsUse, SpacesNamed,
                           NoSpaceYet, NoSpace
  <2> QED BY <2>1, <2>2 DEF LocksHeld
<1>5. SpacesNamed'
  BY DEF TypeOK, SpacesNamed, NoSpaceYet, NoSpace
<1>6. FreeList'
  BY DEF TypeOK, FreeList, LocksHeld, HoldsHave
<1>7. Counted'
  <2>1. \A x \in Spaces : t \in Using(x) <=> t \in Using(x)'
    BY DEF TypeOK, Using
  <2>2. \A x \in Spaces :
            value'[x] = value[x] + (refs'[x] - refs[x])
                           - (IF t \in Using(x) THEN 1 ELSE 0)
                           + (IF t \in Using(x)' THEN 1 ELSE 0)
    BY <2>1 DEF TypeOK
  <2> QED BY <1>3, <2>2, CountedStep, Zenon DEF TypeOK
<1>8. ListedUnused'
  BY DEF TypeOK, ListedUnused
<1>9. UnlistedUsed'
  <2>1. \A x \in 1 .. made : (\A i \in DOMAIN head : head[i] # x) =>
            \/ refs'[x] > 0
            \/ space'[t] = x /\ pc'[t] # "dropTwist"
            \/ /\ refs[x] > 0 => refs'[x] > 0
               /\ space[t] = x => pc[t] = "dropTwist"
    BY DEF TypeOK, SpacesNamed, NoSpaceYet, NoSpace
  <2> QED BY <2>1, UnlistedStep
<1>10. Alone'
  BY DEF TypeOK, Alone, OnlyOne
<1>11. Capacity'
  BY ChoosingStep DEF TypeOK, Capacity, Choosing
<1> QED BY <1>3, <1>4, <1>5, <1>6, <1>7, <1>8, <1>9, <1>10, <1>11

(* wait_for(pool->have, NOT_TO_BE, 0), which unlocks have while it waits   *)
LEMMA GetWaitInv ==
    ASSUME PInv, NEW t \in Getters, GetWait(t)
    PROVE  PInv'
<1> USE LockNames DEF PInv
<1>1. pc[t] = "getChoose" /\ t \in Threads /\ space[t] = NoSpace /\ owner[Have] = t
  BY DEF GetWait, CondWait, SpacesNamed, NoSpaceYet
<1>2. /\ pc' = [pc EXCEPT ![t] = "getHave"] /\ OnlyMoves(t)
      /\ owner' = [owner EXCEPT ![Have] = Nobody]
      /\ asleep' = [asleep EXCEPT ![Have] = @ \cup {t}]
      /\ UNCHANGED <<value, space, head, open, limit, made, refs, shared>>
  BY <1>1 DEF GetWait, CondWait, Goto, poolState, OnlyMoves, TypeOK
<1> USE <1>1, <1>2
<1>3. TypeOK'
  BY DEF TypeOK, Places
<1>4. LocksHeld'
  <2>1. \A u \in Threads : owner'[Have] = u <=> pc'[u] \in HoldsHave
    BY LockAssumption DEF TypeOK, LocksHeld, HoldsHave
  <2>2. \A u \in Threads : \A x \in Spaces :
            owner'[x] = u <=> space'[u] = x /\ pc'[u] \in HoldsUse
    BY LockAssumption DEF TypeOK, LocksHeld, HoldsUse, SpacesNamed,
                           NoSpaceYet, NoSpace
  <2> QED BY <2>1, <2>2 DEF LocksHeld
<1>5. SpacesNamed'
  BY DEF TypeOK, SpacesNamed, NoSpaceYet, NoSpace
<1>6. FreeList'
  BY DEF TypeOK, FreeList, LocksHeld, HoldsHave
<1>7. Counted'
  <2>1. \A x \in Spaces : t \in Using(x) <=> t \in Using(x)'
    BY DEF TypeOK, Using
  <2>2. \A x \in Spaces :
            value'[x] = value[x] + (refs'[x] - refs[x])
                           - (IF t \in Using(x) THEN 1 ELSE 0)
                           + (IF t \in Using(x)' THEN 1 ELSE 0)
    BY <2>1 DEF TypeOK
  <2> QED BY <1>3, <2>2, CountedStep, Zenon DEF TypeOK
<1>8. ListedUnused'
  BY DEF TypeOK, ListedUnused
<1>9. UnlistedUsed'
  <2>1. \A x \in 1 .. made : (\A i \in DOMAIN head : head[i] # x) =>
            \/ refs'[x] > 0
            \/ space'[t] = x /\ pc'[t] # "dropTwist"
            \/ /\ refs[x] > 0 => refs'[x] > 0
               /\ space[t] = x => pc[t] = "dropTwist"
    BY DEF TypeOK, SpacesNamed, NoSpaceYet, NoSpace
  <2> QED BY <2>1, UnlistedStep
<1>10. Alone'
  BY DEF TypeOK, Alone, OnlyOne
<1>11. Capacity'
  BY ChoosingStep DEF TypeOK, Capacity, Choosing
<1> QED BY <1>3, <1>4, <1>5, <1>6, <1>7, <1>8, <1>9, <1>10, <1>11

(* possess(space->use) of the first space, while have is held              *)
LEMMA GetPossessUseInv ==
    ASSUME PInv, NEW t \in Getters, GetPossessUse(t)
    PROVE  PInv'
<1> USE LockNames DEF PInv
<1> DEFINE s == head[1]
<1>1. /\ pc[t] = "getChoose" /\ t \in Threads /\ space[t] = NoSpace
      /\ head # <<>> /\ Head(head) = s /\ 1 \in DOMAIN head
      /\ s \in Spaces /\ owner[s] = Nobody
  <2>1. /\ pc[t] = "getChoose" /\ head # <<>>
        /\ owner[Head(head)] = Nobody /\ t \in Threads
    BY DEF GetPossessUse, Possess
  <2>2. Head(head) = s /\ 1 \in DOMAIN head /\ s \in Spaces
    BY <2>1, ElementOfSeq, EmptySeq, HeadTailProperties DEF TypeOK
  <2> QED BY <2>1, <2>2 DEF SpacesNamed, NoSpaceYet
<1>2. /\ pc' = [pc EXCEPT ![t] = "getUnlink"] /\ OnlyMoves(t)
      /\ space' = [space EXCEPT ![t] = s]
      /\ owner' = [owner EXCEPT ![s] = t]
      /\ UNCHANGED <<value, asleep, head, open, limit, made, refs, shared>>
  BY <1>1 DEF GetPossessUse, Possess, Goto, poolState, OnlyMoves, TypeOK
<1> HIDE DEF s
<1> USE <1>1, <1>2
<1>3. TypeOK'
  BY DEF TypeOK, Places
<1>4. LocksHeld'
  <2>1. \A u \in Threads : owner'[Have] = u <=> pc'[u] \in HoldsHave
    BY LockAssumption DEF TypeOK, LocksHeld, HoldsHave
  <2>2. \A u \in Threads : \A x \in Spaces :
            owner'[x] = u <=> space'[u] = x /\ pc'[u] \in HoldsUse
    BY LockAssumption DEF TypeOK, LocksHeld, HoldsUse, SpacesNamed,
                           NoSpaceYet, NoSpace
  <2> QED BY <2>1, <2>2 DEF LocksHeld
<1>5. SpacesNamed'
  BY DEF TypeOK, SpacesNamed, NoSpaceYet, NoSpace, s, Spaces
<1>6. FreeList'
  BY DEF TypeOK, FreeList, LocksHeld, HoldsHave, s
<1>7. Counted'
  <2>1. \A x \in Spaces : t \in Using(x) <=> t \in Using(x)'
    BY DEF TypeOK, Using
  <2>2. \A x \in Spaces :
            value'[x] = value[x] + (refs'[x] - refs[x])
                           - (IF t \in Using(x) THEN 1 ELSE 0)
                           + (IF t \in Using(x)' THEN 1 ELSE 0)
    BY <2>1 DEF TypeOK
  <2> QED BY <1>3, <2>2, CountedStep, Zenon DEF TypeOK
<1>8. ListedUnused'
  BY DEF TypeOK, ListedUnused, s
<1>9. UnlistedUsed'
  <2>1. \A x \in 1 .. made : (\A i \in DOMAIN head : head[i] # x) =>
            \/ refs'[x] > 0
            \/ space'[t] = x /\ pc'[t] # "dropTwist"
            \/ /\ refs[x] > 0 => refs'[x] > 0
               /\ space[t] = x => pc[t] = "dropTwist"
    BY DEF TypeOK, SpacesNamed, NoSpaceYet, NoSpace
  <2> QED BY <2>1, UnlistedStep
<1>10. Alone'
  BY LockAssumption DEF TypeOK, Alone, OnlyOne, LocksHeld, HoldsUse,
                         ListedUnused, s
<1>11. Capacity'
  BY ChoosingStep DEF TypeOK, Capacity, Choosing
<1> QED BY <1>3, <1>4, <1>5, <1>6, <1>7, <1>8, <1>9, <1>10, <1>11

(* The space is taken off the list, and have is released: from here on     *)
(* nobody else can reach it.                                               *)
LEMMA GetUnlinkInv ==
    ASSUME PInv, NEW t \in Getters, GetUnlink(t)
    PROVE  PInv'
<1> USE LockNames DEF PInv
<1> DEFINE s == space[t]
<1>1. /\ pc[t] = "getUnlink" /\ t \in Threads /\ owner[Have] = t
      /\ head # <<>> /\ s = head[1] /\ s \in Spaces /\ s \in 1 .. made
      /\ owner[s] = t
  <2>1. pc[t] = "getUnlink" /\ t \in Threads
    BY DEF GetUnlink
  <2>2. head # <<>> /\ s = head[1] /\ s \in 1 .. made
    BY <2>1 DEF FreeList, SpacesNamed, NoSpaceYet
  <2>3. owner[Have] = t /\ s \in Spaces /\ owner[s] = t
    BY <2>1, <2>2 DEF TypeOK, LocksHeld, HoldsHave, HoldsUse
  <2> QED BY <2>1, <2>2, <2>3
<1>2. /\ pc' = [pc EXCEPT ![t] = "getUse"] /\ OnlyMoves(t)
      /\ value' = [value EXCEPT ![Have] = value[Have] - 1]
      /\ owner' = [owner EXCEPT ![Have] = Nobody]
      /\ asleep' = [asleep EXCEPT ![Have] = {}]
      /\ UNCHANGED <<space, open, limit, made, refs, shared>>
  BY <1>1 DEF GetUnlink, twist, Goto, OnlyMoves, TypeOK
<1>t. head' \in Seq(Spaces) /\ head \in Seq(Spaces)
  BY <1>1, HeadTailProperties DEF TypeOK, GetUnlink
<1>l. Len(head) \in Nat /\ Len(head') = Len(head) - 1
  BY <1>1, HeadTailProperties, LenProperties DEF TypeOK, GetUnlink
<1>v. value[Have] \in Int
  BY DEF TypeOK
<1>a. /\ DOMAIN head = 1 .. Len(head) /\ DOMAIN head' = 1 .. Len(head')
      /\ \A i \in DOMAIN head' : i + 1 \in DOMAIN head /\ head'[i] = head[i + 1]
      /\ \A i \in DOMAIN head :
             i = 1 \/ (i - 1 \in DOMAIN head' /\ head'[i - 1] = head[i])
  BY <1>1, <1>t, <1>l, HeadTailProperties, LenProperties DEF GetUnlink
<1> HIDE DEF s
<1> USE <1>1, <1>2
<1>3. TypeOK'
  <2>1. value' \in [Locks -> Int]
    BY <1>v DEF TypeOK
  <2>2. owner' \in [Locks -> Threads \cup {Nobody}]
    BY DEF TypeOK
  <2>3. asleep' \in [Locks -> SUBSET Threads]
    BY DEF TypeOK
  <2>4. pc' \in [Threads -> Places]
    BY DEF TypeOK, Places
  <2> QED BY <2>1, <2>2, <2>3, <2>4, <1>t DEF TypeOK
<1>4. LocksHeld'
  <2>1. \A u \in Threads : owner'[Have] = u <=> pc'[u] \in HoldsHave
    BY LockAssumption DEF TypeOK, LocksHeld, HoldsHave
  <2>2. \A u \in Threads : \A x \in Spaces :
            owner'[x] = u <=> space'[u] = x /\ pc'[u] \in HoldsUse
    BY LockAssumption DEF TypeOK, LocksHeld, HoldsUse, SpacesNamed,
                           NoSpaceYet, NoSpace
  <2> QED BY <2>1, <2>2 DEF LocksHeld
<1>5. SpacesNamed'
  BY <1>a DEF TypeOK, SpacesNamed, NoSpaceYet, NoSpace
<1>6. FreeList'
  <2>1. value'[Have] = Len(head')
    BY <1>l DEF TypeOK, FreeList
  <2>2. \A i, k \in DOMAIN head' : head'[i] = head'[k] => i = k
    <3> TAKE i, k \in DOMAIN head'
    <3>1. /\ i + 1 \in DOMAIN head /\ head'[i] = head[i + 1] /\ i \in Int
          /\ k + 1 \in DOMAIN head /\ head'[k] = head[k + 1] /\ k \in Int
      BY <1>l, <1>a
    <3>2. head[i + 1] = head[k + 1] => i + 1 = k + 1
      BY <3>1, Zenon DEF FreeList
    <3> QED BY <3>1, <3>2
  <2>3. \A u \in Threads : pc'[u] # "getUnlink"
    BY DEF TypeOK, LocksHeld, HoldsHave
  <2> QED BY <2>1, <2>2, <2>3 DEF FreeList
<1>7. Counted'
  <2>1. \A x \in Spaces : t \in Using(x) <=> t \in Using(x)'
    BY DEF TypeOK, Using
  <2>2. \A x \in Spaces :
            value'[x] = value[x] + (refs'[x] - refs[x])
                           - (IF t \in Using(x) THEN 1 ELSE 0)
                           + (IF t \in Using(x)' THEN 1 ELSE 0)
    BY <2>1 DEF TypeOK
  <2> QED BY <1>3, <2>2, CountedStep, Zenon DEF TypeOK
<1>8. ListedUnused'
  <2> SUFFICES ASSUME NEW i \in DOMAIN head'
               PROVE  /\ refs[head'[i]] = 0
                      /\ \A u \in Threads : space[u] = head'[i] =>
                             pc'[u] \in {"getUnlink", "dropTwist"}
    BY DEF ListedUnused
  <2>1. /\ i + 1 \in DOMAIN head /\ 1 \in DOMAIN head /\ i + 1 # 1
        /\ head'[i] = head[i + 1]
    BY <1>l, <1>a
  <2>2. head[i + 1] # s
    BY <2>1, Zenon DEF FreeList
  <2> QED BY <2>1, <2>2, SMTT(30) DEF TypeOK, ListedUnused, s
<1>9. UnlistedUsed'
  <2>1. \A x \in 1 .. made' : (\A i \in DOMAIN head' : head'[i] # x) =>
            \/ refs'[x] > 0
            \/ space'[t] = x /\ pc'[t] # "dropTwist"
            \/ /\ x \in 1 .. made /\ \A i \in DOMAIN head : head[i] # x
               /\ refs[x] > 0 => refs'[x] > 0
               /\ space[t] = x => pc[t] = "dropTwist"
    BY <1>a DEF s, TypeOK
  <2> QED BY <2>1, UnlistedStep
<1>10. Alone'
  BY LockAssumption DEF TypeOK, Alone, OnlyOne, ListedUnused, LocksHeld, HoldsUse, HoldsHave, s
<1>11. Capacity'
  BY <1>l, ChoosingStep DEF TypeOK, Capacity, Choosing
<1> QED BY <1>3, <1>4, <1>5, <1>6, <1>7, <1>8, <1>9, <1>10, <1>11

(* The space leaves get_space for a job, with one user.                    *)
LEMMA GetReturnInv ==
    ASSUME PInv, NEW t \in Getters, GetReturn(t)
    PROVE  PInv'
<1> USE LockNames DEF PInv
<1> DEFINE s == space[t]
<1>1. /\ pc[t] = "getUse" /\ t \in Threads /\ s \in Spaces /\ s \in 1 .. made
      /\ owner[s] = t
  <2>1. pc[t] = "getUse" /\ t \in Threads /\ owner[s] = t
    BY DEF GetReturn, twist
  <2>2. s \in 1 .. made
    BY <2>1 DEF SpacesNamed, NoSpaceYet
  <2>3. s \in Spaces
    BY <2>2 DEF TypeOK, Spaces
  <2> QED BY <2>1, <2>2, <2>3
<1>2. /\ pc' = [pc EXCEPT ![t] = "idle"] /\ OnlyMoves(t)
      /\ space' = [space EXCEPT ![t] = NoSpace]
      /\ value' = [value EXCEPT ![s] = 1]
      /\ refs' = [refs EXCEPT ![s] = @ + 1]
      /\ shared' = shared \ {s}
      /\ owner' = [owner EXCEPT ![s] = Nobody]
      /\ asleep' = [asleep EXCEPT ![s] = {}]
      /\ UNCHANGED <<head, open, limit, made>>
  BY <1>1 DEF GetReturn, twist, Goto, poolState, OnlyMoves, TypeOK, s
<1>u. refs[s] = 0 /\ value[s] = 0 /\ \A u \in Threads : space[u] = s => u = t
  <2>1. refs[s] = 0 /\ \A u \in Threads : space[u] = s => u = t
    BY <1>1 DEF Alone, OnlyOne, s
  <2>2. Using(s) = {}
    BY <1>1, <2>1 DEF Using
  <2>3. value[s] = refs[s] + Cardinality({})
    BY <1>1, <2>2 DEF Counted, References
  <2> QED BY <2>1, <2>3, FS_EmptySet
<1>h. \A i \in DOMAIN head : head[i] # s
  BY <1>1 DEF ListedUnused, s
<1> HIDE DEF s
<1> USE <1>1, <1>2
<1>3. TypeOK'
  BY DEF TypeOK, Places
<1>4. LocksHeld'
  <2>1. \A u \in Threads : owner'[Have] = u <=> pc'[u] \in HoldsHave
    BY LockAssumption DEF TypeOK, LocksHeld, HoldsHave
  <2>2. \A u \in Threads : \A x \in Spaces :
            owner'[x] = u <=> space'[u] = x /\ pc'[u] \in HoldsUse
    BY LockAssumption DEF TypeOK, LocksHeld, HoldsUse, SpacesNamed,
                           NoSpaceYet, NoSpace, s
  <2> QED BY <2>1, <2>2 DEF LocksHeld
<1>5. SpacesNamed'
  BY DEF TypeOK, SpacesNamed, NoSpaceYet, NoSpace, Spaces
<1>6. FreeList'
  BY DEF TypeOK, FreeList, LocksHeld, HoldsHave
<1>7. Counted'
  <2>1. \A x \in Spaces :
            value'[x] = value[x] + (refs'[x] - refs[x])
                           - (IF t \in Using(x) THEN 1 ELSE 0)
                           + (IF t \in Using(x)' THEN 1 ELSE 0)
    BY <1>u DEF TypeOK, Using
  <2> QED BY <1>3, <2>1, CountedStep, Zenon DEF TypeOK
<1>8. ListedUnused'
  <2> SUFFICES ASSUME NEW i \in DOMAIN head
               PROVE  /\ refs'[head[i]] = 0
                      /\ \A u \in Threads : space'[u] = head[i] =>
                             pc'[u] \in {"getUnlink", "dropTwist"}
    BY DEF ListedUnused
  <2>1. head[i] \in Spaces
    BY ElementOfSeq DEF TypeOK
  <2>2. head[i] # s /\ head[i] # NoSpace
    BY <2>1, <1>h DEF NoSpace, Spaces
  <2> QED BY <2>1, <2>2 DEF TypeOK, ListedUnused
<1>9. UnlistedUsed'
  <2>1. \A x \in 1 .. made' : (\A i \in DOMAIN head' : head'[i] # x) =>
            \/ refs'[x] > 0
            \/ space'[t] = x /\ pc'[t] # "dropTwist"
            \/ /\ x \in 1 .. made /\ \A i \in DOMAIN head : head[i] # x
               /\ refs[x] > 0 => refs'[x] > 0
               /\ space[t] = x => pc[t] = "dropTwist"
    BY DEF s, TypeOK, SpacesNamed, NoSpaceYet
  <2> QED BY <2>1, UnlistedStep
<1>10. Alone'
  BY <1>u DEF TypeOK, Alone, OnlyOne, SpacesNamed, NoSpaceYet, NoSpace
<1>11. Capacity'
  BY ChoosingStep DEF TypeOK, Capacity, Choosing
<1> QED BY <1>3, <1>4, <1>5, <1>6, <1>7, <1>8, <1>9, <1>10, <1>11

(* A new space leaves get_space for a job; its lock is made with one user. *)
LEMMA GetNewInv ==
    ASSUME PInv, NEW t \in Getters, GetNew(t)
    PROVE  PInv'
<1> USE LockNames DEF PInv
<1> DEFINE s == space[t]
<1>1. /\ pc[t] = "getNew" /\ t \in Threads /\ s \in Spaces /\ s \in 1 .. made
  <2>1. pc[t] = "getNew" /\ t \in Threads
    BY DEF GetNew
  <2>2. s \in 1 .. made
    BY <2>1 DEF SpacesNamed, NoSpaceYet
  <2>3. s \in Spaces
    BY <2>2 DEF TypeOK, Spaces
  <2> QED BY <2>1, <2>2, <2>3
<1>2. /\ pc' = [pc EXCEPT ![t] = "idle"] /\ OnlyMoves(t)
      /\ space' = [space EXCEPT ![t] = NoSpace]
      /\ value' = [value EXCEPT ![s] = 1]
      /\ refs' = [refs EXCEPT ![s] = @ + 1]
      /\ shared' = shared \ {s}
      /\ UNCHANGED <<owner, asleep, head, open, limit, made>>
  BY <1>1 DEF GetNew, Goto, poolState, OnlyMoves, TypeOK, s
<1>u. refs[s] = 0 /\ value[s] = 0 /\ \A u \in Threads : space[u] = s => u = t
  <2>1. refs[s] = 0 /\ \A u \in Threads : space[u] = s => u = t
    BY <1>1 DEF Alone, OnlyOne, s
  <2>2. Using(s) = {}
    BY <1>1, <2>1 DEF Using
  <2>3. value[s] = refs[s] + Cardinality({})
    BY <1>1, <2>2 DEF Counted, References
  <2> QED BY <2>1, <2>3, FS_EmptySet
<1>h. \A i \in DOMAIN head : head[i] # s
  BY <1>1 DEF ListedUnused, s
<1> HIDE DEF s
<1> USE <1>1, <1>2
<1>3. TypeOK'
  BY DEF TypeOK, Places
<1>4. LocksHeld'
  <2>1. \A u \in Threads : owner'[Have] = u <=> pc'[u] \in HoldsHave
    BY LockAssumption DEF TypeOK, LocksHeld, HoldsHave
  <2>2. \A u \in Threads : \A x \in Spaces :
            owner'[x] = u <=> space'[u] = x /\ pc'[u] \in HoldsUse
    BY LockAssumption DEF TypeOK, LocksHeld, HoldsUse, SpacesNamed,
                           NoSpaceYet, NoSpace, s
  <2> QED BY <2>1, <2>2 DEF LocksHeld
<1>5. SpacesNamed'
  BY DEF TypeOK, SpacesNamed, NoSpaceYet, NoSpace, Spaces
<1>6. FreeList'
  BY DEF TypeOK, FreeList, LocksHeld, HoldsHave
<1>7. Counted'
  <2>1. \A x \in Spaces :
            value'[x] = value[x] + (refs'[x] - refs[x])
                           - (IF t \in Using(x) THEN 1 ELSE 0)
                           + (IF t \in Using(x)' THEN 1 ELSE 0)
    BY <1>u DEF TypeOK, Using
  <2> QED BY <1>3, <2>1, CountedStep, Zenon DEF TypeOK
<1>8. ListedUnused'
  <2> SUFFICES ASSUME NEW i \in DOMAIN head
               PROVE  /\ refs'[head[i]] = 0
                      /\ \A u \in Threads : space'[u] = head[i] =>
                             pc'[u] \in {"getUnlink", "dropTwist"}
    BY DEF ListedUnused
  <2>1. head[i] \in Spaces
    BY ElementOfSeq DEF TypeOK
  <2>2. head[i] # s /\ head[i] # NoSpace
    BY <2>1, <1>h DEF NoSpace, Spaces
  <2> QED BY <2>1, <2>2 DEF TypeOK, ListedUnused
<1>9. UnlistedUsed'
  <2>1. \A x \in 1 .. made' : (\A i \in DOMAIN head' : head'[i] # x) =>
            \/ refs'[x] > 0
            \/ space'[t] = x /\ pc'[t] # "dropTwist"
            \/ /\ x \in 1 .. made /\ \A i \in DOMAIN head : head[i] # x
               /\ refs[x] > 0 => refs'[x] > 0
               /\ space[t] = x => pc[t] = "dropTwist"
    BY DEF s, TypeOK, SpacesNamed, NoSpaceYet
  <2> QED BY <2>1, UnlistedStep
<1>10. Alone'
  BY <1>u DEF TypeOK, Alone, OnlyOne, SpacesNamed, NoSpaceYet, NoSpace
<1>11. Capacity'
  BY ChoosingStep DEF TypeOK, Capacity, Choosing
<1> QED BY <1>3, <1>4, <1>5, <1>6, <1>7, <1>8, <1>9, <1>10, <1>11

(* A new space is counted before have is released: it has a place in the   *)
(* pool, and only this thread knows of it.                                 *)
LEMMA GetMakeInv ==
    ASSUME PInv, NEW t \in Getters, GetMake(t)
    PROVE  PInv'
<1> USE LockNames DEF PInv
<1> DEFINE s == made + 1
<1>1. /\ pc[t] = "getChoose" /\ t \in Threads /\ space[t] = NoSpace
      /\ owner[Have] = t /\ head = <<>> /\ s \in Spaces /\ limit # 0
      /\ open /\ made \in Nat /\ limit \in {-1} \cup Nat
      /\ limit >= 0 => made + limit <= MaxSpaces
  <2>1. /\ pc[t] = "getChoose" /\ t \in Threads /\ space[t] = NoSpace
        /\ owner[Have] = t /\ head = <<>>
    BY DEF GetMake, release, SpacesNamed, NoSpaceYet
  <2>2. /\ limit # 0 /\ limit \in {-1} \cup Nat /\ made \in 0 .. MaxSpaces
        /\ limit >= 0 => made + limit <= MaxSpaces
    BY <2>1 DEF GetMake, MayGo, FreeList, Capacity, TypeOK
  <2>3. Cardinality(Choosing) > 0 /\ Cardinality(Choosing) \in Nat
    <3>1. Choosing \in SUBSET Threads /\ t \in Choosing
      BY <2>1 DEF Choosing
    <3>2. IsFiniteSet(Choosing)
      BY <3>1, PoolAssumption, FS_Subset
    <3> QED BY <3>1, <3>2, FS_EmptySet, FS_CardinalityType
  <2>4. limit < 0 => Cardinality(Choosing) <= MaxSpaces - made
    BY <2>1, <2>2 DEF Capacity
  <2>5. s \in Spaces /\ made \in Nat
    BY <2>2, <2>3, <2>4 DEF Spaces
  <2>6. open
    BY <2>1 DEF SpacesNamed
  <2> QED BY <2>1, <2>2, <2>5, <2>6
<1>2. /\ pc' = [pc EXCEPT ![t] = "getNew"] /\ OnlyMoves(t)
      /\ space' = [space EXCEPT ![t] = s] /\ made' = s
      /\ limit' = IF limit > 0 THEN limit - 1 ELSE limit
      /\ owner' = [owner EXCEPT ![Have] = Nobody]
      /\ UNCHANGED <<value, asleep, head, open, refs, shared>>
  BY <1>1 DEF GetMake, CountDown, release, Goto, OnlyMoves, TypeOK
<1> HIDE DEF s
<1> USE <1>1, <1>2
<1>3. TypeOK'
  BY DEF TypeOK, Places, s, Spaces
<1>4. LocksHeld'
  <2>1. \A u \in Threads : owner'[Have] = u <=> pc'[u] \in HoldsHave
    BY LockAssumption DEF TypeOK, LocksHeld, HoldsHave
  <2>2. \A u \in Threads : \A x \in Spaces :
            owner'[x] = u <=> space'[u] = x /\ pc'[u] \in HoldsUse
    BY LockAssumption DEF TypeOK, LocksHeld, HoldsUse, SpacesNamed,
                           NoSpaceYet, NoSpace
  <2> QED BY <2>1, <2>2 DEF LocksHeld
<1>5. SpacesNamed'
  BY DEF TypeOK, SpacesNamed, NoSpaceYet, NoSpace, s, Spaces
<1>6. FreeList'
  BY DEF TypeOK, FreeList, LocksHeld, HoldsHave
<1>7. Counted'
  <2>1. \A x \in Spaces : t \in Using(x) <=> t \in Using(x)'
    BY DEF TypeOK, Using
  <2>2. \A x \in Spaces :
            value'[x] = value[x] + (refs'[x] - refs[x])
                           - (IF t \in Using(x) THEN 1 ELSE 0)
                           + (IF t \in Using(x)' THEN 1 ELSE 0)
    BY <2>1 DEF TypeOK
  <2> QED BY <1>3, <2>2, CountedStep, Zenon DEF TypeOK
<1>8. ListedUnused'
  BY DEF TypeOK, ListedUnused
<1>9. UnlistedUsed'
  <2>1. \A x \in 1 .. made' : (\A i \in DOMAIN head' : head'[i] # x) =>
            \/ refs'[x] > 0
            \/ space'[t] = x /\ pc'[t] # "dropTwist"
            \/ /\ x \in 1 .. made /\ \A i \in DOMAIN head : head[i] # x
               /\ refs[x] > 0 => refs'[x] > 0
               /\ space[t] = x => pc[t] = "dropTwist"
    BY DEF s, TypeOK, NoSpace
  <2> QED BY <2>1, UnlistedStep
<1>10. Alone'
  BY DEF TypeOK, Alone, OnlyOne, SpacesNamed, NoSpaceYet, NoSpace, s
<1>11. Capacity'
  <2>1. limit' \in {-1} \cup Nat /\ (limit' >= 0 => made' + limit' <= MaxSpaces)
    BY DEF s
  <2>2. /\ Cardinality(Choosing) \in Nat /\ Cardinality(Choosing') \in Nat
        /\ Cardinality(Choosing') = Cardinality(Choosing) - 1
    <3>1. t \in Choosing /\ t \notin Choosing'
      BY DEF Choosing, TypeOK
    <3> QED BY <3>1, ChoosingStep
  <2> QED BY <2>1, <2>2 DEF Capacity, s
<1> QED BY <1>3, <1>4, <1>5, <1>6, <1>7, <1>8, <1>9, <1>10, <1>11

(* A thread takes a reference out of a job and calls use_space.             *)
LEMMA UseCallInv ==
    ASSUME PInv, NEW t \in Droppers, NEW s \in Spaces, UseCall(t, s)
    PROVE  PInv'
<1> USE LockNames DEF PInv
<1>1. /\ pc[t] = "idle" /\ t \in Threads /\ refs[s] > 0 /\ s \in 1 .. made
      /\ space[t] = NoSpace /\ open
  <2>1. pc[t] = "idle" /\ t \in Threads /\ refs[s] > 0
    BY DEF UseCall
  <2>2. s \in 1 .. made /\ made > 0
    BY <2>1 DEF SpacesNamed, TypeOK, Spaces
  <2> QED BY <2>1, <2>2 DEF SpacesNamed, NoSpaceYet
<1>2. /\ pc' = [pc EXCEPT ![t] = "usePossess"] /\ OnlyMoves(t)
      /\ space' = [space EXCEPT ![t] = s]
      /\ refs' = [refs EXCEPT ![s] = @ - 1] /\ shared' = shared \cup {s}
      /\ UNCHANGED <<value, owner, asleep, head, open, limit, made>>
  BY <1>1 DEF UseCall, Goto, lockVars, poolState, OnlyMoves, TypeOK
<1>h. \A i \in DOMAIN head : head[i] # s
  BY <1>1 DEF ListedUnused
<1> USE <1>1, <1>2
<1>3. TypeOK'
  BY DEF TypeOK, Places
<1>4. LocksHeld'
  <2>1. \A u \in Threads : owner'[Have] = u <=> pc'[u] \in HoldsHave
    BY LockAssumption DEF TypeOK, LocksHeld, HoldsHave
  <2>2. \A u \in Threads : \A x \in Spaces :
            owner'[x] = u <=> space'[u] = x /\ pc'[u] \in HoldsUse
    BY LockAssumption DEF TypeOK, LocksHeld, HoldsUse, SpacesNamed,
                           NoSpaceYet, NoSpace
  <2> QED BY <2>1, <2>2 DEF LocksHeld
<1>5. SpacesNamed'
  BY DEF TypeOK, SpacesNamed, NoSpaceYet, NoSpace
<1>6. FreeList'
  BY DEF TypeOK, FreeList, LocksHeld, HoldsHave
<1>7. Counted'
  <2>1. \A x \in Spaces :
            value'[x] = value[x] + (refs'[x] - refs[x])
                           - (IF t \in Using(x) THEN 1 ELSE 0)
                           + (IF t \in Using(x)' THEN 1 ELSE 0)
    BY  DEF TypeOK, Using
  <2> QED BY <1>3, <2>1, CountedStep, Zenon DEF TypeOK
<1>8. ListedUnused'
  <2> SUFFICES ASSUME NEW i \in DOMAIN head
               PROVE  /\ refs'[head[i]] = 0
                      /\ \A u \in Threads : space'[u] = head[i] =>
                             pc'[u] \in {"getUnlink", "dropTwist"}
    BY DEF ListedUnused
  <2>1. head[i] \in Spaces
    BY ElementOfSeq DEF TypeOK
  <2>2. head[i] # s /\ head[i] # NoSpace
    BY <2>1, <1>h DEF NoSpace, Spaces
  <2> QED BY <2>1, <2>2 DEF TypeOK, ListedUnused
<1>9. UnlistedUsed'
  <2>1. \A x \in 1 .. made' : (\A i \in DOMAIN head' : head'[i] # x) =>
            \/ refs'[x] > 0
            \/ space'[t] = x /\ pc'[t] # "dropTwist"
            \/ /\ x \in 1 .. made /\ \A i \in DOMAIN head : head[i] # x
               /\ refs[x] > 0 => refs'[x] > 0
               /\ space[t] = x => pc[t] = "dropTwist"
    BY DEF TypeOK, NoSpace
  <2> QED BY <2>1, UnlistedStep
<1>10. Alone'
  BY DEF TypeOK, Alone, OnlyOne
<1>11. Capacity'
  <2>1. Choosing' = Choosing
    BY DEF TypeOK, Choosing
  <2> QED BY <2>1 DEF Capacity
<1> QED BY <1>3, <1>4, <1>5, <1>6, <1>7, <1>8, <1>9, <1>10, <1>11

(* A thread takes a reference out of a job and calls drop_space.            *)
LEMMA DropCallInv ==
    ASSUME PInv, NEW t \in Droppers, NEW s \in Spaces, DropCall(t, s)
    PROVE  PInv'
<1> USE LockNames DEF PInv
<1>1. /\ pc[t] = "idle" /\ t \in Threads /\ refs[s] > 0 /\ s \in 1 .. made
      /\ space[t] = NoSpace /\ open
  <2>1. pc[t] = "idle" /\ t \in Threads /\ refs[s] > 0
    BY DEF DropCall
  <2>2. s \in 1 .. made /\ made > 0
    BY <2>1 DEF SpacesNamed, TypeOK, Spaces
  <2> QED BY <2>1, <2>2 DEF SpacesNamed, NoSpaceYet
<1>2. /\ pc' = [pc EXCEPT ![t] = "dropUse"] /\ OnlyMoves(t)
      /\ space' = [space EXCEPT ![t] = s]
      /\ refs' = [refs EXCEPT ![s] = @ - 1]
      /\ UNCHANGED <<value, owner, asleep, head, open, limit, made, shared>>
  BY <1>1 DEF DropCall, Goto, lockVars, poolState, OnlyMoves, TypeOK
<1>h. \A i \in DOMAIN head : head[i] # s
  BY <1>1 DEF ListedUnused
<1> USE <1>1, <1>2
<1>3. TypeOK'
  BY DEF TypeOK, Places
<1>4. LocksHeld'
  <2>1. \A u \in Threads : owner'[Have] = u <=> pc'[u] \in HoldsHave
    BY LockAssumption DEF TypeOK, LocksHeld, HoldsHave
  <2>2. \A u \in Threads : \A x \in Spaces :
            owner'[x] = u <=> space'[u] = x /\ pc'[u] \in HoldsUse
    BY LockAssumption DEF TypeOK, LocksHeld, HoldsUse, SpacesNamed,
                           NoSpaceYet, NoSpace
  <2> QED BY <2>1, <2>2 DEF LocksHeld
<1>5. SpacesNamed'
  BY DEF TypeOK, SpacesNamed, NoSpaceYet, NoSpace
<1>6. FreeList'
  BY DEF TypeOK, FreeList, LocksHeld, HoldsHave
<1>7. Counted'
  <2>1. \A x \in Spaces :
            value'[x] = value[x] + (refs'[x] - refs[x])
                           - (IF t \in Using(x) THEN 1 ELSE 0)
                           + (IF t \in Using(x)' THEN 1 ELSE 0)
    BY  DEF TypeOK, Using
  <2> QED BY <1>3, <2>1, CountedStep, Zenon DEF TypeOK
<1>8. ListedUnused'
  <2> SUFFICES ASSUME NEW i \in DOMAIN head
               PROVE  /\ refs'[head[i]] = 0
                      /\ \A u \in Threads : space'[u] = head[i] =>
                             pc'[u] \in {"getUnlink", "dropTwist"}
    BY DEF ListedUnused
  <2>1. head[i] \in Spaces
    BY ElementOfSeq DEF TypeOK
  <2>2. head[i] # s /\ head[i] # NoSpace
    BY <2>1, <1>h DEF NoSpace, Spaces
  <2> QED BY <2>1, <2>2 DEF TypeOK, ListedUnused
<1>9. UnlistedUsed'
  <2>1. \A x \in 1 .. made' : (\A i \in DOMAIN head' : head'[i] # x) =>
            \/ refs'[x] > 0
            \/ space'[t] = x /\ pc'[t] # "dropTwist"
            \/ /\ x \in 1 .. made /\ \A i \in DOMAIN head : head[i] # x
               /\ refs[x] > 0 => refs'[x] > 0
               /\ space[t] = x => pc[t] = "dropTwist"
    BY DEF TypeOK, NoSpace
  <2> QED BY <2>1, UnlistedStep
<1>10. Alone'
  BY DEF TypeOK, Alone, OnlyOne
<1>11. Capacity'
  <2>1. Choosing' = Choosing
    BY DEF TypeOK, Choosing
  <2> QED BY <2>1 DEF Capacity
<1> QED BY <1>3, <1>4, <1>5, <1>6, <1>7, <1>8, <1>9, <1>10, <1>11

(* possess(space->use) in use_space                                        *)
LEMMA UsePossessInv ==
    ASSUME PInv, NEW t \in Droppers, UsePossess(t)
    PROVE  PInv'
<1> USE LockNames DEF PInv
<1> DEFINE s == space[t]
<1>1. /\ pc[t] = "usePossess" /\ t \in Threads /\ s \in Spaces
      /\ owner[s] = Nobody
  <2>1. pc[t] = "usePossess" /\ t \in Threads /\ owner[s] = Nobody
    BY DEF UsePossess, Possess, s
  <2>2. s \in Spaces
    BY <2>1, SpaceThere DEF NoSpaceYet, s
  <2> QED BY <2>1, <2>2
<1>2. /\ pc' = [pc EXCEPT ![t] = "useTwist"] /\ OnlyMoves(t)
      /\ owner' = [owner EXCEPT ![s] = t]
      /\ UNCHANGED <<value, asleep, space, head, open, limit, made, refs, shared>>
  BY <1>1 DEF UsePossess, Possess, Goto, poolState, OnlyMoves, TypeOK, s
<1> HIDE DEF s
<1> USE <1>1, <1>2
<1>3. TypeOK'
  BY DEF TypeOK, Places
<1>4. LocksHeld'
  <2>1. \A u \in Threads : owner'[Have] = u <=> pc'[u] \in HoldsHave
    BY LockAssumption DEF TypeOK, LocksHeld, HoldsHave
  <2>2. \A u \in Threads : \A x \in Spaces :
            owner'[x] = u <=> space'[u] = x /\ pc'[u] \in HoldsUse
    BY LockAssumption DEF TypeOK, LocksHeld, HoldsUse, SpacesNamed,
                           NoSpaceYet, NoSpace, s
  <2> QED BY <2>1, <2>2 DEF LocksHeld
<1>5. SpacesNamed'
  BY DEF TypeOK, SpacesNamed, NoSpaceYet, NoSpace
<1>6. FreeList'
  BY DEF TypeOK, FreeList, LocksHeld, HoldsHave
<1>7. Counted'
  <2>1. \A x \in Spaces : t \in Using(x) <=> t \in Using(x)'
    BY DEF TypeOK, Using
  <2>2. \A x \in Spaces :
            value'[x] = value[x] + (refs'[x] - refs[x])
                           - (IF t \in Using(x) THEN 1 ELSE 0)
                           + (IF t \in Using(x)' THEN 1 ELSE 0)
    BY <2>1 DEF TypeOK
  <2> QED BY <1>3, <2>2, CountedStep, Zenon DEF TypeOK
<1>8. ListedUnused'
  BY DEF TypeOK, ListedUnused
<1>9. UnlistedUsed'
  <2>1. \A x \in 1 .. made : (\A i \in DOMAIN head : head[i] # x) =>
            \/ refs'[x] > 0
            \/ space'[t] = x /\ pc'[t] # "dropTwist"
            \/ /\ refs[x] > 0 => refs'[x] > 0
               /\ space[t] = x => pc[t] = "dropTwist"
    BY DEF TypeOK, SpacesNamed, NoSpaceYet, NoSpace
  <2> QED BY <2>1, UnlistedStep
<1>10. Alone'
  BY DEF TypeOK, Alone, OnlyOne
<1>11. Capacity'
  <2>1. Choosing' = Choosing
    BY DEF TypeOK, Choosing
  <2> QED BY <2>1 DEF Capacity
<1> QED BY <1>3, <1>4, <1>5, <1>6, <1>7, <1>8, <1>9, <1>10, <1>11

(* possess(space->use) in drop_space                                       *)
LEMMA DropPossessUseInv ==
    ASSUME PInv, NEW t \in Droppers, DropPossessUse(t)
    PROVE  PInv'
<1> USE LockNames DEF PInv
<1> DEFINE s == space[t]
<1>1. /\ pc[t] = "dropUse" /\ t \in Threads /\ s \in Spaces
      /\ owner[s] = Nobody
  <2>1. pc[t] = "dropUse" /\ t \in Threads /\ owner[s] = Nobody
    BY DEF DropPossessUse, Possess, s
  <2>2. s \in Spaces
    BY <2>1, SpaceThere DEF NoSpaceYet, s
  <2> QED BY <2>1, <2>2
<1>2. /\ pc' = [pc EXCEPT ![t] = "dropLook"] /\ OnlyMoves(t)
      /\ owner' = [owner EXCEPT ![s] = t]
      /\ UNCHANGED <<value, asleep, space, head, open, limit, made, refs, shared>>
  BY <1>1 DEF DropPossessUse, Possess, Goto, poolState, OnlyMoves, TypeOK, s
<1> HIDE DEF s
<1> USE <1>1, <1>2
<1>3. TypeOK'
  BY DEF TypeOK, Places
<1>4. LocksHeld'
  <2>1. \A u \in Threads : owner'[Have] = u <=> pc'[u] \in HoldsHave
    BY LockAssumption DEF TypeOK, LocksHeld, HoldsHave
  <2>2. \A u \in Threads : \A x \in Spaces :
            owner'[x] = u <=> space'[u] = x /\ pc'[u] \in HoldsUse
    BY LockAssumption DEF TypeOK, LocksHeld, HoldsUse, SpacesNamed,
                           NoSpaceYet, NoSpace, s
  <2> QED BY <2>1, <2>2 DEF LocksHeld
<1>5. SpacesNamed'
  BY DEF TypeOK, SpacesNamed, NoSpaceYet, NoSpace
<1>6. FreeList'
  BY DEF TypeOK, FreeList, LocksHeld, HoldsHave
<1>7. Counted'
  <2>1. \A x \in Spaces : t \in Using(x) <=> t \in Using(x)'
    BY DEF TypeOK, Using
  <2>2. \A x \in Spaces :
            value'[x] = value[x] + (refs'[x] - refs[x])
                           - (IF t \in Using(x) THEN 1 ELSE 0)
                           + (IF t \in Using(x)' THEN 1 ELSE 0)
    BY <2>1 DEF TypeOK
  <2> QED BY <1>3, <2>2, CountedStep, Zenon DEF TypeOK
<1>8. ListedUnused'
  BY DEF TypeOK, ListedUnused
<1>9. UnlistedUsed'
  <2>1. \A x \in 1 .. made : (\A i \in DOMAIN head : head[i] # x) =>
            \/ refs'[x] > 0
            \/ space'[t] = x /\ pc'[t] # "dropTwist"
            \/ /\ refs[x] > 0 => refs'[x] > 0
               /\ space[t] = x => pc[t] = "dropTwist"
    BY DEF TypeOK, SpacesNamed, NoSpaceYet, NoSpace
  <2> QED BY <2>1, UnlistedStep
<1>10. Alone'
  BY DEF TypeOK, Alone, OnlyOne
<1>11. Capacity'
  <2>1. Choosing' = Choosing
    BY DEF TypeOK, Choosing
  <2> QED BY <2>1 DEF Capacity
<1> QED BY <1>3, <1>4, <1>5, <1>6, <1>7, <1>8, <1>9, <1>10, <1>11

(* The user count and the references of the jobs both grow by the new user.*)
LEMMA UseReturnInv ==
    ASSUME PInv, NEW t \in Droppers, UseReturn(t)
    PROVE  PInv'
<1> USE LockNames DEF PInv
<1> DEFINE s == space[t]
<1>1. /\ pc[t] = "useTwist" /\ t \in Threads /\ s \in 1 .. made /\ s \in Spaces
      /\ owner[s] = t
  <2>1. pc[t] = "useTwist" /\ t \in Threads /\ owner[s] = t
    BY DEF UseReturn, twist, s
  <2>2. s \in 1 .. made /\ s \in Spaces
    BY <2>1, SpaceThere DEF NoSpaceYet, s
  <2> QED BY <2>1, <2>2
<1>2. /\ pc' = [pc EXCEPT ![t] = "idle"] /\ OnlyMoves(t)
      /\ space' = [space EXCEPT ![t] = NoSpace]
      /\ value' = [value EXCEPT ![s] = value[s] + 1]
      /\ owner' = [owner EXCEPT ![s] = Nobody]
      /\ asleep' = [asleep EXCEPT ![s] = {}]
      /\ refs' = [refs EXCEPT ![s] = @ + 2]
      /\ UNCHANGED <<head, open, limit, made, shared>>
  BY <1>1 DEF UseReturn, twist, Goto, poolState, OnlyMoves, TypeOK, s
<1>h. \A i \in DOMAIN head : head[i] # s
  BY <1>1 DEF ListedUnused, s
<1>x. NoSpace \notin Spaces
  BY DEF NoSpace, Spaces
<1> HIDE DEF s
<1> USE <1>1, <1>2
<1>3. TypeOK'
  BY DEF TypeOK, Places
<1>4. LocksHeld'
  <2>1. \A u \in Threads : owner'[Have] = u <=> pc'[u] \in HoldsHave
    BY LockAssumption DEF TypeOK, LocksHeld, HoldsHave
  <2>2. \A u \in Threads : \A x \in Spaces :
            owner'[x] = u <=> space'[u] = x /\ pc'[u] \in HoldsUse
    BY LockAssumption DEF TypeOK, LocksHeld, HoldsUse, SpacesNamed,
                           NoSpaceYet, NoSpace, s
  <2> QED BY <2>1, <2>2 DEF LocksHeld
<1>5. SpacesNamed'
  <2>1. \A u \in Threads : IF pc'[u] \in NoSpaceYet THEN space'[u] = NoSpace
                                                   ELSE space'[u] \in 1 .. made
    BY DEF TypeOK, SpacesNamed, NoSpaceYet
  <2>2. \A x \in Spaces : x > made => refs'[x] = 0
    BY DEF TypeOK, SpacesNamed
  <2>3. open
    BY <1>1 DEF SpacesNamed
  <2> QED BY <2>1, <2>2, <2>3 DEF SpacesNamed
<1>6. FreeList'
  BY DEF TypeOK, FreeList, LocksHeld, HoldsHave
<1>7. Counted'
  <2>1. \A x \in Spaces :
            value'[x] = value[x] + (refs'[x] - refs[x])
                           - (IF t \in Using(x) THEN 1 ELSE 0)
                           + (IF t \in Using(x)' THEN 1 ELSE 0)
    BY <1>x DEF TypeOK, Using, s
  <2> QED BY <1>3, <2>1, CountedStep, Zenon DEF TypeOK
<1>8. ListedUnused'
  <2> SUFFICES ASSUME NEW i \in DOMAIN head
               PROVE  /\ refs'[head[i]] = 0
                      /\ \A u \in Threads : space'[u] = head[i] =>
                             pc'[u] \in {"getUnlink", "dropTwist"}
    BY DEF ListedUnused
  <2>1. head[i] \in Spaces
    BY ElementOfSeq DEF TypeOK
  <2>2. head[i] # s /\ head[i] # NoSpace
    BY <2>1, <1>h DEF NoSpace, Spaces
  <2> QED BY <2>1, <2>2 DEF TypeOK, ListedUnused
<1>9. UnlistedUsed'
  <2>1. \A x \in 1 .. made' : (\A i \in DOMAIN head' : head'[i] # x) =>
            \/ refs'[x] > 0
            \/ space'[t] = x /\ pc'[t] # "dropTwist"
            \/ /\ x \in 1 .. made /\ \A i \in DOMAIN head : head[i] # x
               /\ refs[x] > 0 => refs'[x] > 0
               /\ space[t] = x => pc[t] = "dropTwist"
    BY DEF TypeOK, NoSpace, s
  <2> QED BY <2>1, UnlistedStep
<1>10. Alone'
  <2> SUFFICES ASSUME NEW u \in Threads, pc'[u] \in OnlyOne
               PROVE  /\ refs'[space'[u]] = 0
                      /\ \A w \in Threads : space'[w] = space'[u] => w = u
    BY DEF Alone
  <2>1. u # t /\ pc'[u] = pc[u] /\ space'[u] = space[u]
    BY DEF TypeOK, OnlyOne
  <2>2. space[u] \in Spaces /\ space[u] # NoSpace /\ space[u] # s
    BY <2>1, <1>x, SpaceThere DEF Alone, OnlyOne, NoSpaceYet, s
  <2> QED BY <2>1, <2>2 DEF TypeOK, Alone
<1>11. Capacity'
  <2>1. Choosing' = Choosing
    BY DEF TypeOK, Choosing
  <2> QED BY <2>1 DEF Capacity
<1> QED BY <1>3, <1>4, <1>5, <1>6, <1>7, <1>8, <1>9, <1>10, <1>11

(* The last user takes have too.  The count says that no reference is left,*)
(* so no other thread has the space, and none can get it.                  *)
LEMMA DropPossessHaveInv ==
    ASSUME PInv, NEW t \in Droppers, DropPossessHave(t)
    PROVE  PInv'
<1> USE LockNames DEF PInv
<1> DEFINE s == space[t]
<1>1. /\ pc[t] = "dropLook" /\ t \in Threads /\ s \in 1 .. made /\ s \in Spaces
      /\ owner[s] = t /\ owner[Have] = Nobody /\ value[s] = 1
  <2>1. pc[t] = "dropLook" /\ t \in Threads /\ owner[Have] = Nobody /\ value[s] = 1
    BY DEF DropPossessHave, LastUser, Possess, s
  <2>2. s \in 1 .. made /\ s \in Spaces
    BY <2>1, SpaceThere DEF NoSpaceYet, s
  <2> QED BY <2>1, <2>2 DEF LocksHeld, HoldsUse, s
<1>2. /\ pc' = [pc EXCEPT ![t] = "dropLink"] /\ OnlyMoves(t)
      /\ owner' = [owner EXCEPT ![Have] = t]
      /\ UNCHANGED <<value, asleep, space, head, open, limit, made, refs, shared>>
  BY <1>1 DEF DropPossessHave, Possess, Goto, poolState, OnlyMoves, TypeOK, s
<1>a. refs[s] = 0 /\ \A u \in Threads : space[u] = s => u = t
  <2>1. t \in Using(s) /\ Using(s) \in SUBSET Threads
    BY <1>1 DEF Using, s
  <2>2. IsFiniteSet(Using(s)) /\ Cardinality(Using(s)) \in Nat
    BY <2>1, PoolAssumption, FS_Subset, FS_CardinalityType
  <2>3. Cardinality(Using(s)) # 0
    BY <2>1, <2>2, FS_EmptySet
  <2>4. value[s] = refs[s] + Cardinality(Using(s)) /\ refs[s] \in Nat
    BY <1>1 DEF Counted, References, TypeOK
  <2>5. refs[s] = 0 /\ Cardinality(Using(s)) = 1
    BY <1>1, <2>2, <2>3, <2>4
  <2>6. Using(s) = {t}
    BY <2>1, <2>2, <2>5, FS_Singleton
  <2>7. ASSUME NEW u \in Threads, space[u] = s, u # t
        PROVE  FALSE
    <3>1. u \notin Using(s) /\ s # NoSpace
      BY <1>1, <2>6, <2>7 DEF NoSpace
    <3>2. pc[u] \in {"getUnlink", "getUse", "getNew"}
      BY <2>7, <3>1 DEF Using, TypeOK, Places, SpacesNamed, NoSpaceYet
    <3>3. pc[u] \notin {"getUse", "getNew"}
      BY <1>1, <2>7 DEF Alone, OnlyOne, s
    <3> QED BY <1>1, <2>7, <3>2, <3>3 DEF LocksHeld, HoldsUse
  <2> QED BY <2>5, <2>7
<1> HIDE DEF s
<1> USE <1>1, <1>2
<1>3. TypeOK'
  BY DEF TypeOK, Places
<1>4. LocksHeld'
  <2>1. \A u \in Threads : owner'[Have] = u <=> pc'[u] \in HoldsHave
    BY LockAssumption DEF TypeOK, LocksHeld, HoldsHave
  <2>2. \A u \in Threads : \A x \in Spaces :
            owner'[x] = u <=> space'[u] = x /\ pc'[u] \in HoldsUse
    BY LockAssumption DEF TypeOK, LocksHeld, HoldsUse, SpacesNamed,
                           NoSpaceYet, NoSpace, s
  <2> QED BY <2>1, <2>2 DEF LocksHeld
<1>5. SpacesNamed'
  BY DEF TypeOK, SpacesNamed, NoSpaceYet, NoSpace
<1>6. FreeList'
  BY LockAssumption DEF TypeOK, FreeList, LocksHeld, HoldsHave
<1>7. Counted'
  <2>1. \A x \in Spaces : t \in Using(x) <=> t \in Using(x)'
    BY DEF TypeOK, Using
  <2>2. \A x \in Spaces :
            value'[x] = value[x] + (refs'[x] - refs[x])
                           - (IF t \in Using(x) THEN 1 ELSE 0)
                           + (IF t \in Using(x)' THEN 1 ELSE 0)
    BY <2>1 DEF TypeOK
  <2> QED BY <1>3, <2>2, CountedStep, Zenon DEF TypeOK
<1>8. ListedUnused'
  BY DEF TypeOK, ListedUnused
<1>9. UnlistedUsed'
  <2>1. \A x \in 1 .. made : (\A i \in DOMAIN head : head[i] # x) =>
            \/ refs'[x] > 0
            \/ space'[t] = x /\ pc'[t] # "dropTwist"
            \/ /\ refs[x] > 0 => refs'[x] > 0
               /\ space[t] = x => pc[t] = "dropTwist"
    BY DEF TypeOK, SpacesNamed, NoSpaceYet, NoSpace
  <2> QED BY <2>1, UnlistedStep
<1>10. Alone'
  BY <1>a DEF TypeOK, Alone, OnlyOne, s
<1>11. Capacity'
  <2>1. Choosing' = Choosing
    BY DEF TypeOK, Choosing
  <2> QED BY <2>1 DEF Capacity
<1> QED BY <1>3, <1>4, <1>5, <1>6, <1>7, <1>8, <1>9, <1>10, <1>11

(* The space goes to the front of the list, and have is released.          *)
LEMMA DropLinkInv ==
    ASSUME PInv, NEW t \in Droppers, DropLink(t)
    PROVE  PInv'
<1> USE LockNames DEF PInv
<1> DEFINE s == space[t]
<1>1. /\ pc[t] = "dropLink" /\ t \in Threads /\ s \in 1 .. made /\ s \in Spaces
      /\ owner[s] = t /\ owner[Have] = t
      /\ refs[s] = 0 /\ \A u \in Threads : space[u] = s => u = t
  <2>1. pc[t] = "dropLink" /\ t \in Threads /\ owner[Have] = t
    BY DEF DropLink, twist, s
  <2>2. s \in 1 .. made /\ s \in Spaces
    BY <2>1, SpaceThere DEF NoSpaceYet, s
  <2>3. refs[s] = 0 /\ \A u \in Threads : space[u] = s => u = t
    BY <2>1 DEF Alone, OnlyOne, s
  <2> QED BY <2>1, <2>2, <2>3 DEF LocksHeld, HoldsUse, s
<1>2. /\ pc' = [pc EXCEPT ![t] = "dropTwist"] /\ OnlyMoves(t)
      /\ value' = [value EXCEPT ![Have] = value[Have] + 1]
      /\ owner' = [owner EXCEPT ![Have] = Nobody]
      /\ asleep' = [asleep EXCEPT ![Have] = {}]
      /\ UNCHANGED <<space, open, limit, made, refs, shared>>
  BY <1>1 DEF DropLink, twist, Goto, OnlyMoves, TypeOK
<1>h. \A i \in DOMAIN head : head[i] # s
  BY <1>1 DEF ListedUnused, s
<1>v. value[Have] \in Int
  BY DEF TypeOK
<1>p. /\ head' \in Seq(Spaces)
      /\ Len(head) \in Nat /\ Len(head') = Len(head) + 1
      /\ DOMAIN head = 1 .. Len(head) /\ DOMAIN head' = 1 .. Len(head')
      /\ head'[1] = s
      /\ \A i \in DOMAIN head' :
             i = 1 \/ (i - 1 \in DOMAIN head /\ head'[i] = head[i - 1])
      /\ \A i \in DOMAIN head : i + 1 \in DOMAIN head' /\ head'[i + 1] = head[i]
  <2>1. head' = <<s>> \o head /\ head \in Seq(Spaces) /\ <<s>> \in Seq(Spaces)
    BY <1>1 DEF DropLink, TypeOK
  <2> HIDE DEF s
  <2> QED BY <2>1, ConcatProperties, LenProperties
<1> HIDE DEF s
<1> USE <1>1, <1>2
<1>3. TypeOK'
  BY <1>p, <1>v DEF TypeOK, Places
<1>4. LocksHeld'
  <2>1. \A u \in Threads : owner'[Have] = u <=> pc'[u] \in HoldsHave
    BY LockAssumption DEF TypeOK, LocksHeld, HoldsHave
  <2>2. \A u \in Threads : \A x \in Spaces :
            owner'[x] = u <=> space'[u] = x /\ pc'[u] \in HoldsUse
    BY LockAssumption DEF TypeOK, LocksHeld, HoldsUse, SpacesNamed,
                           NoSpaceYet, NoSpace, s
  <2> QED BY <2>1, <2>2 DEF LocksHeld
<1>5. SpacesNamed'
  <2>1. \A i \in DOMAIN head' : head'[i] <= made
    BY <1>p DEF SpacesNamed
  <2>2. open
    BY <1>1 DEF SpacesNamed
  <2> QED BY <2>1, <2>2 DEF SpacesNamed, TypeOK, NoSpaceYet
<1>6. FreeList'
  <2>1. value'[Have] = Len(head')
    BY <1>p DEF TypeOK, FreeList
  <2>2. \A i, k \in DOMAIN head' : head'[i] = head'[k] => i = k
    <3> TAKE i, k \in DOMAIN head'
    <3>1. CASE i # 1 /\ k # 1
      <4>1. /\ i - 1 \in DOMAIN head /\ head'[i] = head[i - 1] /\ i \in Int
            /\ k - 1 \in DOMAIN head /\ head'[k] = head[k - 1] /\ k \in Int
        BY <1>p, <3>1
      <4>2. head[i - 1] = head[k - 1] => i - 1 = k - 1
        BY <4>1, Zenon DEF FreeList
      <4> QED BY <4>1, <4>2
    <3> QED BY <1>p, <1>h, <3>1
  <2>3. \A u \in Threads : pc'[u] # "getUnlink"
    BY DEF TypeOK, LocksHeld, HoldsHave
  <2> QED BY <2>1, <2>2, <2>3 DEF FreeList
<1>7. Counted'
  <2>1. \A x \in Spaces : t \in Using(x) <=> t \in Using(x)'
    BY DEF TypeOK, Using
  <2>2. \A x \in Spaces :
            value'[x] = value[x] + (refs'[x] - refs[x])
                           - (IF t \in Using(x) THEN 1 ELSE 0)
                           + (IF t \in Using(x)' THEN 1 ELSE 0)
    BY <2>1 DEF TypeOK
  <2> QED BY <1>3, <2>2, CountedStep, Zenon DEF TypeOK
<1>8. ListedUnused'
  <2> SUFFICES ASSUME NEW i \in DOMAIN head'
               PROVE  /\ refs[head'[i]] = 0
                      /\ \A u \in Threads : space[u] = head'[i] =>
                             pc'[u] \in {"getUnlink", "dropTwist"}
    BY DEF ListedUnused
  <2>1. CASE i = 1
    BY <1>p, <2>1 DEF TypeOK
  <2>2. CASE i # 1
    <3>1. /\ i - 1 \in DOMAIN head /\ head'[i] = head[i - 1]
          /\ head[i - 1] # space[t]
      BY <1>p, <1>h, <2>2 DEF s
    <3> QED BY <3>1 DEF TypeOK, ListedUnused
  <2> QED BY <2>1, <2>2
<1>9. UnlistedUsed'
  <2>1. \A i \in DOMAIN head : \E k \in DOMAIN head' : head'[k] = head[i]
    BY <1>p
  <2>2. 1 \in DOMAIN head' /\ head'[1] = space[t]
    BY <1>p DEF s
  <2> QED BY <2>1, <2>2, UnlistedStep
<1>10. Alone'
  BY DEF TypeOK, Alone, OnlyOne, s
<1>11. Capacity'
  <2>1. Choosing' = Choosing
    BY DEF TypeOK, Choosing
  <2>2. Cardinality(Choosing) \in Nat
    <3>1. Choosing \in SUBSET Threads
      BY DEF Choosing
    <3> QED BY <3>1, PoolAssumption, FS_Subset, FS_CardinalityType
  <2> QED BY <1>p, <2>1, <2>2 DEF Capacity, TypeOK
<1> QED BY <1>3, <1>4, <1>5, <1>6, <1>7, <1>8, <1>9, <1>10, <1>11

(* A user goes away: either the last one, whose space is in the list by    *)
(* now, or one that leaves others behind.                                  *)
LEMMA DropReturnInv ==
    ASSUME PInv, NEW t \in Droppers, DropReturn(t)
    PROVE  PInv'
<1> USE LockNames DEF PInv
<1> DEFINE s == space[t]
<1>1. /\ pc[t] \in {"dropTwist", "dropLook"} /\ t \in Threads
      /\ s \in 1 .. made /\ s \in Spaces /\ owner[s] = t
      /\ pc[t] = "dropLook" => value[s] # 1
  <2>1. /\ pc[t] \in {"dropTwist", "dropLook"} /\ t \in Threads /\ owner[s] = t
        /\ pc[t] = "dropLook" => value[s] # 1
    BY DEF DropReturn, LastUser, twist, s
  <2>2. s \in 1 .. made /\ s \in Spaces
    BY <2>1, SpaceThere DEF NoSpaceYet, s
  <2> QED BY <2>1, <2>2
<1>2. /\ pc' = [pc EXCEPT ![t] = "idle"] /\ OnlyMoves(t)
      /\ space' = [space EXCEPT ![t] = NoSpace]
      /\ value' = [value EXCEPT ![s] = value[s] - 1]
      /\ owner' = [owner EXCEPT ![s] = Nobody]
      /\ asleep' = [asleep EXCEPT ![s] = {}]
      /\ UNCHANGED <<head, open, limit, made, refs, shared>>
  BY <1>1 DEF DropReturn, twist, Goto, poolState, OnlyMoves, TypeOK, s
<1>x. NoSpace \notin Spaces
  BY DEF NoSpace, Spaces
<1>y. pc[t] = "dropLook" /\ refs[s] = 0 =>
          \E w \in Threads : w # t /\ space[w] = s /\ pc[w] \in IsUser
  <2> SUFFICES ASSUME pc[t] = "dropLook", refs[s] = 0
               PROVE  \E w \in Using(s) : w # t
    BY DEF Using, IsUser
  <2>1. t \in Using(s) /\ Using(s) \in SUBSET Threads
    BY <1>1 DEF Using, s
  <2>2. IsFiniteSet(Using(s))
    BY <2>1, PoolAssumption, FS_Subset
  <2>3. value[s] = refs[s] + Cardinality(Using(s)) /\ Cardinality(Using(s)) \in Nat
    BY <1>1, <2>2, FS_CardinalityType DEF Counted, References
  <2>4. Using(s) # {t}
    BY <1>1, <2>2, <2>3, FS_Singleton
  <2> QED BY <2>1, <2>4
<1> HIDE DEF s
<1> USE <1>1, <1>2
<1>3. TypeOK'
  BY DEF TypeOK, Places
<1>4. LocksHeld'
  <2>1. \A u \in Threads : owner'[Have] = u <=> pc'[u] \in HoldsHave
    BY LockAssumption DEF TypeOK, LocksHeld, HoldsHave
  <2>2. \A u \in Threads : \A x \in Spaces :
            owner'[x] = u <=> space'[u] = x /\ pc'[u] \in HoldsUse
    BY LockAssumption DEF TypeOK, LocksHeld, HoldsUse, SpacesNamed,
                           NoSpaceYet, NoSpace, s
  <2> QED BY <2>1, <2>2 DEF LocksHeld
<1>5. SpacesNamed'
  <2>1. \A u \in Threads : IF pc'[u] \in NoSpaceYet THEN space'[u] = NoSpace
                                                   ELSE space'[u] \in 1 .. made
    BY DEF TypeOK, SpacesNamed, NoSpaceYet
  <2>2. \A x \in Spaces : x > made => refs'[x] = 0
    BY DEF TypeOK, SpacesNamed
  <2>3. open
    BY <1>1 DEF SpacesNamed
  <2> QED BY <2>1, <2>2, <2>3 DEF SpacesNamed
<1>6. FreeList'
  BY DEF TypeOK, FreeList, LocksHeld, HoldsHave
<1>7. Counted'
  <2>1. \A x \in Spaces :
            value'[x] = value[x] + (refs'[x] - refs[x])
                           - (IF t \in Using(x) THEN 1 ELSE 0)
                           + (IF t \in Using(x)' THEN 1 ELSE 0)
    BY <1>x DEF TypeOK, Using, s
  <2> QED BY <1>3, <2>1, CountedStep, Zenon DEF TypeOK
<1>8. ListedUnused'
  <2>1. \A i \in DOMAIN head : head[i] \in Spaces /\ head[i] # NoSpace
    BY <1>x, ElementOfSeq DEF TypeOK
  <2> QED BY <2>1 DEF TypeOK, ListedUnused
<1>9. UnlistedUsed'
  <2> SUFFICES ASSUME NEW x \in 1 .. made, \A i \in DOMAIN head : head[i] # x,
                      ~(refs[x] > 0)
               PROVE  \E u \in Threads : space'[u] = x /\ pc'[u] # "dropTwist"
    BY Zenon DEF UnlistedUsed
  <2>1. PICK u \in Threads : space[u] = x /\ pc[u] # "dropTwist"
    BY Zenon DEF UnlistedUsed
  <2>2. CASE u # t
    BY <2>1, <2>2 DEF OnlyMoves
  <2>3. CASE u = t
    <3>1. x = s /\ pc[t] = "dropLook" /\ refs[s] = 0
      BY <2>1, <2>3 DEF s, TypeOK
    <3>2. PICK w \in Threads : w # t /\ space[w] = s /\ pc[w] \in IsUser
      BY <1>y, <3>1
    <3>3. pc[w] # "dropTwist"
      BY <3>2 DEF LocksHeld, HoldsUse
    <3> QED BY <3>1, <3>2, <3>3 DEF OnlyMoves
  <2> QED BY <2>2, <2>3
<1>10. Alone'
  <2> SUFFICES ASSUME NEW u \in Threads, pc'[u] \in OnlyOne
               PROVE  /\ refs[space'[u]] = 0
                      /\ \A w \in Threads : space'[w] = space'[u] => w = u
    BY DEF Alone
  <2>1. u # t /\ pc'[u] = pc[u] /\ space'[u] = space[u]
    BY DEF TypeOK, OnlyOne
  <2>2. space[u] \in Spaces /\ space[u] # NoSpace
    BY <2>1, <1>x, SpaceThere DEF OnlyOne, NoSpaceYet
  <2> QED BY <2>1, <2>2 DEF TypeOK, Alone
<1>11. Capacity'
  <2>1. Choosing' = Choosing
    BY DEF TypeOK, Choosing
  <2> QED BY <2>1 DEF Capacity
<1> QED BY <1>3, <1>4, <1>5, <1>6, <1>7, <1>8, <1>9, <1>10, <1>11

(* buffer_pool_create: nothing is in use, and the limit counts the room.   *)
LEMMA CreateInv ==
    ASSUME PInv, buffer_pool_create
    PROVE  PInv'
<1> USE LockNames DEF PInv
<1>1. /\ head = <<>> /\ made = 0 /\ \A t \in Threads : pc[t] = "idle"
      /\ head' = <<>> /\ made' = 0 /\ limit' \in Limits /\ open' = TRUE
      /\ value' = [value EXCEPT ![Have] = 0] /\ Len(head') = 0
      /\ UNCHANGED <<owner, asleep, pc, space, refs, shared>>
  BY LenProperties DEF buffer_pool_create, SpacesNamed
<1>2. Choosing' = {} /\ Cardinality({}) = 0
  BY <1>1, FS_EmptySet DEF Choosing
<1>3. TypeOK'
  BY <1>1, PoolAssumption DEF TypeOK
<1>4. LocksHeld'
  BY <1>1 DEF LocksHeld
<1>5. SpacesNamed'
  BY <1>1 DEF SpacesNamed
<1>6. FreeList'
  BY <1>1 DEF FreeList, TypeOK
<1>7. Counted'
  <2>1. \A s \in Spaces : Using(s)' = Using(s)
    BY <1>1 DEF Using
  <2> QED BY <1>1, <2>1 DEF Counted, References, TypeOK
<1>8. ListedUnused' /\ UnlistedUsed' /\ Alone'
  BY <1>1 DEF ListedUnused, UnlistedUsed, Alone
<1>9. Capacity'
  <2>1. limit' \in {-1} \cup Nat /\ (limit' >= 0 => limit' <= MaxSpaces)
    BY <1>1, PoolAssumption
  <2>2. Cardinality(Choosing') = 0
    BY <1>2
  <2>3. limit' >= 0 => made' + limit' <= MaxSpaces
    <3>1. made' = 0 /\ limit' \in Int
      BY <1>1, <2>1
    <3>2. \A l \in Int : 0 + l = l
      OBVIOUS
    <3>3. made' + limit' = limit'
      BY <3>1, <3>2, Zenon
    <3> QED BY <2>1, <3>3, Zenon
  <2>4. Cardinality(Choosing') <= Len(head') + MaxSpaces - made'
    BY <1>1, <2>2
  <2> QED BY <2>1, <2>3, <2>4 DEF Capacity
<1> QED BY <1>3, <1>4, <1>5, <1>6, <1>7, <1>8, <1>9

(* buffer_pool_free: nothing is in use, and all locks are made anew.       *)
LEMMA FreeInv ==
    ASSUME PInv, buffer_pool_free
    PROVE  PInv'
<1> USE LockNames DEF PInv
<1>1. /\ \A t \in Threads : pc[t] = "idle"
      /\ \A s \in Spaces : refs[s] = 0
      /\ head' = <<>> /\ made' = 0 /\ limit' = 0 /\ open' = FALSE
      /\ value' = [l \in Locks |-> 0] /\ Len(head') = 0
      /\ UNCHANGED <<owner, asleep, pc, space, refs, shared>>
  BY LenProperties DEF buffer_pool_free
<1>2. Cardinality({}) = 0
  BY FS_EmptySet
<1>3. TypeOK'
  <2>1. head' \in Seq(Spaces) /\ made' \in 0 .. MaxSpaces
    BY <1>1
  <2>2. open' \in BOOLEAN
    BY <1>1, Zenon
  <2>3. limit' = 0 /\ value' = [l \in Locks |-> 0]
    BY <1>1
  <2>4. limit' \in Int /\ value' \in [Locks -> Int]
    BY <2>3
  <2> QED BY <1>1, <2>1, <2>2, <2>4 DEF TypeOK
<1>4. LocksHeld'
  BY <1>1 DEF LocksHeld
<1>5. SpacesNamed'
  BY <1>1 DEF SpacesNamed, NoSpaceYet
<1>6. FreeList'
  BY <1>1 DEF FreeList
<1>7. Counted'
  <2>1. \A s \in Spaces : Using(s)' = {}
    BY <1>1 DEF Using
  <2>2. \A s \in Spaces : value'[s] = 0 /\ refs'[s] = 0
    BY <1>1
  <2> QED BY <1>2, <2>1, <2>2 DEF Counted, References
<1>8. ListedUnused' /\ UnlistedUsed' /\ Alone'
  BY <1>1 DEF ListedUnused, UnlistedUsed, Alone, OnlyOne
<1>9. Capacity'
  BY <1>1 DEF Capacity
<1> QED BY <1>3, <1>4, <1>5, <1>6, <1>7, <1>8, <1>9

(* Nothing but asleep changes: a spurious wakeup, or a stuttering step.    *)
LEMMA QuietInv ==
    ASSUME PInv, asleep' \in [Locks -> SUBSET Threads],
           UNCHANGED <<value, owner, pc, space, poolState, refs, shared>>
    PROVE  PInv'
<1> USE DEF PInv, poolState
<1>1. TypeOK' /\ LocksHeld' /\ SpacesNamed' /\ FreeList'
  BY DEF TypeOK, LocksHeld, SpacesNamed, FreeList
<1>2. Choosing' = Choosing /\ \A s \in Spaces : Using(s)' = Using(s)
  BY DEF Choosing, Using
<1>3. Counted' /\ Capacity'
  BY <1>2 DEF Counted, References, Capacity
<1>4. ListedUnused' /\ UnlistedUsed' /\ Alone'
  BY DEF ListedUnused, UnlistedUsed, Alone
<1> QED BY <1>1, <1>3, <1>4

LEMMA PoolInitInv == Init => PInv
<1> SUFFICES ASSUME Init PROVE PInv
  OBVIOUS
<1> USE LockNames DEF Init, LocksInit
<1>1. TypeOK
  <2>1. head \in Seq(Spaces) /\ made \in 0 .. MaxSpaces
    OBVIOUS
  <2>2. value \in [Locks -> Int] /\ refs \in [Spaces -> Nat]
    OBVIOUS
  <2>3. asleep \in [Locks -> SUBSET Threads]
    OBVIOUS
  <2>4. /\ owner \in [Locks -> Threads \cup {Nobody}]
        /\ pc \in [Threads -> Places]
        /\ space \in [Threads -> {NoSpace} \cup Spaces]
    BY DEF Places
  <2>5. open \in BOOLEAN /\ limit = 0 /\ shared \subseteq Spaces
    BY Zenon
  <2> HIDE DEF Init, LocksInit
  <2> QED BY <2>1, <2>2, <2>3, <2>4, <2>5 DEF TypeOK
<1>2. LocksHeld /\ SpacesNamed
  BY LockAssumption DEF LocksHeld, HoldsHave, HoldsUse, SpacesNamed, NoSpaceYet
<1>3. FreeList
  BY LenProperties DEF FreeList
<1>4. Counted
  <2>1. \A s \in Spaces : Using(s) = {}
    BY DEF Using
  <2>2. \A s \in Spaces : value[s] = 0 /\ refs[s] = 0
    OBVIOUS
  <2>3. Cardinality({}) = 0
    BY FS_EmptySet
  <2> HIDE DEF Init, LocksInit
  <2> QED BY <2>1, <2>2, <2>3 DEF Counted, References
<1>5. ListedUnused /\ UnlistedUsed /\ Alone
  BY DEF ListedUnused, UnlistedUsed, Alone, OnlyOne
<1>6. Capacity
  BY DEF Capacity
<1> QED BY <1>1, <1>2, <1>3, <1>4, <1>5, <1>6 DEF PInv

LEMMA PoolNextInv == PInv /\ [Next]_vars => PInv'
<1> SUFFICES ASSUME PInv, [Next]_vars PROVE PInv'
  OBVIOUS
<1>1. CASE buffer_pool_create \/ buffer_pool_free
  BY <1>1, CreateInv, FreeInv
<1>2. ASSUME NEW t \in Getters, GetCall(t) \/ GetSteps(t)
      PROVE  PInv'
  BY <1>2, GetCallInv, GetPossessHaveInv, GetWaitInv, GetPossessUseInv,
     GetUnlinkInv, GetReturnInv, GetMakeInv, GetNewInv DEF GetSteps
<1>3. ASSUME NEW t \in Droppers, DropSteps(t)
      PROVE  PInv'
  BY <1>3, UsePossessInv, UseReturnInv, DropPossessUseInv, DropPossessHaveInv,
     DropLinkInv, DropReturnInv DEF DropSteps
<1>4. ASSUME NEW t \in Droppers, NEW s \in Spaces, UseCall(t, s) \/ DropCall(t, s)
      PROVE  PInv'
  BY <1>4, UseCallInv, DropCallInv
<1>5. ASSUME NEW t \in Threads, Wakeup(t)
      PROVE  PInv'
  <2>1. asleep' \in [Locks -> SUBSET Threads]
    BY <1>5 DEF Wakeup, SpuriousWakeup, PInv, TypeOK
  <2> QED BY <1>5, <2>1, QuietInv DEF Wakeup, SpuriousWakeup
<1>6. CASE UNCHANGED vars
  <2>1. asleep' \in [Locks -> SUBSET Threads]
    BY <1>6 DEF vars, lockVars, PInv, TypeOK
  <2> QED BY <1>6, <2>1, QuietInv DEF vars, lockVars
<1> QED BY <1>1, <1>2, <1>3, <1>4, <1>5, <1>6 DEF Next

(* PInv holds in every state of the pool, for every number of threads and  *)
(* spaces and every limit, however the lock operations interleave.         *)
THEOREM PoolInvariance == Spec => []PInv
<1> QED BY PoolInitInv, PoolNextInv, PTL DEF Spec

(* Every variable keeps its range: in particular no more spaces are made   *)
(* than the limit allows (buffer_pool.c:66-67).                            *)
THEOREM PoolTypeCorrect == Spec => []TypeOK
<1>1. PInv => TypeOK
  BY DEF PInv
<1> QED BY <1>1, PoolInvariance, PTL
-----------------------------------------------------------------------------
(* Where a space that is not listed can be.                                *)
LEMMA Listed ==
    ASSUME PInv, NEW s \in 1 .. made, refs[s] = 0, Getting(s) = {},
           Using(s) \ GivenBack(s) = {}
    PROVE  \E i \in DOMAIN head : head[i] = s
<1> SUFFICES ASSUME \A i \in DOMAIN head : head[i] # s PROVE FALSE
  OBVIOUS
<1> USE DEF PInv
<1>1. PICK t \in Threads : space[t] = s /\ pc[t] # "dropTwist"
  BY DEF UnlistedUsed
<1>2. pc[t] \notin {"getUse", "getNew", "usePossess", "useTwist", "dropUse",
                    "dropLook", "dropLink"}
  BY <1>1 DEF Getting, Using, GivenBack
<1>3. s # NoSpace
  BY DEF NoSpace
<1>4. pc[t] = "getUnlink"
  BY <1>1, <1>2, <1>3 DEF TypeOK, Places, SpacesNamed, NoSpaceYet
<1>5. head # <<>> /\ s = head[1]
  BY <1>1, <1>4 DEF FreeList
<1>6. 1 \in DOMAIN head
  BY <1>5, EmptySeq, LenProperties DEF TypeOK
<1> QED BY <1>5, <1>6

LEMMA AccountingHolds == PInv => SpaceAccounting
<1> SUFFICES ASSUME PInv, NEW s \in 1 .. made
             PROVE  /\ value[s] = References(s)
                    /\ Cardinality(Getting(s)) <= 1
                    /\ Cardinality({i \in DOMAIN head : head[i] = s})
                         = IF Getting(s) # {} THEN 0
                           ELSE IF refs[s] + Cardinality(Using(s) \ GivenBack(s)) > 0
                                THEN 0 ELSE 1
  BY Zenon DEF SpaceAccounting
<1> USE DEF PInv
<1> DEFINE P == {i \in DOMAIN head : head[i] = s}
           U == Using(s) \ GivenBack(s)
<1>1. s \in Spaces /\ refs[s] \in Nat /\ s # NoSpace
  BY LockNames DEF TypeOK, Spaces, NoSpace
<1>2. value[s] = References(s)
  BY <1>1 DEF Counted
<1>3. Cardinality(Getting(s)) <= 1 /\ (Getting(s) # {} => P = {})
  <2>1. CASE Getting(s) = {}
    BY <2>1, FS_EmptySet
  <2>2. ASSUME NEW t \in Getting(s)
        PROVE  Getting(s) = {t} /\ P = {}
    <3>1. t \in Threads /\ space[t] = s /\ pc[t] \in {"getUse", "getNew"}
      BY DEF Getting
    <3>2. \A u \in Threads : space[u] = s => u = t
      BY <3>1 DEF Alone, OnlyOne
    <3>3. Getting(s) = {t}
      BY <3>1, <3>2 DEF Getting
    <3>4. P = {}
      BY <3>1 DEF ListedUnused
    <3> QED BY <3>3, <3>4
  <2>3. ASSUME NEW t \in Getting(s) PROVE Cardinality(Getting(s)) = 1
    BY <2>2, FS_Singleton
  <2> QED BY <2>1, <2>2, <2>3
<1>4. IsFiniteSet(U) /\ Cardinality(U) \in Nat /\ (Cardinality(U) = 0 <=> U = {})
  <2>1. U \in SUBSET Threads
    BY DEF Using
  <2>2. IsFiniteSet(U)
    BY <2>1, PoolAssumption, FS_Subset
  <2> QED BY <2>2, FS_CardinalityType, FS_EmptySet
<1>5. P # {} => refs[s] = 0 /\ U = {}
  BY DEF ListedUnused, Using, GivenBack
<1>6. ASSUME Getting(s) = {}, refs[s] = 0, U = {}
      PROVE  Cardinality(P) = 1
  <2>1. PICK i \in DOMAIN head : head[i] = s
    BY <1>6, Listed
  <2>2. P = {i}
    BY <2>1 DEF FreeList
  <2> QED BY <2>2, FS_Singleton
<1>7. P = {} => Cardinality(P) = 0
  BY FS_EmptySet
<1> HIDE DEF P, U
<1>8. Cardinality(P) = IF Getting(s) # {} THEN 0
                       ELSE IF refs[s] + Cardinality(U) > 0 THEN 0 ELSE 1
  BY <1>1, <1>3, <1>4, <1>5, <1>6, <1>7
<1> QED BY <1>2, <1>3, <1>8 DEF P, U

(* When nobody uses a space all of them are in the list, each once.        *)
LEMMA AllListed ==
    ASSUME PInv, \A t \in Threads : pc[t] = "idle", \A s \in Spaces : refs[s] = 0
    PROVE  Len(head) = made
<1> USE DEF PInv
<1>1. head \in Seq(Spaces) /\ Len(head) \in Nat /\ made \in Nat
  BY LockNames DEF TypeOK
<1>2. DOMAIN head = 1 .. Len(head)
  BY <1>1
<1>3. head \in [1 .. Len(head) -> 1 .. made]
  <2>1. \A i \in 1 .. Len(head) : head[i] \in 1 .. made
    <3> TAKE i \in 1 .. Len(head)
    <3>1. head[i] \in Spaces /\ head[i] <= made
      BY <1>1, <1>2, ElementOfSeq DEF SpacesNamed
    <3> QED BY <3>1, <1>1, LockNames DEF Spaces
  <2>2. head = [i \in 1 .. Len(head) |-> head[i]]
    BY <1>1
  <2> QED BY <2>1, <2>2
<1>4. \A i, k \in 1 .. Len(head) : head[i] = head[k] => i = k
  BY <1>2 DEF FreeList
<1>5. \A s \in 1 .. made : \E i \in 1 .. Len(head) : head[i] = s
  <2> TAKE s \in 1 .. made
  <2>1. s \in Spaces
    BY LockNames DEF TypeOK, Spaces
  <2>2. Getting(s) = {} /\ Using(s) \ GivenBack(s) = {}
    BY DEF Getting, Using
  <2> QED BY <1>2, <2>1, <2>2, Listed
<1>6. head \in Bijection(1 .. Len(head), 1 .. made)
  BY <1>3, <1>4, <1>5 DEF Bijection, Injection, Surjection, IsInjective
<1>7. Cardinality(1 .. made) = Cardinality(1 .. Len(head))
  BY <1>1, <1>6, FS_Interval, FS_Bijection DEF ExistsBijection
<1>8. \A n \in Nat : Cardinality(1 .. n) = n
  BY FS_Interval
<1> QED BY <1>1, <1>7, <1>8

LEMMA PoolAsserts == PInv => AssertionsHold
<1> SUFFICES ASSUME PInv PROVE AssertionsHold
  OBVIOUS
<1> USE DEF PInv
<1>1. ASSUME NEW t \in Threads, pc[t] = "getChoose", MayGo, head = <<>>
      PROVE  limit # 0
  BY <1>1 DEF MayGo, FreeList
<1>2. ASSUME NEW t \in Threads, pc[t] = "dropLook"
      PROVE  value[space[t]] # 0
  <2> DEFINE s == space[t]
  <2>1. s \in Spaces /\ refs[s] \in Nat
    BY <1>2, SpaceThere DEF NoSpaceYet, TypeOK
  <2>2. t \in Using(s) /\ Using(s) \in SUBSET Threads
    BY <1>2 DEF Using
  <2> HIDE DEF s
  <2>3. Cardinality(Using(s)) \in Nat /\ Cardinality(Using(s)) # 0
    BY <2>2, PoolAssumption, FS_Subset, FS_CardinalityType, FS_EmptySet
  <2>4. value[s] = refs[s] + Cardinality(Using(s))
    BY <2>1 DEF Counted, References
  <2> QED BY <2>1, <2>3, <2>4 DEF s
<1>3. value[Have] = Len(head)
  BY DEF FreeList
<1> QED BY <1>1, <1>2, <1>3, AllListed DEF AssertionsHold

(* A space is in one place, its use count is the number of its users, and  *)
(* no more than one caller gets it (buffer_pool.c:53-62, 95-113), for      *)
(* every number of threads and spaces.                                     *)
THEOREM Accounting == Spec => []SpaceAccounting
<1> QED BY PoolInvariance, AccountingHolds, PTL

(* The assertions of buffer_pool.c (lines 65, 103 and 138) never fail.     *)
THEOREM NoAssertionFails == Spec => []AssertionsHold
<1> QED BY PoolInvariance, PoolAsserts, PTL
-----------------------------------------------------------------------------
(* The pool with its two levels of locks implements the atomic pool of     *)
(* module Pool, for every number of threads and spaces and every limit.    *)
(* Each call has one step that the atomic pool sees: the unlinking or the  *)
(* counting of the new space in get_space, the twist in use_space, and in  *)
(* drop_space the linking or, when other users remain, the final twist.    *)
(* Every other step stutters.                                              *)

(* The places where what the atomic pool sees differs from the value of    *)
(* the use lock: a space is in use before its lock says so, and given back *)
(* before its lock says so.                                                *)
Seen == {"getUse", "getNew", "dropTwist"}

LEMMA UsersOf ==
    ASSUME NEW s \in Spaces
    PROVE  /\ AbstractUsers[s] = IF Getting(s) # {} THEN 1
                                 ELSE IF GivenBack(s) # {} THEN 0 ELSE value[s]
           /\ AbstractUsers'[s] = IF Getting(s)' # {} THEN 1
                                  ELSE IF GivenBack(s)' # {} THEN 0 ELSE value'[s]
BY DEF AbstractUsers

(* A step that is not about a space, or not at a place that counts, leaves *)
(* the space's users alone.                                                *)
LEMMA UsersElsewhere ==
    ASSUME NEW t \in Threads, OnlyMoves(t), NEW s \in Spaces,
           value'[s] = value[s],
           space[t] # s \/ pc[t] \notin Seen,
           space'[t] # s \/ pc'[t] \notin Seen
    PROVE  AbstractUsers'[s] = AbstractUsers[s]
<1>1. Getting(s)' = Getting(s) /\ GivenBack(s)' = GivenBack(s)
  BY DEF Getting, GivenBack, OnlyMoves, Seen
<1> QED BY <1>1, UsersOf

LEMMA UsersKept ==
    ASSUME \A s \in Spaces : AbstractUsers'[s] = AbstractUsers[s]
    PROVE  AbstractUsers' = AbstractUsers
BY DEF AbstractUsers

LEMMA UsersChange ==
    ASSUME NEW s \in Spaces, NEW n, AbstractUsers'[s] = n,
           \A x \in Spaces \ {s} : AbstractUsers'[x] = AbstractUsers[x]
    PROVE  AbstractUsers' = [AbstractUsers EXCEPT ![s] = n]
<1>1. /\ AbstractUsers = [x \in Spaces |-> AbstractUsers[x]]
      /\ AbstractUsers' = [x \in Spaces |-> AbstractUsers'[x]]
  BY DEF AbstractUsers
<1> HIDE DEF AbstractUsers
<1> QED BY <1>1

(* No thread but one is about the space: its users are what that one sees. *)
LEMMA NoOtherUser ==
    ASSUME PInv, NEW s \in Spaces, refs[s] = 0,
           \A t \in Threads : space[t] = s => pc[t] \notin IsUser
    PROVE  value[s] = 0
<1>1. Using(s) = {}
  BY DEF Using, IsUser
<1> QED BY <1>1, FS_EmptySet DEF PInv, Counted, References

LEMMA HasUser ==
    ASSUME PInv, NEW t \in Threads, pc[t] \in IsUser
    PROVE  /\ space[t] \in Spaces
           /\ value[space[t]] \in Nat /\ value[space[t]] > 0
           /\ Getting(space[t]) = {}
           /\ pc[t] \in HoldsUse \ {"dropTwist"} => GivenBack(space[t]) = {}
<1> DEFINE s == space[t]
<1>1. s \in Spaces
  BY SpaceThere DEF IsUser, NoSpaceYet
<1>2. t \in Using(s) /\ Using(s) \in SUBSET Threads
  BY DEF Using, IsUser
<1>3. refs[s] \in Nat
  BY <1>1 DEF PInv, TypeOK
<1>4. Getting(s) = {}
  BY DEF Getting, IsUser, PInv, Alone, OnlyOne
<1>5. pc[t] \in HoldsUse \ {"dropTwist"} => GivenBack(s) = {}
  BY <1>1 DEF GivenBack, PInv, LocksHeld, HoldsUse
<1> HIDE DEF s
<1>6. Cardinality(Using(s)) \in Nat /\ Cardinality(Using(s)) # 0
  BY <1>2, PoolAssumption, FS_Subset, FS_CardinalityType, FS_EmptySet
<1>7. value[s] = refs[s] + Cardinality(Using(s))
  BY <1>1 DEF PInv, Counted, References
<1>8. value[s] \in Nat /\ value[s] > 0
  BY <1>3, <1>6, <1>7
<1> QED BY <1>1, <1>4, <1>5, <1>8 DEF s
-----------------------------------------------------------------------------
(* A step to or from no place that counts, with no new value, stutters.    *)
LEMMA SilentStep ==
    ASSUME NEW t \in Threads, NEW q, NEW z,
           TypeOK, pc[t] \notin Seen, q \notin Seen,
           pc' = [pc EXCEPT ![t] = q], space' = [space EXCEPT ![t] = z],
           value' = value, UNCHANGED poolState
    PROVE  UNCHANGED Atomic!poolVars
<1>1. OnlyMoves(t) /\ pc'[t] = q
  BY DEF OnlyMoves, TypeOK
<1>2. \A s \in Spaces : AbstractUsers'[s] = AbstractUsers[s]
  BY <1>1, UsersElsewhere
<1> QED BY <1>2, UsersKept DEF Atomic!poolVars, poolState

LEMMA SilentSteps ==
    ASSUME PInv, NEW t \in Threads,
           \/ GetCall(t) \/ GetPossessHave(t) \/ GetWait(t) \/ GetPossessUse(t)
           \/ \E s \in Spaces : UseCall(t, s) \/ DropCall(t, s)
           \/ UsePossess(t) \/ DropPossessUse(t) \/ DropPossessHave(t)
    PROVE  UNCHANGED Atomic!poolVars
<1>1. space = [space EXCEPT ![t] = space[t]]
  BY DEF PInv, TypeOK
<1>2. TypeOK
  BY DEF PInv
<1>3. ASSUME NEW q \in {"getHave", "getChoose", "getUnlink", "usePossess",
                        "useTwist", "dropUse", "dropLook", "dropLink"}
      PROVE  q \notin Seen
  BY DEF Seen
<1>4. CASE GetCall(t) \/ GetPossessHave(t) \/ GetWait(t)
  <2>1. /\ pc[t] \notin Seen /\ value' = value /\ UNCHANGED poolState
        /\ space' = [space EXCEPT ![t] = space[t]]
        /\ \E q \in {"getHave", "getChoose"} : pc' = [pc EXCEPT ![t] = q]
    BY <1>1, <1>4 DEF GetCall, GetPossessHave, GetWait, Possess, CondWait, Goto,
       lockVars, Seen
  <2> QED BY <1>2, <1>3, <2>1, SilentStep
<1>5. CASE GetPossessUse(t)
  <2>1. /\ pc[t] \notin Seen /\ value' = value /\ UNCHANGED poolState
        /\ space' = [space EXCEPT ![t] = Head(head)]
        /\ pc' = [pc EXCEPT ![t] = "getUnlink"]
    BY <1>5 DEF GetPossessUse, Possess, Goto, Seen
  <2> QED BY <1>2, <1>3, <2>1, SilentStep
<1>6. ASSUME NEW s \in Spaces, UseCall(t, s) \/ DropCall(t, s)
      PROVE  UNCHANGED Atomic!poolVars
  <2>1. /\ pc[t] \notin Seen /\ value' = value /\ UNCHANGED poolState
        /\ space' = [space EXCEPT ![t] = s]
        /\ \E q \in {"usePossess", "dropUse"} : pc' = [pc EXCEPT ![t] = q]
    BY <1>6 DEF UseCall, DropCall, Goto, lockVars, Seen
  <2> QED BY <1>2, <1>3, <2>1, SilentStep
<1>7. CASE UsePossess(t) \/ DropPossessUse(t) \/ DropPossessHave(t)
  <2>1. /\ pc[t] \notin Seen /\ value' = value /\ UNCHANGED poolState
        /\ space' = [space EXCEPT ![t] = space[t]]
        /\ \E q \in {"useTwist", "dropLook", "dropLink"} :
               pc' = [pc EXCEPT ![t] = q]
    BY <1>1, <1>7 DEF UsePossess, DropPossessUse, DropPossessHave, Possess, Goto, Seen
  <2> QED BY <1>2, <1>3, <2>1, SilentStep
<1> QED BY <1>4, <1>5, <1>6, <1>7
-----------------------------------------------------------------------------
(* get_space: unlinking the first free space is the atomic GetFree.        *)
LEMMA UnlinkStep ==
    ASSUME PInv, NEW t \in Getters, GetUnlink(t),
           NEW s \in Spaces, s = space[t]
    PROVE  Atomic!GetFree
<1>1. /\ t \in Threads /\ pc[t] = "getUnlink" /\ OnlyMoves(t)
      /\ pc'[t] = "getUse" /\ space' = space
      /\ value' = [value EXCEPT ![Have] = value[Have] - 1]
      /\ head' = Tail(head) /\ UNCHANGED <<open, limit, made>>
  BY LockNames DEF GetUnlink, twist, Goto, OnlyMoves, PInv, TypeOK
<1>2. head # <<>> /\ s = head[1] /\ Head(head) = s /\ open
  <2>1. head # <<>> /\ s = head[1]
    BY <1>1 DEF PInv, FreeList
  <2>2. open
    BY <1>1 DEF PInv, SpacesNamed
  <2> QED BY <2>1, <2>2 DEF PInv, TypeOK
<1>3. /\ refs[s] = 0 /\ Getting(s) = {} /\ GivenBack(s) = {}
      /\ \A u \in Threads : space[u] = s => pc[u] \notin IsUser
  <2>1. 1 \in DOMAIN head
    BY <1>2, EmptySeq, LenProperties DEF PInv, TypeOK
  <2>2. /\ refs[s] = 0
        /\ \A u \in Threads : space[u] = s => pc[u] \in {"getUnlink", "dropTwist"}
    BY <1>2, <2>1 DEF PInv, ListedUnused
  <2>3. \A u \in Threads : space[u] = s => pc[u] # "dropTwist"
    <3>1. t \in Threads /\ pc[t] = "getUnlink" /\ space[t] = s
      BY <1>1
    <3> QED BY <3>1 DEF PInv, LocksHeld, HoldsUse
  <2> QED BY <2>2, <2>3 DEF Getting, GivenBack, IsUser
<1>4. AbstractUsers[s] = 0
  BY <1>2, <1>3, NoOtherUser, UsersOf
<1>5. t \in Getting(s)'
  BY <1>1 DEF Getting
<1>6. AbstractUsers'[s] = 1
  BY <1>2, <1>5, UsersOf
<1>7. \A x \in Spaces \ {s} : AbstractUsers'[x] = AbstractUsers[x]
  <2> TAKE x \in Spaces \ {s}
  <2>1. value'[x] = value[x] /\ space[t] # x /\ space'[t] # x
    BY <1>1, LockNames DEF PInv, TypeOK
  <2> QED BY <1>1, <2>1, UsersElsewhere
<1>8. AbstractUsers' = [AbstractUsers EXCEPT ![s] = 1]
  BY <1>2, <1>6, <1>7, UsersChange
<1> QED BY <1>1, <1>2, <1>4, <1>8 DEF Atomic!GetFree

(* get_space: counting a new space is the atomic GetNew.                   *)
LEMMA MakeStep ==
    ASSUME PInv, NEW t \in Getters, GetMake(t),
           NEW s \in Spaces, s = made + 1
    PROVE  Atomic!GetNew
<1>1. /\ t \in Threads /\ pc[t] = "getChoose" /\ OnlyMoves(t)
      /\ pc'[t] = "getNew" /\ space'[t] = s /\ value' = value
      /\ space[t] = NoSpace /\ MayGo
      /\ head = <<>> /\ UNCHANGED <<open, head>>
      /\ limit' = IF limit > 0 THEN limit - 1 ELSE limit
      /\ made' = s
  BY LockNames DEF GetMake, CountDown, release, Goto, OnlyMoves, PInv, TypeOK,
     SpacesNamed, NoSpaceYet
<1>2. made \in Nat
  BY LockNames DEF PInv, TypeOK
<1>3. limit # 0 /\ open
  <2>1. limit # 0
    BY <1>1, PoolAsserts DEF AssertionsHold
  <2>2. open
    BY <1>1 DEF PInv, SpacesNamed
  <2> QED BY <2>1, <2>2
<1>4. refs[s] = 0 /\ \A u \in Threads : space[u] # s
  <2>1. s > made /\ s # NoSpace /\ s \notin 1 .. made
    BY <1>2 DEF NoSpace
  <2> QED BY <2>1 DEF PInv, SpacesNamed
<1>5. AbstractUsers[s] = 0
  <2>1. Getting(s) = {} /\ GivenBack(s) = {}
    BY <1>4 DEF Getting, GivenBack
  <2> QED BY <1>2, <1>4, <2>1, NoOtherUser, UsersOf
<1>6. t \in Getting(s)'
  BY <1>1 DEF Getting
<1>7. AbstractUsers'[s] = 1
  BY <1>2, <1>6, UsersOf
<1>8. \A x \in Spaces \ {s} : AbstractUsers'[x] = AbstractUsers[x]
  BY <1>1, UsersElsewhere DEF Seen
<1>9. AbstractUsers' = [AbstractUsers EXCEPT ![s] = 1]
  BY <1>2, <1>7, <1>8, UsersChange
<1> QED BY <1>1, <1>3, <1>5, <1>9 DEF Atomic!GetNew

(* get_space returns: the space has been handed out already.               *)
LEMMA ReturnStep ==
    ASSUME PInv, NEW t \in Getters, GetReturn(t) \/ GetNew(t),
           NEW s \in Spaces, s = space[t]
    PROVE  UNCHANGED Atomic!poolVars
<1>1. /\ t \in Threads /\ pc[t] \in {"getUse", "getNew"} /\ OnlyMoves(t)
      /\ pc'[t] = "idle" /\ space'[t] = NoSpace
      /\ value' = [value EXCEPT ![s] = 1] /\ UNCHANGED poolState
  BY LockNames DEF GetReturn, GetNew, twist, Goto, OnlyMoves, PInv, TypeOK
<1>2. s # NoSpace /\ s \in Locks
  BY LockNames DEF NoSpace, Spaces
<1>3. t \in Getting(s)
  BY <1>1 DEF Getting
<1>4. \A u \in Threads : space'[u] # s
  BY <1>1, <1>2 DEF PInv, Alone, OnlyOne, OnlyMoves
<1>5. Getting(s)' = {} /\ GivenBack(s)' = {} /\ value'[s] = 1
  BY <1>1, <1>2, <1>4 DEF Getting, GivenBack, PInv, TypeOK
<1>6. AbstractUsers'[s] = AbstractUsers[s]
  BY <1>3, <1>5, UsersOf
<1>7. \A x \in Spaces \ {s} : AbstractUsers'[x] = AbstractUsers[x]
  <2> TAKE x \in Spaces \ {s}
  <2>1. value'[x] = value[x] /\ space[t] # x /\ space'[t] # x
    BY <1>1, LockNames DEF PInv, TypeOK, NoSpace, Spaces
  <2> QED BY <1>1, <2>1, UsersElsewhere
<1>8. AbstractUsers' = AbstractUsers
  BY <1>6, <1>7, UsersKept
<1> QED BY <1>1, <1>8 DEF Atomic!poolVars, poolState

(* use_space: its twist adds a user.                                       *)
LEMMA UseStep ==
    ASSUME PInv, NEW t \in Droppers, UseReturn(t),
           NEW s \in Spaces, s = space[t]
    PROVE  Atomic!Use(s)
<1>1. /\ t \in Threads /\ pc[t] = "useTwist" /\ OnlyMoves(t)
      /\ pc'[t] = "idle" /\ space'[t] = NoSpace
      /\ value' = [value EXCEPT ![s] = value[s] + 1] /\ UNCHANGED poolState
  BY LockNames DEF UseReturn, twist, Goto, OnlyMoves, PInv, TypeOK
<1>2. Getting(s) = {} /\ GivenBack(s) = {} /\ value[s] \in Nat /\ value[s] > 0
  BY <1>1, HasUser DEF IsUser, HoldsUse
<1>3. Getting(s)' = {} /\ GivenBack(s)' = {} /\ value'[s] = value[s] + 1
  <2>1. s # NoSpace /\ s \in Locks
    BY LockNames DEF NoSpace, Spaces
  <2>2. Getting(s)' = {} /\ GivenBack(s)' = {}
    BY <1>1, <1>2, <2>1 DEF Getting, GivenBack, OnlyMoves
  <2> QED BY <1>1, <2>1, <2>2 DEF PInv, TypeOK
<1>4. AbstractUsers[s] = value[s] /\ AbstractUsers'[s] = value[s] + 1
  BY <1>2, <1>3, UsersOf
<1>5. \A x \in Spaces \ {s} : AbstractUsers'[x] = AbstractUsers[x]
  <2> TAKE x \in Spaces \ {s}
  <2>1. value'[x] = value[x] /\ space[t] # x /\ space'[t] # x
    BY <1>1, LockNames DEF PInv, TypeOK, NoSpace, Spaces
  <2> QED BY <1>1, <2>1, UsersElsewhere
<1>6. AbstractUsers' = [AbstractUsers EXCEPT ![s] = AbstractUsers[s] + 1]
  BY <1>4, <1>5, UsersChange
<1> QED BY <1>1, <1>2, <1>4, <1>6 DEF Atomic!Use, poolState

(* drop_space by the last user: linking the space takes the user away.     *)
LEMMA LinkStep ==
    ASSUME PInv, NEW t \in Droppers, DropLink(t),
           NEW s \in Spaces, s = space[t]
    PROVE  Atomic!Drop(s)
<1>1. /\ t \in Threads /\ pc[t] = "dropLink" /\ OnlyMoves(t)
      /\ pc'[t] = "dropTwist" /\ space' = space
      /\ value' = [value EXCEPT ![Have] = value[Have] + 1]
      /\ head' = <<s>> \o head /\ UNCHANGED <<open, limit, made>>
  BY LockNames DEF DropLink, twist, Goto, OnlyMoves, PInv, TypeOK
<1>2. Getting(s) = {} /\ GivenBack(s) = {} /\ value[s] = 1
  <2>1. Getting(s) = {} /\ GivenBack(s) = {}
    BY <1>1, HasUser DEF IsUser, HoldsUse
  <2>2. refs[s] = 0 /\ \A u \in Threads : space[u] = s => u = t
    BY <1>1 DEF PInv, Alone, OnlyOne
  <2>3. Using(s) = {t}
    BY <1>1, <2>2 DEF Using
  <2>4. value[s] = 0 + Cardinality({t})
    BY <2>2, <2>3 DEF PInv, Counted, References
  <2> QED BY <2>1, <2>4, FS_Singleton
<1>3. t \in GivenBack(s)' /\ Getting(s)' = {}
  <2>1. t \in GivenBack(s)'
    BY <1>1 DEF GivenBack
  <2>2. Getting(s)' = {}
    BY <1>1, <1>2 DEF Getting, OnlyMoves
  <2> QED BY <2>1, <2>2
<1>4. AbstractUsers[s] = 1 /\ AbstractUsers'[s] = 0
  BY <1>2, <1>3, UsersOf
<1>5. \A x \in Spaces \ {s} : AbstractUsers'[x] = AbstractUsers[x]
  <2> TAKE x \in Spaces \ {s}
  <2>1. value'[x] = value[x] /\ space[t] # x /\ space'[t] # x
    BY <1>1, LockNames DEF PInv, TypeOK
  <2> QED BY <1>1, <2>1, UsersElsewhere
<1>6. AbstractUsers' = [AbstractUsers EXCEPT ![s] = AbstractUsers[s] - 1]
  BY <1>4, <1>5, UsersChange
<1> QED BY <1>1, <1>4, <1>6 DEF Atomic!Drop

(* drop_space by a user that leaves others behind: its twist takes it away.*)
LEMMA LeaveStep ==
    ASSUME PInv, NEW t \in Droppers, DropReturn(t), pc[t] = "dropLook",
           NEW s \in Spaces, s = space[t]
    PROVE  Atomic!Drop(s)
<1>1. /\ t \in Threads /\ OnlyMoves(t) /\ value[s] # 1
      /\ pc'[t] = "idle" /\ space'[t] = NoSpace
      /\ value' = [value EXCEPT ![s] = value[s] - 1] /\ UNCHANGED poolState
  BY LockNames DEF DropReturn, LastUser, twist, Goto, OnlyMoves, PInv, TypeOK
<1>2. Getting(s) = {} /\ GivenBack(s) = {} /\ value[s] \in Nat /\ value[s] > 0
  BY <1>1, HasUser DEF IsUser, HoldsUse
<1>3. Getting(s)' = {} /\ GivenBack(s)' = {} /\ value'[s] = value[s] - 1
  <2>1. s # NoSpace /\ s \in Locks
    BY LockNames DEF NoSpace, Spaces
  <2>2. Getting(s)' = {} /\ GivenBack(s)' = {}
    BY <1>1, <1>2, <2>1 DEF Getting, GivenBack, OnlyMoves
  <2> QED BY <1>1, <2>1, <2>2 DEF PInv, TypeOK
<1>4. AbstractUsers[s] = value[s] /\ AbstractUsers'[s] = value[s] - 1
  BY <1>2, <1>3, UsersOf
<1>5. \A x \in Spaces \ {s} : AbstractUsers'[x] = AbstractUsers[x]
  <2> TAKE x \in Spaces \ {s}
  <2>1. value'[x] = value[x] /\ space[t] # x /\ space'[t] # x
    BY <1>1, LockNames DEF PInv, TypeOK, NoSpace, Spaces
  <2> QED BY <1>1, <2>1, UsersElsewhere
<1>6. AbstractUsers' = [AbstractUsers EXCEPT ![s] = AbstractUsers[s] - 1]
  BY <1>4, <1>5, UsersChange
<1> QED BY <1>1, <1>2, <1>4, <1>6 DEF Atomic!Drop, poolState

(* drop_space returns after linking: the user has gone already.            *)
LEMMA LinkedStep ==
    ASSUME PInv, NEW t \in Droppers, DropReturn(t), pc[t] = "dropTwist",
           NEW s \in Spaces, s = space[t]
    PROVE  UNCHANGED Atomic!poolVars
<1>1. /\ t \in Threads /\ OnlyMoves(t)
      /\ pc'[t] = "idle" /\ space'[t] = NoSpace
      /\ value' = [value EXCEPT ![s] = value[s] - 1] /\ UNCHANGED poolState
  BY LockNames DEF DropReturn, twist, Goto, OnlyMoves, PInv, TypeOK
<1>2. s # NoSpace /\ s \in Locks
  BY LockNames DEF NoSpace, Spaces
<1>3. refs[s] = 0 /\ \A u \in Threads : space[u] = s => u = t
  BY <1>1 DEF PInv, Alone, OnlyOne
<1>4. value[s] = 1 /\ t \in GivenBack(s) /\ Getting(s) = {}
  <2>1. Using(s) = {t} /\ t \in GivenBack(s) /\ Getting(s) = {}
    BY <1>1, <1>3 DEF Using, GivenBack, Getting
  <2>2. value[s] = 0 + Cardinality({t})
    BY <1>3, <2>1 DEF PInv, Counted, References
  <2>3. Cardinality({t}) = 1
    BY FS_Singleton
  <2> QED BY <2>1, <2>2, <2>3
<1>5. Getting(s)' = {} /\ GivenBack(s)' = {} /\ value'[s] = 0
  <2>1. \A u \in Threads : space'[u] # s
    BY <1>1, <1>2, <1>3 DEF OnlyMoves
  <2> QED BY <1>1, <1>2, <1>4, <2>1 DEF Getting, GivenBack, PInv, TypeOK
<1>6. AbstractUsers'[s] = AbstractUsers[s]
  BY <1>4, <1>5, UsersOf
<1>7. \A x \in Spaces \ {s} : AbstractUsers'[x] = AbstractUsers[x]
  <2> TAKE x \in Spaces \ {s}
  <2>1. value'[x] = value[x] /\ space[t] # x /\ space'[t] # x
    BY <1>1, LockNames DEF PInv, TypeOK, NoSpace, Spaces
  <2> QED BY <1>1, <2>1, UsersElsewhere
<1>8. AbstractUsers' = AbstractUsers
  BY <1>6, <1>7, UsersKept
<1> QED BY <1>1, <1>8 DEF Atomic!poolVars, poolState
-----------------------------------------------------------------------------
(* While no call is under way, the users are what the use locks say.       *)
LEMMA UsersAtRest ==
    ASSUME \A t \in Threads : pc[t] = "idle",
           \A t \in Threads : pc'[t] = "idle"
    PROVE  \A s \in Spaces : /\ AbstractUsers[s] = value[s]
                             /\ AbstractUsers'[s] = value'[s]
<1> TAKE s \in Spaces
<1>1. /\ Getting(s) = {} /\ GivenBack(s) = {}
      /\ Getting(s)' = {} /\ GivenBack(s)' = {}
  BY DEF Getting, GivenBack
<1> QED BY <1>1, UsersOf

LEMMA CreateStep ==
    ASSUME PInv, buffer_pool_create
    PROVE  Atomic!Create
<1>1. /\ head = <<>> /\ made = 0 /\ \A t \in Threads : pc[t] = "idle"
      /\ head' = <<>> /\ made' = 0 /\ pc' = pc
      /\ value' = [value EXCEPT ![Have] = 0]
  BY DEF buffer_pool_create, PInv, SpacesNamed
<1>2. \A s \in Spaces : value'[s] = value[s]
  BY <1>1, LockNames DEF PInv, TypeOK
<1>3. AbstractUsers' = AbstractUsers
  BY <1>1, <1>2, UsersAtRest, UsersKept
<1>4. ~open /\ open' = TRUE /\ limit' \in Limits
  BY Zenon DEF buffer_pool_create
<1>5. head' = head /\ made' = made
  BY <1>1
<1> QED BY <1>3, <1>4, <1>5, Zenon DEF Atomic!Create

LEMMA FreeStep ==
    ASSUME PInv, buffer_pool_free
    PROVE  Atomic!FreeAll
<1>1. /\ \A t \in Threads : pc[t] = "idle"
      /\ \A s \in Spaces : refs[s] = 0
      /\ pc' = pc /\ value' = [l \in Locks |-> 0]
  BY DEF buffer_pool_free
<1>2. Len(head) = made
  BY <1>1, AllListed
<1>3. \A s \in Spaces : value[s] = 0 /\ value'[s] = 0
  <2> TAKE s \in Spaces
  <2>1. value[s] = 0
    BY <1>1, NoOtherUser DEF IsUser
  <2> QED BY <1>1, <2>1, LockNames
<1>4. AbstractUsers' = AbstractUsers
  BY <1>1, <1>3, UsersAtRest, UsersKept
<1>5. /\ open /\ open' = FALSE /\ limit' = 0 /\ head' = <<>> /\ made' = 0
  BY Zenon DEF buffer_pool_free
<1> QED BY <1>2, <1>4, <1>5, Zenon DEF Atomic!FreeAll

LEMMA RefinesInit == Init => Atomic!PoolInit
<1> SUFFICES ASSUME Init PROVE Atomic!PoolInit
  OBVIOUS
<1>1. \A t \in Threads : pc[t] = "idle"
  BY DEF Init
<1>2. \A s \in Spaces : AbstractUsers[s] = 0
  <2> TAKE s \in Spaces
  <2>1. Getting(s) = {} /\ GivenBack(s) = {} /\ value[s] = 0
    BY <1>1, LockNames DEF Getting, GivenBack, Init, LocksInit
  <2> QED BY <2>1, UsersOf
<1>3. AbstractUsers = [s \in Spaces |-> 0]
  BY <1>2 DEF AbstractUsers
<1>4. open = FALSE /\ limit = 0 /\ head = <<>> /\ made = 0
  BY Zenon DEF Init
<1> QED BY <1>3, <1>4, Zenon DEF Atomic!PoolInit

(* A new space is one of those there may be.                               *)
LEMMA MadeRoom ==
    ASSUME PInv, PInv', NEW t \in Getters, GetMake(t)
    PROVE  made + 1 \in Spaces
<1>1. made' = made + 1 /\ made' \in 0 .. MaxSpaces /\ made \in Nat
  BY LockNames DEF GetMake, PInv, TypeOK
<1> QED BY <1>1, LockNames DEF Spaces

LEMMA RefinesNext ==
    ASSUME PInv, PInv', [Next]_vars
    PROVE  Atomic!PoolNext \/ UNCHANGED Atomic!poolVars
<1>1. CASE buffer_pool_create \/ buffer_pool_free
  BY <1>1, CreateStep, FreeStep DEF Atomic!PoolNext
<1>2. ASSUME NEW t \in Getters, GetCall(t) \/ GetSteps(t)
      PROVE  Atomic!PoolNext \/ UNCHANGED Atomic!poolVars
  <2>1. t \in Threads
    BY LockNames
  <2>2. CASE GetUnlink(t)
    <3>1. space[t] \in Spaces
      BY <2>1, <2>2, SpaceThere DEF GetUnlink, NoSpaceYet
    <3> QED BY <2>2, <3>1, UnlinkStep DEF Atomic!PoolNext
  <2>3. CASE GetMake(t)
    BY <2>3, MadeRoom, MakeStep DEF Atomic!PoolNext
  <2>4. CASE GetReturn(t) \/ GetNew(t)
    <3>1. space[t] \in Spaces
      BY <2>1, <2>4, SpaceThere DEF GetReturn, GetNew, NoSpaceYet
    <3> QED BY <2>4, <3>1, ReturnStep
  <2>5. CASE GetCall(t) \/ GetPossessHave(t) \/ GetWait(t) \/ GetPossessUse(t)
    BY <2>1, <2>5, SilentSteps
  <2> QED BY <1>2, <2>2, <2>3, <2>4, <2>5 DEF GetSteps
<1>3. ASSUME NEW t \in Droppers, DropSteps(t)
      PROVE  Atomic!PoolNext \/ UNCHANGED Atomic!poolVars
  <2>1. t \in Threads
    BY LockNames
  <2>2. CASE UseReturn(t) \/ DropLink(t) \/ DropReturn(t)
    <3>1. space[t] \in Spaces
      BY <2>1, <2>2, SpaceThere DEF UseReturn, DropLink, DropReturn, NoSpaceYet
    <3>2. DropReturn(t) => pc[t] \in {"dropTwist", "dropLook"}
      BY DEF DropReturn
    <3> QED BY <2>2, <3>1, <3>2, UseStep, LinkStep, LeaveStep, LinkedStep
            DEF Atomic!PoolNext
  <2>3. CASE UsePossess(t) \/ DropPossessUse(t) \/ DropPossessHave(t)
    BY <2>1, <2>3, SilentSteps
  <2> QED BY <1>3, <2>2, <2>3 DEF DropSteps
<1>4. ASSUME NEW t \in Droppers, NEW s \in Spaces, UseCall(t, s) \/ DropCall(t, s)
      PROVE  Atomic!PoolNext \/ UNCHANGED Atomic!poolVars
  BY <1>4, SilentSteps, LockNames
<1>5. ASSUME UNCHANGED <<value, pc, space, poolState>>
      PROVE  UNCHANGED Atomic!poolVars
  BY <1>5 DEF Atomic!poolVars, poolState, AbstractUsers, Getting, GivenBack
<1>6. ASSUME NEW t \in Threads, Wakeup(t)
      PROVE  UNCHANGED Atomic!poolVars
  BY <1>5, <1>6 DEF Wakeup, SpuriousWakeup
<1>7. CASE UNCHANGED vars
  BY <1>5, <1>7 DEF vars, lockVars
<1> QED BY <1>1, <1>2, <1>3, <1>4, <1>6, <1>7 DEF Next

(* Whatever the interleaving of the lock operations, the callers of the    *)
(* pool see calls that happen at once: buffer_pool.c hands out a space     *)
(* nobody uses, makes one only within the limit, and takes a space back    *)
(* with its last user.                                                     *)
THEOREM Refinement == Spec => ImplementsPool
<1>1. Init => Atomic!PoolInit
  BY RefinesInit
<1>2. PInv /\ PInv' /\ [Next]_vars => [Atomic!PoolNext]_(Atomic!poolVars)
  BY RefinesNext
<1> QED BY <1>1, <1>2, PoolInvariance, PTL DEF Spec, ImplementsPool, Atomic!PoolSpec
=============================================================================
