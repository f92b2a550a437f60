----------------------------- MODULE BufferPool -----------------------------
(***************************************************************************)
(* libdstdec/buffer_pool.c: a pool of spaces under one lock (have, whose   *)
(* value counts the free spaces) and one lock per space (use, whose value  *)
(* counts its users).  get_space takes have and then use, drop_space takes *)
(* use and then have; every lock operation is a step of its own here.      *)
(*                                                                         *)
(* As the decoder uses a pool, the thread that gets a space hands it on in *)
(* a job, and another thread drops it: refs counts the references that lie *)
(* in jobs.                                                                *)
(***************************************************************************)
EXTENDS YarnLock, Sequences, FiniteSetsExt, SequencesExt

CONSTANTS Getters,     \* the threads that call get_space
          Droppers,    \* the threads that call drop_space and use_space
          Limits,      \* limits a pool is created with: -1 is no limit
          MaxSpaces    \* BOUND: spaces an unlimited pool makes

Have   == 0                       \* the lock pool->have
Spaces == 1 .. MaxSpaces          \* space s has the lock s for space->use

ASSUME PoolAssumption ==
    /\ Getters \cup Droppers = Threads
    /\ IsFiniteSet(Threads)
    /\ MaxSpaces \in Nat
    /\ Limits \subseteq {-1} \cup (1 .. MaxSpaces)
    /\ Locks = {Have} \cup Spaces

VARIABLES pc,        \* where each thread is in a call
          space,     \* the space its call is about
          head,      \* the list of free spaces
          open,      \* whether the pool exists
          limit,     \* pool->limit
          made,      \* pool->made
          refs,      \* references to each space that lie in jobs
          shared     \* BOUND: use_space is called once for a space handed out

poolState == <<open, head, limit, made>>
vars == <<lockVars, pc, space, poolState, refs, shared>>

NoSpace == 0

Init ==
    /\ LocksInit([l \in Locks |-> 0])
    /\ pc = [t \in Threads |-> "idle"]
    /\ space = [t \in Threads |-> NoSpace]
    /\ head = <<>>
    /\ open = FALSE
    /\ limit = 0
    /\ made = 0
    /\ refs = [s \in Spaces |-> 0]
    /\ shared = {}

Goto(t, place) == pc' = [pc EXCEPT ![t] = place]
-----------------------------------------------------------------------------
(* buffer_pool_create: new_lock(0) and an empty list                       *)
buffer_pool_create ==
    /\ ~open
    /\ open' = TRUE
    /\ limit' \in Limits
    /\ value' = [value EXCEPT ![Have] = 0]
    /\ head' = <<>>
    /\ made' = 0
    /\ UNCHANGED <<owner, asleep, pc, space, refs, shared>>

(* The threads inside get_space that have not taken a space yet; a pool    *)
(* without limit gets no more callers than MaxSpaces can serve.            *)
Choosing == {t \in Getters : pc[t] \in {"getHave", "getChoose", "getUnlink"}}
RoomForCall == limit < 0 => Cardinality(Choosing) < Len(head) + MaxSpaces - made

(* buffer_pool_get_space                                                   *)
GetCall(t) ==
    /\ open
    /\ pc[t] = "idle"
    /\ RoomForCall
    /\ Goto(t, "getHave")
    /\ UNCHANGED <<lockVars, space, poolState, refs, shared>>

GetPossessHave(t) ==
    /\ pc[t] = "getHave"
    /\ Possess(t, Have)
    /\ Goto(t, "getChoose")
    /\ UNCHANGED <<space, poolState, refs, shared>>

(* if (pool->limit == 0) wait_for(pool->have, NOT_TO_BE, 0)                *)
GetWait(t) ==
    /\ pc[t] = "getChoose"
    /\ limit = 0
    /\ value[Have] = 0
    /\ CondWait(t, Have)
    /\ Goto(t, "getHave")
    /\ UNCHANGED <<space, poolState, refs, shared>>

(* Variant with a fault: nobody waits for a space                          *)
NobodyWaits == TRUE

MayGo == limit # 0 \/ value[Have] # 0

(* a space is available: possess(space->use) while have is held            *)
GetPossessUse(t) ==
    /\ pc[t] = "getChoose"
    /\ MayGo
    /\ head # <<>>
    /\ Possess(t, Head(head))
    /\ space' = [space EXCEPT ![t] = Head(head)]
    /\ Goto(t, "getUnlink")
    /\ UNCHANGED <<poolState, refs, shared>>

GetUnlink(t) ==
    /\ pc[t] = "getUnlink"
    /\ head' = Tail(head)
    /\ twist(t, Have, value[Have] - 1)
    /\ Goto(t, "getUse")
    /\ UNCHANGED <<space, open, limit, made, refs, shared>>

(* twist(space->use, TO, 1); the caller puts the space in a job            *)
GetReturn(t) ==
    /\ pc[t] = "getUse"
    /\ twist(t, space[t], 1)
    /\ shared' = shared \ {space[t]}
    /\ refs' = [refs EXCEPT ![space[t]] = @ + 1]
    /\ space' = [space EXCEPT ![t] = NoSpace]
    /\ Goto(t, "idle")
    /\ UNCHANGED poolState

(* Variant with a fault: the limit is not counted down                     *)
NotCounted == limit

(* nothing available: count a new space and release have                   *)
CountDown == IF limit > 0 THEN limit - 1 ELSE limit

GetMake(t) ==
    /\ pc[t] = "getChoose"
    /\ MayGo
    /\ head = <<>>
    /\ limit' = CountDown
    /\ made' = made + 1
    /\ space' = [space EXCEPT ![t] = made + 1]
    /\ release(t, Have)
    /\ Goto(t, "getNew")
    /\ UNCHANGED <<open, head, refs, shared>>

(* malloc the space, with a new use lock of value 1                        *)
GetNew(t) ==
    /\ pc[t] = "getNew"
    /\ value' = [value EXCEPT ![space[t]] = 1]
    /\ refs' = [refs EXCEPT ![space[t]] = @ + 1]
    /\ space' = [space EXCEPT ![t] = NoSpace]
    /\ Goto(t, "idle")
    /\ shared' = shared \ {space[t]}
    /\ UNCHANGED <<owner, asleep, poolState>>
-----------------------------------------------------------------------------
(* buffer_pool_use_space, by a thread that has taken a job with the space  *)
UseCall(t, s) ==
    /\ pc[t] = "idle"
    /\ refs[s] > 0
    /\ s \notin shared
    /\ shared' = shared \cup {s}
    /\ refs' = [refs EXCEPT ![s] = @ - 1]
    /\ space' = [space EXCEPT ![t] = s]
    /\ Goto(t, "usePossess")
    /\ UNCHANGED <<lockVars, poolState>>

UsePossess(t) ==
    /\ pc[t] = "usePossess"
    /\ Possess(t, space[t])
    /\ Goto(t, "useTwist")
    /\ UNCHANGED <<space, poolState, refs, shared>>

UseReturn(t) ==
    /\ pc[t] = "useTwist"
    /\ twist(t, space[t], value[space[t]] + 1)
    /\ refs' = [refs EXCEPT ![space[t]] = @ + 2]
    /\ space' = [space EXCEPT ![t] = NoSpace]
    /\ Goto(t, "idle")
    /\ UNCHANGED <<poolState, shared>>
-----------------------------------------------------------------------------
(* buffer_pool_drop_space, by a thread that has taken a job with the space *)
DropCall(t, s) ==
    /\ pc[t] = "idle"
    /\ refs[s] > 0
    /\ refs' = [refs EXCEPT ![s] = @ - 1]
    /\ space' = [space EXCEPT ![t] = s]
    /\ Goto(t, "dropUse")
    /\ UNCHANGED <<lockVars, poolState, shared>>

DropPossessUse(t) ==
    /\ pc[t] = "dropUse"
    /\ Possess(t, space[t])
    /\ Goto(t, "dropLook")
    /\ UNCHANGED <<space, poolState, refs, shared>>

(* Variant with a fault: a user that is not the last links the space too   *)
AnyUser(t) == TRUE

(* the last user takes have as well                                        *)
LastUser(t) == value[space[t]] = 1

DropPossessHave(t) ==
    /\ pc[t] = "dropLook"
    /\ LastUser(t)
    /\ Possess(t, Have)
    /\ Goto(t, "dropLink")
    /\ UNCHANGED <<space, poolState, refs, shared>>

(* Variant with a fault: the space is counted but nobody is woken          *)
LinkSilently(t) ==
    /\ pc[t] = "dropLink"
    /\ head' = <<space[t]>> \o head
    /\ value' = [value EXCEPT ![Have] = @ + 1]
    /\ owner' = [owner EXCEPT ![Have] = Nobody]
    /\ Goto(t, "dropTwist")
    /\ UNCHANGED <<asleep, space, open, limit, made, refs, shared>>

DropLink(t) ==
    /\ pc[t] = "dropLink"
    /\ head' = <<space[t]>> \o head
    /\ twist(t, Have, value[Have] + 1)
    /\ Goto(t, "dropTwist")
    /\ UNCHANGED <<space, open, limit, made, refs, shared>>

DropReturn(t) ==
    /\ \/ pc[t] = "dropTwist"
       \/ pc[t] = "dropLook" /\ ~LastUser(t)
    /\ twist(t, space[t], value[space[t]] - 1)
    /\ space' = [space EXCEPT ![t] = NoSpace]
    /\ Goto(t, "idle")
    /\ UNCHANGED <<poolState, refs, shared>>
-----------------------------------------------------------------------------
(* buffer_pool_free, after the threads that use the pool have been joined: *)
(* it frees the spaces in the list and asserts that they are all           *)
buffer_pool_free ==
    /\ open
    /\ \A t \in Threads : pc[t] = "idle"
    /\ \A s \in Spaces : refs[s] = 0
    /\ open' = FALSE
    /\ head' = <<>>
    /\ limit' = 0
    /\ made' = 0
    /\ value' = [l \in Locks |-> 0]
    /\ UNCHANGED <<owner, asleep, pc, space, refs, shared>>

Wakeup(t) ==
    /\ \E l \in Locks : SpuriousWakeup(t, l)
    /\ UNCHANGED <<pc, space, poolState, refs, shared>>

GetSteps(t) ==
    \/ GetPossessHave(t) \/ GetWait(t) \/ GetPossessUse(t) \/ GetUnlink(t)
    \/ GetReturn(t) \/ GetMake(t) \/ GetNew(t)

DropCalls(t) == \E s \in Spaces : DropCall(t, s)

DropSteps(t) ==
    \/ UsePossess(t) \/ UseReturn(t) \/ DropPossessUse(t)
    \/ DropPossessHave(t) \/ DropLink(t) \/ DropReturn(t)

Next ==
    \/ buffer_pool_create \/ buffer_pool_free
    \/ \E t \in Getters : GetCall(t) \/ GetSteps(t)
    \/ \E t \in Droppers :
          \/ DropSteps(t)
          \/ \E s \in Spaces : UseCall(t, s) \/ DropCall(t, s)
    \/ \E t \in Threads : Wakeup(t)

Spec == Init /\ [][Next]_vars

(* A thread inside a call runs on, a mutex it keeps asking for is granted  *)
(* to it in the end, and every reference in a job is dropped at some time. *)
FairSpec ==
    /\ Spec
    /\ \A t \in Getters : SF_vars(GetSteps(t))
    /\ \A t \in Droppers : SF_vars(DropSteps(t)) /\ SF_vars(DropCalls(t))
-----------------------------------------------------------------------------
Places == {"idle", "getHave", "getChoose", "getUnlink", "getUse", "getNew",
           "usePossess", "useTwist", "dropUse", "dropLook", "dropLink",
           "dropTwist"}

(* The range of every variable.                                            *)
TypeOK ==
    /\ value \in [Locks -> Int]
    /\ owner \in [Locks -> Threads \cup {Nobody}]
    /\ asleep \in [Locks -> SUBSET Threads]
    /\ pc \in [Threads -> Places]
    /\ space \in [Threads -> {NoSpace} \cup Spaces]
    /\ open \in BOOLEAN
    /\ head \in Seq(Spaces)
    /\ limit \in Int
    /\ made \in 0 .. MaxSpaces
    /\ refs \in [Spaces -> Nat]
    /\ shared \subseteq Spaces

(* The references to a space: those in jobs, and those of the calls of     *)
(* use_space and drop_space that are under way.                            *)
Using(s) == {t \in Threads :
                space[t] = s /\ pc[t] \in {"usePossess", "useTwist", "dropUse",
                                           "dropLook", "dropLink", "dropTwist"}}
Getting(s) == {t \in Threads : space[t] = s /\ pc[t] \in {"getUse", "getNew"}}
GivenBack(s) == {t \in Threads : space[t] = s /\ pc[t] = "dropTwist"}
References(s) == refs[s] + Cardinality(Using(s))

(* A space's use count is the number of references to it, whatever calls   *)
(* are half done, and a space of the pool is in exactly one place: the     *)
(* list, one get_space call, or the hands of its users.  So no space that  *)
(* get_space hands out is still in use (buffer_pool.c:53-62, 95-113).      *)
SpaceAccounting ==
    \A s \in 1 .. made :
        /\ value[s] = References(s)
        /\ Cardinality(Getting(s)) <= 1
        /\ Cardinality({i \in DOMAIN head : head[i] = s})
             = IF Getting(s) # {} THEN 0
               ELSE IF refs[s] + Cardinality(Using(s) \ GivenBack(s)) > 0 THEN 0
               ELSE 1

(* The assertions of the code: a caller that may go on finds a space or    *)
(* may make one (65), a space that is dropped has a user (103), and all    *)
(* spaces are back when the pool is freed (138); and the count the waiters *)
(* wait on is the length of the list whenever have is free.                *)
AssertionsHold ==
    /\ \A t \in Threads :
         /\ (pc[t] = "getChoose" /\ MayGo /\ head = <<>>) => limit # 0
         /\ pc[t] = "dropLook" => value[space[t]] # 0
    /\ (open /\ (\A t \in Threads : pc[t] = "idle")
             /\ (\A s \in Spaces : refs[s] = 0)) => Len(head) = made
    /\ owner[Have] = Nobody => value[Have] = Len(head)

(* get_space returns although it takes have before use and drop_space use  *)
(* before have, and although it may have to sleep for a space: no lock     *)
(* cycle and no lost wakeup.  With several getters only one of those that  *)
(* wait is promised the next space; with one, as in_pool has, it is its    *)
(* own.                                                                    *)
GetServed ==
    (\E t \in Getters : pc[t] = "getHave")
        ~> (\E t \in Getters : pc[t] \in {"getUse", "getNew"})

(* Seen through the linearisation points (unlinking in get_space, linking  *)
(* or the final twist in drop_space), every call is atomic.                *)
AbstractUsers ==
    [s \in Spaces |-> IF Getting(s) # {} THEN 1
                      ELSE IF GivenBack(s) # {} THEN 0
                      ELSE value[s]]

Atomic == INSTANCE Pool WITH free <- head, users <- AbstractUsers

(* The pool with its two levels of locks implements the atomic pool.       *)
ImplementsPool == Atomic!PoolSpec
=============================================================================
