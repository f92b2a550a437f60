-------------------------------- MODULE Pool --------------------------------
(***************************************************************************)
(* What a buffer pool promises, each call in one step: get hands out a     *)
(* space nobody uses, making a new one only when none is free and the      *)
(* limit allows it; use adds a user; drop takes one away and puts the      *)
(* space back when it was the last.                                        *)
(***************************************************************************)
EXTENDS Integers, Sequences

CONSTANTS Spaces, Limits

VARIABLES open,      \* whether the pool exists
          free,      \* spaces in the pool, the next one to hand out first
          limit,     \* spaces that may still be made; -1 is no limit
          made,      \* number of spaces made so far
          users      \* how many users each space has

poolVars == <<open, free, limit, made, users>>

PoolInit ==
    /\ open = FALSE
    /\ limit = 0
    /\ free = <<>>
    /\ made = 0
    /\ users = [s \in Spaces |-> 0]

Create ==
    /\ ~open
    /\ open' = TRUE
    /\ limit' \in Limits
    /\ UNCHANGED <<free, made, users>>

GetFree ==
    /\ open
    /\ free # <<>>
    /\ users[Head(free)] = 0
    /\ users' = [users EXCEPT ![Head(free)] = 1]
    /\ free' = Tail(free)
    /\ UNCHANGED <<open, limit, made>>

GetNew ==
    /\ open
    /\ free = <<>>
    /\ limit # 0
    /\ limit' = IF limit > 0 THEN limit - 1 ELSE limit
    /\ made' = made + 1
    /\ users[made + 1] = 0
    /\ users' = [users EXCEPT ![made + 1] = 1]
    /\ UNCHANGED <<open, free>>

Use(s) ==
    /\ users[s] > 0
    /\ users' = [users EXCEPT ![s] = @ + 1]
    /\ UNCHANGED <<open, free, limit, made>>

Drop(s) ==
    /\ users[s] > 0
    /\ users' = [users EXCEPT ![s] = @ - 1]
    /\ free' = IF users[s] = 1 THEN <<s>> \o free ELSE free
    /\ UNCHANGED <<open, limit, made>>

(* Every space is back, and the pool is freed.                             *)
FreeAll ==
    /\ open
    /\ Len(free) = made
    /\ open' = FALSE
    /\ limit' = 0
    /\ free' = <<>>
    /\ made' = 0
    /\ UNCHANGED users

PoolNext ==
    \/ Create \/ GetFree \/ GetNew \/ FreeAll
    \/ \E s \in Spaces : Use(s) \/ Drop(s)

PoolSpec == PoolInit /\ [][PoolNext]_poolVars
=============================================================================
