--------------------------- MODULE ReplayPromise ---------------------------
(***************************************************************************)
(* What grants.ReplayStore promises a Verifier, with no store, no clock    *)
(* and no concurrency: a token ID is consumed at most once, and only the   *)
(* presentation that consumed it may be answered with the verified grant.  *)
(* The answer may be lost, so consumption without a grant is allowed.      *)
(***************************************************************************)
EXTENDS Naturals

CONSTANT TokenID

VARIABLES consumed,   \* the token IDs already recorded
          granted     \* how often each token ID was answered with a grant

vars == <<consumed, granted>>

Init == /\ consumed = {}
        /\ granted = [j \in TokenID |-> 0]

Consume(j) == /\ j \notin consumed
              /\ consumed' = consumed \cup {j}
              /\ \/ granted' = [granted EXCEPT ![j] = @ + 1]
                 \/ UNCHANGED granted

Next == \E j \in TokenID : Consume(j)

Spec == Init /\ [][Next]_vars
=============================================================================
