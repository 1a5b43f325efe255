--------------------------- MODULE ContestVerdict ---------------------------
(***************************************************************************)
(* What a competition relies on from the lifecycle events of one contest   *)
(* execution, with no commands, tokens or retries: the execution may       *)
(* start, it ends at most once, it never changes its verdict, and it       *)
(* completes with a result only if it had started.                         *)
(***************************************************************************)
CONSTANTS Result,    \* completed results that could be reported
          Abortion   \* failures and cancellations that could be reported

VARIABLES started,   \* whether the execution is known to have started
          verdict    \* empty, or the one terminal fact

vars == <<started, verdict>>

Init == started = FALSE /\ verdict = {}

Start == /\ ~started
         /\ verdict = {}
         /\ started' = TRUE
         /\ UNCHANGED verdict

Conclude(v) == /\ verdict = {}
               /\ v \in Result => started
               /\ verdict' = {v}
               /\ UNCHANGED started

Next == Start \/ \E v \in Result \cup Abortion : Conclude(v)

Spec == Init /\ [][Next]_vars
=============================================================================
