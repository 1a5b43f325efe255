-------------------------- MODULE MCContestLaunch --------------------------
(***************************************************************************)
(* A contest, launched once and launched again as a rematch; the first     *)
(* launch restated with other slots under the same command; a request for  *)
(* another provider and one whose digest is not that of its payload.       *)
(***************************************************************************)
EXTENDS ContestLaunch

CONSTANTS ours, theirs, pair, three

First == [id |-> "r1", command |-> "l1", competition |-> "cup", contest |-> "final",
          provider |-> ours, slots |-> pair, sound |-> TRUE]
Restated == [First EXCEPT !.slots = three]
Rematch == [First EXCEPT !.id = "r2", !.command = "l2"]
Elsewhere == [First EXCEPT !.id = "r3", !.provider = theirs]
Garbled == [First EXCEPT !.id = "r4", !.command = "l4", !.sound = FALSE]

Requests == {First, Restated, Rematch, Elsewhere, Garbled}
=============================================================================
