------------------------- MODULE MCValidationRules -------------------------
(***************************************************************************)
(* One behaviour looks at one subject: the placements of a result, the     *)
(* files of a transfer, a format descriptor that gains destinations one by *)
(* one, a key rotation, or the cancellation of a booking.                  *)
(***************************************************************************)
EXTENDS PlacementRanking, ClosureTransfer, FormatStages, KeyRotation, EntryCancellation

VARIABLE subject   \* which of the five

Descriptors ==
  {<<Stage(2, 2, 1), Stage(1, 2, 1)>>, <<Stage(1, 2, 2), Stage(1, 2, 1)>>,
   <<Stage(1, 2, 1), Stage(1, 2, 1)>>,
   <<Stage(2, 2, 1), Stage(1, 2, 2), Stage(1, 2, 1)>>,
   <<Stage(1, 2, 2), Stage(1, 1, 1)>>, <<>>}

Init ==
  /\ PlacementInit /\ TransferInit /\ FormatInit /\ RotationInit /\ CancellationInit
  /\ subject \in {"placements", "transfer", "format", "rotation", "cancellation"}
  /\ subject # "placements" => awaited = 1
  /\ subject # "transfer" => limits = <<1>> /\ aggregate = 1 /\ sent = 1
  /\ subject # "format" => format = Preferans9Stages

otherVars == <<rotationVars, cancellationVars, subject>>

Next ==
  \/ subject = "placements" /\ PlacementNext /\ UNCHANGED <<transferVars, format, otherVars>>
  \/ subject = "transfer" /\ TransferNext /\ UNCHANGED <<placementVars, format, otherVars>>
  \/ subject = "format" /\ AddDestination /\ UNCHANGED <<placementVars, transferVars, otherVars>>
  \/ /\ subject = "rotation" /\ RotationNext
     /\ UNCHANGED <<placementVars, transferVars, format, cancellationVars, subject>>
  \/ /\ subject = "cancellation" /\ CancellationNext
     /\ UNCHANGED <<placementVars, transferVars, format, rotationVars, subject>>

Spec == Init /\ [][Next]_<<placementVars, transferVars, format, otherVars>>
=============================================================================
