--------------------------- MODULE MCGrantBinding ---------------------------
(***************************************************************************)
(* The two directions of a deployment, and one that has the issuer and the *)
(* audience of the first but another recipient.  One operation of each     *)
(* kind and one that differs from it in all it names; clients ask for what *)
(* they will send, or for something that differs from it in one field, or  *)
(* has one field more or less.                                             *)
(***************************************************************************)
EXTENDS GrantBinding

CONSTANTS absent, chessKey, competiosKey

Contents == {"x", "y", "chess", "competios", "games", "referee"}

SourceAndLaunch == {"manifest-closure-plan", "candidate-closure-validate-retain",
                    "artifact-publish", "artifact-disclosure-verify", "contest-launch"}

ChessIssued ==
  [issuer |-> "chess", subject |-> "competios", audience |-> "games", key |-> chessKey,
   trusted |-> {}, purposes |-> SourceAndLaunch]
ForReferee == [ChessIssued EXCEPT !.subject = "referee", !.purposes = {"contest-launch"}]
CompetiosIssued ==
  [issuer |-> "competios", subject |-> "chess", audience |-> "competios", key |-> competiosKey,
   trusted |-> {}, purposes |-> {"contest-started-event", "contest-result-event"}]

Directions == {ChessIssued, ForReferee, CompetiosIssued}

Of(kind, content) ==
  [kind |-> kind, fields |-> [f \in Field |-> IF f \in Compared(kind) THEN content ELSE absent]]
Operations == {Of(kind, content) : kind \in Kind \ {"failed", "cancelled"}, content \in {"x", "y"}}

Transports == {[f \in Route |-> content] : content \in {"x", "y"}}

Honest == {NewGrantRequest(o, [f \in Route |-> "x"]) : o \in {Of(kind, "x") : kind \in Kind}}
Asks == Honest \cup
  {[q EXCEPT !.fields[f] = content] : q \in Honest, f \in Field, content \in {"y", absent}}
=============================================================================
