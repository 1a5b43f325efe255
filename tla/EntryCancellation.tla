------------------------- MODULE EntryCancellation -------------------------
(***************************************************************************)
(* Cancelling booked entries.  Bookius, which keeps the bookings, proposes *)
(* a cancellation to Competios, which knows the registration lock and    *)
(* decides on the refund; Bookius applies a decision that the contract     *)
(* binds to its proposal.  Proposals are repeated, decisions come late,    *)
(* twice or after a booking has changed, and the registration closes in    *)
(* between.  Both services are outside of the repository: they are taken   *)
(* at the contract's word for what they send, and the checks are its own.  *)
(***************************************************************************)
EXTENDS FiniteSets, Naturals

CONSTANTS Booking,         \* bookings: reference, target version, tournament and entry
          RequestID,       \* commands under which cancellations are proposed
          MaxRevision,     \* bound: revisions of a booking
          MaxProposals,    \* bound: proposals made
          MaxDecisions     \* bound: decisions made

VARIABLES locked,      \* whether the tournament's registration is locked
          revision,    \* each booking's revision
          proposals,   \* BookOnlineEntryCancellationRequests sent
          timely,      \* history: those of them first sent before the lock
          decisions,   \* BookOnlineEntryCancellationValidations sent
          cancelled    \* what bookings were cancelled by, at most one each

cancellationVars == <<locked, revision, proposals, timely, decisions, cancelled>>

ASSUME CancellationAssumption ==
  MaxRevision \in Nat \ {0} /\ MaxProposals \in Nat /\ MaxDecisions \in Nat

Origin == {"participant", "organiser"}
Proposal == [requestID : RequestID, booking : Booking, revision : 1 .. MaxRevision, origin : Origin]
Decision == [requestID : RequestID, booking : Booking, revision : 1 .. MaxRevision,
             origin : Origin,
             authorized : BOOLEAN, refundAuthorized : BOOLEAN,
             registrationLocked : BOOLEAN, byAuthoriser : BOOLEAN]

CancellationTypeOK ==
  /\ locked \in BOOLEAN /\ revision \in [Booking -> 1 .. MaxRevision]
  /\ proposals \subseteq Proposal /\ timely \subseteq proposals
  /\ decisions \subseteq Decision
  /\ cancelled \subseteq [proposal : proposals, decision : decisions]

\* An organiser's cancellation is refunded, a participant's before the lock, and
\* after the lock if somebody answers for it.
ValidDecision(d) ==
  /\ d.authorized
  /\ d.origin = "organiser" => d.refundAuthorized
  /\ d.origin = "participant" /\ ~d.registrationLocked => d.refundAuthorized
  /\ d.origin = "participant" /\ d.registrationLocked /\ d.refundAuthorized => d.byAuthoriser

\* Faulty: a decision for another revision of a booking will do.
DecidesAnyRevision(p, d) ==
  /\ ValidDecision(d)
  /\ p.requestID = d.requestID /\ p.booking = d.booking /\ p.origin = d.origin

\* ValidateBookOnlineEntryCancellationBinding.  What is constant of a booking is
\* compared field by field and equal when the booking is.
Decides(p, d) ==
  /\ ValidDecision(d)
  /\ p.requestID = d.requestID /\ p.booking = d.booking
  /\ p.revision = d.revision /\ p.origin = d.origin

CancellationInit ==
  /\ locked = FALSE /\ revision = [b \in Booking |-> 1]
  /\ proposals = {} /\ timely = {} /\ decisions = {} /\ cancelled = {}

Cancelled(b) == \E c \in cancelled : c.proposal.booking = b

Lock == /\ ~locked /\ locked' = TRUE
        /\ UNCHANGED <<revision, proposals, timely, decisions, cancelled>>

\* A booking changes and gets a new revision.
Revise(b) == /\ ~Cancelled(b) /\ revision[b] < MaxRevision
             /\ revision' = [revision EXCEPT ![b] = @ + 1]
             /\ UNCHANGED <<locked, proposals, timely, decisions, cancelled>>

\* A proposal of a booking as it is; a command may come back with another one.
Propose(id, b, origin) ==
  LET p == [requestID |-> id, booking |-> b, revision |-> revision[b], origin |-> origin]
  IN  /\ ~Cancelled(b) /\ Cardinality(proposals) < MaxProposals
      /\ proposals' = proposals \cup {p}
      /\ timely' = IF locked THEN timely ELSE timely \cup {p}
      /\ UNCHANGED <<locked, revision, decisions, cancelled>>

\* Whatever Competios decides, it states the lock as it is.
Decide(p) ==
  /\ Cardinality(decisions) < MaxDecisions
  /\ \E authorized, refund, byAuthoriser \in BOOLEAN :
       decisions' = decisions \cup
         {[requestID |-> p.requestID, booking |-> p.booking, revision |-> p.revision,
           origin |-> p.origin, authorized |-> authorized, refundAuthorized |-> refund,
           registrationLocked |-> locked, byAuthoriser |-> byAuthoriser]}
  /\ UNCHANGED <<locked, revision, proposals, timely, cancelled>>

\* A decision about a booking as it is cancels it.
Apply(p, d) ==
  /\ ~Cancelled(p.booking) /\ p.revision = revision[p.booking]
  /\ Decides(p, d)
  /\ cancelled' = cancelled \cup {[proposal |-> p, decision |-> d]}
  /\ UNCHANGED <<locked, revision, proposals, timely, decisions>>

CancellationNext ==
  \/ Lock
  \/ \E b \in Booking : Revise(b) \/ \E id \in RequestID, origin \in Origin : Propose(id, b, origin)
  \/ \E p \in proposals : Decide(p) \/ \E d \in decisions : Apply(p, d)

CancellationSpec == CancellationInit /\ [][CancellationNext]_cancellationVars

-----------------------------------------------------------------------------
\* However messages are repeated and delayed, the money follows the lock: an
\* organiser's cancellation is refunded; a refund is withheld only once the
\* registration is locked; and without anybody answering for it a participant is
\* refunded only for a cancellation proposed before the lock
\* (event_registration.go:174-178, 238-240, 255-257).
RefundFollowsLock ==
  \A c \in cancelled :
    /\ c.proposal.origin = "organiser" => c.decision.refundAuthorized
    /\ ~c.decision.refundAuthorized => locked
    /\ c.proposal.origin = "participant" /\ c.decision.refundAuthorized /\ ~c.decision.byAuthoriser
         => c.proposal \in timely
=============================================================================
