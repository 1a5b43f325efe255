-------------------------- MODULE ConformanceCalls --------------------------
(***************************************************************************)
(* What the conformance suites are written in.  A suite is a sequence of   *)
(* calls: to its main service, to a fresh one, or to the fresh one of the  *)
(* call before.  Each says which answers the suite takes for right, on     *)
(* which it skips the other calls to the same fresh service, and on which  *)
(* it returns.  An item is the operation and payload of a call.            *)
(***************************************************************************)
EXTENDS ConformanceService, GrantFields, SequencesExt

\* Issuer, recipient, shape and window of a token: what every binder checks of it.
Envelope == {"issuer", "subject", "audience", "tokenType", "scope", "purpose", "keyID",
             "tokenID", "issuedAt", "notBefore", "expiresAt"}

CONSTANT Turn(_, _, _)    \* which of the keys that are left a visit of a block takes next

Visited(order, block, s) ==
  CHOOSE k \in s : Turn(order, block, s) \in s => k = Turn(order, block, s)

\* The calls of each key, one block after another: Go visits a map in any order of
\* its keys, and a list in one of them.
Each(order, block) ==
  MapThenFoldSet(LAMBDA calls, rest : calls \o rest, <<>>, LAMBDA k : block[k],
                 LAMBDA s : Visited(order, block, s), DOMAIN block)

Call(on, item, want) ==
  [op |-> item.op, command |-> item.command, body |-> item.body, outside |-> item.outside,
   needs |-> item.needs, bars |-> item.bars, gives |-> item.gives, success |-> item.success,
   on |-> on, off |-> {}, token |-> "fresh", want |-> want, skips |-> {}, ends |-> {}]

Bad(on, item, off, want) == [Call(on, item, want) EXCEPT !.off = off]
\* A call the rest of its block, or of the suite, cannot do without.
Setup(on, item) == [Call(on, item, {"accepted"}) EXCEPT !.skips = Answer \ {"accepted"}]
First(item) == [Call("main", item, {"accepted"}) EXCEPT !.ends = Refusal, !.token = "first"]

\* Both probes of crossPurposeReplayProbes: the target's grant under the foreign
\* purpose, and a foreign grant that agrees with the target in all both carry.
CrossPurpose(purpose, foreign) ==
  {{"purpose", "scope"},
   {"purpose", "scope"} \cup (Required(purpose) \ Required(foreign))
                        \cup (Required(foreign) \ Required(purpose))}

\* Faulty: the command is known to another service.
PopulatedElsewhere(order, item, claims, foreign, replayed) ==
  Each(order, [off \in {{c} : c \in claims} \cup CrossPurpose(item.op, foreign) |->
                 <<Bad("same", item, off, {"invalidGrant"}), Call("same", item, replayed)>>])

\* A known command under every wrong grant, and after each its exact retry.
Populated(order, item, claims, foreign, replayed) ==
  Each(order, [off \in {{c} : c \in claims} \cup CrossPurpose(item.op, foreign) |->
                 <<Bad("main", item, off, {"invalidGrant"}), Call("main", item, replayed)>>])

\* Faulty: nothing is tried after the wrong grant.
RejectionsOnly(order, item, claims) ==
  Each(order, [c \in claims |-> <<Bad("fresh", item, {c}, Refusal)>>])

\* A wrong grant is refused by a fresh service, which then accepts a right one.
Rejections(order, item, claims) ==
  Each(order, [c \in claims |->
                 <<Bad("fresh", item, {c}, Refusal), Call("same", item, {"accepted"})>>])
=============================================================================
