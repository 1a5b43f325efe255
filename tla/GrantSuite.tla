----------------------------- MODULE GrantSuite -----------------------------
(***************************************************************************)
(* The suites for verifiers and issuers of grants.  To a verifier a token  *)
(* ID is the command and the claims are the payload; an issuer gives every *)
(* sound request a token of its own.                                       *)
(***************************************************************************)
EXTENDS ConformanceCalls

\* All but the token ID, which stays the same.
allGrantClaimMutations == (Envelope \ {"tokenID"}) \cup Field

\* What a verifier must not trust.
untrusted == {"unknownKey", "expired", "notActive", "issuer", "audience", "tokenType"}

operationGrantRequestMutations == {"purpose"} \cup Field

GrantItem(op, id, changed) ==
  [op |-> op, command |-> id, body |-> changed, outside |-> "nothing",
   needs |-> {}, bars |-> {}, gives |-> {}, success |-> "accepted"]
Verify(id, changed) == GrantItem("verify", id, changed)

Verified == Answer \ Refusal

\* Claims that change under a used token ID are a conflict, trusted or not.
ReusedTokenID(claim) ==
  <<[Call("fresh", Verify("replayed", {}), Verified) EXCEPT !.skips = Refusal],
    Bad("same", Verify("replayed", {claim}), {claim} \cap untrusted, {"commandConflict"})>>

CheckOperationGrantVerifier(order) ==
  <<[First(Verify("good", {})) EXCEPT !.want = Verified],
    Call("main", Verify("good", {}), Verified),
    Bad("main", Verify("forged", {}), {"signature"}, Refusal)>>
  \o Each(order, [c \in allGrantClaimMutations |-> ReusedTokenID(c)])
  \o <<Call("main", Verify("fresh", {}), Verified)>>
  \o Each(order, [c \in untrusted |-> <<Bad("fresh", Verify("bad", {c}), {c}, Refusal)>>])

CheckOperationGrantAuthority(order) ==
  Each(order, [p \in Purpose |->
    <<Setup("fresh", GrantItem(p, "token", {})), Call("same", GrantItem(p, "token", {}), {"accepted"})>>
    \o Each(order, [f \in operationGrantRequestMutations |->
                      <<Bad("same", GrantItem(p, "token", {}), {f}, Refusal)>>])])
=============================================================================
