---------------------------- MODULE KeyRotation ----------------------------
(***************************************************************************)
(* A direction changes its signing key while tokens are in flight.  The    *)
(* issuer and every verifier are deployed one by one, each with its own    *)
(* Direction: a Key and the keys it trusts besides.  A token that is still *)
(* in its window must find its key at every verifier all along.            *)
(***************************************************************************)
EXTENDS GrantWindow, FiniteSets

CONSTANTS Verifier,     \* deployments of the verifying side
          Skew,         \* bound: a host clock differs from now by at most this
          MaxTime,      \* bound: the last tick
          MaxSigned     \* bound: tokens signed

VARIABLES now,         \* true time
          signer,      \* Key of the issuing Direction
          direction,   \* Key and Trusted of each verifying Direction
          signed,      \* signed tokens in circulation
          retired      \* when the old key stopped signing

rotationVars == <<now, signer, direction, signed, retired>>

ASSUME RotationAssumption == Skew \in Nat /\ MaxTime \in Nat /\ MaxSigned \in Nat

SigningKey == {"old", "new"}
Signed == [kid : SigningKey, nbf : Int, exp : Int]

\* Direction of one side in the course of a rotation.
Deployed == {[key |-> "old", trusted |-> {}],      [key |-> "old", trusted |-> {"new"}],
             [key |-> "new", trusted |-> {"old"}], [key |-> "new", trusted |-> {}]}

RotationTypeOK == /\ now \in Nat /\ retired \in Nat
                  /\ signer \in SigningKey
                  /\ direction \in [Verifier -> Deployed]
                  /\ signed \subseteq Signed

ClockReading == (now - Skew) .. (now + Skew)

\* Faulty: only the active key is looked at.
activeKeyOnly(d) == {d.key}

trustedKeys(d) == {d.key} \cup d.trusted

\* keyByID finds a key.
Resolves(d, kid) == kid \in trustedKeys(d)

RotationInit ==
  /\ now = 0 /\ retired = 0 /\ signer = "old" /\ signed = {}
  /\ direction = [v \in Verifier |-> [key |-> "old", trusted |-> {}]]

\* IssueOperationGrant with the key of the issuing Direction.
Sign ==
  /\ Cardinality(signed) < MaxSigned
  /\ \E t \in ClockReading :
       signed' = signed \cup {[kid |-> signer, nbf |-> NumericDate(t),
                               exp |-> NumericDate(t + TokenLifetime)]}
  /\ UNCHANGED <<now, signer, direction, retired>>

\* "a new key can be trusted before it is used to sign"
TrustNew(v) ==
  /\ direction[v] = [key |-> "old", trusted |-> {}]
  /\ direction' = [direction EXCEPT ![v] = [key |-> "old", trusted |-> {"new"}]]
  /\ UNCHANGED <<now, signer, signed, retired>>

SignWithNew ==
  /\ signer = "old"
  /\ \A v \in Verifier : Resolves(direction[v], "new")
  /\ signer' = "new" /\ retired' = now
  /\ UNCHANGED <<now, direction, signed>>

Promote(v) ==
  /\ direction[v] = [key |-> "old", trusted |-> {"new"}]
  /\ direction' = [direction EXCEPT ![v] = [key |-> "new", trusted |-> {"old"}]]
  /\ UNCHANGED <<now, signer, signed, retired>>

\* "an old key can stop signing before it stops being trusted": it is trusted for
\* as long as any clock takes a token for valid that it signed.
Overlap == TokenLifetime + Leeway + 2 * Skew
DropOld(v) ==
  /\ signer = "new" /\ now >= retired + Overlap
  /\ direction[v] = [key |-> "new", trusted |-> {"old"}]
  /\ direction' = [direction EXCEPT ![v] = [key |-> "new", trusted |-> {}]]
  /\ UNCHANGED <<now, signer, signed, retired>>

Pass == now < MaxTime /\ now' = now + 1 /\ UNCHANGED <<signer, direction, signed, retired>>

RotationNext == \/ Sign \/ SignWithNew \/ Pass
                \/ \E v \in Verifier : TrustNew(v) \/ Promote(v) \/ DropOld(v)

RotationSpec == RotationInit /\ [][RotationNext]_rotationVars

-----------------------------------------------------------------------------
\* No rollout order and no clock within the skew makes a verifier answer
\* ErrUnknownKey to a token it would find in its window (direction.go:60-65).
NoneStranded ==
  \A tok \in signed, v \in Verifier, t \in ClockReading :
    ~TooEarly(tok, t) /\ ~Expired(tok, t) => Resolves(direction[v], tok.kid)
=============================================================================
