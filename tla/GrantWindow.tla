---------------------------- MODULE GrantWindow ----------------------------
(***************************************************************************)
(* The time window of an operation grant: what the issuer stamps, what     *)
(* survives the JWT encoding and how the verifier judges it.  Time is      *)
(* counted in ticks of the nanosecond clock's model, Second of them to a   *)
(* JWT NumericDate.                                                        *)
(***************************************************************************)
EXTENDS Integers

CONSTANTS Second,          \* ticks in one second, the resolution of a NumericDate
          TokenLifetime,   \* ticks from nbf to exp
          Leeway           \* Direction.Leeway

(***************************************************************************)
(* TokenLifetime is a whole number of seconds and MaxVerifierLeeway keeps  *)
(* the leeway below it.                                                    *)
(***************************************************************************)
ASSUME WindowAssumption ==
  /\ Second \in Nat \ {0}
  /\ TokenLifetime \in Nat \ {0}
  /\ TokenLifetime % Second = 0
  /\ Leeway \in Nat
  /\ Leeway < TokenLifetime

\* jwt.NewNumericDate truncates to whole seconds.
NumericDate(t) == t - (t % Second)

\* Faulty: the window's start without the leeway.
TooEarlyStrict(tok, t) == t < tok.nbf

\* golang-jwt's nbf and exp checks under WithLeeway, at a clock reading t.
TooEarly(tok, t) == t < tok.nbf - Leeway
Expired(tok, t) == t >= tok.exp + Leeway
=============================================================================
