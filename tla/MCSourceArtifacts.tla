------------------------- MODULE MCSourceArtifacts -------------------------
(***************************************************************************)
(* Version v is planned twice, with two candidates for its bytes,          *)
(* disclosures of either against either and publications that rest on      *)
(* them; version w is planned and retained with bytes v also has.  Some    *)
(* requests come under a command that another stage uses too.              *)
(***************************************************************************)
EXTENDS SourceArtifacts

CONSTANTS v, w, good, bad

Plan(command, version) ==
  [op |-> "plan", command |-> command, version |-> version, intact |-> TRUE]
Candidate(command, plan, bytes) ==
  [op |-> "retain", command |-> command, version |-> plan.version, plan |-> plan,
   bytes |-> bytes, intact |-> TRUE]
Disclosure(command, plan, artifact, bytes) ==
  [op |-> "disclose", command |-> command, version |-> plan.version, plan |-> plan,
   artifact |-> artifact, bytes |-> bytes, intact |-> TRUE]
Publication(command, disclosure) ==
  [op |-> "publish", command |-> command, version |-> disclosure.version,
   artifact |-> disclosure.artifact, disclosure |-> disclosure, intact |-> TRUE]

\* A digest that tells all bytes apart, and an ID of each plan's own.
ContentDigest(bytes) == bytes
OwnID(plan) == plan

\* The reference provider: one digest for every candidate, one ID for every plan.
FixtureDigest(bytes) == good
FixtureID(plan) == "closure-plan"

First == Plan("p1", v)
Second == Plan("p2", v)
Other == Plan("p3", w)
Matched == Disclosure("d1", First, good, good)
Mismatched == Disclosure("d2", First, good, bad)
OfSecond == Disclosure("d3", Second, bad, bad)

Stages ==
  {First, Second, Other,
   Candidate("c1", First, good), Candidate("c2", First, bad),
   Candidate("c3", Second, bad), Candidate("c4", Other, good),
   Matched, Mismatched, OfSecond,
   Publication("u1", Matched), Publication("u2", Mismatched), Publication("u3", OfSecond)}

\* Commands of one stage under a request of another, a publication that names
\* another version's disclosure, and a transfer that is not what it digests.
Strays ==
  {Candidate("p2", First, good), Disclosure("u1", First, good, good), Plan("u3", v),
   [Publication("u4", Matched) EXCEPT !.version = w],
   [Candidate("c5", First, good) EXCEPT !.intact = FALSE]}

\* A disclosure nobody holds a grant for.
SourceRequests == Stages \cup Strays \cup {Disclosure("d4", First, good, good)}
GrantedRequests == Stages \cup Strays
=============================================================================
