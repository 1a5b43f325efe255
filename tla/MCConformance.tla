--------------------------- MODULE MCConformance ---------------------------
EXTENDS Conformance

Suites == {"launch", "scheduled launch", "events", "scheduled events", "source", "verifier", "authority"}

\* Bound: the orders a map is visited in, out of all that Go may take.
Orders == {"forward", "backward", "from both ends"}

Foremost(s) == CHOOSE k \in s : TRUE
Hindmost(s) == FoldSet(LAMBDA k, last : IF last = <<>> THEN <<k>> ELSE last, <<>>, s)[1]
Turns(order, block, s) ==
  IF order = "forward" \/ (order = "from both ends" /\ Cardinality(s) % 2 = 0)
  THEN Foremost(s) ELSE Hindmost(s)

Service(gates, forgets, overlooks, habit) ==
  [gates |-> gates, forgets |-> forgets, overlooks |-> overlooks, habit |-> habit]

\* The gates in every order, and with one of them missing.
AnyGates(name) == UNION {SetToSeqs(Gates(name) \ missing) : missing \in {{}} \cup {{g} : g \in Gates(name)}}

Sound(name) ==
  CHOOSE gates \in SetToSeqs(Gates(name)) :
    Flaws(name, Service(gates, {}, {}, "proper")) = {}

\* Those of a sound service, with one of them elsewhere or missing.
NearlySound(name) ==
  LET sound == Sound(name)
      Others(i) == RemoveAt(sound, i)
  IN  {sound} \cup {Others(i) : i \in DOMAIN sound}
      \cup {InsertAt(Others(i), j, sound[i]) : i \in DOMAIN sound, j \in DOMAIN sound}

\* At most one flaw of two kinds.
Specimens(name) ==
  LET habits == {"proper"} \cup Habits(name)
  IN  {Service(gates, {}, {}, "proper") : gates \in AnyGates(name)}
      \cup {Service(gates, {}, {}, habit) : gates \in NearlySound(name), habit \in habits}
      \cup {Service(Sound(name), {c}, {}, habit) : c \in Claims(name), habit \in habits}
      \cup {Service(Sound(name), {}, {p}, habit) : p \in Parts(name), habit \in habits}
=============================================================================
