SPECIFICATION MCSpec
CONSTANTS
  Clients = {c1, c2}
  Ids = {"a", "b"}
  MaxCalls = 3
SYMMETRY Symmetry
INVARIANTS TypeOK Integrity  VerdictsAgree  PathsLightest
PROPERTIES LegalSteps NeverWorse
\* The requests are bounded: a run ends when all of them have.
CHECK_DEADLOCK FALSE
