------------------------------ MODULE Platform ------------------------------
(***************************************************************************)
(* The components that keep rows in the database or serve requests from    *)
(* what they hold in memory, under the requests of several clients         *)
(* (Sessions).  A behaviour is of one component: no two of them write the  *)
(* same tables.  Each states in a module of its own what its rows are,     *)
(* what always relates them, and what a step may do to them.               *)
(***************************************************************************)
EXTENDS Sessions

\* The clients may be exchanged.
Symmetry == Permutations(Clients)

VARIABLE kind
vars == <<kind, db, mem, req, calls>>

C == INSTANCE Catalog
X == INSTANCE Experiments
L == INSTANCE Learning
K == INSTANCE Keepa
T == INSTANCE Research
G == INSTANCE MultiAgent
P == INSTANCE Plugins
M == INSTANCE Marketplaces
E == INSTANCE Memory
H == INSTANCE History
D == INSTANCE Documents
W == INSTANCE Pipeline

Init ==
  \/ kind = "catalog" /\ C!Init
  \/ kind = "experiments" /\ X!Init
  \/ kind = "learning" /\ L!Init
  \/ kind = "keepa" /\ K!Init
  \/ kind = "retailers" /\ T!Init
  \/ kind = "multiagent" /\ G!Init
  \/ kind = "plugins" /\ P!Init
  \/ kind = "marketplaces" /\ M!Init
  \/ kind = "memory" /\ E!Init
  \/ kind = "history" /\ H!Init
  \/ kind = "documents" /\ D!Init
  \/ kind = "agent" /\ W!Init

Next ==
  /\ \/ kind = "catalog" /\ C!Next
     \/ kind = "experiments" /\ X!Next
     \/ kind = "learning" /\ L!Next
     \/ kind = "keepa" /\ K!Next
     \/ kind = "retailers" /\ T!Next
     \/ kind = "multiagent" /\ G!Next
     \/ kind = "plugins" /\ P!Next
     \/ kind = "marketplaces" /\ M!Next
     \/ kind = "memory" /\ E!Next
     \/ kind = "history" /\ H!Next
     \/ kind = "documents" /\ D!Next
     \/ kind = "agent" /\ W!Next
  /\ UNCHANGED kind

Spec == Init /\ [][Next]_vars
-----------------------------------------------------------------------------
\* The rows of every component have the columns of its models, and what the process holds
\* has the fields of the object that holds it.
TypeOK ==
  /\ kind = "catalog" => C!TypeOK
  /\ kind = "experiments" => X!TypeOK
  /\ kind = "learning" => L!TypeOK
  /\ kind = "keepa" => K!TypeOK
  /\ kind = "retailers" => T!TypeOK
  /\ kind = "multiagent" => G!TypeOK
  /\ kind = "plugins" => P!TypeOK
  /\ kind = "marketplaces" => M!TypeOK
  /\ kind = "memory" => E!TypeOK
  /\ kind = "history" => H!TypeOK
  /\ kind = "documents" => D!TypeOK
  /\ kind = "agent" => W!TypeOK

\* What the rows of a component say of each other is true whatever was interleaved.  Orders
\* hold the products they were placed for and their totals; the assignments and observations
\* of an experiment agree and none precedes its start; runs of learning are numbered without
\* gaps over outcomes that are there; a month's searches are each left, held, spent or lost;
\* an agent ran after those it depends on and reports what they found; prices of suppliers fall
\* with the quantity and nothing comes from a marketplace that was not configured; only short-term memories
\* expire; the answers about a product do not contradict themselves; a document is found by
\* its fields; whatever the agent learnt or told rests on a decision in its log.
Integrity ==
  /\ kind = "catalog" => C!Integrity
  /\ kind = "experiments" => X!Integrity
  /\ kind = "learning" => L!Integrity
  /\ kind = "keepa" => K!Integrity
  /\ kind = "retailers" => T!Integrity
  /\ kind = "multiagent" => G!Integrity
  /\ kind = "plugins" => P!Integrity
  /\ kind = "marketplaces" => M!Integrity
  /\ kind = "memory" => E!Integrity
  /\ kind = "history" => H!Integrity
  /\ kind = "documents" => D!Integrity
  /\ kind = "agent" => W!Integrity

\* What a step may not do to what was committed before: change what was ordered or move an
\* order in a way nobody read as allowed, give a subject another variant or take back an
\* observation, forget an outcome or rewrite a learning run, send two requests within the
\* limiter's interval, alter what an agent left behind or turn a decision into another.
LegalStep ==
  /\ kind = "catalog" => C!LegalStep
  /\ kind = "experiments" => X!LegalStep
  /\ kind = "learning" => L!LegalStep
  /\ kind = "keepa" => K!LegalStep
  /\ kind = "retailers" => T!LegalStep
  /\ kind = "multiagent" => G!LegalStep
  /\ kind = "plugins" => P!LegalStep
  /\ kind = "marketplaces" => M!LegalStep
  /\ kind = "memory" => E!LegalStep
  /\ kind = "history" => H!LegalStep
  /\ kind = "documents" => D!LegalStep
  /\ kind = "agent" => W!LegalStep

LegalSteps == [][LegalStep]_vars
=============================================================================
