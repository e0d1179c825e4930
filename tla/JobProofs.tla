----------------------------- MODULE JobProofs -----------------------------
(***************************************************************************)
(* What is proved of components of Platform, each by itself, for any       *)
(* clients and any names: the agents of a task, the products of Keepa and  *)
(* their history, the cycles of learning, and documents.  First what they  *)
(* need of the rankings and selections of Numbers.                         *)
(***************************************************************************)
EXTENDS Sessions, TLAPS, FiniteSetTheorems

-----------------------------------------------------------------------------
(***************************************************************************)
(* Rankings and selections.  In a finite set with a strict order, every    *)
(* element has as its rank the number of those below it: no two have the   *)
(* same, and every number up to the last is a rank.                        *)
(***************************************************************************)
Below(S, less, i) == {j \in S : <<j, i>> \in less}
Rank(S, less, i) == Cardinality(Below(S, less, i))

StrictOrder(S, less) ==
  \A i, j, k \in S :
    /\ <<i, i>> \notin less
    /\ i # j => <<i, j>> \in less \/ <<j, i>> \in less
    /\ <<i, j>> \in less /\ <<j, k>> \in less => <<i, k>> \in less

RankedBy(S, less) ==
  /\ Cardinality(S) \in Nat
  /\ \A i \in S : Rank(S, less, i) \in 0 .. Cardinality(S) - 1
  /\ \A i, j \in S : Rank(S, less, i) = Rank(S, less, j) => i = j
  /\ \A i, j \in S : Rank(S, less, i) < Rank(S, less, j) => <<i, j>> \in less
  /\ \A n \in 1 .. Cardinality(S) : \E i \in S : Rank(S, less, i) = n - 1

LEMMA RankRises ==
  ASSUME NEW S, IsFiniteSet(S), NEW less, StrictOrder(S, less), NEW i \in S, NEW j \in S, <<i, j>> \in less
  PROVE  Rank(S, less, i) < Rank(S, less, j)
<1>1. Below(S, less, i) \cup {i} \subseteq Below(S, less, j) /\ i \notin Below(S, less, i)
  BY DEF Below, StrictOrder
<1>2. IsFiniteSet(Below(S, less, i)) /\ IsFiniteSet(Below(S, less, j))
  <2>1. Below(S, less, i) \subseteq S /\ Below(S, less, j) \subseteq S
    BY DEF Below
  <2> QED
    BY <2>1, FS_Subset
<1>3. Cardinality(Below(S, less, i) \cup {i}) = Rank(S, less, i) + 1
  BY <1>1, <1>2, FS_AddElement DEF Rank
<1>4. Cardinality(Below(S, less, i) \cup {i}) <= Rank(S, less, j)
  BY <1>1, <1>2, FS_Subset DEF Rank
<1>5. Rank(S, less, i) \in Nat /\ Rank(S, less, j) \in Nat
  BY <1>2, FS_CardinalityType DEF Rank
<1> QED
  BY <1>3, <1>4, <1>5

LEMMA Ranks ==
  ASSUME NEW S, IsFiniteSet(S), NEW less, StrictOrder(S, less)
  PROVE  RankedBy(S, less)
<1> DEFINE rank == [i \in S |-> Rank(S, less, i)]
           last == Cardinality(S) - 1
<1>1. Cardinality(S) \in Nat
  BY FS_CardinalityType
<1>2. ASSUME NEW i \in S PROVE Rank(S, less, i) \in 0 .. last
  <2>1. Below(S, less, i) \subseteq S \ {i}
    BY DEF Below, StrictOrder
  <2>2. IsFiniteSet(S \ {i}) /\ Cardinality(S \ {i}) = Cardinality(S) - 1
    BY FS_RemoveElement
  <2>3. IsFiniteSet(Below(S, less, i)) /\ Rank(S, less, i) <= Cardinality(S) - 1
    BY <2>1, <2>2, FS_Subset DEF Rank
  <2>4. Rank(S, less, i) \in Nat
    BY <2>3, FS_CardinalityType DEF Rank
  <2> QED
    BY <1>1, <2>3, <2>4
<1>3. \A i, j \in S : Rank(S, less, i) = Rank(S, less, j) => i = j
  <2> SUFFICES ASSUME NEW i \in S, NEW j \in S, i # j
               PROVE  Rank(S, less, i) # Rank(S, less, j)
    OBVIOUS
  <2>1. <<i, j>> \in less \/ <<j, i>> \in less
    BY DEF StrictOrder
  <2>2. Rank(S, less, i) \in Nat /\ Rank(S, less, j) \in Nat
    BY <1>1, <1>2
  <2> QED
    BY <2>1, <2>2, RankRises
<1>4. \A i, j \in S : Rank(S, less, i) < Rank(S, less, j) => <<i, j>> \in less
  <2> SUFFICES ASSUME NEW i \in S, NEW j \in S, Rank(S, less, i) < Rank(S, less, j)
               PROVE  <<i, j>> \in less
    OBVIOUS
  <2>1. Rank(S, less, i) \in Nat /\ Rank(S, less, j) \in Nat
    BY <1>1, <1>2
  <2>2. i # j
    BY <2>1
  <2>3. ~ <<j, i>> \in less
    BY <2>1, RankRises
  <2> QED
    BY <2>2, <2>3 DEF StrictOrder
<1>5. rank \in Surjection(S, 0 .. last)
  <2>1. rank \in Injection(S, 0 .. last)
    BY <1>2, <1>3 DEF Injection, IsInjective
  <2>2. IsFiniteSet(0 .. last) /\ Cardinality(0 .. last) = Cardinality(S)
    <3>1. IsFiniteSet(0 .. last) /\ Cardinality(0 .. last) = IF 0 > last THEN 0 ELSE last - 0 + 1
      <4>1. last \in Int /\ 0 \in Int
        BY <1>1
      <4> HIDE DEF last
      <4> QED
        BY <4>1, FS_Interval
    <3> QED
      BY <1>1, <3>1
  <2> QED
    BY <2>1, <2>2, FS_Injection
<1>6. ASSUME NEW n \in 1 .. Cardinality(S) PROVE \E i \in S : Rank(S, less, i) = n - 1
  <2>1. n - 1 \in 0 .. last
    BY <1>1
  <2>2. PICK i \in S : rank[i] = n - 1
    BY <1>5, <2>1 DEF Surjection
  <2> QED
    BY <2>2
<1> QED
  BY <1>1, <1>2, <1>3, <1>4, <1>6 DEF RankedBy

\* Some places of a sequence: all of them, no other, in their order.
LEMMA InOrderIs ==
  ASSUME NEW n \in Nat, NEW places \in SUBSET (1 .. n)
  PROVE  /\ Cardinality(places) \in Nat /\ Cardinality(places) <= n
         /\ InOrder(places) \in [1 .. Cardinality(places) -> places]
         /\ \A i \in places : \E m \in 1 .. Cardinality(places) : InOrder(places)[m] = i
         /\ \A m, k \in 1 .. Cardinality(places) : m < k => InOrder(places)[m] < InOrder(places)[k]
<1> DEFINE less == {p \in places \X places : p[1] < p[2]}
           at == InOrder(places)
<1>1. IsFiniteSet(places) /\ Cardinality(places) <= n
  <2>1. IsFiniteSet(1 .. n) /\ Cardinality(1 .. n) = n
    BY FS_Interval
  <2> QED
    BY <2>1, FS_Subset
<1>2. \A i, j \in places : <<i, j>> \in less <=> i < j
  OBVIOUS
<1>3. StrictOrder(places, less)
  <2> HIDE DEF less
  <2>1. ASSUME NEW i \in places, NEW j \in places, NEW k \in places
        PROVE  /\ <<i, i>> \notin less
               /\ i # j => <<i, j>> \in less \/ <<j, i>> \in less
               /\ <<i, j>> \in less /\ <<j, k>> \in less => <<i, k>> \in less
    <3>1. i \in Nat /\ j \in Nat /\ k \in Nat
      OBVIOUS
    <3> QED
      BY <1>2, <3>1
  <2> QED
    BY <2>1 DEF StrictOrder
<1> HIDE DEF less
<1>4. \A i \in places : Below(places, less, i) = {j \in places : j < i}
  BY <1>2 DEF Below
<1> DEFINE rank(i) == Cardinality({j \in places : j < i})
<1>a. \A i \in places : rank(i) = Rank(places, less, i)
  BY <1>4 DEF Rank
<1> HIDE DEF rank
<1>c. RankedBy(places, less)
  BY <1>1, <1>3, Ranks
<1>b. /\ Cardinality(places) \in Nat
      /\ \A i \in places : rank(i) \in 0 .. Cardinality(places) - 1
      /\ \A i, j \in places : rank(i) = rank(j) => i = j
      /\ \A i, j \in places : rank(i) < rank(j) => i < j
      /\ \A m \in 1 .. Cardinality(places) : \E i \in places : rank(i) = m - 1
  BY <1>2, <1>a, <1>c DEF RankedBy
<1>5. /\ Cardinality(places) \in Nat
      /\ \A i \in places : Cardinality({j \in places : j < i}) \in 0 .. Cardinality(places) - 1
      /\ \A i, j \in places : Cardinality({k \in places : k < i}) = Cardinality({k \in places : k < j}) => i = j
      /\ \A i, j \in places : Cardinality({k \in places : k < i}) < Cardinality({k \in places : k < j}) => i < j
      /\ \A m \in 1 .. Cardinality(places) : \E i \in places : Cardinality({j \in places : j < i}) = m - 1
  BY <1>b DEF rank
<1>6. \A m \in 1 .. Cardinality(places) : at[m] \in places /\ Cardinality({j \in places : j < at[m]}) = m - 1
  BY <1>5 DEF InOrder
<1>7. \A i \in places : \E m \in 1 .. Cardinality(places) : at[m] = i
  <2> SUFFICES ASSUME NEW i \in places PROVE \E m \in 1 .. Cardinality(places) : at[m] = i
    OBVIOUS
  <2> DEFINE m == Cardinality({j \in places : j < i}) + 1
  <2>1. m \in 1 .. Cardinality(places) /\ m - 1 = Cardinality({j \in places : j < i})
    BY <1>5
  <2> HIDE DEF m
  <2>2. at[m] = i
    BY <1>5, <1>6, <2>1
  <2> QED
    BY <2>1, <2>2
<1>8. \A m, k \in 1 .. Cardinality(places) : m < k => at[m] < at[k]
  <2> SUFFICES ASSUME NEW m \in 1 .. Cardinality(places), NEW k \in 1 .. Cardinality(places), m < k PROVE at[m] < at[k]
    OBVIOUS
  <2> HIDE DEF at
  <2>1. m - 1 < k - 1
    BY <1>5
  <2>2. at[m] \in places /\ at[k] \in places /\ rank(at[m]) = m - 1 /\ rank(at[k]) = k - 1
    BY <1>6 DEF rank
  <2> QED
    BY <1>b, <2>1, <2>2
<1>9. at \in [1 .. Cardinality(places) -> places]
  <2>1. at = [m \in 1 .. Cardinality(places) |-> at[m]]
    BY SMTT(30) DEF InOrder
  <2> HIDE DEF at
  <2> QED
    BY <1>6, <2>1
<1> QED
  BY <1>1, <1>5, <1>7, <1>8, <1>9

\* The places of keys by rank: each once, the higher key first.
LEMMA PlacingIs ==
  ASSUME NEW n \in Nat, NEW keys \in [1 .. n -> Int]
  PROVE  /\ Placing(keys) \in [1 .. n -> 1 .. n]
         /\ \A i \in 1 .. n : \E m \in 1 .. n : Placing(keys)[m] = i
         /\ \A m, k \in 1 .. n : Placing(keys)[m] = Placing(keys)[k] => m = k
         /\ \A m, k \in 1 .. n : m < k => keys[Placing(keys)[m]] >= keys[Placing(keys)[k]]
<1> DEFINE S == 1 .. n
           less == {p \in S \X S : keys[p[1]] > keys[p[2]] \/ (keys[p[1]] = keys[p[2]] /\ p[1] < p[2])}
<1>1. IsFiniteSet(S) /\ Cardinality(S) = n
  BY FS_Interval
<1>2. \A i, j \in S : <<i, j>> \in less <=> keys[i] > keys[j] \/ (keys[i] = keys[j] /\ i < j)
  OBVIOUS
<1>3. StrictOrder(S, less)
  <2> HIDE DEF less
  <2>1. ASSUME NEW i \in S, NEW j \in S, NEW k \in S
        PROVE  /\ <<i, i>> \notin less
               /\ i # j => <<i, j>> \in less \/ <<j, i>> \in less
               /\ <<i, j>> \in less /\ <<j, k>> \in less => <<i, k>> \in less
    <3>1. i \in Nat /\ j \in Nat /\ k \in Nat /\ keys[i] \in Int /\ keys[j] \in Int /\ keys[k] \in Int
      OBVIOUS
    <3> QED
      BY <1>2, <3>1
  <2> QED
    BY <2>1 DEF StrictOrder
<1> HIDE DEF less
<1> DEFINE rank(i) == Cardinality(Better(keys, i))
<1>4. \A i \in S : rank(i) = Rank(S, less, i)
  BY <1>2 DEF Below, Better, Rank
<1> HIDE DEF rank
<1>a. RankedBy(S, less)
  <2>1. IsFiniteSet(S)
    BY <1>1
  <2> HIDE DEF S
  <2> QED
    BY <1>3, <2>1, Ranks
<1>5. /\ \A i \in S : rank(i) \in 0 .. n - 1
      /\ \A i, j \in S : rank(i) = rank(j) => i = j
      /\ \A i, j \in S : rank(i) < rank(j) => <<i, j>> \in less
      /\ \A m \in 1 .. n : \E i \in S : rank(i) = m - 1
  <2>1. \A i \in S : rank(i) \in 0 .. n - 1
    BY <1>1, <1>4, <1>a DEF RankedBy
  <2>2. \A i, j \in S : rank(i) = rank(j) => i = j
    BY <1>4, <1>a DEF RankedBy
  <2>3. \A i, j \in S : rank(i) < rank(j) => <<i, j>> \in less
    BY <1>4, <1>a DEF RankedBy
  <2>4. \A m \in 1 .. n : \E i \in S : Rank(S, less, i) = m - 1
    BY <1>1, <1>a DEF RankedBy
  <2>5. \A m \in 1 .. n : \E i \in S : rank(i) = m - 1
    BY <1>4, <2>4
  <2> QED
    BY <2>1, <2>2, <2>3, <2>5
<1>6. \A m \in 1 .. n : Placing(keys)[m] \in 1 .. n /\ rank(Placing(keys)[m]) = m - 1
  BY <1>5 DEF Placing, rank
<1>7. Placing(keys) = [m \in 1 .. n |-> Placing(keys)[m]]
  BY DEF Placing
<1>8. \A i \in 1 .. n : \E m \in 1 .. n : Placing(keys)[m] = i
  <2> SUFFICES ASSUME NEW i \in 1 .. n PROVE \E m \in 1 .. n : Placing(keys)[m] = i
    OBVIOUS
  <2> DEFINE m == rank(i) + 1
  <2>1. m \in 1 .. n /\ m - 1 = rank(i)
    <3>1. rank(i) \in 0 .. n - 1
      BY <1>5
    <3> HIDE DEF rank
    <3> QED
      BY <1>1, <3>1
  <2> HIDE DEF m
  <2>2. Placing(keys)[m] = i
    BY <1>5, <1>6, <2>1
  <2> QED
    BY <2>1, <2>2
<1>9. \A m, k \in 1 .. n : Placing(keys)[m] = Placing(keys)[k] => m = k
  BY <1>6
<1>10. \A m, k \in 1 .. n : m < k => keys[Placing(keys)[m]] >= keys[Placing(keys)[k]]
  <2> SUFFICES ASSUME NEW m \in 1 .. n, NEW k \in 1 .. n, m < k
               PROVE  keys[Placing(keys)[m]] >= keys[Placing(keys)[k]]
    OBVIOUS
  <2> DEFINE i == Placing(keys)[m]
             j == Placing(keys)[k]
  <2>1. i \in 1 .. n /\ j \in 1 .. n /\ rank(i) < rank(j)
    BY <1>6
  <2> HIDE DEF i, j
  <2>2. keys[i] > keys[j] \/ keys[i] = keys[j]
    BY <1>2, <1>5, <2>1
  <2> QED
    BY <2>1, <2>2 DEF i, j
<1> QED
  BY <1>6, <1>7, <1>8, <1>9, <1>10

-----------------------------------------------------------------------------
(***************************************************************************)
(* The agents of a task.  An agent starts when nothing it depends on is    *)
(* running or to come, so what it found then is what it would find now:    *)
(* whatever is in the memory its role would leave there again, from the    *)
(* memory as it is.  That is why the reports agree with each other.        *)
(***************************************************************************)
G == INSTANCE MultiAgent

RunFields == {"op", "task", "running", "remaining", "ran", "failed", "cut", "shared"}

RunTyped(r) ==
  /\ DOMAIN r = RunFields /\ r.op = "pipeline" /\ r.task \in G!Tasks
  /\ r.running \subseteq G!Roles /\ r.remaining \subseteq G!Roles \ {"planner"}
  /\ r.ran \subseteq G!Roles /\ r.failed \subseteq r.ran /\ r.cut \subseteq G!Roles
  /\ DOMAIN r.shared = r.ran \ r.failed
  /\ r.running \cap r.remaining = {} /\ r.ran \cap (r.running \cup r.remaining) = {}

Ordered(r) == \A x \in r.ran \cup r.running : G!DependsOn[x] \cap (r.running \cup r.remaining) = {}

Replays(task, shared) == \A x \in DOMAIN shared : shared[x] = G!Run(x, task, shared)

RunInv(r) == RunTyped(r) /\ Ordered(r) /\ Replays(r.task, r.shared) /\ (r.cut # {} => mem.parallel < 3)

Kept(run) ==
  /\ run.status \in {"succeeded", "degraded"} /\ run.task \in G!Tasks /\ run.ran \subseteq G!Roles
  /\ DOMAIN run.shared \subseteq run.ran /\ Replays(run.task, run.shared) /\ (run.cut # {} => mem.parallel < 3)
  /\ \A x \in run.ran : run.scores[x] > 0 <=> x \in DOMAIN run.shared

AgentsInv ==
  /\ req = [c \in Clients |-> req[c]] /\ mem \in [parallel : {2, 10}]
  /\ \A c \in Clients : req[c] = G!Idle \/ RunInv(req[c])
  /\ (\E S : db \in Seq(S)) /\ \A i \in DOMAIN db : Kept(db[i])

-----------------------------------------------------------------------------
LEMMA GRoles ==
  G!Roles = {"planner", "research", "matching", "forecast", "pricing", "profit", "risk", "negotiation", "inventory", "reporting"}
BY DEF G!Roles, G!DependsOn

\* What a role finds depends on what it is said to depend on, and on no other role.
LEMMA RunDepends ==
  ASSUME NEW r \in G!Roles, NEW x \in G!Roles, x \notin G!DependsOn[r], NEW task, NEW shared, NEW v
  PROVE  G!Run(r, task, With(shared, x, v)) = G!Run(r, task, shared)
<1> DEFINE new == With(shared, x, v)
<1>1. ASSUME NEW d, d # x, NEW default PROVE G!Recall(new, d, default) = G!Recall(shared, d, default)
  BY <1>1 DEF G!Recall, With
<1>2. DOMAIN new = DOMAIN shared \cup {x}
  BY DEF With
<1> HIDE DEF new
<1>3. CASE r = "planner"
  BY <1>3 DEF G!Run
<1>4. CASE r = "research"
  BY <1>4 DEF G!Run, G!Research
<1>5. CASE r = "matching"
  <2>1. x # "research"
    BY <1>5 DEF G!DependsOn
  <2> QED
    BY <1>1, <1>5, <2>1 DEF G!Run, G!Matching, G!Ranked, G!Filter
<1>6. CASE r = "forecast"
  BY <1>6 DEF G!Run, G!Forecast
<1>7. CASE r = "pricing"
  <2>1. x # "matching"
    BY <1>7 DEF G!DependsOn
  <2>2. G!BestLanded(new) = G!BestLanded(shared)
    BY <1>1, <2>1 DEF G!BestLanded
  <2> QED
    BY <1>7, <2>2 DEF G!Run, G!Pricing
<1>8. CASE r = "profit"
  <2>1. x # "matching" /\ x # "pricing" /\ x # "forecast"
    BY <1>8 DEF G!DependsOn
  <2>2. G!BestLanded(new) = G!BestLanded(shared)
    BY <1>1, <2>1 DEF G!BestLanded
  <2> QED
    BY <1>1, <1>8, <2>1, <2>2 DEF G!Run, G!Profit
<1>9. CASE r = "risk"
  <2>1. x # "matching" /\ x # "profit" /\ x # "forecast"
    BY <1>9 DEF G!DependsOn
  <2>2. G!MarginPercent(new) = G!MarginPercent(shared)
    BY <1>1, <2>1 DEF G!MarginPercent
  <2> QED
    BY <1>1, <1>9, <2>1, <2>2 DEF G!Run, G!Risk
<1>10. CASE r = "negotiation"
  <2>1. x # "matching" /\ x # "profit"
    BY <1>10 DEF G!DependsOn
  <2>2. G!MarginPercent(new) = G!MarginPercent(shared)
    BY <1>1, <2>1 DEF G!MarginPercent
  <2> QED
    BY <1>1, <1>10, <2>1, <2>2 DEF G!Run, G!Negotiation
<1>11. CASE r = "inventory"
  <2>1. x # "forecast"
    BY <1>11 DEF G!DependsOn
  <2> QED
    BY <1>1, <1>11, <2>1 DEF G!Run, G!Inventory
<1>12. CASE r = "reporting"
  <2>1. x \notin {"research", "matching", "forecast", "pricing", "profit", "risk", "negotiation", "inventory"}
    BY <1>12 DEF G!DependsOn
  <2>2. G!MarginPercent(new) = G!MarginPercent(shared)
    BY <1>1, <2>1 DEF G!MarginPercent
  <2>3. G!TopRecommendation(new) = G!TopRecommendation(shared)
    BY <1>1, <2>1, <2>2 DEF G!TopRecommendation
  <2> QED
    BY <1>2, <1>12, <2>1, <2>3 DEF G!Run, G!Reporting
<1> QED
  BY <1>3, <1>4, <1>5, <1>6, <1>7, <1>8, <1>9, <1>10, <1>11, <1>12, GRoles DEF new

\* Nothing depends on itself, and of any roles that remain one depends on none of them.
LEMMA SomeoneReady ==
  ASSUME NEW remaining \in SUBSET G!Roles, remaining # {}
  PROVE  /\ G!Wave(remaining) \subseteq remaining
         /\ \A x \in G!Wave(remaining) : G!DependsOn[x] \cap remaining = {}
<1>1. \E x \in remaining : G!DependsOn[x] \cap remaining = {}
  <2> SUFFICES ASSUME \A x \in remaining : G!DependsOn[x] \cap remaining # {} PROVE FALSE
    OBVIOUS
  <2>1. "planner" \notin remaining /\ "research" \notin remaining
    BY DEF G!DependsOn
  <2>2. "matching" \notin remaining /\ "forecast" \notin remaining
    BY <2>1 DEF G!DependsOn
  <2>3. "pricing" \notin remaining
    BY <2>2 DEF G!DependsOn
  <2>4. "profit" \notin remaining
    BY <2>2, <2>3 DEF G!DependsOn
  <2>5. "risk" \notin remaining /\ "negotiation" \notin remaining /\ "inventory" \notin remaining
    BY <2>2, <2>4 DEF G!DependsOn
  <2>6. "reporting" \notin remaining
    BY <2>1, <2>2, <2>3, <2>4, <2>5 DEF G!DependsOn
  <2>7. \A x \in remaining : x \in G!Roles
    OBVIOUS
  <2> QED
    BY <2>1, <2>2, <2>3, <2>4, <2>5, <2>6, <2>7, GRoles
<1> QED
  BY <1>1 DEF G!Wave

LEMMA ChunkOf ==
  ASSUME NEW wave, NEW most
  PROVE  G!Chunk(wave, most) \subseteq wave
BY DEF G!Chunk

\* Sorted and selected by the modules below Platform as here.
LEMMA GNumbers ==
  /\ \A keys : G!Placing(keys) = Placing(keys)
  /\ \A s, places : G!Selected(s, places) = Selected(s, places)
<1>1. ASSUME NEW keys PROVE G!Placing(keys) = Placing(keys)
  BY DEF G!Placing, Placing, G!Better, Better, G!Cardinality, Cardinality
<1>2. ASSUME NEW s, NEW places PROVE G!Selected(s, places) = Selected(s, places)
  BY DEF G!Selected, Selected, G!InOrder, InOrder, G!Cardinality, Cardinality
<1> QED
  BY <1>1, <1>2

LEMMA Researched ==
  ASSUME NEW t \in G!Tasks, NEW shared
  PROVE  \E n \in Nat :
           /\ DOMAIN G!Research(t, shared) = 1 .. n
           /\ \A i \in 1 .. n : /\ G!Research(t, shared)[i].landed \in Nat /\ G!Research(t, shared)[i].days \in Nat
                                /\ G!Research(t, shared)[i].moq = 50
<1>1. t.offers \in G!Offers
  BY DEF G!Tasks
<1>2. CASE t.offers = <<>>
  BY <1>2 DEF G!Research
<1>3. CASE t.offers # <<>>
  <2>1. /\ DOMAIN t.offers = 1 .. 3
        /\ \A i \in 1 .. 3 : /\ t.offers[i].unit \in Nat /\ t.offers[i].shipping \in Nat /\ t.offers[i].days \in Nat
                             /\ t.offers[i].moq = 50 /\ {"days", "moq"} \subseteq DOMAIN t.offers[i]
    BY <1>1, <1>3 DEF G!Offers
  <2>2. \A i \in 1 .. 3 : G!Research(t, shared)[i] = With(t.offers[i], "landed", t.offers[i].unit + t.offers[i].shipping)
    BY <2>1 DEF G!Research, G!With, With
  <2>3. \A i \in 1 .. 3 : /\ G!Research(t, shared)[i].landed = t.offers[i].unit + t.offers[i].shipping
                          /\ G!Research(t, shared)[i].days = t.offers[i].days
                          /\ G!Research(t, shared)[i].moq = t.offers[i].moq
    BY <2>1, <2>2 DEF With
  <2>4. DOMAIN G!Research(t, shared) = 1 .. 3
    BY <2>1 DEF G!Research
  <2>5. \A i \in 1 .. 3 : /\ G!Research(t, shared)[i].landed \in Nat /\ G!Research(t, shared)[i].days \in Nat
                          /\ G!Research(t, shared)[i].moq = 50
    BY <2>1, <2>3
  <2> WITNESS 3 \in Nat
  <2> QED
    BY <2>4, <2>5
<1> QED
  BY <1>2, <1>3

\* The best of the suppliers that are matched is one that comes in time.
LEMMA Matched ==
  ASSUME NEW t \in G!Tasks, NEW shared, Replays(t, shared)
  PROVE  LET matched == G!Recall(shared, "matching", <<>>)
         IN matched = <<>> \/ /\ matched[1].landed \in Nat /\ matched[1].days \in Nat
                              /\ matched[1].days <= t.maxDays /\ matched[1].moq = 50
<1> DEFINE offers == G!Recall(shared, "research", <<>>)
           places == {i \in DOMAIN offers : offers[i].inStock /\ offers[i].days <= t.maxDays}
           eligible == G!Selected(offers, places)
           keys == [i \in 1 .. Len(eligible) |-> -eligible[i].landed]
           ranked == [m \in 1 .. Len(eligible) |-> eligible[G!Placing(keys)[m]]]
<1>1. CASE "matching" \notin DOMAIN shared
  BY <1>1 DEF G!Recall
<1>2. CASE "matching" \in DOMAIN shared
  <2>1. G!Recall(shared, "matching", <<>>) = ranked
    BY <1>2 DEF Replays, G!Recall, G!Run, G!Matching, G!Ranked, G!Filter
  <2>2. PICK n \in Nat : /\ DOMAIN offers = 1 .. n
                         /\ \A i \in 1 .. n : offers[i].landed \in Nat /\ offers[i].days \in Nat /\ offers[i].moq = 50
    <3>1. CASE "research" \in DOMAIN shared
      <4>1. offers = G!Research(t, shared)
        BY <3>1 DEF Replays, G!Recall, G!Run
      <4> QED
        BY <4>1, Researched
    <3>2. CASE "research" \notin DOMAIN shared
      <4>1. DOMAIN offers = 1 .. 0 /\ 0 \in Nat
        BY <3>2 DEF G!Recall
      <4> HIDE DEF offers
      <4> QED
        BY <4>1
    <3> QED
      BY <3>1, <3>2
  <2>3. places \in SUBSET (1 .. n) /\ \A i \in places : offers[i].days <= t.maxDays
    BY <2>2
  <2> HIDE DEF offers, places
  <2>4. PICK k \in Nat : /\ eligible \in [1 .. k -> {offers[i] : i \in places}] /\ k = Cardinality(places)
    <3>1. eligible = Selected(offers, places)
      BY GNumbers
    <3>0. places \in SUBSET (1 .. n)
      BY <2>3
    <3>2. InOrder(places) \in [1 .. Cardinality(places) -> places] /\ Cardinality(places) \in Nat
      BY <3>0, InOrderIs
    <3>3. Selected(offers, places) = [m \in 1 .. Cardinality(places) |-> offers[InOrder(places)[m]]]
      BY DEF Selected
    <3> HIDE DEF eligible
    <3> QED
      BY <3>1, <3>2, <3>3
  <2> HIDE DEF eligible
  <2>5. Len(eligible) = k
    BY <2>4
  <2>6. \A i \in 1 .. k : eligible[i].landed \in Nat /\ eligible[i].days \in Nat /\ eligible[i].moq = 50 /\ eligible[i].days <= t.maxDays
    BY <2>2, <2>3, <2>4
  <2>7. keys \in [1 .. k -> Int]
    BY <2>5, <2>6
  <2> HIDE DEF keys
  <2>8. \A m \in 1 .. k : G!Placing(keys)[m] \in 1 .. k
    BY <2>7, GNumbers, PlacingIs
  <2>9. CASE k = 0
    BY <2>1, <2>5, <2>9
  <2>10. CASE k # 0
    <3>1. 1 \in 1 .. k
      BY <2>10
    <3>2. ranked[1] = eligible[G!Placing(keys)[1]]
      BY <2>5, <3>1
    <3> HIDE DEF ranked
    <3> QED
      BY <2>1, <2>6, <2>8, <3>1, <3>2
  <2> QED
    BY <2>9, <2>10
<1> QED
  BY <1>1, <1>2

\* The rounding of a share that is larger is no smaller.
LEMMA Rounded ==
  ASSUME NEW n \in Nat
  PROVE  /\ HalfEven(10 * n, 7) \in Nat /\ HalfEven(105 * n, 100) \in Nat /\ HalfEven(11 * n, 10) \in Nat
         /\ HalfEven(10 * n, 7) >= HalfEven(105 * n, 100) /\ HalfEven(11 * n, 10) >= n
         /\ HalfEven(10 * n, 7) = 0 => n = 0
<1> QED
  BY DEF HalfEven
LEMMA RoundedInt ==
  ASSUME NEW n \in Int, NEW d \in Nat \ {0}
  PROVE  G!HalfEven(n, d) \in Int
BY DEF G!HalfEven

LEMMA GRounds == \A n, d : G!HalfEven(n, d) = HalfEven(n, d)
BY DEF G!HalfEven, HalfEven

NoPrice == [price |-> 0, floor |-> 0, cost |-> 0]

\* What the later agents make their figures of.
LEMMA Figures ==
  ASSUME NEW t \in G!Tasks, NEW shared, Replays(t, shared)
  PROVE  /\ G!BestLanded(shared) \in Nat
         /\ G!Recall(shared, "pricing", NoPrice).price \in Nat /\ G!Recall(shared, "pricing", NoPrice).floor \in Nat
         /\ G!Recall(shared, "pricing", NoPrice).cost \in Nat
         /\ G!Recall(shared, "pricing", NoPrice).price >= G!Recall(shared, "pricing", NoPrice).floor
         /\ G!Recall(shared, "forecast", [units |-> 0]).units \in Nat
         /\ G!Recall(shared, "profit", [units |-> 0]).units \in Nat
         /\ G!MarginPercent(shared) \in Int
<1> DEFINE pricing == G!Recall(shared, "pricing", NoPrice)
           forecast == G!Recall(shared, "forecast", [units |-> 0])
<1>1. G!BestLanded(shared) \in Nat
  BY Matched DEF G!BestLanded
<1>2. t.targetCost = 0 /\ t.units \in Nat
  BY DEF G!Tasks
<1>3. pricing.price \in Nat /\ pricing.floor \in Nat /\ pricing.cost \in Nat /\ pricing.price >= pricing.floor
  <2>1. CASE "pricing" \in DOMAIN shared
    <3> DEFINE cost == IF G!BestLanded(shared) = 0 THEN t.targetCost ELSE G!BestLanded(shared)
    <3>1. cost \in Nat
      BY <1>1, <1>2
    <3>2. pricing = [price |-> HalfEven(10 * cost, 7), floor |-> HalfEven(105 * cost, 100), cost |-> cost]
      BY <2>1, GRounds DEF Replays, G!Recall, G!Run, G!Pricing
    <3> HIDE DEF cost, pricing
    <3> QED
      BY <3>1, <3>2, Rounded
  <2>2. CASE "pricing" \notin DOMAIN shared
    BY <2>2 DEF G!Recall, NoPrice
  <2> QED
    BY <2>1, <2>2
<1>4. forecast.units \in Nat
  <2>1. CASE "forecast" \in DOMAIN shared
    <3>1. forecast.units = HalfEven(105 * t.units, 100)
      BY <2>1, GRounds DEF Replays, G!Recall, G!Run, G!Forecast
    <3>2. HalfEven(105 * t.units, 100) \in Nat
      BY <1>2, Rounded
    <3> HIDE DEF forecast
    <3> QED
      BY <3>1, <3>2
  <2>2. CASE "forecast" \notin DOMAIN shared
    BY <2>2 DEF G!Recall
  <2> QED
    BY <2>1, <2>2
<1>5. CASE "profit" \in DOMAIN shared
  <2> DEFINE cost == IF pricing.cost = 0 THEN G!BestLanded(shared) ELSE pricing.cost
             margin == pricing.price - cost
             percent == IF pricing.price = 0 THEN 0 ELSE G!HalfEven(10000 * margin, pricing.price)
  <2>1. /\ G!Recall(shared, "profit", [units |-> 0]).units = forecast.units
        /\ G!MarginPercent(shared) = percent
    BY <1>5 DEF Replays, G!Recall, G!Run, G!Profit, G!MarginPercent, NoPrice
  <2> HIDE DEF pricing, forecast
  <2>2. margin \in Int
    BY <1>1, <1>3
  <2> HIDE DEF margin
  <2>3. percent \in Int
    <3>1. CASE pricing.price = 0
      BY <3>1
    <3>2. CASE pricing.price # 0
      <4>1. 10000 * margin \in Int /\ pricing.price \in Nat \ {0}
        BY <1>3, <2>2, <3>2
      <4> QED
        BY <3>2, <4>1, RoundedInt
    <3> QED
      BY <3>1, <3>2
  <2> HIDE DEF percent
  <2> QED
    BY <1>1, <1>3, <1>4, <2>1, <2>3 DEF pricing, forecast
<1>6. CASE "profit" \notin DOMAIN shared
  <2>1. G!Recall(shared, "profit", [units |-> 0]).units = 0 /\ G!MarginPercent(shared) = 0
    BY <1>6 DEF G!Recall, G!MarginPercent
  <2> QED
    BY <1>1, <1>3, <1>4, <2>1
<1> QED
  BY <1>5, <1>6

\* What the properties of Platform say of a run follows.
LEMMA SoundRun ==
  ASSUME NEW run, Kept(run)
  PROVE  G!RunSound(run)
<1> DEFINE s == run.shared
           t == run.task
<1>1. t \in G!Tasks /\ Replays(t, s)
  BY DEF Kept
<1>a. {"pricing", "profit"} \subseteq DOMAIN s => s.profit.price = s.pricing.price /\ s.pricing.price >= s.pricing.floor
  <2> SUFFICES ASSUME "pricing" \in DOMAIN s, "profit" \in DOMAIN s
               PROVE  s.profit.price = s.pricing.price /\ s.pricing.price >= s.pricing.floor
    OBVIOUS
  <2>1. G!Recall(s, "pricing", NoPrice) = s.pricing
    BY DEF G!Recall
  <2>2. s.profit.price = G!Recall(s, "pricing", NoPrice).price
    BY <1>1 DEF Replays, G!Run, G!Profit, NoPrice
  <2> QED
    BY <1>1, <2>1, <2>2, Figures
<1>b. {"forecast", "profit"} \subseteq DOMAIN s => s.profit.units = s.forecast.units
  BY <1>1 DEF Replays, G!Run, G!Profit, G!Recall
<1>2. G!ProfitFollows(s)
  BY <1>a, <1>b DEF G!ProfitFollows
<1>4. G!StockFollows(s)
  <2> SUFFICES ASSUME "forecast" \in DOMAIN s, "inventory" \in DOMAIN s
               PROVE  s.inventory.qty >= s.forecast.units
    BY DEF G!StockFollows
  <2>1. G!Recall(s, "forecast", [units |-> 0]) = s.forecast
    BY DEF G!Recall
  <2>2. s.inventory.qty = HalfEven(11 * G!Recall(s, "forecast", [units |-> 0]).units, 10)
    BY <1>1, GRounds DEF Replays, G!Run, G!Inventory
  <2>3. s.forecast.units \in Nat
    BY <1>1, <2>1, Figures
  <2>4. HalfEven(11 * s.forecast.units, 10) >= s.forecast.units
    BY <2>3, Rounded
  <2> QED
    BY <2>1, <2>2, <2>4
<1>5. G!AskFollows(s)
  <2> SUFFICES ASSUME {"matching", "negotiation"} \subseteq DOMAIN s
               PROVE  s.negotiation.ask >= s.negotiation.moq /\ s.negotiation.discount \in 500 .. 2500
    BY Zenon DEF G!AskFollows
  <2>0. "negotiation" \in DOMAIN s
    OBVIOUS
  <2> DEFINE units == G!Recall(s, "profit", [units |-> 0]).units
             matched == G!Recall(s, "matching", <<>>)
             moq == IF matched = <<>> THEN 1 ELSE matched[1].moq
             raised == G!MarginPercent(s) \div 2 + (IF units >= 100 THEN 200 ELSE 0)
  <2>1. /\ s.negotiation.ask = G!Greatest(moq, units) /\ s.negotiation.moq = moq
        /\ s.negotiation.discount = G!Clamp(raised, 500, 2500)
    BY <1>1, <2>0 DEF Replays, G!Run, G!Negotiation
  <2>2. units \in Nat /\ moq \in Nat
    BY <1>1, Figures, Matched
  <2>3. raised \in Int
    BY <1>1, <2>2, Figures
  <2> HIDE DEF units, moq, raised
  <2>4. G!Greatest(moq, units) >= moq
    BY <2>2 DEF G!Greatest
  <2>5. G!Clamp(raised, 500, 2500) \in 500 .. 2500
    BY <2>3 DEF G!Clamp, G!Greatest, G!Least
  <2> QED
    BY <2>1, <2>4, <2>5
<1>6. G!ReportFollows(s, t)
  <2> SUFFICES ASSUME "reporting" \in DOMAIN s, s.reporting.top \in {"proceed", "reorder"}
               PROVE  /\ "matching" \in DOMAIN s /\ s.matching[1].days <= t.maxDays
                      /\ s.profit.percent >= 500 /\ ("risk" \in DOMAIN s => s.risk.level # "high")
    BY DEF G!ReportFollows
  <2>1. s.reporting.top = G!TopRecommendation(s)
    BY <1>1 DEF Replays, G!Run, G!Reporting
  <2>2. /\ G!Recall(s, "matching", <<>>) # <<>> /\ G!Recall(s, "risk", [level |-> "none"]).level # "high"
        /\ ~ (G!MarginPercent(s) < 500)
    BY <2>1 DEF G!TopRecommendation
  <2>3. "matching" \in DOMAIN s /\ s.matching = G!Recall(s, "matching", <<>>)
    BY <2>2 DEF G!Recall
  <2>4. s.profit.percent >= 500
    <3>1. G!MarginPercent(s) \in Int /\ G!MarginPercent(s) >= 500
      BY <1>1, <2>2, Figures
    <3>2. G!MarginPercent(s) = s.profit.percent
      BY <3>1 DEF G!MarginPercent, G!Recall
    <3> QED
      BY <3>1, <3>2
  <2>5. "risk" \in DOMAIN s => s.risk.level # "high"
    BY <2>2 DEF G!Recall
  <2> QED
    BY <1>1, <2>2, <2>3, <2>4, <2>5, Matched
<1>7. /\ \A r \in run.ran : run.scores[r] > 0 <=> r \in DOMAIN s
      /\ run.cut # {} => mem.parallel < 3
  BY DEF Kept
<1> QED
  BY <1>2, <1>4, <1>5, <1>6, <1>7 DEF G!RunSound

\* Ten agents at once are all that a wave can have.
LEMMA WholeWave ==
  ASSUME NEW wave \in SUBSET (G!Roles \ {"planner"})
  PROVE  G!Chunk(wave, 10) = wave
<1> DEFINE names == DOMAIN G!Place
<1>1. wave \subseteq names /\ G!Place \in Injection(names, 1 .. 9)
  BY GRoles DEF G!Place, Injection, IsInjective
<1>2. IsFiniteSet(1 .. 9) /\ Cardinality(1 .. 9) = 9
  <2>1. \A n \in Nat : IsFiniteSet(1 .. n) /\ Cardinality(1 .. n) = n
    BY FS_Interval
  <2> QED
    BY <2>1
<1>3. IsFiniteSet(names) /\ Cardinality(names) <= 9
  BY <1>1, <1>2, FS_Injection
<1>4. ASSUME NEW r \in wave PROVE G!Cardinality({s \in wave : G!Place[s] <= G!Place[r]}) <= 10
  <2> DEFINE before == {s \in wave : G!Place[s] <= G!Place[r]}
  <2>1. before \subseteq names
    BY <1>1
  <2> HIDE DEF before, names
  <2>2. IsFiniteSet(before) /\ Cardinality(before) <= Cardinality(names)
    BY <1>3, <2>1, FS_Subset
  <2>3. Cardinality(before) \in Nat /\ Cardinality(names) \in Nat
    BY <1>3, <2>2, FS_CardinalityType
  <2>4. G!Cardinality(before) = Cardinality(before)
    BY DEF G!Cardinality, Cardinality
  <2> QED
    BY <1>3, <2>2, <2>3, <2>4 DEF before
<1> QED
  BY <1>4 DEF G!Chunk

LEMMA SeqWidens ==
  ASSUME NEW S, NEW T, S \subseteq T, NEW s \in Seq(S)
  PROVE  s \in Seq(T)
<1>1. Len(s) \in Nat /\ s = [i \in 1 .. Len(s) |-> s[i]] /\ \A i \in 1 .. Len(s) : s[i] \in T
  OBVIOUS
<1> QED
  BY <1>1

LEMMA AgentsMove ==
  ASSUME AgentsInv, NEW c \in Clients, NEW new, req' = [req EXCEPT ![c] = new], UNCHANGED <<db, mem>>,
         RunInv(new),
         req[c].op = "pipeline" =>
           \A r \in DOMAIN req[c].shared : new.shared[r] = req[c].shared[r]
  PROVE  AgentsInv' /\ G!LegalStep
<1>1. req' = [d \in Clients |-> req'[d]] /\ req'[c] = new /\ \A d \in Clients \ {c} : req'[d] = req[d]
  BY DEF AgentsInv
<1>2. \A d \in Clients : req'[d] = G!Idle \/ RunInv(req'[d])
  BY <1>1 DEF AgentsInv
<1>3. \A r : RunInv(r) <=> RunInv(r)'
  BY DEF RunInv, RunTyped, Ordered, Replays
<1>4. \A d \in Clients : (req[d] = G!Idle \/ RunInv(req[d]))'
  BY <1>1, <1>2 DEF RunInv, RunTyped, Ordered, Replays
<1>5. \A i \in DOMAIN db : Kept(db[i])'
  BY DEF AgentsInv, Kept, Replays
<1>6. AgentsInv'
  BY <1>1, <1>4, <1>5 DEF AgentsInv
<1>7. G!LegalStep
  BY <1>1 DEF G!LegalStep
<1> QED
  BY <1>6, <1>7

LEMMA AgentsCommit ==
  ASSUME AgentsInv, NEW c \in Clients, NEW run, G!Commit(c, Append(db, run)), Kept(run)
  PROVE  AgentsInv' /\ G!LegalStep
<1>1. req' = [d \in Clients |-> req'[d]] /\ req'[c] = G!Idle /\ (\A d \in Clients \ {c} : req'[d] = req[d]) /\ mem' = mem
  BY DEF AgentsInv, G!Commit
<1>2. \A d \in Clients : (req[d] = G!Idle \/ RunInv(req[d]))'
  BY <1>1 DEF AgentsInv, RunInv, RunTyped, Ordered, Replays
<1>3. PICK S : db \in Seq(S)
  BY DEF AgentsInv
<1>4. db \in Seq(S \cup {run}) /\ run \in S \cup {run}
  BY <1>3, SeqWidens
<1>5. /\ Append(db, run) \in Seq(S \cup {run}) /\ DOMAIN Append(db, run) = DOMAIN db \cup {Len(db) + 1}
      /\ Append(db, run)[Len(db) + 1] = run /\ \A i \in DOMAIN db : Append(db, run)[i] = db[i]
  BY <1>4
<1>6. db' = Append(db, run)
  BY DEF G!Commit
<1>7. \A i \in DOMAIN db' : Kept(db'[i])
  BY <1>5, <1>6 DEF AgentsInv
<1>8. \A i \in DOMAIN db' : Kept(db[i])'
  BY <1>1, <1>7 DEF Kept, Replays
<1>9. (\E T : db \in Seq(T))'
  BY <1>5, <1>6
<1>10. AgentsInv'
  BY <1>1, <1>2, <1>8, <1>9 DEF AgentsInv
<1>11. G!LegalStep
  <2>1. req'[c].op # "pipeline"
    BY <1>1 DEF G!Idle
  <2> QED
    BY <1>1, <1>5, <1>6, <2>1 DEF G!LegalStep
<1> QED
  BY <1>10, <1>11

LEMMA RunPipelineKeeps ==
  ASSUME AgentsInv, NEW c \in Clients, G!RunPipeline(c)
  PROVE  AgentsInv' /\ G!LegalStep
<1>1. PICK task \in G!Tasks, roles \in {G!Roles, G!Roles \ {"planner", "pricing"}} :
        req' = [req EXCEPT ![c] = [op |-> "pipeline", task |-> task, running |-> roles \cap {"planner"},
                                   remaining |-> roles \ {"planner"}, ran |-> {}, failed |-> {}, cut |-> {}, shared |-> <<>>]]
  BY DEF G!RunPipeline
<1> DEFINE new == [op |-> "pipeline", task |-> task, running |-> roles \cap {"planner"},
                   remaining |-> roles \ {"planner"}, ran |-> {}, failed |-> {}, cut |-> {}, shared |-> <<>>]
<1>2. DOMAIN new.shared = {}
  OBVIOUS
<1>3. RunTyped(new)
  BY <1>2, GRoles DEF RunTyped, RunFields
<1>4. Ordered(new)
  BY DEF Ordered, G!DependsOn
<1>5. RunInv(new)
  BY <1>2, <1>3, <1>4 DEF RunInv, Replays
<1>6. req[c].op # "pipeline" /\ UNCHANGED <<db, mem>>
  BY DEF G!RunPipeline
<1> HIDE DEF new
<1> QED
  BY <1>1, <1>5, <1>6, AgentsMove DEF new

LEMMA StartWaveKeeps ==
  ASSUME AgentsInv, NEW c \in Clients, G!StartWave(c)
  PROVE  AgentsInv' /\ G!LegalStep
<1> DEFINE old == req[c]
           wave == G!Wave(old.remaining)
           chunk == G!Chunk(wave, mem.parallel)
           new == [old EXCEPT !.running = chunk, !.remaining = @ \ wave, !.cut = @ \cup (wave \ chunk)]
<1>1. old.op = "pipeline" /\ old.running = {} /\ old.remaining # {} /\ req' = [req EXCEPT ![c] = new] /\ UNCHANGED <<db, mem>>
  BY DEF G!StartWave
<1>2. RunInv(old)
  BY <1>1 DEF AgentsInv, G!Idle
<1>3. /\ wave \subseteq old.remaining /\ \A x \in wave : G!DependsOn[x] \cap old.remaining = {}
  BY <1>1, <1>2, SomeoneReady DEF RunInv, RunTyped
<1>4. chunk \subseteq wave
  BY ChunkOf
<1>5. mem.parallel >= 3 => chunk = wave
  <2>1. wave \in SUBSET (G!Roles \ {"planner"})
    BY <1>2, <1>3 DEF RunInv, RunTyped
  <2>2. mem.parallel = 2 \/ mem.parallel = 10
    BY DEF AgentsInv
  <2> HIDE DEF wave
  <2> QED
    BY <2>1, <2>2, WholeWave
<1> HIDE DEF wave, chunk
<1>6. /\ new.op = old.op /\ new.task = old.task /\ new.ran = old.ran /\ new.failed = old.failed /\ new.shared = old.shared
      /\ new.running = chunk /\ new.remaining = old.remaining \ wave /\ new.cut = old.cut \cup (wave \ chunk) /\ DOMAIN new = DOMAIN old
  BY <1>2 DEF RunInv, RunTyped, RunFields
<1> HIDE DEF new, old
<1>7. RunTyped(new)
  BY <1>1, <1>2, <1>3, <1>4, <1>6 DEF RunInv, RunTyped
<1>8. Ordered(new)
  BY <1>1, <1>2, <1>3, <1>4, <1>6 DEF RunInv, Ordered
<1>9. RunInv(new)
  <2>1. new.cut # {} => mem.parallel < 3
    <3>1. mem.parallel \in Nat
      BY DEF AgentsInv
    <3> QED
      BY <1>2, <1>5, <1>6, <3>1 DEF RunInv
  <2> QED
    BY <1>2, <1>6, <1>7, <1>8, <2>1 DEF RunInv
<1> QED
  BY <1>1, <1>6, <1>9, AgentsMove DEF old

LEMMA AgentEndsKeeps ==
  ASSUME AgentsInv, NEW c \in Clients, NEW role \in G!Roles, NEW raises \in BOOLEAN, G!AgentEnds(c, role, raises)
  PROVE  AgentsInv' /\ G!LegalStep
<1> DEFINE old == req[c]
           found == G!Run(role, old.task, old.shared)
           shared == IF raises THEN old.shared ELSE With(old.shared, role, found)
           new == [old EXCEPT !.running = @ \ {role}, !.ran = @ \cup {role}, !.failed = IF raises THEN @ \cup {role} ELSE @,
                              !.shared = shared]
<1>1. old.op = "pipeline" /\ role \in old.running /\ UNCHANGED <<db, mem>>
  BY DEF G!AgentEnds
<1>2. RunInv(old)
  BY <1>1 DEF AgentsInv, G!Idle
<1>3. req' = [req EXCEPT ![c] = new]
  BY DEF G!AgentEnds, G!With, With
<1>4. /\ new.op = old.op /\ new.task = old.task /\ new.ran = old.ran \cup {role} /\ new.running = old.running \ {role}
      /\ new.failed = (IF raises THEN old.failed \cup {role} ELSE old.failed) /\ new.shared = shared
      /\ new.remaining = old.remaining /\ new.cut = old.cut /\ DOMAIN new = DOMAIN old
  <2> HIDE DEF shared
  <2> QED
    BY <1>2 DEF RunInv, RunTyped, RunFields
<1> HIDE DEF new, found
<1>5. role \notin old.ran /\ role \notin old.remaining /\ role \notin DOMAIN old.shared /\ role \notin old.failed
  BY <1>1, <1>2 DEF RunInv, RunTyped
<1>6. /\ DOMAIN shared = (IF raises THEN DOMAIN old.shared ELSE DOMAIN old.shared \cup {role})
      /\ \A x \in DOMAIN old.shared : shared[x] = old.shared[x]
      /\ ~ raises => shared[role] = found
  BY <1>5 DEF With
<1>7. RunTyped(new)
  <2>1. DOMAIN new.shared = new.ran \ new.failed
    BY <1>2, <1>4, <1>5, <1>6 DEF RunInv, RunTyped
  <2> HIDE DEF shared, old
  <2> QED
    BY <1>1, <1>2, <1>4, <1>5, <2>1 DEF RunInv, RunTyped
<1>8. Ordered(new)
  BY <1>1, <1>2, <1>4 DEF RunInv, Ordered
<1>9. Replays(old.task, shared)
  <2>1. CASE raises
    BY <1>2, <2>1 DEF RunInv
  <2>2. CASE ~ raises
    <3>1. ASSUME NEW x \in DOMAIN old.shared \cup {role}
          PROVE  G!Run(x, old.task, shared) = G!Run(x, old.task, old.shared)
      <4>1. x \in G!Roles /\ role \notin G!DependsOn[x]
        BY <1>1, <1>2 DEF RunInv, RunTyped, Ordered
      <4>2. shared = With(old.shared, role, found)
        BY <2>2
      <4> HIDE DEF shared
      <4> QED
        BY <4>1, <4>2, RunDepends
    <3> QED
      BY <1>2, <1>6, <2>2, <3>1 DEF RunInv, Replays, found
  <2> QED
    BY <2>1, <2>2
<1> HIDE DEF shared, old
<1>10. RunInv(new)
  BY <1>2, <1>4, <1>7, <1>8, <1>9 DEF RunInv
<1> QED
  BY <1>1, <1>3, <1>4, <1>6, <1>10, AgentsMove DEF old

LEMMA PersistKeeps ==
  ASSUME AgentsInv, NEW c \in Clients, G!Persist(c)
  PROVE  AgentsInv' /\ G!LegalStep
<1> DEFINE old == req[c]
           run == [status |-> IF old.failed = {} THEN "succeeded" ELSE "degraded", shared |-> old.shared, cut |-> old.cut,
                   ran |-> old.ran, task |-> old.task, scores |-> [r \in old.ran |-> G!EvaluateRun(r \in old.failed, 8000)]]
<1>1. old.op = "pipeline" /\ G!Commit(c, Append(db, run))
  BY DEF G!Persist
<1>2. RunInv(old)
  BY <1>1 DEF AgentsInv, G!Idle
<1>3. \A r \in old.ran : run.scores[r] > 0 <=> r \in DOMAIN old.shared
  <2>1. \A r \in old.ran : run.scores[r] = IF r \in old.failed THEN 0 ELSE 9600
    BY DEF G!EvaluateRun
  <2> HIDE DEF run
  <2> QED
    BY <1>2, <2>1 DEF RunInv, RunTyped
<1>4. Kept(run)
  BY <1>2, <1>3 DEF RunInv, RunTyped, Kept
<1> HIDE DEF run
<1> QED
  BY <1>1, <1>4, AgentsCommit

LEMMA AgentsStep ==
  ASSUME AgentsInv, [G!Next]_G!sessionVars
  PROVE  AgentsInv' /\ [G!LegalStep]_G!sessionVars
<1>1. CASE UNCHANGED G!sessionVars
  BY <1>1 DEF G!sessionVars, AgentsInv, RunInv, RunTyped, Ordered, Replays, Kept
<1>2. ASSUME NEW c \in Clients, G!RunPipeline(c) \/ G!StartWave(c) \/ G!Persist(c)
      PROVE  AgentsInv' /\ G!LegalStep
  BY <1>2, RunPipelineKeeps, StartWaveKeeps, PersistKeeps
<1>3. ASSUME NEW c \in Clients, NEW role \in G!Roles, NEW raises \in BOOLEAN, G!AgentEnds(c, role, raises)
      PROVE  AgentsInv' /\ G!LegalStep
  BY <1>3, AgentEndsKeeps
<1> QED
  BY <1>1, <1>2, <1>3 DEF G!Next

LEMMA AgentsInit == G!Init => AgentsInv
<1> SUFFICES ASSUME G!Init PROVE AgentsInv
  OBVIOUS
<1>1. req = [c \in Clients |-> G!Idle] /\ db = <<>> /\ mem \in [parallel : {2, 10}]
  BY DEF G!Init, G!NoRequests
<1>2. db \in Seq({}) /\ DOMAIN db = {}
  BY <1>1
<1> QED
  BY <1>1, <1>2 DEF AgentsInv

\* Whatever agents fail and in whatever order those of a wave end, no agent ran before one it
\* depends on, and a persisted run agrees with itself: the profit is at the price that was set for
\* the units that were forecast, the stock is for them, and it goes ahead only with a supplier in
\* time, a margin and no high risk (AgentSupervisor.run_pipeline, _run_agent, the agents' run).
THEOREM AgentsIntegrity == G!Spec => [](G!TypeOK /\ G!Integrity)
<1>1. G!Init => AgentsInv
  BY AgentsInit
<1>2. AgentsInv /\ [G!Next]_G!sessionVars => AgentsInv'
  BY AgentsStep
<1>3. AgentsInv => G!TypeOK /\ G!Integrity
  <2> SUFFICES ASSUME AgentsInv PROVE G!TypeOK /\ G!Integrity
    OBVIOUS
  <2>1. \A i \in DOMAIN db : db[i].status \in {"succeeded", "degraded"} /\ DOMAIN db[i].shared \subseteq G!Roles
    BY DEF AgentsInv, Kept
  <2>2. ASSUME NEW c \in Clients, req[c].op # "idle"
        PROVE  [f \in {"task", "running", "remaining", "ran", "failed", "cut"} |-> req[c][f]] \in G!Pipeline
    <3>1. RunTyped(req[c])
      BY <2>2 DEF AgentsInv, RunInv, G!Idle
    <3> QED
      BY <3>1 DEF RunTyped, G!Pipeline
  <2>3. mem \in [parallel : Nat]
    BY DEF AgentsInv
  <2>4. \A i \in DOMAIN db : G!RunSound(db[i])
    BY SoundRun DEF AgentsInv
  <2>5. ASSUME NEW c \in Clients, req[c].op = "pipeline", NEW r \in req[c].ran,
               NEW d \in req[c].ran \cup req[c].running \cup req[c].remaining, d \in G!DependsOn[r]
        PROVE  d \in req[c].ran
    <3>1. Ordered(req[c])
      BY <2>5 DEF AgentsInv, RunInv, G!Idle
    <3> QED
      BY <2>5, <3>1 DEF Ordered
  <2> QED
    BY <2>1, <2>2, <2>3, <2>4, <2>5 DEF G!TypeOK, G!Integrity
<1> QED
  BY <1>1, <1>2, <1>3, PTL DEF G!Spec

\* What an agent left in the memory they share stays as it is while the others run, and so does a
\* run that is persisted (AgentSupervisor._run_agent, _persist).
THEOREM AgentsLegalSteps == G!Spec => [][G!LegalStep]_G!sessionVars
<1>1. G!Init => AgentsInv
  BY AgentsInit
<1>2. AgentsInv /\ [G!Next]_G!sessionVars => AgentsInv'
  BY AgentsStep
<1>3. AgentsInv /\ [G!Next]_G!sessionVars => [G!LegalStep]_G!sessionVars
  BY AgentsStep
<1> QED
  BY <1>1, <1>2, <1>3, PTL DEF G!Spec

-----------------------------------------------------------------------------
(***************************************************************************)
(* Products of Keepa.  Its limiter is the retailers' one; what is stored   *)
(* of a product is read from one answer about it.                          *)
(***************************************************************************)
K == INSTANCE Keepa

Fetch ==
  [op : K!Steps \ {"idle"}, todo : Seq(Ids) \ {<<>>}, job : BOOLEAN, allowance : {K!None},
   attempt : 0 .. K!MaxRetries, wait : 0 .. K!RetryAfter]

Keys == Ids \X {"params", "params and key"}

\* What a product can be stored as.
Told == {K!ParseProductResponse(k, raw) : k \in Ids, raw \in K!RawProducts}

Products ==
  /\ db = [products |-> db.products] /\ db.products = [k \in Ids |-> db.products[k]]
  /\ \A k \in Ids : db.products[k] = <<>> \/ \E raw \in K!RawProducts : db.products[k] = <<K!ParseProductResponse(k, raw)>>

KeepaInv ==
  /\ req = [c \in Clients |-> req[c]] /\ \A c \in Clients : req[c] \in Fetch \cup {K!Idle}
  /\ mem \in K!Limiter(Keys) /\ K!LimiterSound /\ Products

LEMMA FetchFields ==
  ASSUME NEW r \in Fetch
  PROVE  /\ r.op \in K!Steps \ {"idle"} /\ r.todo \in Seq(Ids) /\ r.todo # <<>> /\ r.attempt \in 0 .. K!MaxRetries
         /\ r.wait \in 0 .. K!RetryAfter /\ Head(r.todo) \in Ids
<1>1. r.todo \in Seq(Ids) /\ r.todo # <<>>
  BY DEF Fetch
<1> QED
  BY <1>1 DEF Fetch

LEMMA FetchMoves ==
  ASSUME NEW r \in Fetch, NEW op \in K!Steps \ {"idle"}, NEW wait \in 0 .. K!RetryAfter, NEW attempt \in 0 .. K!MaxRetries
  PROVE  /\ [r EXCEPT !.op = op] \in Fetch /\ [r EXCEPT !.op = op].op = op /\ [r EXCEPT !.op = op].wait = r.wait
         /\ [r EXCEPT !.op = op].attempt = r.attempt /\ [r EXCEPT !.op = op].todo = r.todo
         /\ [r EXCEPT !.wait = wait] \in Fetch /\ [r EXCEPT !.wait = wait].op = r.op /\ [r EXCEPT !.wait = wait].wait = wait
         /\ [r EXCEPT !.wait = wait].todo = r.todo /\ [r EXCEPT !.wait = wait].attempt = r.attempt
         /\ [r EXCEPT !.attempt = attempt] \in Fetch /\ [r EXCEPT !.attempt = attempt].op = r.op
         /\ [r EXCEPT !.attempt = attempt].attempt = attempt /\ [r EXCEPT !.attempt = attempt].todo = r.todo
BY DEF Fetch

\* Of a client that is at one of its steps.
LEMMA AtFetch ==
  ASSUME KeepaInv, NEW c \in Clients, req[c].op # "idle"
  PROVE  /\ req[c] \in Fetch /\ mem \in K!Limiter(Keys)
         /\ (req[c].op = "wait" <=> mem.lock = c)
         /\ (req[c].op = "wait" => mem.since + req[c].wait >= K!MinInterval)
<1>1. K!Idle.op = "idle"
  BY DEF K!Idle
<1> QED
  BY <1>1 DEF KeepaInv, K!LimiterSound

\* A step of one client, which leaves the lock to the others.
LEMMA FetchMoved ==
  ASSUME KeepaInv, NEW c \in Clients, NEW new \in Fetch \cup {K!Idle}, req' = [req EXCEPT ![c] = new],
         mem' \in K!Limiter(Keys), Products',
         new.op = "wait" <=> mem'.lock = c,
         new.op = "wait" => mem'.since + new.wait >= K!MinInterval,
         \A d \in Clients \ {c} : mem'.lock = d <=> mem.lock = d,
         mem'.since = mem.since \/ (mem'.since = 0 /\ mem.since = K!MinInterval /\ mem.lock = c),
         req[c].op = "sent" /\ new.op = "acquire" => new.attempt = req[c].attempt + 1 /\ new.todo = req[c].todo
  PROVE  KeepaInv' /\ K!LegalStep
<1>1. req' = [d \in Clients |-> req'[d]] /\ \A d \in Clients : req'[d] = IF d = c THEN new ELSE req[d]
  BY DEF KeepaInv
<1>2. \A d \in Clients : req'[d] \in Fetch \cup {K!Idle}
  BY <1>1 DEF KeepaInv
<1>3. K!LimiterSound'
  BY <1>1 DEF KeepaInv, K!LimiterSound
<1>4. (mem \in K!Limiter(Keys))'
  BY DEF K!Limiter, Keys
<1>5. KeepaInv'
  BY <1>1, <1>2, <1>3, <1>4 DEF KeepaInv, K!Idle
<1>6. mem'.since < mem.since => mem.since = K!MinInterval
  <2>1. mem.since \in Nat
    BY DEF KeepaInv, K!Limiter, K!MinInterval
  <2> QED
    BY <2>1
<1>7. \A d \in Clients : req[d].op = "sent" /\ req'[d].op = "acquire" =>
        req'[d].attempt = req[d].attempt + 1 /\ req'[d].todo = req[d].todo
  <2> SUFFICES ASSUME NEW d \in Clients, req[d].op = "sent", req'[d].op = "acquire"
               PROVE  req'[d].attempt = req[d].attempt + 1 /\ req'[d].todo = req[d].todo
    OBVIOUS
  <2>1. d = c
    BY <1>1
  <2> QED
    BY <1>1, <2>1
<1> QED
  BY <1>5, <1>6, <1>7 DEF K!LegalStep, K!Paced

\* A step that leaves the limiter and its lock alone.
LEMMA FetchGoesOn ==
  ASSUME KeepaInv, NEW c \in Clients, req[c].op # "wait", NEW new \in Fetch \cup {K!Idle}, new.op # "wait",
         req' = [req EXCEPT ![c] = new], mem' \in K!Limiter(Keys), mem'.lock = mem.lock, mem'.since = mem.since, Products',
         req[c].op = "sent" /\ new.op = "acquire" => new.attempt = req[c].attempt + 1 /\ new.todo = req[c].todo
  PROVE  KeepaInv' /\ K!LegalStep
<1>1. mem.lock # c
  BY DEF KeepaInv, K!LimiterSound
<1> QED
  BY <1>1, FetchMoved

LEMMA ProductsStay ==
  ASSUME KeepaInv, db' = db PROVE Products'
BY DEF KeepaInv, Products

LEMMA Rest ==
  ASSUME NEW s \in Seq(Ids), s # <<>>, Len(s) # 1
  PROVE  Tail(s) \in Seq(Ids) \ {<<>>}
<1>1. Len(s) \in Nat /\ Len(s) # 0
  OBVIOUS
<1>2. Tail(s) \in Seq(Ids) /\ Len(Tail(s)) = Len(s) - 1
  OBVIOUS
<1>3. Len(Tail(s)) # 0
  BY <1>1, <1>2
<1>4. ASSUME NEW t \in Seq(Ids), Len(t) # 0
      PROVE  t \in Seq(Ids) \ {<<>>}
  <2>1. t # <<>>
    BY <1>4
  <2> QED
    BY <2>1
<1> QED
  BY <1>2, <1>3, <1>4

\* The next product, or none.
LEMMA FollowingTyped ==
  ASSUME NEW c \in Clients, req[c] \in Fetch
  PROVE  K!Following(c) \in Fetch \cup {K!Idle} /\ K!Following(c).op \in {"look", "idle"}
<1> DEFINE next == [req[c] EXCEPT !.op = "look", !.todo = Tail(@), !.attempt = 0, !.wait = 0]
<1>1. CASE Len(req[c].todo) = 1
  BY <1>1 DEF K!Following, K!Idle
<1>2. CASE Len(req[c].todo) # 1
  <2>1. Tail(req[c].todo) \in Seq(Ids) \ {<<>>}
    BY <1>2, FetchFields, Rest
  <2>2. "look" \in K!Steps \ {"idle"} /\ 0 \in 0 .. K!MaxRetries /\ 0 \in 0 .. K!RetryAfter
    BY DEF K!Steps, K!MaxRetries, K!RetryAfter
  <2>3. next \in Fetch /\ next.op = "look"
    BY <2>1, <2>2 DEF Fetch
  <2> QED
    BY <1>2, <2>3 DEF K!Following
<1> QED
  BY <1>1, <1>2

LEMMA FetchBegins ==
  ASSUME KeepaInv, NEW c \in Clients, NEW todo \in Seq(Ids) \ {<<>>}, NEW job \in BOOLEAN, K!Begin(c, todo, job, K!None)
  PROVE  KeepaInv' /\ K!LegalStep
<1> DEFINE new == [op |-> "look", todo |-> todo, job |-> job, allowance |-> K!None, attempt |-> 0, wait |-> 0]
<1>1. req[c].op = "idle" /\ req' = [req EXCEPT ![c] = new] /\ db' = db /\ mem' = mem
  BY DEF K!Begin
<1>2. new \in Fetch /\ new.op = "look"
  BY DEF Fetch, K!Steps, K!MaxRetries, K!RetryAfter
<1> HIDE DEF new
<1>3. mem \in K!Limiter(Keys) /\ Products'
  BY <1>1, ProductsStay DEF KeepaInv
<1> QED
  BY <1>1, <1>2, <1>3, FetchGoesOn

LEMMA FetchLooks ==
  ASSUME KeepaInv, NEW c \in Clients, K!Look(c) \/ K!Failed(c)
  PROVE  KeepaInv' /\ K!LegalStep
<1> DEFINE new == IF req[c].op = "look" /\ <<Head(req[c].todo), "params">> \notin mem.cache THEN K!Go(c, "acquire") ELSE K!Following(c)
<1>1. req[c].op \in {"look", "failed"} /\ req' = [req EXCEPT ![c] = new] /\ db' = db /\ mem' = mem
  <2>1. CASE K!Look(c)
    BY <2>1 DEF K!Look, K!To
  <2>2. CASE K!Failed(c)
    BY <2>2 DEF K!Failed, K!To
  <2> QED
    BY <2>1, <2>2
<1>2. req[c] \in Fetch /\ mem \in K!Limiter(Keys)
  BY <1>1, AtFetch
<1>3. K!Go(c, "acquire") \in Fetch /\ K!Go(c, "acquire").op = "acquire"
  BY <1>2 DEF K!Go, Fetch, K!Steps
<1>4. new \in Fetch \cup {K!Idle} /\ new.op \in {"acquire", "look", "idle"}
  BY <1>2, <1>3, FollowingTyped
<1> HIDE DEF new
<1>5. Products'
  BY <1>1, ProductsStay
<1> QED
  BY <1>1, <1>2, <1>4, <1>5, FetchGoesOn

LEMMA FetchStored ==
  ASSUME KeepaInv, NEW c \in Clients, K!Answered(c)
  PROVE  KeepaInv' /\ K!LegalStep
<1> DEFINE new == K!Following(c)
           k == Head(req[c].todo)
<1>1. /\ req[c].op = "sent" /\ req' = [req EXCEPT ![c] = new]
      /\ mem' = [mem EXCEPT !.cache = @ \cup {<<k, "params and key">>}]
  BY DEF K!Answered
<1>2. req[c] \in Fetch /\ mem \in K!Limiter(Keys)
  BY <1>1, AtFetch
<1>3. new \in Fetch \cup {K!Idle} /\ new.op \in {"look", "idle"}
  BY <1>2, FollowingTyped
<1>4. k \in Ids
  BY <1>2, FetchFields
<1>5. Products'
  <2>1. PICK raw \in K!RawProducts, stored \in BOOLEAN :
          db' = IF stored THEN [db EXCEPT !.products[k] = <<K!ParseProductResponse(k, raw)>>] ELSE db
    BY DEF K!Answered
  <2>2. CASE ~ stored
    BY <2>1, <2>2, ProductsStay
  <2>3. CASE stored
    <3> DEFINE row == <<K!ParseProductResponse(k, raw)>>
    <3>0. /\ db = [products |-> db.products] /\ db.products = [j \in Ids |-> db.products[j]]
          /\ \A j \in Ids : db.products[j] = <<>> \/ \E other \in K!RawProducts : db.products[j] = <<K!ParseProductResponse(j, other)>>
      BY DEF KeepaInv, Products
    <3>1. db' = [db EXCEPT !.products[k] = row]
      BY <2>1, <2>3
    <3> HIDE DEF row, k
    <3>2. /\ db' = [products |-> db'.products] /\ db'.products = [j \in Ids |-> db'.products[j]]
          /\ \A j \in Ids : db'.products[j] = IF j = k THEN row ELSE db.products[j]
      BY <1>4, <3>0, <3>1
    <3>3. \A j \in Ids : db'.products[j] = <<>> \/ \E other \in K!RawProducts : db'.products[j] = <<K!ParseProductResponse(j, other)>>
      <4> SUFFICES ASSUME NEW j \in Ids
                   PROVE  db'.products[j] = <<>> \/ \E other \in K!RawProducts : db'.products[j] = <<K!ParseProductResponse(j, other)>>
        OBVIOUS
      <4>1. CASE j = k
        BY <3>2, <4>1 DEF row
      <4>2. CASE j # k
        BY <3>0, <3>2, <4>2
      <4> QED
        BY <4>1, <4>2
    <3> QED
      BY <3>2, <3>3 DEF Products
  <2> QED
    BY <2>2, <2>3
<1>6. mem' \in K!Limiter(Keys) /\ mem'.lock = mem.lock /\ mem'.since = mem.since
  <2>1. <<k, "params and key">> \in Keys
    BY <1>4 DEF Keys
  <2> QED
    BY <1>1, <1>2, <2>1 DEF K!Limiter
<1> HIDE DEF new
<1> QED
  BY <1>1, <1>3, <1>5, <1>6, FetchGoesOn

LEMMA FetchRefused ==
  ASSUME KeepaInv, NEW c \in Clients, NEW status \in {401, 429, 500}, K!Refused(c, status)
  PROVE  KeepaInv' /\ K!LegalStep
<1> DEFINE delay == IF status = 429 THEN K!RetryAfter ELSE K!RetryDelay(req[c].attempt)
           again == [K!Go(c, "acquire") EXCEPT !.attempt = @ + 1, !.wait = delay]
           slept == [K!Go(c, "failed") EXCEPT !.wait = K!RetryAfter]
           over == K!Go(c, "failed")
           left == req[c].attempt < K!MaxRetries
           new == CASE status \in {429, 500} /\ left -> again [] status = 429 /\ ~left -> slept [] OTHER -> over
<1>1. req[c].op = "sent" /\ mem' = mem /\ db' = db
  BY DEF K!Refused, K!To
<1>2. req' = [req EXCEPT ![c] = new]
  BY DEF K!Refused, K!To
<1>3. req[c] \in Fetch /\ mem \in K!Limiter(Keys)
  BY <1>1, AtFetch
<1>4. over \in Fetch /\ over.op = "failed" /\ K!Go(c, "acquire") \in Fetch /\ K!Go(c, "acquire").op = "acquire"
      /\ K!Go(c, "acquire").attempt = req[c].attempt /\ K!Go(c, "acquire").todo = req[c].todo
  BY <1>3 DEF K!Go, Fetch, K!Steps
<1>5. slept \in Fetch /\ slept.op = "failed"
  BY <1>4 DEF Fetch, K!RetryAfter
<1>6. ASSUME left
      PROVE  again \in Fetch /\ again.op = "acquire" /\ again.attempt = req[c].attempt + 1 /\ again.todo = req[c].todo
  <2>1. req[c].attempt \in 0 .. K!MaxRetries
    BY <1>3, FetchFields
  <2>2. delay \in 0 .. K!RetryAfter
    <3>1. req[c].attempt + 1 = 1 \/ req[c].attempt + 1 = 2
      BY <1>6, <2>1 DEF K!MaxRetries
    <3>2. K!RetryDelay(req[c].attempt) \in {1, 2}
      BY <3>1 DEF K!RetryDelay, K!Least, K!RetryMaxDelay
    <3> QED
      BY <3>2 DEF K!RetryAfter
  <2>3. req[c].attempt + 1 \in 0 .. K!MaxRetries
    BY <1>6, <2>1 DEF K!MaxRetries
  <2> HIDE DEF delay
  <2> QED
    BY <1>4, <2>2, <2>3 DEF Fetch
<1>7. /\ new \in Fetch /\ new.op \in {"failed", "acquire"}
      /\ new.op = "acquire" => new.attempt = req[c].attempt + 1 /\ new.todo = req[c].todo
  <2> HIDE DEF again, slept, over
  <2>1. CASE status \in {429, 500} /\ left
    <3>1. new = again
      BY <2>1
    <3> QED
      BY <1>6, <2>1, <3>1
  <2>2. CASE ~ (status \in {429, 500} /\ left)
    <3>1. new \in {slept, over}
      BY <2>2
    <3> QED
      BY <1>4, <1>5, <3>1
  <2> QED
    BY <2>1, <2>2
<1> HIDE DEF delay, again, slept, over, left, new
<1>8. Products'
  BY <1>1, ProductsStay
<1>9. new \in Fetch \cup {K!Idle} /\ new.op # "wait" /\ req[c].op # "wait"
  BY <1>1, <1>7
<1>10. mem' \in K!Limiter(Keys) /\ mem'.lock = mem.lock /\ mem'.since = mem.since
  BY <1>1, <1>3 DEF K!Limiter, Keys
<1>11. req[c].op = "sent" /\ new.op = "acquire" => new.attempt = req[c].attempt + 1 /\ new.todo = req[c].todo
  BY <1>7
<1> QED
  BY <1>2, <1>8, <1>9, <1>10, <1>11, FetchGoesOn, ZenonT(30)

LEMMA FetchAcquires ==
  ASSUME KeepaInv, NEW c \in Clients, K!Acquire(c)
  PROVE  KeepaInv' /\ K!LegalStep
<1> DEFINE going == K!Go(c, "wait")
           new == [going EXCEPT !.wait = K!MinInterval - mem.since]
<1>1. /\ req[c].op = "acquire" /\ mem.lock = K!Nobody /\ req' = [req EXCEPT ![c] = new]
      /\ mem' = [mem EXCEPT !.lock = c] /\ db' = db
  BY DEF K!Acquire, K!To
<1>2. req[c] \in Fetch /\ mem \in K!Limiter(Keys)
  BY <1>1, AtFetch
<1>3. mem.since \in 0 .. K!MinInterval /\ K!MinInterval - mem.since \in 0 .. K!RetryAfter
  BY <1>2 DEF K!Limiter, K!MinInterval, K!RetryAfter
<1>4. going \in Fetch /\ going.op = "wait"
  BY <1>2 DEF K!Go, Fetch, K!Steps
<1> HIDE DEF going
<1>5. new \in Fetch /\ new.op = "wait" /\ new.wait = K!MinInterval - mem.since
  BY <1>3, <1>4 DEF Fetch
<1> HIDE DEF new
<1>6. mem' \in K!Limiter(Keys) /\ mem'.lock = c /\ mem'.since = mem.since
  BY <1>1, <1>2 DEF K!Limiter
<1>7. \A d \in Clients \ {c} : mem'.lock = d <=> mem.lock = d
  BY <1>1, <1>6, NamesAssumption DEF K!Nobody, Nobody
<1>8. mem'.since + new.wait >= K!MinInterval
  BY <1>3, <1>5, <1>6 DEF K!MinInterval
<1>9. Products'
  BY <1>1, ProductsStay
<1> QED
  BY <1>1, <1>5, <1>6, <1>7, <1>8, <1>9, FetchMoved

LEMMA FetchSent ==
  ASSUME KeepaInv, NEW c \in Clients, K!Send(c)
  PROVE  KeepaInv' /\ K!LegalStep
<1> DEFINE new == K!Go(c, "sent")
<1>1. /\ req[c].op = "wait" /\ req[c].wait = 0 /\ req' = [req EXCEPT ![c] = new]
      /\ mem' = [mem EXCEPT !.since = 0, !.lock = K!Nobody] /\ db' = db
  BY DEF K!Send, K!To
<1>2. req[c] \in Fetch /\ mem \in K!Limiter(Keys) /\ mem.lock = c /\ mem.since + 0 >= K!MinInterval
  BY <1>1, AtFetch
<1>3. mem.since = K!MinInterval
  BY <1>2 DEF K!Limiter, K!MinInterval
<1>4. new \in Fetch /\ new.op = "sent"
  BY <1>2 DEF K!Go, Fetch, K!Steps
<1> HIDE DEF new
<1>5. mem' \in K!Limiter(Keys) /\ mem'.lock = K!Nobody /\ mem'.since = 0
  <2>1. mem' = [since |-> 0, lock |-> K!Nobody, cache |-> mem.cache, running |-> mem.running]
    BY <1>1, <1>2 DEF K!Limiter
  <2>2. mem.cache \subseteq Keys /\ mem.running \in BOOLEAN /\ 0 \in 0 .. K!MinInterval
    BY <1>2 DEF K!Limiter, K!MinInterval
  <2> QED
    BY <2>1, <2>2 DEF K!Limiter
<1>6. mem'.lock \notin Clients
  BY <1>5, NamesAssumption DEF K!Nobody, Nobody
<1>7. Products'
  BY <1>1, ProductsStay
<1>8. \A d \in Clients \ {c} : mem'.lock = d <=> mem.lock = d
  BY <1>2, <1>6
<1> QED
  BY <1>1, <1>2, <1>3, <1>4, <1>5, <1>6, <1>7, <1>8, FetchMoved

\* Steps that no request takes: the requests of a set end, the others go on as they were but
\* for the time they sleep.
LEMMA FetchTicks ==
  ASSUME KeepaInv, K!Tick
  PROVE  KeepaInv' /\ K!LegalStep
<1> DEFINE rest(c) == K!Greatest(0, req[c].wait - 1)
           slept(c) == [req[c] EXCEPT !.wait = rest(c)]
<1>1. /\ mem' = [mem EXCEPT !.since = K!Least(mem.since + 1, K!MinInterval)] /\ db' = db
      /\ req' = [c \in Clients |-> IF req[c].op = "idle" THEN K!Idle ELSE slept(c)]
  BY DEF K!Tick
<1>2. mem \in K!Limiter(Keys) /\ K!Idle.op = "idle" /\ \A c \in Clients : req[c] \in Fetch \cup {K!Idle}
  BY DEF KeepaInv, K!Idle
<1>3. ASSUME NEW c \in Clients, req[c].op # "idle"
      PROVE  /\ req'[c] \in Fetch /\ req'[c].op = req[c].op /\ req'[c].wait \in Nat /\ req'[c].wait >= req[c].wait - 1
             /\ req[c].wait \in Nat
  <2>1. req[c] \in Fetch /\ req[c].wait \in 0 .. K!RetryAfter
    BY <1>3, AtFetch, FetchFields
  <2>2. rest(c) \in 0 .. K!RetryAfter /\ rest(c) >= req[c].wait - 1
    BY <2>1 DEF K!Greatest, K!RetryAfter
  <2> HIDE DEF rest
  <2>3. slept(c) \in Fetch /\ slept(c).op = req[c].op /\ slept(c).wait = rest(c)
    BY <2>1, <2>2 DEF Fetch
  <2>4. req'[c] = slept(c)
    BY <1>1, <1>3
  <2> QED
    BY <2>1, <2>2, <2>3, <2>4 DEF K!RetryAfter
<1>4. ASSUME NEW c \in Clients, req[c].op = "idle" PROVE req'[c] = K!Idle
  BY <1>1, <1>4
<1>5. \A c \in Clients : req'[c].op = req[c].op /\ req'[c] \in Fetch \cup {K!Idle}
  BY <1>2, <1>3, <1>4
<1>6. /\ mem' \in K!Limiter(Keys) /\ mem'.lock = mem.lock /\ mem.since \in Nat /\ mem'.since \in Nat
      /\ mem'.since >= mem.since /\ (mem'.since = K!MinInterval \/ mem'.since = mem.since + 1)
  BY <1>1, <1>2 DEF K!Limiter, K!Least, K!MinInterval
<1>7. K!LimiterSound'
  <2>1. ASSUME NEW c \in Clients, req[c].op = "wait" PROVE mem'.since + req'[c].wait >= K!MinInterval
    <3>1. mem.since + req[c].wait >= K!MinInterval /\ K!MinInterval \in Nat
      BY <2>1 DEF KeepaInv, K!LimiterSound, K!MinInterval
    <3>2. req'[c].wait \in Nat /\ req'[c].wait >= req[c].wait - 1 /\ req[c].wait \in Nat
      BY <1>3, <2>1
    <3> QED
      BY <1>6, <3>1, <3>2
  <2>2. \A c \in Clients : req[c].op = "wait" <=> mem'.lock = c
    BY <1>6 DEF KeepaInv, K!LimiterSound
  <2> QED
    BY <1>5, <2>1, <2>2 DEF K!LimiterSound
<1>8. KeepaInv'
  <2>1. req' = [c \in Clients |-> req'[c]]
    BY <1>1
  <2>2. (mem \in K!Limiter(Keys))' /\ Products'
    BY <1>1, <1>6, ProductsStay DEF K!Limiter, Keys
  <2> QED
    BY <1>5, <1>7, <2>1, <2>2 DEF KeepaInv, K!Idle
<1>9. ~ (mem'.since < mem.since)
  BY <1>6
<1> QED
  BY <1>5, <1>8, <1>9 DEF K!LegalStep, K!Paced

LEMMA FetchStops ==
  ASSUME KeepaInv, K!StopJob
  PROVE  KeepaInv' /\ K!LegalStep
<1> DEFINE Stopped == K!Refreshing
           lock == IF mem.lock \in Stopped THEN K!Nobody ELSE mem.lock
<1>1. /\ mem' = [mem EXCEPT !.running = FALSE, !.lock = IF @ \in Stopped THEN K!Nobody ELSE @]
      /\ req' = [c \in Clients |-> IF c \in Stopped THEN K!Idle ELSE req[c]] /\ db' = db
  BY DEF K!StopJob, K!CancelJob
<1>2. mem \in K!Limiter(Keys) /\ K!LimiterSound /\ K!Idle.op = "idle" /\ \A c \in Clients : req[c] \in Fetch \cup {K!Idle}
  BY DEF KeepaInv, K!Idle
<1>3. Stopped \subseteq Clients
  BY DEF K!Refreshing
<1>4. mem'.lock = lock /\ mem'.since = mem.since /\ mem' \in K!Limiter(Keys)
  <2>1. mem' = [since |-> mem.since, lock |-> lock, cache |-> mem.cache, running |-> FALSE]
    BY <1>1, <1>2 DEF K!Limiter
  <2>2. lock \in Clients \cup {K!Nobody} /\ mem.cache \subseteq Keys /\ mem.since \in 0 .. K!MinInterval
    BY <1>2 DEF K!Limiter
  <2> HIDE DEF lock
  <2> QED
    BY <2>1, <2>2 DEF K!Limiter
<1> HIDE DEF Stopped
<1>5. \A c \in Clients : req'[c] = IF c \in Stopped THEN K!Idle ELSE req[c]
  BY <1>1
<1>6. K!LimiterSound'
  BY <1>2, <1>3, <1>4, <1>5, NamesAssumption DEF K!LimiterSound, K!Nobody, Nobody
<1>7. KeepaInv'
  <2>1. req' = [c \in Clients |-> req'[c]] /\ \A c \in Clients : req'[c] \in Fetch \cup {K!Idle}
    BY <1>1, <1>2, <1>5
  <2>2. (mem \in K!Limiter(Keys))' /\ Products'
    BY <1>1, <1>4, ProductsStay DEF K!Limiter, Keys
  <2> QED
    BY <1>6, <2>1, <2>2 DEF KeepaInv, K!Idle
<1>8. \A c \in Clients : ~ (req[c].op = "sent" /\ req'[c].op = "acquire")
  BY <1>2, <1>5
<1>9. ~ (mem'.since < mem.since)
  BY <1>2, <1>4 DEF K!Limiter
<1> QED
  BY <1>7, <1>8, <1>9 DEF K!LegalStep, K!Paced

LEMMA FetchStarts ==
  ASSUME KeepaInv, K!StartJob \/ UNCHANGED K!sessionVars
  PROVE  KeepaInv' /\ (K!LegalStep \/ UNCHANGED K!sessionVars)
<1>1. CASE UNCHANGED K!sessionVars
  BY <1>1 DEF K!sessionVars, KeepaInv, Products, K!LimiterSound, K!Limiter, K!Idle, Keys
<1>2. CASE K!StartJob
  <2>1. req' = req /\ db' = db /\ mem' = [mem EXCEPT !.running = TRUE] /\ mem \in K!Limiter(Keys)
    BY <1>2 DEF K!StartJob, KeepaInv
  <2>2. mem' \in K!Limiter(Keys) /\ mem'.since = mem.since /\ mem'.lock = mem.lock
    BY <2>1 DEF K!Limiter
  <2>3. (mem \in K!Limiter(Keys))' /\ Products'
    BY <2>1, <2>2, ProductsStay DEF K!Limiter, Keys
  <2>4. KeepaInv'
    BY <2>1, <2>2, <2>3 DEF KeepaInv, K!LimiterSound, K!Idle
  <2>5. ~ (mem'.since < mem.since)
    BY <2>1, <2>2 DEF K!Limiter
  <2> QED
    BY <2>1, <2>4, <2>5 DEF K!LegalStep, K!Paced
<1> QED
  BY <1>1, <1>2

LEMMA KNumbers ==
  /\ \A S : K!Cardinality(S) = Cardinality(S)
  /\ \A s, places : K!Selected(s, places) = Selected(s, places)
  /\ \A s : K!ToSet(s) = {s[i] : i \in DOMAIN s}
<1>1. ASSUME NEW S PROVE K!Cardinality(S) = Cardinality(S)
  BY DEF K!Cardinality, Cardinality
<1>2. ASSUME NEW s, NEW places PROVE K!Selected(s, places) = Selected(s, places)
  BY DEF K!Selected, Selected, K!InOrder, InOrder, K!Cardinality, Cardinality
<1>3. ASSUME NEW s PROVE K!ToSet(s) = {s[i] : i \in DOMAIN s}
  BY DEF K!ToSet
<1> QED
  BY <1>1, <1>2, <1>3

\* What is selected from a sequence.

LEMMA KIdsAsSequence == K!SetToSeq(Ids) \in Seq(Ids) \ {<<>>}
<1> DEFINE n == Cardinality(Ids)
<1>1. n \in Nat /\ ExistsBijection(1 .. n, Ids)
  BY SessionsAssumption, FS_CardinalityType
<1>2. PICK f \in [1 .. n -> Ids] : \A a, b \in 1 .. n : f[a] = f[b] => a = b
  BY <1>1 DEF ExistsBijection, Bijection, Injection, Surjection, IsInjective
<1>3. n # 0
  BY <1>1, NamesAssumption, SessionsAssumption, FS_EmptySet
<1>4. K!SetToSeq(Ids) = CHOOSE g \in [1 .. n -> Ids] : K!IsInjective(g)
  BY KNumbers DEF K!SetToSeq
<1>5. K!IsInjective(f)
  BY <1>2 DEF K!IsInjective
<1>6. K!SetToSeq(Ids) \in [1 .. n -> Ids]
  BY <1>2, <1>4, <1>5
<1> HIDE DEF n
<1>7. K!SetToSeq(Ids) \in Seq(Ids) /\ Len(K!SetToSeq(Ids)) = n
  BY <1>1, <1>6
<1> QED
  BY <1>3, <1>7

LEMMA KeepaStep ==
  ASSUME KeepaInv, [K!Next]_K!sessionVars
  PROVE  KeepaInv' /\ (K!LegalStep \/ UNCHANGED K!sessionVars)
<1>1. ASSUME NEW c \in Clients, K!FetchAndStore(c) PROVE KeepaInv' /\ K!LegalStep
  <2>1. PICK k \in Ids : K!Begin(c, <<k>>, FALSE, K!None)
    BY <1>1 DEF K!FetchAndStore
  <2>2. <<k>> \in Seq(Ids) \ {<<>>}
    OBVIOUS
  <2> QED
    BY <2>1, <2>2, FetchBegins
<1>2. ASSUME NEW c \in Clients, K!RefreshWatchlist(c) PROVE KeepaInv' /\ K!LegalStep
  <2>1. K!Begin(c, K!SetToSeq(Ids), TRUE, K!None)
    BY <1>2 DEF K!RefreshWatchlist
  <2> QED
    BY <2>1, FetchBegins, KIdsAsSequence
<1>3. ASSUME NEW c \in Clients, K!Look(c) \/ K!Acquire(c) \/ K!Send(c) \/ K!Answered(c) \/ K!Failed(c)
      PROVE  KeepaInv' /\ K!LegalStep
  BY <1>3, FetchLooks, FetchAcquires, FetchSent, FetchStored
<1>4. ASSUME NEW c \in Clients, NEW status \in {401, 429, 500}, K!Refused(c, status) PROVE KeepaInv' /\ K!LegalStep
  BY <1>4, FetchRefused
<1> QED
  BY <1>1, <1>2, <1>3, <1>4, FetchTicks, FetchStops, FetchStarts DEF K!Next

SelectionOf(s, places) ==
  /\ Cardinality(places) \in Nat /\ DOMAIN Selected(s, places) = 1 .. Cardinality(places)
  /\ {Selected(s, places)[m] : m \in 1 .. Cardinality(places)} = {s[i] : i \in places}

\* What is selected from a sequence are its elements there, as many as there are places.
LEMMA SelectedIs ==
  ASSUME NEW n \in Nat, NEW s, NEW places \in SUBSET (1 .. n)
  PROVE  SelectionOf(s, places)
<1>1. /\ Cardinality(places) \in Nat /\ Cardinality(places) <= n
      /\ InOrder(places) \in [1 .. Cardinality(places) -> places]
      /\ \A i \in places : \E m \in 1 .. Cardinality(places) : InOrder(places)[m] = i
  BY InOrderIs
<1>2. Selected(s, places) = [m \in 1 .. Cardinality(places) |-> s[InOrder(places)[m]]]
  BY DEF Selected
<1> DEFINE k == Cardinality(places)
           at == InOrder(places)
           found == Selected(s, places)
<1>3. Len(found) = k /\ DOMAIN found = 1 .. k /\ \A m \in 1 .. k : found[m] = s[at[m]]
  BY <1>1, <1>2
<1>4. at \in [1 .. k -> places] /\ \A i \in places : \E m \in 1 .. k : at[m] = i
  BY <1>1
<1> HIDE DEF k, at, found
<1>5. {found[m] : m \in 1 .. k} = {s[i] : i \in places}
  <2>1. \A m \in 1 .. k : at[m] \in places /\ found[m] = s[at[m]]
    BY <1>3, <1>4
  <2>2. \A i \in places : \E m \in 1 .. k : found[m] = s[i]
    BY <1>3, <1>4
  <2>3. ASSUME NEW m \in 1 .. k PROVE found[m] \in {s[i] : i \in places}
    BY <2>1
  <2>4. ASSUME NEW i \in places PROVE s[i] \in {found[m] : m \in 1 .. k}
    BY <2>2
  <2> QED
    BY <2>3, <2>4
<1> QED
  BY <1>1, <1>3, <1>5 DEF k, found, SelectionOf

LEMMA SelectedOfFour ==
  ASSUME NEW s, NEW places \in SUBSET (1 .. 4)
  PROVE  SelectionOf(s, places)
BY SelectedIs

LEMMA Pair ==
  ASSUME NEW a, NEW b, a # b
  PROVE  IsFiniteSet({a, b}) /\ Cardinality({a, b}) = 2
<1>1. IsFiniteSet({a}) /\ Cardinality({a}) = 1
  BY FS_Singleton
<1>2. {a, b} = {a} \cup {b}
  OBVIOUS
<1> QED
  BY <1>1, <1>2, FS_AddElement

\* What a product of Keepa has been parsed to.
ProductSound(k, p) ==
  /\ p.asin = k /\ p.count <= Len(p.sellers) /\ p.fba <= Len(p.offers) /\ Len(p.sellers) <= Len(p.offers) + 1
  /\ \A i \in DOMAIN p.amazon : p.amazon[i].price >= 0

LEMMA Parsed ==
  ASSUME NEW k \in Ids, NEW raw \in K!RawProducts
  PROVE  ProductSound(k, K!ParseProductResponse(k, raw))
<1> DEFINE p == K!ParseProductResponse(k, raw)
<1>0. PICK found \in BOOLEAN, malformed \in BOOLEAN :
        raw = K!RawProduct(found, malformed)
  BY DEF K!RawProducts
<1>1. CASE ~ raw.found
  BY <1>1 DEF K!ParseProductResponse, ProductSound
<1>2. CASE raw.found
  <2> DEFINE offers == raw.offers
             readable == {i \in DOMAIN offers : ~ offers[i].malformed}
             first == {i \in DOMAIN offers : offers[i].seller # K!NoName /\ \A j \in 1 .. i - 1 : offers[j].seller # offers[i].seller}
             read == Selected(offers, readable)
             named == Selected(offers, first)
             names == {o.seller : o \in K!ToSet(p.offers)} \ {K!NoName}
  <2>1. /\ p.asin = k /\ p.offers = K!ParseOffers(offers) /\ p.sellers = K!ParseSellers(offers)
        /\ p.amazon = K!ParsePriceArray(raw.amazon)
        /\ p.count = K!Cardinality(names)
        /\ p.fba = K!Cardinality({i \in DOMAIN p.offers : p.offers[i].fba})
    BY <1>2 DEF K!ParseProductResponse
  <2>2. /\ p.offers = [i \in DOMAIN read |-> [seller |-> read[i].seller, price |-> K!DecodePrice(read[i].price), fba |-> read[i].fba]]
        /\ p.sellers = [i \in DOMAIN named |-> named[i].seller]
    BY <2>1, KNumbers DEF K!ParseOffers, K!ParseSellers, K!Filter
  <2>3. /\ offers[1].seller = "s1" /\ offers[2].seller = "s1" /\ offers[3].seller = "s2" /\ offers[4].seller = K!NoName
        /\ ~ offers[1].malformed /\ ~ offers[2].malformed /\ DOMAIN offers = 1 .. 4
    BY <1>0 DEF K!RawProduct, K!Offer
  <2>n. K!NoName # "s1" /\ K!NoName # "s2" /\ "s1" # "s2"
    BY Zenon DEF K!NoName
  <2> HIDE DEF p, offers
  <2>4. first = {1, 3}
    <3>1. 1 \in first /\ 3 \in first
      BY <2>3, <2>n
    <3>2. 2 \notin first /\ 4 \notin first
      BY <2>3, <2>n
    <3>3. \A i \in first : i \in {1, 2, 3, 4}
      BY <2>3
    <3> HIDE DEF first
    <3> QED
      BY <3>1, <3>2, <3>3
  <2>5. readable \in SUBSET (1 .. 4) /\ {1, 2} \subseteq readable /\ first \in SUBSET (1 .. 4)
    BY <2>3
  <2>6. \A i \in readable : offers[i].seller \in {"s1", "s2", K!NoName}
    <3>1. \A i \in 1 .. 4 : i = 1 \/ i = 2 \/ i = 3 \/ i = 4
      OBVIOUS
    <3> QED
      BY <2>3, <2>5, <3>1
  <2> HIDE DEF readable, first
  <2>7. /\ DOMAIN read = 1 .. Cardinality(readable) /\ Cardinality(readable) \in Nat
        /\ {read[m] : m \in 1 .. Cardinality(readable)} = {offers[i] : i \in readable}
        /\ DOMAIN named = 1 .. Cardinality(first)
    <3>1. SelectionOf(offers, readable)
      <4>1. readable \in SUBSET (1 .. 4)
        BY <2>5
      <4> QED
        BY <4>1, SelectedOfFour
    <3>2. SelectionOf(offers, first)
      <4>1. first \in SUBSET (1 .. 4)
        BY <2>5
      <4> QED
        BY <4>1, SelectedOfFour
    <3> QED
      BY <3>1, <3>2 DEF SelectionOf
  <2> HIDE DEF read, named
  <2>8. Cardinality(first) = 2
    BY <2>4, Pair
  <2>9. Len(p.sellers) = 2 /\ Len(p.offers) = Cardinality(readable)
    BY <2>2, <2>7, <2>8
  <2>10. Cardinality(readable) >= 2
    <3>1. IsFiniteSet(readable)
      <4>1. \A n \in Nat : IsFiniteSet(1 .. n)
        BY FS_Interval
      <4>2. IsFiniteSet(1 .. 4)
        BY <4>1
      <4> QED
        BY <2>5, <4>2, FS_Subset
    <3>2. Cardinality({1, 2}) = 2
      <4>1. 1 # 2
        OBVIOUS
      <4> QED
        BY <4>1, Pair, Zenon
    <3>3. Cardinality({1, 2}) <= Cardinality(readable)
      BY <2>5, <3>1, FS_Subset
    <3> QED
      BY <2>7, <3>2, <3>3
  <2>11. p.count <= 2
    <3>1. names \subseteq {"s1", "s2"}
      <4> SUFFICES ASSUME NEW m \in DOMAIN p.offers, p.offers[m].seller # K!NoName PROVE p.offers[m].seller \in {"s1", "s2"}
        BY KNumbers
      <4>1. m \in 1 .. Cardinality(readable) /\ p.offers[m].seller = read[m].seller
        BY <2>2, <2>7
      <4>2. PICK i \in readable : read[m] = offers[i]
        BY <2>7, <4>1
      <4> QED
        BY <2>6, <4>1, <4>2
    <3> HIDE DEF names
    <3>2. IsFiniteSet({"s1", "s2"}) /\ Cardinality({"s1", "s2"}) = 2
      BY Pair
    <3>3. IsFiniteSet(names) /\ Cardinality(names) <= 2
      BY <3>1, <3>2, FS_Subset
    <3> QED
      BY <2>1, <3>3, KNumbers
  <2>12. p.fba <= Len(p.offers)
    <3> DEFINE fba == {i \in DOMAIN p.offers : p.offers[i].fba}
    <3>1. fba \subseteq 1 .. Cardinality(readable)
      BY <2>2, <2>7
    <3> HIDE DEF fba
    <3>2. IsFiniteSet(1 .. Cardinality(readable)) /\ Cardinality(1 .. Cardinality(readable)) = Cardinality(readable)
      BY <2>7, FS_Interval
    <3>3. Cardinality(fba) <= Cardinality(readable)
      BY <3>1, <3>2, FS_Subset
    <3>4. p.fba = Cardinality(fba)
      BY <2>1, KNumbers DEF fba
    <3> QED
      BY <2>9, <3>3, <3>4
  <2>13. \A i \in DOMAIN p.amazon : p.amazon[i].price >= 0
    <3> DEFINE data == <<1, 1500, 9, -1, 12>>
    <3>1. p.amazon = K!ParsePriceArray(data)
      BY <1>0, <2>1 DEF K!RawProduct
    <3>2. Len(data) = 5 /\ data \in Seq(Int)
      OBVIOUS
    <3> HIDE DEF data
    <3>3. p.amazon = [i \in 1 .. 2 |-> [at |-> data[2 * i - 1], price |-> K!DecodePrice(data[2 * i])]]
      BY <3>1, <3>2 DEF K!ParsePriceArray
    <3>4. \A i \in 1 .. 2 : data[2 * i] \in Int
      <4>1. data[2] = 1500 /\ data[4] = -1
        BY DEF data
      <4>2. \A i \in 1 .. 2 : 2 * i = 2 \/ 2 * i = 4
        OBVIOUS
      <4> QED
        BY <4>1, <4>2
    <3> QED
      BY <3>3, <3>4 DEF K!DecodePrice
  <2> QED
    BY <2>1, <2>7, <2>9, <2>10, <2>11, <2>12, <2>13 DEF ProductSound, p
<1> QED
  BY <1>1, <1>2

LEMMA KeepaInit == K!Init => KeepaInv
<1> SUFFICES ASSUME K!Init PROVE KeepaInv
  OBVIOUS
<1>1. req = [c \in Clients |-> req[c]] /\ \A c \in Clients : req[c] = K!Idle
  BY DEF K!Init, K!NoRequests
<1>2. mem \in K!Limiter(Keys) /\ mem.lock = K!Nobody
  BY DEF K!Init, K!Ready, K!Limiter, K!MinInterval
<1>3. K!LimiterSound
  BY <1>1, <1>2, NamesAssumption DEF K!LimiterSound, K!Idle, K!Nobody, Nobody
<1>4. Products
  BY DEF K!Init, Products
<1> QED
  BY <1>1, <1>2, <1>3, <1>4 DEF KeepaInv

LEMMA KeepaSafe ==
  ASSUME KeepaInv
  PROVE  K!TypeOK /\ K!Integrity
<1>1. K!RequestsTyped
  <2>1. K!Idle.op = "idle" /\ "idle" \in K!Steps
    BY DEF K!Idle, K!Steps
  <2> QED
    BY <2>1, FetchFields DEF KeepaInv, K!RequestsTyped
<1>2. mem \in K!Limiter(Ids \X {"params", "params and key"})
  BY DEF KeepaInv, Keys
<1>3. db.products \in [Ids -> {<<>>} \cup Seq(Told)]
  <2>1. \A k \in Ids, raw \in K!RawProducts : K!ParseProductResponse(k, raw) \in Told
    BY DEF Told
  <2>2. \A x \in Told : <<x>> \in Seq(Told)
    OBVIOUS
  <2>3. \A k \in Ids : db.products[k] \in {<<>>} \cup Seq(Told)
    BY <2>1, <2>2 DEF KeepaInv, Products
  <2> QED
    BY <2>3 DEF KeepaInv, Products
<1>4. \A k \in Ids : \A p \in K!ToSet(db.products[k]) : ProductSound(k, p)
  <2> SUFFICES ASSUME NEW k \in Ids, NEW p \in K!ToSet(db.products[k]) PROVE ProductSound(k, p)
    OBVIOUS
  <2>1. CASE db.products[k] = <<>>
    BY <2>1, KNumbers
  <2>2. ASSUME NEW raw \in K!RawProducts, db.products[k] = <<K!ParseProductResponse(k, raw)>>
        PROVE  ProductSound(k, p)
    <3>1. p = K!ParseProductResponse(k, raw)
      BY <2>2, KNumbers
    <3> QED
      BY <3>1, Parsed
  <2> QED
    BY <2>1, <2>2 DEF KeepaInv, Products
<1>5. \A k \in Ids : \A p \in K!ToSet(db.products[k]) :
        /\ p.asin = k /\ p.count <= Len(p.sellers) /\ p.fba <= Len(p.offers) /\ Len(p.sellers) <= Len(p.offers) + 1
        /\ \A point \in K!ToSet(p.amazon) : point.price >= 0
  BY <1>4, KNumbers DEF ProductSound
<1>6. K!LimiterSound
  BY DEF KeepaInv
<1>7. K!TypeOK
  <2> HIDE DEF KeepaInv
  <2>1. K!TypeOK <=> /\ mem \in K!Limiter(Ids \X {"params", "params and key"}) /\ K!RequestsTyped
                     /\ db.products \in [Ids -> {<<>>} \cup Seq(Told)]
    BY DEF K!TypeOK, Told
  <2> QED
    BY <1>1, <1>2, <1>3, <2>1
<1>8. K!Integrity
  BY <1>5, <1>6, Zenon DEF K!Integrity
<1> QED
  BY <1>7, <1>8

LEMMA KeepaInvariant == K!Spec => []KeepaInv
<1>1. KeepaInv /\ [K!Next]_K!sessionVars => KeepaInv'
  BY KeepaStep
<1> QED
  BY KeepaInit, <1>1, PTL DEF K!Spec

\* Whatever Keepa answers, a product is stored under its own ASIN, counts each of its sellers once
\* and has no negative price; the lock of the limiter is with the one that waits for the interval,
\* and for long enough (parser._parse_product_response, KeepaRateLimiter.acquire).
THEOREM KeepaIntegrity == K!Spec => [](K!TypeOK /\ K!Integrity)
<1>1. KeepaInv => K!TypeOK /\ K!Integrity
  BY KeepaSafe
<1> QED
  BY <1>1, KeepaInvariant, PTL

\* Two requests to Keepa are the limiter's interval apart, with the job cancelled in between or not,
\* and a product is asked for again only as one more of its attempts (KeepaClient._request).
THEOREM KeepaLegalSteps == K!Spec => [][K!LegalStep]_K!sessionVars
<1>1. KeepaInv /\ [K!Next]_K!sessionVars => [K!LegalStep]_K!sessionVars
  BY KeepaStep
<1> QED
  BY <1>1, KeepaInvariant, PTL DEF K!Spec

-----------------------------------------------------------------------------
(***************************************************************************)
(* The history of a product.  An answer that is being put together rests   *)
(* on rows that are still there when its next query runs, since nothing    *)
(* removes any; so the range that comes after a list covers it, and a      *)
(* latest row is no older than those that were listed.                     *)
(***************************************************************************)
H == INSTANCE History

\* Every row of the one is in the other.
From(list, rows) == \A i \in DOMAIN list : \E j \in DOMAIN rows : rows[j] = list[i]
Falling(list) == \A i, j \in DOMAIN list : i < j => list[i].date >= list[j].date
Dated(rows) == Len(rows) \in Nat /\ DOMAIN rows = 1 .. Len(rows) /\ \A i \in DOMAIN rows : rows[i].date \in Int

\* What is listed of some rows, the latest first, and which of them is the latest.
InOrderOf(list, rows) == Dated(list) /\ Len(list) = Len(rows) /\ From(list, rows) /\ From(rows, list) /\ Falling(list)
LatestOf(latest, rows) ==
  rows # <<>> => /\ latest # <<>> /\ \E j \in DOMAIN rows : latest[1] = rows[j]
                 /\ \A i \in DOMAIN rows : latest[1].date >= rows[i].date

LEMMA HNumbers ==
  /\ \A S : H!Cardinality(S) = Cardinality(S)
  /\ \A s, places : H!Selected(s, places) = Selected(s, places)
  /\ \A keys : H!Placing(keys) = Placing(keys)
  /\ \A s : H!ToSet(s) = {s[i] : i \in DOMAIN s}
<1>1. ASSUME NEW S PROVE H!Cardinality(S) = Cardinality(S)
  BY DEF H!Cardinality, Cardinality
<1>2. ASSUME NEW s, NEW places PROVE H!Selected(s, places) = Selected(s, places)
  BY DEF H!Selected, Selected, H!InOrder, InOrder, H!Cardinality, Cardinality
<1>3. ASSUME NEW keys PROVE H!Placing(keys) = Placing(keys)
  BY DEF H!Placing, Placing, H!Better, Better, H!Cardinality, Cardinality
<1>4. ASSUME NEW s PROVE H!ToSet(s) = {s[i] : i \in DOMAIN s}
  BY DEF H!ToSet
<1> QED
  BY <1>1, <1>2, <1>3, <1>4

LEMMA DescendingIs ==
  ASSUME NEW rows, Dated(rows)
  PROVE  InOrderOf(H!Descending(rows), rows)
<1> DEFINE n == Len(rows)
           keys == [i \in 1 .. n |-> rows[i].date]
           order == Placing(keys)
           list == H!Descending(rows)
<1>1. n \in Nat /\ keys \in [1 .. n -> Int] /\ DOMAIN rows = 1 .. n /\ \A i \in 1 .. n : keys[i] = rows[i].date
  BY DEF Dated
<1>2. list = [m \in 1 .. n |-> rows[order[m]]]
  BY HNumbers DEF H!Descending, H!Ranked
<1>3. Len(list) = n /\ DOMAIN list = 1 .. n /\ \A m \in 1 .. n : list[m] = rows[order[m]]
  BY <1>1, <1>2
<1> HIDE DEF n, keys, list
<1>4. /\ order \in [1 .. n -> 1 .. n]
      /\ \A i \in 1 .. n : \E m \in 1 .. n : order[m] = i
      /\ \A m, k \in 1 .. n : m < k => keys[order[m]] >= keys[order[k]]
  BY <1>1, PlacingIs
<1> HIDE DEF order
<1>5. \A m \in 1 .. n : order[m] \in 1 .. n /\ list[m] = rows[order[m]] /\ keys[order[m]] = list[m].date /\ list[m].date \in Int
  <2> SUFFICES ASSUME NEW m \in 1 .. n
               PROVE  order[m] \in 1 .. n /\ list[m] = rows[order[m]] /\ keys[order[m]] = list[m].date /\ list[m].date \in Int
    OBVIOUS
  <2>1. order[m] \in 1 .. n
    BY <1>4
  <2>2. list[m] = rows[order[m]]
    BY <1>3
  <2>3. keys[order[m]] = rows[order[m]].date /\ rows[order[m]].date \in Int
    BY <1>1, <2>1 DEF Dated
  <2> QED
    BY <2>1, <2>2, <2>3
<1>6. Dated(list)
  BY <1>1, <1>3, <1>5 DEF Dated
<1>7. From(list, rows)
  BY <1>1, <1>3, <1>5 DEF From
<1>8. From(rows, list)
  <2>1. ASSUME NEW i \in DOMAIN rows PROVE \E m \in DOMAIN list : list[m] = rows[i]
    <3>1. PICK m \in 1 .. n : order[m] = i
      BY <1>1, <1>4
    <3> QED
      BY <1>3, <3>1
  <2> QED
    BY <2>1 DEF From
<1>9. Falling(list)
  <2> SUFFICES ASSUME NEW i \in 1 .. n, NEW j \in 1 .. n, i < j PROVE list[i].date >= list[j].date
    BY <1>3 DEF Falling
  <2>1. keys[order[i]] >= keys[order[j]]
    BY <1>4
  <2> QED
    BY <1>5, <2>1
<1> QED
  BY <1>3, <1>6, <1>7, <1>8, <1>9 DEF InOrderOf, n, list

LEMMA LatestIs ==
  ASSUME NEW rows, Dated(rows)
  PROVE  LatestOf(H!Latest(rows), rows)
<1> SUFFICES ASSUME rows # <<>>
             PROVE  /\ H!Latest(rows) # <<>> /\ \E j \in DOMAIN rows : H!Latest(rows)[1] = rows[j]
                    /\ \A i \in DOMAIN rows : H!Latest(rows)[1].date >= rows[i].date
  BY DEF LatestOf
<1> DEFINE list == H!Descending(rows)
           first == list[1]
<1>1. InOrderOf(list, rows)
  BY DescendingIs
<1>2. H!Latest(rows) = <<first>>
  BY DEF H!Latest
<1> HIDE DEF list
<1>3. Len(rows) \in Nat /\ DOMAIN rows = 1 .. Len(rows) /\ Len(rows) # 0
  BY DEF Dated
<1>4. DOMAIN list = 1 .. Len(rows) /\ 1 \in DOMAIN list
  BY <1>1, <1>3 DEF InOrderOf, Dated
<1>5. \E j \in DOMAIN rows : first = rows[j]
  BY <1>1, <1>4 DEF InOrderOf, From
<1>6. ASSUME NEW i \in DOMAIN rows PROVE first.date >= rows[i].date
  <2>1. PICK m \in DOMAIN list : list[m] = rows[i]
    BY <1>1 DEF InOrderOf, From
  <2>2. m = 1 \/ 1 < m
    BY <1>3, <1>4
  <2>3. list[m].date \in Int
    BY <1>1 DEF InOrderOf, Dated
  <2> QED
    BY <1>1, <1>4, <2>1, <2>2, <2>3 DEF InOrderOf, Falling
<1> HIDE DEF first
<1>7. <<first>> # <<>> /\ <<first>>[1] = first
  OBVIOUS
<1> QED
  BY <1>2, <1>5, <1>6, <1>7

LEMMA FilteredIs ==
  ASSUME NEW s, NEW places \in SUBSET DOMAIN s, Dated(s)
  PROVE  /\ Dated(Selected(s, places)) /\ From(Selected(s, places), s)
         /\ \A m \in DOMAIN Selected(s, places) : \E i \in places : Selected(s, places)[m] = s[i]
         /\ \A i \in places : \E m \in DOMAIN Selected(s, places) : Selected(s, places)[m] = s[i]
<1> DEFINE k == Cardinality(places)
           found == Selected(s, places)
<1>1. SelectionOf(s, places)
  BY SelectedIs DEF Dated
<1>2. k \in Nat /\ DOMAIN found = 1 .. k /\ {found[m] : m \in 1 .. k} = {s[i] : i \in places}
  BY <1>1 DEF SelectionOf
<1>3. Len(found) = k
  BY <1>2 DEF Selected
<1> HIDE DEF k, found
<1>4. \A m \in 1 .. k : \E i \in places : found[m] = s[i]
  BY <1>2
<1>5. \A i \in places : \E m \in 1 .. k : found[m] = s[i]
  BY <1>2
<1>6. Dated(found) /\ From(found, s)
  BY <1>2, <1>3, <1>4 DEF Dated, From
<1> QED
  BY <1>2, <1>4, <1>5, <1>6 DEF found

Times(s, row) == Cardinality({i \in DOMAIN s : s[i] = row})
Once(s) == \A i, j \in DOMAIN s : s[i] = s[j] => i = j
Extends(s, t) == Len(s) <= Len(t) /\ \A i \in DOMAIN s : t[i] = s[i]

LEMMA PlacesFinite ==
  ASSUME NEW S, NEW s \in Seq(S), NEW row
  PROVE  /\ IsFiniteSet({i \in DOMAIN s : s[i] = row}) /\ Times(s, row) \in Nat
         /\ (\A i \in DOMAIN s : s[i] # row) => Times(s, row) = 0
         /\ Once(s) => Times(s, row) <= 1
<1> DEFINE places == {i \in DOMAIN s : s[i] = row}
<1>1. IsFiniteSet(1 .. Len(s)) /\ DOMAIN s = 1 .. Len(s)
  BY FS_Interval
<1>2. places \in SUBSET (1 .. Len(s))
  BY <1>1
<1>3. IsFiniteSet(places)
  BY <1>1, <1>2, FS_Subset
<1>4. Cardinality(places) \in Nat
  BY <1>3, FS_CardinalityType
<1>5. ASSUME \A i \in DOMAIN s : s[i] # row PROVE Cardinality(places) = 0
  <2>1. places = {}
    BY <1>5
  <2> QED
    BY <2>1, FS_EmptySet
<1>6. ASSUME Once(s) PROVE Cardinality(places) <= 1
  <2>1. CASE places = {}
    <3>1. Cardinality(places) = 0
      BY <2>1, FS_EmptySet
    <3> HIDE DEF places
    <3> QED
      BY <3>1
  <2>2. CASE places # {}
    <3>1. PICK i \in places : TRUE
      BY <2>2
    <3>2. places = {i}
      BY <1>6, <3>1 DEF Once
    <3>3. Cardinality(places) = 1
      BY <3>2, FS_Singleton
    <3> HIDE DEF places
    <3> QED
      BY <3>3
  <2> QED
    BY <2>1, <2>2
<1> QED
  BY <1>3, <1>4, <1>5, <1>6 DEF Times

\* What is appended comes as often as it is in either part.
LEMMA TimesJoined ==
  ASSUME NEW S, NEW s \in Seq(S), NEW t \in Seq(S), NEW row
  PROVE  s \o t \in Seq(S) /\ Times(s \o t, row) <= Times(s, row) + Times(t, row)
<1> DEFINE u == s \o t
           m == Len(s)
           n == Len(t)
           A == {i \in DOMAIN s : s[i] = row}
           T == {j \in DOMAIN t : t[j] = row}
           B == {i \in (m + 1) .. (m + n) : u[i] = row}
           shift == [j \in T |-> m + j]
<1>1. /\ u \in Seq(S) /\ m \in Nat /\ n \in Nat /\ DOMAIN u = 1 .. (m + n) /\ DOMAIN s = 1 .. m /\ DOMAIN t = 1 .. n
      /\ \A i \in 1 .. m : u[i] = s[i]
      /\ \A i \in (m + 1) .. (m + n) : u[i] = t[i - m]
  OBVIOUS
<1> HIDE DEF u, m, n
<1>2. IsFiniteSet(A) /\ IsFiniteSet(T) /\ Cardinality(A) \in Nat /\ Cardinality(T) \in Nat
  BY PlacesFinite DEF Times
<1>3. {i \in DOMAIN u : u[i] = row} = A \cup B
  BY <1>1
<1>4. shift \in Surjection(T, B)
  <2>1. \A j \in T : shift[j] \in B
    BY <1>1
  <2>2. \A i \in B : i - m \in T /\ shift[i - m] = i
    BY <1>1
  <2> HIDE DEF T, B
  <2> QED
    BY <2>1, <2>2 DEF Surjection
<1>5. IsFiniteSet(B) /\ Cardinality(B) <= Cardinality(T)
  BY <1>2, <1>4, FS_Surjection
<1>6. Cardinality(B) \in Nat
  BY <1>5, FS_CardinalityType
<1>7. Cardinality(A \cup B) <= Cardinality(A) + Cardinality(B)
  <2>1. Cardinality(A \cup B) = Cardinality(A) + Cardinality(B) - Cardinality(A \cap B)
    BY <1>2, <1>5, FS_Union
  <2>2. IsFiniteSet(A \cap B)
    BY <1>5, FS_Subset
  <2>3. Cardinality(A \cap B) \in Nat
    BY <2>2, FS_CardinalityType
  <2> HIDE DEF A, B
  <2> QED
    BY <1>2, <1>6, <2>1, <2>3
<1>8. Cardinality(A \cup B) \in Nat
  <2>1. IsFiniteSet(A \cup B)
    BY <1>2, <1>5, FS_Union
  <2> QED
    BY <2>1, FS_CardinalityType
<1> HIDE DEF A, B, T
<1>9. Cardinality(A \cup B) <= Cardinality(A) + Cardinality(T)
  BY <1>2, <1>5, <1>6, <1>7, <1>8
<1> QED
  BY <1>1, <1>3, <1>9 DEF Times, A, T, u

LEMMA Joined ==
  ASSUME NEW S, NEW s \in Seq(S), NEW t \in Seq(S)
  PROVE  s \o t \in Seq(S) /\ Extends(s, s \o t) /\ Len(s \o t) = Len(s) + Len(t)
BY DEF Extends

LEMMA ExtendsAgain ==
  ASSUME NEW S, NEW s \in Seq(S), NEW t \in Seq(S), NEW u \in Seq(S), Extends(s, t), Extends(t, u)
  PROVE  Extends(s, u)
BY DEF Extends

LEMMA Prefix ==
  ASSUME NEW S, NEW s \in Seq(S), NEW t \in Seq(S), Extends(s, t)
  PROVE  H!IsPrefix(s, t)
<1>1. SubSeq(s, 1, Len(s)) = SubSeq(t, 1, Len(s))
  BY DEF Extends
<1> QED
  BY <1>1 DEF H!IsPrefix, Extends

LEMMA Bounds ==
  ASSUME NEW S \in SUBSET Int, IsFiniteSet(S), NEW x \in S
  PROVE  H!Min(S) <= x /\ x <= H!Max(S)
<1> DEFINE less == {p \in S \X S : p[1] < p[2]}
           last == Cardinality(S) - 1
<1>1. \A i, j \in S : <<i, j>> \in less <=> i < j
  OBVIOUS
<1> HIDE DEF less
<1>2. StrictOrder(S, less)
  <2>1. \A i \in S : i \in Int
    OBVIOUS
  <2> SUFFICES ASSUME NEW i \in S, NEW j \in S, NEW k \in S
               PROVE  /\ ~(i < i) /\ (i # j => i < j \/ j < i) /\ (i < j /\ j < k => i < k)
    BY <1>1, Zenon DEF StrictOrder
  <2> QED
    BY <2>1
<1>3. RankedBy(S, less)
  BY <1>2, Ranks
<1>4. Cardinality(S) \in Nat /\ 0 \in 0 .. last /\ \A i \in S : Rank(S, less, i) \in 0 .. last
  BY <1>3 DEF RankedBy
<1>5. PICK least \in S : Rank(S, less, least) = 0
  BY <1>3, <1>4 DEF RankedBy
<1>6. PICK most \in S : Rank(S, less, most) = last
  BY <1>3, <1>4 DEF RankedBy
<1>7. \A y \in S : least <= y
  <2> SUFFICES ASSUME NEW y \in S, y < least PROVE FALSE
    OBVIOUS
  <2>1. Rank(S, less, y) < Rank(S, less, least)
    BY <1>1, <1>2, RankRises
  <2> QED
    BY <1>4, <1>5, <2>1
<1>8. \A y \in S : most >= y
  <2> SUFFICES ASSUME NEW y \in S, y > most PROVE FALSE
    OBVIOUS
  <2>1. Rank(S, less, most) < Rank(S, less, y)
    BY <1>1, <1>2, RankRises
  <2> QED
    BY <1>4, <1>6, <2>1
<1>9. H!Min(S) \in S /\ \A y \in S : H!Min(S) <= y
  BY <1>7 DEF H!Min
<1>10. H!Max(S) \in S /\ \A y \in S : H!Max(S) >= y
  BY <1>8 DEF H!Max
<1> QED
  BY <1>9, <1>10

Tables(x) ==
  /\ x = [prices |-> x.prices, sellers |-> x.sellers, reviews |-> x.reviews, sales |-> x.sales, refreshes |-> x.refreshes]
  /\ x.prices \in Seq(H!AmazonPrice) /\ x.sellers \in Seq(H!SellerCount)
  /\ x.reviews \in Seq(H!Review) /\ x.sales \in Seq(H!SalesEstimate)
  /\ x.refreshes \in Nat /\ Len(x.sellers) <= x.refreshes /\ Len(x.reviews) <= x.refreshes
  /\ \A row : Times(x.prices, row) <= x.refreshes + 1

Begun(r) == H!Greatest(1, (H!Today + r.at) - r.days)

\* A list of an answer, and what the other fields of the answer say of it.
Priced(x, list, buyBox, since) ==
  /\ Dated(list) /\ Falling(list) /\ From(list, x.prices)
  /\ \A i \in DOMAIN list : list[i].buyBox = buyBox /\ list[i].date >= since
Covers(range, list) ==
  \A i \in DOMAIN list : range # <<>> /\ range[1] <= list[i].price /\ list[i].price <= range[2]
Heads(latest, list) == list # <<>> => latest # <<>> /\ latest[1].date >= list[1].date

Reads == {"pricing", "bsr", "offer", "sellers", "detail"}
Listing == {"bsr", "offer", "sellers"}

\* What has been put together of an answer.
Pricing(x, r) ==
  /\ "history" \notin DOMAIN r.answer
  /\ r.step >= 2 => "amazon" \in DOMAIN r.answer /\ Priced(x, r.answer.amazon, H!Own, Begun(r))
  /\ r.step >= 3 => "buyBox" \in DOMAIN r.answer /\ Priced(x, r.answer.buyBox, H!BuyBox, Begun(r))
  /\ r.step >= 4 => /\ "range" \in DOMAIN r.answer
                    /\ Covers(r.answer.range, r.answer.amazon) /\ Covers(r.answer.range, r.answer.buyBox)
  /\ r.step >= 5 => "current" \in DOMAIN r.answer /\ Heads(r.answer.current, r.answer.amazon)
Listed(x, r) ==
  r.step = 2 =>
    /\ "history" \in DOMAIN r.answer /\ Falling(r.answer.history)
    /\ r.op = "offer" => Priced(x, r.answer.history, H!BuyBox, Begun(r))
    /\ r.op = "sellers" => Dated(r.answer.history) /\ From(r.answer.history, x.sellers)

Reading(x, r) ==
  /\ r = [op |-> r.op, at |-> r.at, days |-> r.days, step |-> r.step, answer |-> r.answer]
  /\ r.op \in Reads /\ r.at \in Nat /\ r.days \in Nat
  /\ r.step \in 1 .. 5 /\ (r.op \in Listing => r.step \in 1 .. 2) /\ (r.op = "detail" => r.step \in 1 .. 3)
  /\ "kind" \in DOMAIN r.answer /\ r.answer.kind = r.op
  /\ r.op = "pricing" => Pricing(x, r)
  /\ r.op \in Listing => Listed(x, r)
  /\ r.op = "detail" => "history" \notin DOMAIN r.answer

Asked(x, r) == IF r.op = "refresh" THEN r.at \in Nat ELSE Reading(x, r)

HistoryInv ==
  /\ req = [c \in Clients |-> req[c]] /\ calls \in Nat /\ Tables(db) /\ H!AnswerSound(mem)
  /\ \A c \in Clients : req[c].op # "idle" => Asked(db, req[c])

\* What was read is still there when rows are appended.
LEMMA AskedStays ==
  ASSUME NEW x, NEW y, NEW r, Asked(x, r), Tables(x), Extends(x.prices, y.prices), Extends(x.sellers, y.sellers),
         y.prices \in Seq(H!AmazonPrice), y.sellers \in Seq(H!SellerCount)
  PROVE  Asked(y, r)
<1>1. \A list : From(list, x.prices) => From(list, y.prices)
  <2>1. \A j \in DOMAIN x.prices : j \in DOMAIN y.prices /\ y.prices[j] = x.prices[j]
    BY DEF Extends, Tables
  <2> QED
    BY <2>1 DEF From
<1>2. \A list : From(list, x.sellers) => From(list, y.sellers)
  <2>1. \A j \in DOMAIN x.sellers : j \in DOMAIN y.sellers /\ y.sellers[j] = x.sellers[j]
    BY DEF Extends, Tables
  <2> QED
    BY <2>1 DEF From
<1>3. \A list, buyBox, since : Priced(x, list, buyBox, since) => Priced(y, list, buyBox, since)
  BY <1>1 DEF Priced
<1>4. Pricing(x, r) => Pricing(y, r)
  BY <1>3 DEF Pricing
<1>5. Listed(x, r) => Listed(y, r)
  BY <1>2, <1>3 DEF Listed
<1> QED
  BY <1>4, <1>5 DEF Reading, Asked

LEMMA HistoryStays ==
  ASSUME Tables(db), db' = db
  PROVE  H!LegalStep
<1>1. /\ Extends(db.prices, db.prices) /\ Extends(db.sellers, db.sellers)
      /\ Extends(db.reviews, db.reviews) /\ Extends(db.sales, db.sales)
  BY DEF Extends, Tables
<1>2. /\ H!IsPrefix(db.prices, db.prices) /\ H!IsPrefix(db.sellers, db.sellers)
      /\ H!IsPrefix(db.reviews, db.reviews) /\ H!IsPrefix(db.sales, db.sales)
  BY <1>1, Prefix DEF Tables
<1> QED
  BY <1>2 DEF H!LegalStep

\* A step of one request that writes nothing.
LEMMA HistoryReads ==
  ASSUME HistoryInv, NEW c \in Clients, NEW new, req' = [req EXCEPT ![c] = new], new.op # "idle" => Asked(db, new),
         db' = db, calls' \in Nat, H!AnswerSound(mem')
  PROVE  HistoryInv' /\ H!LegalStep
<1>1. \A d \in Clients : req'[d] = IF d = c THEN new ELSE req[d]
  BY DEF HistoryInv
<1>2. req' = [d \in Clients |-> req'[d]]
  BY DEF HistoryInv
<1>3. H!LegalStep
  BY HistoryStays DEF HistoryInv
<1>4. \A d \in Clients : req'[d].op # "idle" => Asked(db, req'[d])
  BY <1>1 DEF HistoryInv
<1>5. HistoryInv'
  BY <1>2, <1>4 DEF HistoryInv
<1> QED
  BY <1>3, <1>5

\* A request with one field more in its answer.
Added(r, field, value) ==
  [op |-> r.op, at |-> r.at, days |-> r.days, step |-> r.step + 1, answer |-> H!With(r.answer, field, value)]

LEMMA WithField ==
  ASSUME NEW f, NEW key, NEW value
  PROVE  /\ DOMAIN H!With(f, key, value) = DOMAIN f \cup {key} /\ H!With(f, key, value)[key] = value
         /\ \A k \in DOMAIN f : k # key => H!With(f, key, value)[k] = f[k]
BY DEF H!With

LEMMA Queried ==
  ASSUME HistoryInv, NEW c \in Clients, NEW field, NEW value, H!Query(c, field, value), Reading(db, req[c]),
         Reading(db, Added(req[c], field, value))
  PROVE  HistoryInv' /\ H!LegalStep
<1> DEFINE r == req[c]
           new == Added(r, field, value)
           changed == [r EXCEPT !.step = @ + 1, !.answer = H!With(@, field, value)]
<1>1. req' = [req EXCEPT ![c] = changed] /\ db' = db /\ mem' = mem /\ calls' = calls
  BY DEF H!Query
<1>2. changed = new
  BY DEF Reading, Added
<1>3. Asked(db, new)
  <2>1. new.op # "refresh"
    BY DEF Reading, Reads
  <2> QED
    BY <2>1 DEF Asked
<1> HIDE DEF new, changed
<1> QED
  BY <1>1, <1>2, <1>3, HistoryReads DEF HistoryInv

LEMMA Responded ==
  ASSUME HistoryInv, NEW c \in Clients, NEW field, NEW value, H!Respond(c, field, value),
         H!AnswerSound(H!With(req[c].answer, field, value))
  PROVE  HistoryInv' /\ H!LegalStep
<1>1. req' = [req EXCEPT ![c] = H!Idle] /\ db' = db /\ mem' = H!With(req[c].answer, field, value) /\ calls' = calls
  BY DEF H!Respond
<1>2. H!Idle.op = "idle"
  BY DEF H!Idle
<1> QED
  BY <1>1, <1>2, HistoryReads DEF HistoryInv

LEMMA DatedRows ==
  ASSUME NEW S, NEW s \in Seq(S), \A row \in S : row.date \in Int
  PROVE  Dated(s)
<1>1. Len(s) \in Nat /\ DOMAIN s = 1 .. Len(s) /\ \A i \in DOMAIN s : s[i] \in S
  OBVIOUS
<1> QED
  BY <1>1 DEF Dated

LEMMA RowsDated ==
  ASSUME NEW x, Tables(x)
  PROVE  /\ Dated(x.prices) /\ Dated(x.sellers) /\ Dated(x.reviews) /\ Dated(x.sales)
         /\ \A i \in DOMAIN x.prices : x.prices[i].price \in Nat
<1>1. /\ \A row \in H!AmazonPrice : row.date \in Int /\ row.price \in Nat
      /\ \A row \in H!SellerCount : row.date \in Int
      /\ \A row \in H!Review : row.date \in Int
      /\ \A row \in H!SalesEstimate : row.date \in Int
  BY DEF H!AmazonPrice, H!SellerCount, H!Review, H!SalesEstimate
<1>2. /\ x.prices \in Seq(H!AmazonPrice) /\ x.sellers \in Seq(H!SellerCount)
      /\ x.reviews \in Seq(H!Review) /\ x.sales \in Seq(H!SalesEstimate)
  BY DEF Tables
<1>3. Dated(x.prices) /\ Dated(x.sellers) /\ Dated(x.reviews) /\ Dated(x.sales)
  BY <1>1, <1>2, DatedRows
<1>4. \A i \in DOMAIN x.prices : x.prices[i] \in H!AmazonPrice
  BY <1>2
<1> QED
  BY <1>1, <1>3, <1>4

\* The answers of the queries, of the rows that are there.
LEMMA PriceHistory ==
  ASSUME Tables(db), NEW buyBox, NEW since
  PROVE  Priced(db, H!GetPriceHistory(buyBox, since), buyBox, since)
<1> DEFINE places == {i \in DOMAIN db.prices : db.prices[i].buyBox = buyBox /\ db.prices[i].date >= since}
           rows == Selected(db.prices, places)
           list == H!GetPriceHistory(buyBox, since)
<1>1. Dated(db.prices)
  BY RowsDated
<1>2. list = H!Descending(rows)
  BY HNumbers DEF H!GetPriceHistory, H!Filter
<1>3. /\ Dated(rows) /\ From(rows, db.prices)
      /\ \A m \in DOMAIN rows : rows[m].buyBox = buyBox /\ rows[m].date >= since
  <2>1. Dated(rows) /\ From(rows, db.prices) /\ \A m \in DOMAIN rows : \E i \in places : rows[m] = db.prices[i]
    <3>1. places \in SUBSET DOMAIN db.prices
      OBVIOUS
    <3> HIDE DEF places
    <3> QED
      BY <1>1, <3>1, FilteredIs
  <2> HIDE DEF rows
  <2> QED
    BY <2>1
<1> HIDE DEF rows, list
<1>4. InOrderOf(list, rows)
  BY <1>2, <1>3, DescendingIs
<1>5. \A i \in DOMAIN list : \E m \in DOMAIN rows : rows[m] = list[i]
  BY <1>4 DEF InOrderOf, From
<1>6. From(list, db.prices)
  BY <1>3, <1>5 DEF From
<1> QED
  BY <1>3, <1>4, <1>5, <1>6 DEF InOrderOf, Priced, list

LEMMA LatestPrice ==
  ASSUME Tables(db), NEW buyBox, NEW list, NEW since, Priced(db, list, buyBox, since)
  PROVE  Heads(H!GetLatestPrice(buyBox), list)
<1> DEFINE places == {i \in DOMAIN db.prices : db.prices[i].buyBox = buyBox}
           rows == Selected(db.prices, places)
           latest == H!GetLatestPrice(buyBox)
<1> SUFFICES ASSUME list # <<>> PROVE latest # <<>> /\ latest[1].date >= list[1].date
  BY DEF Heads
<1>1. Dated(db.prices)
  BY RowsDated
<1>2. latest = H!Latest(rows)
  BY HNumbers DEF H!GetLatestPrice, H!Filter
<1>3. Dated(rows) /\ \A i \in places : \E m \in DOMAIN rows : rows[m] = db.prices[i]
  <2>1. places \in SUBSET DOMAIN db.prices
    OBVIOUS
  <2> HIDE DEF places
  <2> QED
    BY <1>1, <2>1, FilteredIs
<1>4. PICK m \in DOMAIN rows : rows[m] = list[1]
  <2>1. 1 \in DOMAIN list
    BY DEF Priced, Dated
  <2>2. PICK j \in DOMAIN db.prices : db.prices[j] = list[1]
    BY <2>1 DEF Priced, From
  <2>3. j \in places
    BY <2>1, <2>2 DEF Priced
  <2> QED
    BY <1>3, <2>2, <2>3
<1> HIDE DEF rows, latest
<1>5. LatestOf(latest, rows)
  BY <1>2, <1>3, LatestIs
<1>6. rows # <<>>
  BY <1>4
<1> QED
  BY <1>4, <1>5, <1>6 DEF LatestOf

LEMMA PriceRange ==
  ASSUME Tables(db), NEW since, NEW list, NEW buyBox, Priced(db, list, buyBox, since)
  PROVE  Covers(H!GetPriceRange(since), list)
<1> DEFINE n == Len(db.prices)
           prices == {row.price : row \in {r \in H!ToSet(db.prices) : r.date >= since}}
           price == [i \in 1 .. n |-> db.prices[i].price]
           all == {price[i] : i \in 1 .. n}
<1> SUFFICES ASSUME NEW i \in DOMAIN list
             PROVE  /\ H!GetPriceRange(since) # <<>> /\ H!GetPriceRange(since)[1] <= list[i].price
                    /\ list[i].price <= H!GetPriceRange(since)[2]
  BY DEF Covers
<1>1. n \in Nat /\ DOMAIN db.prices = 1 .. n /\ \A j \in 1 .. n : db.prices[j].price \in Nat
  BY RowsDated DEF Dated
<1>2. H!GetPriceRange(since) = IF prices = {} THEN <<>> ELSE <<H!Min(prices), H!Max(prices)>>
  BY DEF H!GetPriceRange
<1> HIDE DEF n
<1>3. IsFiniteSet(all)
  <2>1. price \in Surjection(1 .. n, all)
    BY DEF Surjection
  <2>2. IsFiniteSet(1 .. n)
    BY <1>1, FS_Interval
  <2> HIDE DEF price, all
  <2> QED
    BY <2>1, <2>2, FS_Surjection
<1>4. prices \subseteq all /\ all \subseteq Int
  BY <1>1, HNumbers
<1>5. list[i].price \in prices
  <2>1. PICK j \in DOMAIN db.prices : db.prices[j] = list[i]
    BY DEF Priced, From
  <2>2. list[i] \in H!ToSet(db.prices) /\ list[i].date >= since
    BY <2>1, HNumbers DEF Priced
  <2> QED
    BY <2>2
<1> HIDE DEF prices, all, price
<1>6. IsFiniteSet(prices)
  BY <1>3, <1>4, FS_Subset
<1>7. H!Min(prices) <= list[i].price /\ list[i].price <= H!Max(prices)
  <2>1. prices \in SUBSET Int
    BY <1>4
  <2> QED
    BY <1>5, <1>6, <2>1, Bounds
<1>8. H!GetPriceRange(since) = <<H!Min(prices), H!Max(prices)>>
  BY <1>2, <1>5
<1> QED
  BY <1>7, <1>8

LEMMA AddedIs ==
  ASSUME NEW r, Reading(db, r), NEW field, NEW value, field # "kind"
  PROVE  LET new == Added(r, field, value)
         IN /\ new = [op |-> new.op, at |-> new.at, days |-> new.days, step |-> new.step, answer |-> new.answer]
            /\ new.op = r.op /\ new.at = r.at /\ new.days = r.days /\ new.step = r.step + 1 /\ Begun(new) = Begun(r)
            /\ "kind" \in DOMAIN new.answer /\ new.answer.kind = r.op
            /\ DOMAIN new.answer = DOMAIN r.answer \cup {field} /\ new.answer[field] = value
            /\ \A k \in DOMAIN r.answer : k # field => new.answer[k] = r.answer[k]
<1> DEFINE answer == H!With(r.answer, field, value)
           new == Added(r, field, value)
<1>1. /\ DOMAIN answer = DOMAIN r.answer \cup {field} /\ answer[field] = value
      /\ \A k \in DOMAIN r.answer : k # field => answer[k] = r.answer[k]
  BY DEF H!With
<1>2. answer.kind = r.op /\ "kind" \in DOMAIN answer
  BY <1>1 DEF Reading
<1> HIDE DEF answer
<1>3. new = [op |-> r.op, at |-> r.at, days |-> r.days, step |-> r.step + 1, answer |-> answer]
  BY DEF Added, answer
<1>4. new.op = r.op /\ new.at = r.at /\ new.days = r.days /\ new.step = r.step + 1 /\ new.answer = answer
  BY <1>3
<1> HIDE DEF new
<1> QED
  BY <1>1, <1>2, <1>3, <1>4 DEF Begun, new

LEMMA SinceThen ==
  ASSUME NEW c \in Clients
  PROVE  H!Since(c, req[c].days) = Begun(req[c]) /\ (req[c].at \in Nat /\ req[c].days \in Nat => Begun(req[c]) \in Nat \ {0})
<1>1. H!Since(c, req[c].days) = Begun(req[c])
  BY DEF H!Since, H!Now, Begun
<1>2. ASSUME req[c].at \in Nat, req[c].days \in Nat PROVE Begun(req[c]) \in Nat \ {0}
  BY <1>2 DEF Begun, H!Today, H!Greatest
<1> QED
  BY <1>1, <1>2

LEMMA PricingGoesOn ==
  ASSUME NEW r, Reading(db, r), r.op = "pricing", r.step <= 4, NEW field, NEW value, field # "kind",
         Pricing(db, Added(r, field, value))
  PROVE  Reading(db, Added(r, field, value))
<1> DEFINE new == Added(r, field, value)
<1>1. /\ new = [op |-> new.op, at |-> new.at, days |-> new.days, step |-> new.step, answer |-> new.answer]
      /\ new.op = r.op /\ new.at = r.at /\ new.days = r.days /\ new.step = r.step + 1
      /\ "kind" \in DOMAIN new.answer /\ new.answer.kind = r.op
  BY AddedIs
<1> HIDE DEF new
<1>2. r.at \in Nat /\ r.days \in Nat /\ r.step + 1 \in 1 .. 5
  BY DEF Reading
<1>3. "pricing" \in Reads /\ "pricing" \notin Listing /\ "pricing" # "detail"
  BY DEF Reads, Listing
<1>4. Pricing(db, new)
  BY DEF new
<1>5. Reading(db, new)
  BY <1>1, <1>2, <1>3, <1>4 DEF Reading
<1> QED
  BY <1>5 DEF new

LEMMA PricingAnswers ==
  ASSUME HistoryInv, NEW c \in Clients, H!GetPricingHistory(c)
  PROVE  HistoryInv' /\ H!LegalStep
<1> DEFINE r == req[c]
           since == Begun(r)
<1>1. r.op = "pricing" /\ Tables(db)
  BY DEF H!GetPricingHistory, HistoryInv
<1>2. Reading(db, r) /\ Pricing(db, r) /\ r.step \in 1 .. 5
  BY <1>1 DEF HistoryInv, Asked, Reading
<1>3. H!Since(c, r.days) = since /\ since \in Nat \ {0}
  BY <1>2, SinceThen DEF Reading
<1>4. CASE r.step = 1
  <2> DEFINE value == H!GetPriceHistory(H!Own, since)
             new == Added(r, "amazon", value)
  <2>1. H!Query(c, "amazon", value)
    BY <1>3, <1>4 DEF H!GetPricingHistory
  <2>2. Priced(db, value, H!Own, since)
    BY <1>1, PriceHistory
  <2> HIDE DEF value
  <2>3. Reading(db, new)
    <3>1. /\ new.step = 2 /\ Begun(new) = since /\ DOMAIN new.answer = DOMAIN r.answer \cup {"amazon"} /\ new.answer["amazon"] = value
          /\ \A k \in DOMAIN r.answer : k # "amazon" => new.answer[k] = r.answer[k]
      BY <1>2, <1>4, AddedIs
    <3> HIDE DEF new
    <3>2. Pricing(db, new)
      BY <1>2, <1>4, <2>2, <3>1 DEF Pricing
    <3> QED
      BY <1>1, <1>2, <1>4, <3>2, PricingGoesOn DEF new
  <2> HIDE DEF new
  <2> QED
    BY <1>2, <2>1, <2>3, Queried DEF new
<1>5. CASE r.step = 2
  <2> DEFINE value == H!GetPriceHistory(H!BuyBox, since)
             new == Added(r, "buyBox", value)
  <2>1. H!Query(c, "buyBox", value)
    BY <1>3, <1>5 DEF H!GetPricingHistory
  <2>2. Priced(db, value, H!BuyBox, since)
    BY <1>1, PriceHistory
  <2> HIDE DEF value
  <2>3. Reading(db, new)
    <3>1. /\ new.step = 3 /\ Begun(new) = since /\ DOMAIN new.answer = DOMAIN r.answer \cup {"buyBox"} /\ new.answer["buyBox"] = value
          /\ \A k \in DOMAIN r.answer : k # "buyBox" => new.answer[k] = r.answer[k]
      BY <1>2, <1>5, AddedIs
    <3> HIDE DEF new
    <3>2. Pricing(db, new)
      BY <1>2, <1>5, <2>2, <3>1 DEF Pricing
    <3> QED
      BY <1>1, <1>2, <1>5, <3>2, PricingGoesOn DEF new
  <2> HIDE DEF new
  <2> QED
    BY <1>2, <2>1, <2>3, Queried DEF new
<1>6. CASE r.step = 3
  <2> DEFINE value == H!GetPriceRange(since)
             new == Added(r, "range", value)
  <2>1. H!Query(c, "range", value)
    BY <1>3, <1>6 DEF H!GetPricingHistory
  <2>2. Covers(value, r.answer.amazon) /\ Covers(value, r.answer.buyBox)
    BY <1>1, <1>2, <1>6, PriceRange DEF Pricing
  <2> HIDE DEF value
  <2>3. Reading(db, new)
    <3>1. /\ new.step = 4 /\ Begun(new) = since /\ DOMAIN new.answer = DOMAIN r.answer \cup {"range"} /\ new.answer["range"] = value
          /\ \A k \in DOMAIN r.answer : k # "range" => new.answer[k] = r.answer[k]
      BY <1>2, <1>6, AddedIs
    <3> HIDE DEF new
    <3>2. Pricing(db, new)
      BY <1>2, <1>6, <2>2, <3>1 DEF Pricing
    <3> QED
      BY <1>1, <1>2, <1>6, <3>2, PricingGoesOn DEF new
  <2> HIDE DEF new
  <2> QED
    BY <1>2, <2>1, <2>3, Queried DEF new
<1>7. CASE r.step = 4
  <2> DEFINE value == H!GetLatestPrice(H!Own)
             new == Added(r, "current", value)
  <2>1. H!Query(c, "current", value)
    BY <1>7 DEF H!GetPricingHistory
  <2>2. Heads(value, r.answer.amazon)
    BY <1>1, <1>2, <1>7, LatestPrice DEF Pricing
  <2> HIDE DEF value
  <2>3. Reading(db, new)
    <3>1. /\ new.step = 5 /\ Begun(new) = since /\ DOMAIN new.answer = DOMAIN r.answer \cup {"current"} /\ new.answer["current"] = value
          /\ \A k \in DOMAIN r.answer : k # "current" => new.answer[k] = r.answer[k]
      BY <1>2, <1>7, AddedIs
    <3> HIDE DEF new
    <3>2. Pricing(db, new)
      BY <1>2, <1>7, <2>2, <3>1 DEF Pricing
    <3> QED
      BY <1>1, <1>2, <1>7, <3>2, PricingGoesOn DEF new
  <2> HIDE DEF new
  <2> QED
    BY <1>2, <2>1, <2>3, Queried DEF new
<1>8. CASE r.step = 5
  <2> DEFINE value == H!GetLatestPrice(H!BuyBox)
             answer == H!With(r.answer, "currentBuyBox", value)
  <2>1. H!Respond(c, "currentBuyBox", value)
    BY <1>8 DEF H!GetPricingHistory
  <2>2. Heads(value, r.answer.buyBox)
    BY <1>1, <1>2, <1>8, LatestPrice DEF Pricing
  <2>3. /\ DOMAIN answer = DOMAIN r.answer \cup {"currentBuyBox"} /\ answer.currentBuyBox = value
        /\ \A k \in DOMAIN r.answer : k # "currentBuyBox" => answer[k] = r.answer[k]
    BY DEF H!With
  <2> HIDE DEF value, answer
  <2>4. /\ answer.kind = "pricing" /\ "history" \notin DOMAIN answer
        /\ answer.amazon = r.answer.amazon /\ answer.buyBox = r.answer.buyBox
        /\ answer.range = r.answer.range /\ answer.current = r.answer.current
    BY <1>1, <1>2, <1>8, <2>3 DEF Reading, Pricing
  <2>5. ASSUME NEW list, NEW buyBox, Priced(db, list, buyBox, since), Covers(answer.range, list), NEW row \in H!ToSet(list)
        PROVE  answer.range # <<>> /\ answer.range[1] <= row.price /\ row.price <= answer.range[2]
    <3>1. PICK i \in DOMAIN list : row = list[i]
      BY HNumbers
    <3> QED
      BY <2>5, <3>1 DEF Covers
  <2>6. H!AnswerSound(answer)
    <3>1. \A row \in H!ToSet(answer.amazon) \cup H!ToSet(answer.buyBox) :
            answer.range # <<>> /\ answer.range[1] <= row.price /\ row.price <= answer.range[2]
      BY <1>2, <1>8, <2>4, <2>5 DEF Pricing
    <3>2. /\ answer.amazon # <<>> => answer.current # <<>> /\ answer.current[1].date >= answer.amazon[1].date
          /\ answer.buyBox # <<>> => answer.currentBuyBox # <<>> /\ answer.currentBuyBox[1].date >= answer.buyBox[1].date
      BY <1>2, <1>8, <2>2, <2>3, <2>4 DEF Pricing, Heads
    <3> QED
      BY <2>4, <3>1, <3>2 DEF H!AnswerSound
  <2> QED
    BY <2>1, <2>6, Responded DEF answer
<1> QED
  BY <1>2, <1>4, <1>5, <1>6, <1>7, <1>8

\* A history is read, then what is the latest of it.
LEMMA HistoryRead ==
  ASSUME HistoryInv, NEW c \in Clients, req[c].op \in Listing, req[c].step = 1, NEW list, H!Query(c, "history", list), Falling(list),
         req[c].op = "offer" => Priced(db, list, H!BuyBox, Begun(req[c])),
         req[c].op = "sellers" => Dated(list) /\ From(list, db.sellers)
  PROVE  HistoryInv' /\ H!LegalStep
<1> DEFINE r == req[c]
           new == Added(r, "history", list)
<1>1. Reading(db, r)
  BY DEF HistoryInv, Asked, Listing
<1>2. /\ new = [op |-> new.op, at |-> new.at, days |-> new.days, step |-> new.step, answer |-> new.answer]
      /\ new.op = r.op /\ new.at = r.at /\ new.days = r.days /\ new.step = 2 /\ Begun(new) = Begun(r)
      /\ "kind" \in DOMAIN new.answer /\ new.answer.kind = r.op
      /\ DOMAIN new.answer = DOMAIN r.answer \cup {"history"} /\ new.answer["history"] = list
  BY <1>1, AddedIs
<1> HIDE DEF new
<1>3. Listed(db, new)
  BY <1>2 DEF Listed
<1>4. r.at \in Nat /\ r.days \in Nat /\ r.op \in Reads /\ r.op # "pricing" /\ r.op # "detail"
  BY <1>1 DEF Reading, Listing
<1>5. Reading(db, new)
  BY <1>2, <1>3, <1>4 DEF Reading
<1> QED
  BY <1>1, <1>5, Queried DEF new

LEMMA HistoryAnswered ==
  ASSUME HistoryInv, NEW c \in Clients, req[c].op \in Listing, req[c].step = 2, NEW field, NEW latest, H!Respond(c, field, latest),
         field \notin {"kind", "history"},
         req[c].op # "bsr" => field = "latest" /\ Heads(latest, req[c].answer.history)
  PROVE  HistoryInv' /\ H!LegalStep
<1> DEFINE r == req[c]
           answer == H!With(r.answer, field, latest)
<1>1. Reading(db, r)
  BY DEF HistoryInv, Asked, Listing
<1>2. "history" \in DOMAIN r.answer /\ Falling(r.answer.history) /\ r.answer.kind = r.op /\ "kind" \in DOMAIN r.answer
  BY <1>1 DEF Reading, Listed
<1>3. answer.kind = r.op /\ answer.history = r.answer.history /\ answer[field] = latest
  <2>1. answer[field] = latest /\ \A k \in DOMAIN r.answer : k # field => answer[k] = r.answer[k]
    BY DEF H!With
  <2> HIDE DEF answer
  <2> QED
    BY <1>2, <2>1
<1> HIDE DEF answer
<1>4. H!AnswerSound(answer)
  <2>1. answer.kind # "pricing"
    BY <1>3 DEF Listing
  <2>2. \A i, j \in DOMAIN answer.history : i < j => answer.history[i].date >= answer.history[j].date
    BY <1>2, <1>3 DEF Falling
  <2>3. ASSUME answer.kind \in {"offer", "sellers"}, answer.history # <<>>
        PROVE  answer.latest # <<>> /\ answer.latest[1].date >= answer.history[1].date
    <3>1. field = "latest" /\ Heads(latest, r.answer.history)
      BY <1>3, <2>3
    <3> QED
      BY <1>3, <2>3, <3>1 DEF Heads
  <2> QED
    BY <2>1, <2>2, <2>3 DEF H!AnswerSound
<1> QED
  BY <1>4, Responded DEF answer

LEMMA BsrAnswers ==
  ASSUME HistoryInv, NEW c \in Clients, H!GetBsrHistory(c)
  PROVE  HistoryInv' /\ H!LegalStep
<1>1. req[c].op = "bsr" /\ req[c].op \in Listing /\ Tables(db)
  BY DEF H!GetBsrHistory, Listing, HistoryInv
<1>2. CASE req[c].step = 1
  <2> DEFINE since == -100
             list == H!GetPriceHistory(H!BuyBox, since)
  <2>1. H!Query(c, "history", list)
    BY <1>2 DEF H!GetBsrHistory
  <2>2. Priced(db, list, H!BuyBox, since)
    BY <1>1, PriceHistory
  <2> HIDE DEF list
  <2>3. Falling(list)
    BY <2>2 DEF Priced
  <2> QED
    BY <1>1, <1>2, <2>1, <2>3, HistoryRead
<1>3. CASE req[c].step = 2
  <2>1. H!Respond(c, "rank", H!Latest(db.sales))
    BY <1>3 DEF H!GetBsrHistory
  <2> QED
    BY <1>1, <1>3, <2>1, HistoryAnswered
<1> QED
  BY <1>2, <1>3 DEF H!GetBsrHistory

LEMMA BuyBoxAnswers ==
  ASSUME HistoryInv, NEW c \in Clients, H!GetBuyBox(c)
  PROVE  HistoryInv' /\ H!LegalStep
<1>1. req[c].op = "offer" /\ req[c].op \in Listing /\ Tables(db) /\ Reading(db, req[c])
  BY DEF H!GetBuyBox, Listing, HistoryInv, Asked
<1>2. CASE req[c].step = 1
  <2> DEFINE since == H!Since(c, req[c].days)
             list == H!GetPriceHistory(H!BuyBox, since)
  <2>1. H!Query(c, "history", list)
    BY <1>2 DEF H!GetBuyBox
  <2>2. since = Begun(req[c])
    BY SinceThen
  <2>3. Priced(db, list, H!BuyBox, since)
    BY <1>1, PriceHistory
  <2> HIDE DEF list, since
  <2>4. Falling(list)
    BY <2>3 DEF Priced
  <2> QED
    BY <1>1, <1>2, <2>1, <2>2, <2>3, <2>4, HistoryRead
<1>3. CASE req[c].step = 2
  <2>1. H!Respond(c, "latest", H!GetLatestPrice(H!BuyBox))
    BY <1>3 DEF H!GetBuyBox
  <2>2. Priced(db, req[c].answer.history, H!BuyBox, Begun(req[c]))
    BY <1>1, <1>3 DEF Reading, Listed
  <2>3. Heads(H!GetLatestPrice(H!BuyBox), req[c].answer.history)
    BY <1>1, <2>2, LatestPrice
  <2> QED
    BY <1>1, <1>3, <2>1, <2>3, HistoryAnswered
<1> QED
  BY <1>2, <1>3 DEF H!GetBuyBox

LEMMA SellersAnswer ==
  ASSUME HistoryInv, NEW c \in Clients, H!GetSellerCounts(c)
  PROVE  HistoryInv' /\ H!LegalStep
<1>1. req[c].op = "sellers" /\ req[c].op \in Listing /\ Tables(db) /\ Reading(db, req[c])
  BY DEF H!GetSellerCounts, Listing, HistoryInv, Asked
<1>2. Dated(db.sellers)
  BY <1>1, RowsDated
<1>3. CASE req[c].step = 1
  <2> DEFINE list == H!Descending(db.sellers)
  <2>1. H!Query(c, "history", list)
    BY <1>3 DEF H!GetSellerCounts
  <2>2. InOrderOf(list, db.sellers)
    BY <1>2, DescendingIs
  <2> HIDE DEF list
  <2>3. Falling(list) /\ Dated(list) /\ From(list, db.sellers)
    BY <2>2 DEF InOrderOf
  <2> QED
    BY <1>1, <1>3, <2>1, <2>3, HistoryRead
<1>4. CASE req[c].step = 2
  <2> DEFINE latest == H!Latest(db.sellers)
             list == req[c].answer.history
  <2>1. H!Respond(c, "latest", latest)
    BY <1>4 DEF H!GetSellerCounts
  <2>2. Dated(list) /\ From(list, db.sellers)
    BY <1>1, <1>4 DEF Reading, Listed
  <2>3. LatestOf(latest, db.sellers)
    BY <1>2, LatestIs
  <2> HIDE DEF latest
  <2>4. Heads(latest, list)
    <3> SUFFICES ASSUME list # <<>> PROVE latest # <<>> /\ latest[1].date >= list[1].date
      BY DEF Heads
    <3> HIDE DEF list
    <3>1. 1 \in DOMAIN list
      BY <2>2 DEF Dated
    <3>2. PICK j \in DOMAIN db.sellers : db.sellers[j] = list[1]
      BY <2>2, <3>1 DEF From
    <3>3. db.sellers # <<>>
      BY <3>2
    <3> QED
      BY <2>3, <3>2, <3>3 DEF LatestOf
  <2> QED
    BY <1>1, <1>4, <2>1, <2>4, HistoryAnswered
<1> QED
  BY <1>3, <1>4 DEF H!GetSellerCounts

LEMMA DetailAnswers ==
  ASSUME HistoryInv, NEW c \in Clients, H!BuildDetail(c)
  PROVE  HistoryInv' /\ H!LegalStep
<1> DEFINE r == req[c]
<1>1. r.op = "detail" /\ Reading(db, r)
  BY DEF H!BuildDetail, HistoryInv, Asked
<1>2. ASSUME NEW field, NEW value, field \notin {"kind", "history"}, r.step \in 1 .. 2, H!Query(c, field, value)
      PROVE  HistoryInv' /\ H!LegalStep
  <2> DEFINE new == Added(r, field, value)
  <2>1. /\ new = [op |-> new.op, at |-> new.at, days |-> new.days, step |-> new.step, answer |-> new.answer]
        /\ new.op = r.op /\ new.at = r.at /\ new.days = r.days /\ new.step = r.step + 1
        /\ "kind" \in DOMAIN new.answer /\ new.answer.kind = r.op
        /\ DOMAIN new.answer = DOMAIN r.answer \cup {field}
    BY <1>1, <1>2, AddedIs
  <2> HIDE DEF new
  <2>2. /\ r.at \in Nat /\ r.days \in Nat /\ r.op \in Reads /\ r.op # "pricing" /\ r.op \notin Listing
        /\ "history" \notin DOMAIN r.answer
    BY <1>1 DEF Reading, Listing
  <2>3. r.step + 1 \in 1 .. 3 /\ r.step + 1 \in 1 .. 5
    BY <1>2
  <2>4. "history" \notin DOMAIN new.answer
    BY <1>2, <2>1, <2>2
  <2>5. Reading(db, new)
    BY <2>1, <2>2, <2>3, <2>4 DEF Reading
  <2> QED
    BY <1>1, <1>2, <2>5, Queried DEF new
<1>3. ASSUME NEW value, H!Respond(c, "sellers", value)
      PROVE  HistoryInv' /\ H!LegalStep
  <2> DEFINE answer == H!With(r.answer, "sellers", value)
  <2>1. "kind" \in DOMAIN r.answer /\ r.answer.kind = "detail" /\ "history" \notin DOMAIN r.answer
    BY <1>1 DEF Reading
  <2>2. answer.kind = "detail" /\ "history" \notin DOMAIN answer
    BY <2>1 DEF H!With
  <2> HIDE DEF answer
  <2>3. H!AnswerSound(answer)
    BY <2>2 DEF H!AnswerSound
  <2> QED
    BY <1>3, <2>3, Responded DEF answer
<1>4. CASE r.step = 1
  BY <1>2, <1>4 DEF H!BuildDetail
<1>5. CASE r.step = 2
  BY <1>2, <1>5 DEF H!BuildDetail
<1> QED
  BY <1>3, <1>4, <1>5 DEF H!BuildDetail

LEMMA HistoryAsked ==
  ASSUME HistoryInv, NEW c \in Clients, H!Requests(c)
  PROVE  HistoryInv' /\ H!LegalStep
<1>1. CASE H!Ask(c, "refresh", <<>>)
  <2> DEFINE new == [op |-> "refresh", arg |-> <<>>, saw |-> db, at |-> calls + 1]
  <2>1. req' = [req EXCEPT ![c] = new] /\ db' = db /\ mem' = mem /\ calls' = calls + 1
    BY <1>1 DEF H!Ask
  <2>2. Asked(db, new) /\ calls' \in Nat
    BY <2>1 DEF Asked, HistoryInv
  <2> HIDE DEF new
  <2> QED
    BY <2>1, <2>2, HistoryReads DEF HistoryInv
<1>2. ASSUME NEW op \in Reads, NEW days \in Nat, H!Read(c, op, days)
      PROVE  HistoryInv' /\ H!LegalStep
  <2> DEFINE answer == [kind |-> op]
             new == [op |-> op, at |-> calls + 1, days |-> days, step |-> 1, answer |-> answer]
  <2>1. req' = [req EXCEPT ![c] = new] /\ db' = db /\ mem' = mem /\ calls' = calls + 1
    BY <1>2 DEF H!Read
  <2>2. "kind" \in DOMAIN answer /\ answer.kind = op /\ "history" \notin DOMAIN answer
    OBVIOUS
  <2> HIDE DEF answer
  <2>3. new.op = op /\ new.at = calls + 1 /\ new.days = days /\ new.step = 1 /\ new.answer = answer
    OBVIOUS
  <2>4. new = [op |-> new.op, at |-> new.at, days |-> new.days, step |-> new.step, answer |-> new.answer]
    OBVIOUS
  <2> HIDE DEF new
  <2>5. Pricing(db, new) /\ Listed(db, new)
    BY <2>2, <2>3 DEF Pricing, Listed
  <2>6. calls + 1 \in Nat
    BY DEF HistoryInv
  <2>7. Reading(db, new)
    BY <1>2, <2>2, <2>3, <2>4, <2>5, <2>6 DEF Reading
  <2>8. Asked(db, new)
    <3>1. new.op # "refresh"
      BY <1>2, <2>3 DEF Reads
    <3> QED
      BY <2>7, <3>1 DEF Asked
  <2> QED
    BY <2>1, <2>6, <2>8, HistoryReads DEF HistoryInv
<1>3. ASSUME NEW days \in {1, 5, 90}, H!Read(c, "pricing", days)
      PROVE  HistoryInv' /\ H!LegalStep
  BY <1>2, <1>3 DEF Reads
<1>4. ASSUME NEW op \in {"bsr", "offer", "sellers", "detail"}, H!Read(c, op, 90)
      PROVE  HistoryInv' /\ H!LegalStep
  BY <1>2, <1>4 DEF Reads
<1> QED
  BY <1>1, <1>3, <1>4 DEF H!Requests

LEMMA HistoryRollsBack ==
  ASSUME HistoryInv, NEW c \in Clients, H!Rollback(c)
  PROVE  HistoryInv' /\ H!LegalStep
<1>1. req' = [req EXCEPT ![c] = H!Idle] /\ db' = db /\ mem' = mem /\ calls' = calls
  BY DEF H!Rollback, H!Commit
<1>2. H!Idle.op = "idle"
  BY DEF H!Idle
<1> QED
  BY <1>1, <1>2, HistoryReads DEF HistoryInv

\* Parts of a batch that are all of different rows.
Apart(s, t) == \A i \in DOMAIN s, j \in DOMAIN t : s[i] # t[j]

LEMMA FourParts ==
  ASSUME NEW S, NEW s \in Seq(S), NEW a \in Seq(S), NEW b \in Seq(S), NEW d \in Seq(S), NEW e \in Seq(S),
         Once(a), Once(b), Once(d), Once(e),
         Apart(a, b), Apart(a, d), Apart(a, e), Apart(b, d), Apart(b, e), Apart(d, e)
  PROVE  LET new == s \o a \o b \o d \o e
         IN new \in Seq(S) /\ Extends(s, new) /\ \A row : Times(new, row) <= Times(s, row) + 1
<1> DEFINE s1 == s \o a
           s2 == s1 \o b
           s3 == s2 \o d
           s4 == s3 \o e
<1>1. s1 \in Seq(S) /\ Extends(s, s1)
  BY Joined
<1> HIDE DEF s1
<1>2. s2 \in Seq(S) /\ Extends(s1, s2)
  BY <1>1, Joined
<1> HIDE DEF s2
<1>3. s3 \in Seq(S) /\ Extends(s2, s3)
  BY <1>2, Joined
<1> HIDE DEF s3
<1>4. s4 \in Seq(S) /\ Extends(s3, s4)
  BY <1>3, Joined
<1> HIDE DEF s4
<1>5. Extends(s, s4)
  <2>1. Extends(s, s2)
    BY <1>1, <1>2, ExtendsAgain
  <2>2. Extends(s, s3)
    BY <1>2, <1>3, <2>1, ExtendsAgain
  <2> QED
    BY <1>3, <1>4, <2>2, ExtendsAgain
<1>6. ASSUME NEW row PROVE Times(s4, row) <= Times(s, row) + 1
  <2>1. /\ Times(s1, row) <= Times(s, row) + Times(a, row)
        /\ Times(s2, row) <= Times(s1, row) + Times(b, row)
        /\ Times(s3, row) <= Times(s2, row) + Times(d, row)
        /\ Times(s4, row) <= Times(s3, row) + Times(e, row)
    BY <1>1, <1>2, <1>3, TimesJoined DEF s1, s2, s3, s4
  <2>2. /\ Times(s, row) \in Nat /\ Times(s1, row) \in Nat /\ Times(s2, row) \in Nat
        /\ Times(s3, row) \in Nat /\ Times(s4, row) \in Nat
    BY <1>1, <1>2, <1>3, <1>4, PlacesFinite
  <2>3. /\ Times(a, row) \in Nat /\ Times(b, row) \in Nat /\ Times(d, row) \in Nat /\ Times(e, row) \in Nat
        /\ Times(a, row) <= 1 /\ Times(b, row) <= 1 /\ Times(d, row) <= 1 /\ Times(e, row) <= 1
    BY PlacesFinite
  <2>4. ASSUME NEW u \in Seq(S), NEW v \in Seq(S), Apart(u, v)
        PROVE  Times(u, row) = 0 \/ Times(v, row) = 0
    <3>1. (\A i \in DOMAIN u : u[i] # row) \/ (\A j \in DOMAIN v : v[j] # row)
      BY <2>4 DEF Apart
    <3> QED
      BY <3>1, PlacesFinite
  <2>5. /\ Times(a, row) = 0 \/ Times(b, row) = 0
        /\ Times(a, row) = 0 \/ Times(d, row) = 0
        /\ Times(a, row) = 0 \/ Times(e, row) = 0
        /\ Times(b, row) = 0 \/ Times(d, row) = 0
        /\ Times(b, row) = 0 \/ Times(e, row) = 0
        /\ Times(d, row) = 0 \/ Times(e, row) = 0
    BY <2>4
  <2> QED
    BY <2>1, <2>2, <2>3, <2>5, SMTT(60)
<1> QED
  BY <1>4, <1>5, <1>6 DEF s1, s2, s3, s4

\* The two kinds of prices, and that rows that differ in kind or are of different times are apart.
LEMMA Kinds ==
  H!Own \in BOOLEAN /\ H!BuyBox \in BOOLEAN
<1>1. H!Own = FALSE /\ H!BuyBox = TRUE
  BY DEF H!Own, H!BuyBox
<1> QED
  BY <1>1

LEMMA ApartByKind ==
  ASSUME NEW s, NEW t, \A i \in DOMAIN s : s[i].buyBox = H!Own, \A j \in DOMAIN t : t[j].buyBox = H!BuyBox
  PROVE  Apart(s, t) /\ Apart(t, s)
<1>1. H!Own # H!BuyBox
  BY DEF H!Own, H!BuyBox
<1>2. \A i \in DOMAIN s, j \in DOMAIN t : s[i] # t[j]
  BY <1>1
<1> QED
  BY <1>2 DEF Apart

LEMMA ApartByDate ==
  ASSUME NEW s, NEW t, \A i \in DOMAIN s : s[i].date \in Int /\ s[i].date < 12, \A j \in DOMAIN t : t[j].date >= 12
  PROVE  Apart(s, t)
BY DEF Apart

\* What one refresh stores of the prices.
LEMMA AmazonStored ==
  ASSUME NEW data \in H!Keepa
  PROVE  LET rows == H!StorePriceHistory(H!Sampled(data.amazon), H!Own)
         IN /\ rows \in Seq(H!AmazonPrice) /\ Once(rows)
            /\ \A i \in DOMAIN rows : rows[i].buyBox = H!Own /\ rows[i].date < 12
<1> DEFINE points == H!Sampled(data.amazon)
           rows == H!StorePriceHistory(points, H!Own)
<1>1. data.amazon = <<>> \/ data.amazon = H!Series(-5, 11, 4)
  BY DEF H!Keepa
<1>2. CASE data.amazon = <<>>
  <2>1. points = <<>>
    <3>1. Len(data.amazon) = 0 /\ (0 + 9) \div 10 = 0
      BY <1>2
    <3>2. points = [i \in 1 .. 0 |-> data.amazon[10 * (i - 1) + 1]]
      BY <3>1 DEF H!Sampled
    <3> QED
      BY <3>2
  <2> HIDE DEF points
  <2>2. rows = <<>>
    BY <2>1 DEF H!StorePriceHistory
  <2> HIDE DEF rows
  <2> QED
    BY <2>2 DEF Once, rows, points
<1>3. CASE data.amazon = H!Series(-5, 11, 4)
  <2>1. Len(data.amazon) = 11 /\ data.amazon[1] = [date |-> -4, price |-> 4 + (1 % 7)] /\ data.amazon[11] = [date |-> 6, price |-> 4 + (11 % 7)]
    BY <1>3 DEF H!Series
  <2>2. (11 + 9) \div 10 = 2 /\ 1 % 7 = 1 /\ 11 % 7 = 4
    OBVIOUS
  <2>3. points = [i \in 1 .. 2 |-> data.amazon[10 * (i - 1) + 1]]
    BY <2>1, <2>2 DEF H!Sampled
  <2>4. DOMAIN points = 1 .. 2 /\ points[1] = [date |-> -4, price |-> 5] /\ points[2] = [date |-> 6, price |-> 8]
    BY <2>1, <2>2, <2>3
  <2> HIDE DEF points
  <2>5. rows = [i \in 1 .. 2 |-> [date |-> points[i].date, price |-> points[i].price, buyBox |-> H!Own]]
    BY <2>4 DEF H!StorePriceHistory
  <2>6. Len(rows) = 2 /\ DOMAIN rows = 1 .. 2 /\ rows[1] = [date |-> -4, price |-> 5, buyBox |-> H!Own] /\ rows[2] = [date |-> 6, price |-> 8, buyBox |-> H!Own]
    BY <2>4, <2>5
  <2>7. rows \in Seq(H!AmazonPrice)
    <3>1. \A i \in 1 .. 2 : rows[i] \in H!AmazonPrice
      BY <2>6, Kinds DEF H!AmazonPrice
    <3> QED
      BY <2>5, <3>1
  <2> HIDE DEF rows
  <2>8. Once(rows) /\ \A i \in DOMAIN rows : rows[i].buyBox = H!Own /\ rows[i].date < 12
    BY <2>6 DEF Once
  <2> QED
    BY <2>7, <2>8 DEF rows, points
<1> QED
  BY <1>1, <1>2, <1>3

LEMMA BuyBoxStored ==
  ASSUME NEW data \in H!Keepa
  PROVE  LET rows == H!StorePriceHistory(H!Sampled(data.buyBox), H!BuyBox)
         IN /\ rows \in Seq(H!AmazonPrice) /\ Once(rows)
            /\ \A i \in DOMAIN rows : rows[i].buyBox = H!BuyBox /\ rows[i].date < 12
<1> DEFINE points == H!Sampled(data.buyBox)
           rows == H!StorePriceHistory(points, H!BuyBox)
<1>1. data.buyBox = H!Series(3, 2, 20)
  BY DEF H!Keepa
<1>2. Len(data.buyBox) = 2 /\ data.buyBox[1] = [date |-> 4, price |-> 20 + (1 % 7)]
  BY <1>1 DEF H!Series
<1>3. (2 + 9) \div 10 = 1 /\ 1 % 7 = 1
  OBVIOUS
<1>4. points = [i \in 1 .. 1 |-> data.buyBox[10 * (i - 1) + 1]]
  BY <1>2, <1>3 DEF H!Sampled
<1>5. DOMAIN points = 1 .. 1 /\ points[1] = [date |-> 4, price |-> 21]
  BY <1>2, <1>3, <1>4
<1> HIDE DEF points
<1>6. rows = [i \in 1 .. 1 |-> [date |-> points[i].date, price |-> points[i].price, buyBox |-> H!BuyBox]]
  BY <1>5 DEF H!StorePriceHistory
<1>7. DOMAIN rows = 1 .. 1 /\ rows[1] = [date |-> 4, price |-> 21, buyBox |-> H!BuyBox]
  BY <1>5, <1>6
<1>8. rows \in Seq(H!AmazonPrice)
  <2>1. \A i \in 1 .. 1 : rows[i] \in H!AmazonPrice
    BY <1>7, Kinds DEF H!AmazonPrice
  <2> QED
    BY <1>6, <2>1
<1> HIDE DEF rows
<1>9. Once(rows) /\ \A i \in DOMAIN rows : rows[i].buyBox = H!BuyBox /\ rows[i].date < 12
  BY <1>7 DEF Once
<1> QED
  BY <1>8, <1>9 DEF rows, points

LEMMA PriceStored ==
  ASSUME NEW price \in Nat, NEW date \in Int, date >= 12, NEW buyBox \in {H!Own, H!BuyBox}
  PROVE  LET rows == H!StoreAmazonPrice(price, date, buyBox)
         IN /\ rows \in Seq(H!AmazonPrice) /\ Once(rows)
            /\ \A i \in DOMAIN rows : rows[i].buyBox = buyBox /\ rows[i].date >= 12
<1> DEFINE row == [date |-> date, price |-> price, buyBox |-> buyBox]
           rows == H!StoreAmazonPrice(price, date, buyBox)
<1>1. row \in H!AmazonPrice /\ row.buyBox = buyBox /\ row.date = date
  <2>1. buyBox = H!Own \/ buyBox = H!BuyBox
    OBVIOUS
  <2> QED
    BY Kinds, <2>1 DEF H!AmazonPrice
<1> HIDE DEF row
<1>2. rows = <<row>> \/ rows = <<>>
  BY DEF H!StoreAmazonPrice, row
<1> HIDE DEF rows
<1>3. CASE rows = <<row>>
  BY <1>1, <1>3 DEF Once, rows
<1>4. CASE rows = <<>>
  BY <1>4 DEF Once, rows
<1> QED
  BY <1>2, <1>3, <1>4

LEMMA CountStored ==
  ASSUME NEW S, NEW s \in Seq(S), NEW row \in S, NEW count \in Nat
  PROVE  LET new == s \o H!StoreCount(count, row)
         IN new \in Seq(S) /\ Extends(s, new) /\ Len(new) <= Len(s) + 1
<1> DEFINE rows == H!StoreCount(count, row)
<1>1. rows = <<row>> \/ rows = <<>>
  BY DEF H!StoreCount
<1> HIDE DEF rows
<1>2. rows \in Seq(S) /\ Len(rows) <= 1 /\ Len(rows) \in Nat
  <2>1. CASE rows = <<row>>
    BY <2>1
  <2>2. CASE rows = <<>>
    BY <2>2
  <2> QED
    BY <1>1, <2>1, <2>2
<1>3. s \o rows \in Seq(S) /\ Extends(s, s \o rows) /\ Len(s \o rows) = Len(s) + Len(rows)
  BY <1>2, Joined
<1> QED
  BY <1>2, <1>3 DEF rows

LEMMA ProductStored ==
  ASSUME Tables(db), NEW data \in H!Keepa, NEW date \in Int, date >= 12
  PROVE  LET new == H!StoreFullProductData(data, date)
         IN /\ Tables(new) /\ Extends(db.prices, new.prices) /\ Extends(db.sellers, new.sellers)
            /\ Extends(db.reviews, new.reviews) /\ Extends(db.sales, new.sales)
<1> DEFINE a == H!StorePriceHistory(H!Sampled(data.amazon), H!Own)
           b == H!StorePriceHistory(H!Sampled(data.buyBox), H!BuyBox)
           d == H!StoreAmazonPrice(data.price, date, H!Own)
           e == H!StoreAmazonPrice(data.buyBoxPrice, date, H!BuyBox)
           seller == [date |-> date, count |-> data.sellers]
           review == [date |-> date, count |-> data.reviews]
           sale == [date |-> date, count |-> data.sales, rank |-> data.sales]
           prices == db.prices \o a \o b \o d \o e
           sellers == db.sellers \o H!StoreCount(data.sellers, seller)
           reviews == db.reviews \o H!StoreCount(data.reviews, review)
           sales == db.sales \o H!StoreCount(data.sales, sale)
           new == H!StoreFullProductData(data, date)
<1>1. new = [prices |-> prices, sellers |-> sellers, reviews |-> reviews, sales |-> sales, refreshes |-> db.refreshes + 1]
  BY DEF H!StoreFullProductData
<1>2. /\ data.price \in Nat /\ data.buyBoxPrice \in Nat /\ data.sellers \in Nat /\ data.reviews \in Nat /\ data.sales \in Nat
  BY DEF H!Keepa
<1>3. \A row \in H!AmazonPrice : row.date \in Int
  BY DEF H!AmazonPrice
<1>4. /\ a \in Seq(H!AmazonPrice) /\ Once(a) /\ \A i \in DOMAIN a : a[i].buyBox = H!Own /\ a[i].date < 12
  BY AmazonStored
<1>5. /\ b \in Seq(H!AmazonPrice) /\ Once(b) /\ \A i \in DOMAIN b : b[i].buyBox = H!BuyBox /\ b[i].date < 12
  BY BuyBoxStored
<1>6. /\ d \in Seq(H!AmazonPrice) /\ Once(d) /\ \A i \in DOMAIN d : d[i].buyBox = H!Own /\ d[i].date >= 12
  BY <1>2, PriceStored
<1>7. /\ e \in Seq(H!AmazonPrice) /\ Once(e) /\ \A i \in DOMAIN e : e[i].buyBox = H!BuyBox /\ e[i].date >= 12
  BY <1>2, PriceStored
<1> HIDE DEF a, b, d, e
<1>8. \A i \in DOMAIN a : a[i].date \in Int
  BY <1>3, <1>4
<1>9. \A i \in DOMAIN b : b[i].date \in Int
  BY <1>3, <1>5
<1>10. Apart(a, b) /\ Apart(a, d) /\ Apart(a, e) /\ Apart(b, d) /\ Apart(b, e) /\ Apart(d, e)
  <2>1. Apart(a, b) /\ Apart(a, e) /\ Apart(b, d) /\ Apart(d, e)
    BY <1>4, <1>5, <1>6, <1>7, ApartByKind
  <2>2. Apart(a, d) /\ Apart(b, e)
    BY <1>4, <1>5, <1>6, <1>7, <1>8, <1>9, ApartByDate
  <2> QED
    BY <2>1, <2>2
<1>11. prices \in Seq(H!AmazonPrice) /\ Extends(db.prices, prices) /\ \A row : Times(prices, row) <= Times(db.prices, row) + 1
  BY <1>4, <1>5, <1>6, <1>7, <1>10, FourParts DEF Tables
<1>12. seller \in H!SellerCount /\ review \in H!Review /\ sale \in H!SalesEstimate
  BY <1>2 DEF H!SellerCount, H!Review, H!SalesEstimate
<1> HIDE DEF seller, review, sale
<1>13. sellers \in Seq(H!SellerCount) /\ Extends(db.sellers, sellers) /\ Len(sellers) <= Len(db.sellers) + 1
  BY <1>2, <1>12, CountStored DEF Tables
<1>14. reviews \in Seq(H!Review) /\ Extends(db.reviews, reviews) /\ Len(reviews) <= Len(db.reviews) + 1
  BY <1>2, <1>12, CountStored DEF Tables
<1>15. sales \in Seq(H!SalesEstimate) /\ Extends(db.sales, sales)
  BY <1>2, <1>12, CountStored DEF Tables
<1> HIDE DEF prices, sellers, reviews, sales, new
<1>16. /\ new = [prices |-> new.prices, sellers |-> new.sellers, reviews |-> new.reviews, sales |-> new.sales, refreshes |-> new.refreshes]
       /\ new.prices = prices /\ new.sellers = sellers /\ new.reviews = reviews /\ new.sales = sales
       /\ new.refreshes = db.refreshes + 1
  BY <1>1
<1>17. db.refreshes \in Nat /\ Len(db.sellers) <= db.refreshes /\ Len(db.reviews) <= db.refreshes
  BY DEF Tables
<1>18. Len(sellers) <= db.refreshes + 1 /\ Len(reviews) <= db.refreshes + 1
  <2>1. Len(db.sellers) \in Nat /\ Len(db.reviews) \in Nat /\ Len(sellers) \in Nat /\ Len(reviews) \in Nat
    BY <1>13, <1>14 DEF Tables
  <2> QED
    BY <1>13, <1>14, <1>17, <2>1
<1>19. ASSUME NEW row PROVE Times(prices, row) <= (db.refreshes + 1) + 1
  <2>1. Times(prices, row) \in Nat /\ Times(db.prices, row) \in Nat
    BY <1>11, PlacesFinite DEF Tables
  <2>2. Times(db.prices, row) <= db.refreshes + 1
    BY DEF Tables
  <2> QED
    BY <1>11, <1>17, <2>1, <2>2
<1>20. Tables(new)
  BY <1>11, <1>13, <1>14, <1>15, <1>16, <1>17, <1>18, <1>19 DEF Tables
<1> QED
  BY <1>11, <1>13, <1>14, <1>15, <1>16, <1>20 DEF new

LEMMA ProductRefreshed ==
  ASSUME HistoryInv, NEW c \in Clients, H!RefreshProduct(c)
  PROVE  HistoryInv' /\ H!LegalStep
<1>1. Tables(db) /\ req[c].op = "refresh" /\ req[c].at \in Nat
  BY DEF H!RefreshProduct, HistoryInv, Asked
<1> DEFINE date == H!Now(c)
<1>2. date \in Int /\ date >= 12
  BY <1>1 DEF H!Now, H!Today
<1>3. PICK data \in H!Keepa : H!Commit(c, H!StoreFullProductData(data, date))
  BY DEF H!RefreshProduct
<1> DEFINE new == H!StoreFullProductData(data, date)
<1>4. db' = new /\ req' = [req EXCEPT ![c] = H!Idle] /\ mem' = mem /\ calls' = calls
  BY <1>3 DEF H!Commit
<1> HIDE DEF date
<1>5. /\ Tables(new) /\ Extends(db.prices, new.prices) /\ Extends(db.sellers, new.sellers)
      /\ Extends(db.reviews, new.reviews) /\ Extends(db.sales, new.sales)
  BY <1>1, <1>2, ProductStored
<1> HIDE DEF new
<1>6. H!LegalStep
  <2>1. /\ H!IsPrefix(db.prices, new.prices) /\ H!IsPrefix(db.sellers, new.sellers)
        /\ H!IsPrefix(db.reviews, new.reviews) /\ H!IsPrefix(db.sales, new.sales)
    BY <1>1, <1>5, Prefix DEF Tables
  <2> QED
    BY <1>4, <2>1 DEF H!LegalStep
<1>7. \A d \in Clients : req'[d].op # "idle" => d # c /\ req'[d] = req[d]
  BY <1>4 DEF HistoryInv, H!Idle
<1>8. ASSUME NEW d \in Clients, req'[d].op # "idle" PROVE Asked(new, req'[d])
  <2>1. Asked(db, req[d]) /\ req'[d] = req[d]
    BY <1>7, <1>8 DEF HistoryInv
  <2>2. new.prices \in Seq(H!AmazonPrice) /\ new.sellers \in Seq(H!SellerCount)
    BY <1>5 DEF Tables
  <2>3. Asked(new, req[d])
    BY <1>1, <1>5, <2>1, <2>2, AskedStays
  <2> QED
    BY <2>1, <2>3
<1>9. req' = [d \in Clients |-> req'[d]]
  BY <1>4 DEF HistoryInv
<1>10. HistoryInv'
  BY <1>4, <1>5, <1>8, <1>9 DEF HistoryInv
<1> QED
  BY <1>6, <1>10

LEMMA HistoryBegins ==
  ASSUME H!Init
  PROVE  HistoryInv
<1> DEFINE early == [date |-> -20, price |-> 50, buyBox |-> H!Own]
           late == [date |-> 10, price |-> 7, buyBox |-> H!BuyBox]
<1>1. early \in H!AmazonPrice /\ late \in H!AmazonPrice
  BY Kinds DEF H!AmazonPrice
<1>2. early # late
  OBVIOUS
<1>3. /\ req = [c \in Clients |-> H!Idle] /\ calls = 0 /\ mem = [kind |-> "none"]
      /\ \E prices \in {<<>>, <<early, late>>} : db = [prices |-> prices, sellers |-> <<>>, reviews |-> <<>>, sales |-> <<>>, refreshes |-> 0]
  BY DEF H!Init, H!NoRequests, H!Own, H!BuyBox
<1> HIDE DEF early, late
<1>4. PICK prices \in {<<>>, <<early, late>>} : db = [prices |-> prices, sellers |-> <<>>, reviews |-> <<>>, sales |-> <<>>, refreshes |-> 0]
  BY <1>3
<1>5. prices \in Seq(H!AmazonPrice) /\ Once(prices)
  <2>1. CASE prices = <<>>
    BY <2>1 DEF Once
  <2>2. CASE prices = <<early, late>>
    BY <1>1, <1>2, <2>2 DEF Once
  <2> QED
    BY <1>4, <2>1, <2>2
<1>6. \A row : Times(prices, row) <= 1
  BY <1>5, PlacesFinite
<1>7. /\ db = [prices |-> db.prices, sellers |-> db.sellers, reviews |-> db.reviews, sales |-> db.sales, refreshes |-> db.refreshes]
      /\ db.prices = prices /\ db.sellers = <<>> /\ db.reviews = <<>> /\ db.sales = <<>> /\ db.refreshes = 0
  BY <1>4
<1>8. <<>> \in Seq(H!SellerCount) /\ <<>> \in Seq(H!Review) /\ <<>> \in Seq(H!SalesEstimate) /\ Len(<<>>) = 0
  OBVIOUS
<1>9. Tables(db)
  <2>1. \A row : Times(db.prices, row) <= db.refreshes + 1
    BY <1>6, <1>7
  <2>2. /\ db.prices \in Seq(H!AmazonPrice) /\ db.sellers \in Seq(H!SellerCount)
        /\ db.reviews \in Seq(H!Review) /\ db.sales \in Seq(H!SalesEstimate)
        /\ db.refreshes \in Nat /\ Len(db.sellers) <= db.refreshes /\ Len(db.reviews) <= db.refreshes
    BY <1>5, <1>7, <1>8
  <2> QED
    BY <1>7, <2>1, <2>2 DEF Tables
<1>10. H!AnswerSound(mem)
  <2>1. mem.kind = "none" /\ "history" \notin DOMAIN mem
    BY <1>3
  <2> QED
    BY <2>1 DEF H!AnswerSound
<1>11. \A c \in Clients : req[c].op = "idle"
  BY <1>3 DEF H!Idle
<1>12. req = [c \in Clients |-> req[c]] /\ calls \in Nat
  BY <1>3
<1> QED
  BY <1>9, <1>10, <1>11, <1>12 DEF HistoryInv

LEMMA HistorySound ==
  ASSUME HistoryInv
  PROVE  H!TypeOK /\ H!Integrity
<1>1. Tables(db) /\ H!AnswerSound(mem)
  BY DEF HistoryInv
<1>2. H!TypeOK
  <2>1. ASSUME NEW S, NEW s \in Seq(S) PROVE H!ToSet(s) \subseteq S
    BY HNumbers
  <2> QED
    BY <1>1, <2>1 DEF H!TypeOK, Tables
<1>3. \A row : H!Cardinality({i \in DOMAIN db.prices : db.prices[i] = row}) <= db.refreshes + 1
  BY <1>1, HNumbers DEF Tables, Times
<1>4. \A rows \in {db.sellers, db.reviews} : Len(rows) <= db.refreshes
  BY <1>1 DEF Tables
<1> QED
  BY <1>1, <1>2, <1>3, <1>4 DEF H!Integrity

LEMMA HistoryGoesOn ==
  ASSUME HistoryInv, [H!Next]_(H!sessionVars)
  PROVE  HistoryInv' /\ [H!LegalStep]_(H!sessionVars)
<1>1. CASE H!Next
  <2>1. PICK c \in Clients :
          \/ H!Requests(c) \/ H!RefreshProduct(c) \/ H!Rollback(c)
          \/ H!GetPricingHistory(c) \/ H!GetBsrHistory(c) \/ H!GetBuyBox(c) \/ H!GetSellerCounts(c) \/ H!BuildDetail(c)
    BY <1>1 DEF H!Next
  <2>2. HistoryInv' /\ H!LegalStep
    BY <2>1, HistoryAsked, ProductRefreshed, HistoryRollsBack, PricingAnswers, BsrAnswers, BuyBoxAnswers, SellersAnswer, DetailAnswers
  <2> QED
    BY <2>2
<1>2. CASE UNCHANGED H!sessionVars
  <2>1. db' = db /\ mem' = mem /\ req' = req /\ calls' = calls
    BY <1>2 DEF H!sessionVars
  <2>2. HistoryInv'
    BY <2>1 DEF HistoryInv
  <2> QED
    BY <1>2, <2>2
<1> QED
  BY <1>1, <1>2

\* An answer about the history of a product never contradicts itself, though it is made of several
\* queries and refreshes are committed between them, and what a refresh stores of a series is there
\* no more often than there were refreshes (product_sourcing_service.get_pricing_history and its
\* siblings, keepa/repository.store_full_product_data).
THEOREM HistoryIntegrity ==
  H!Spec => [](H!TypeOK /\ H!Integrity)
<1>1. H!Init => HistoryInv
  BY HistoryBegins
<1>2. HistoryInv /\ [H!Next]_(H!sessionVars) => HistoryInv'
  BY HistoryGoesOn
<1>3. HistoryInv => H!TypeOK /\ H!Integrity
  BY HistorySound
<1> QED
  BY <1>1, <1>2, <1>3, PTL DEF H!Spec

\* History is only added to: no refresh and no request that is rolled back removes or changes a row
\* of the prices, sellers, reviews or sales (keepa/repository.py only inserts).
THEOREM HistoryLegalSteps ==
  H!Spec => [][H!LegalStep]_H!sessionVars
<1>1. H!Init => HistoryInv
  BY HistoryBegins
<1>2. HistoryInv /\ [H!Next]_(H!sessionVars) => HistoryInv' /\ [H!LegalStep]_(H!sessionVars)
  BY HistoryGoesOn
<1> QED
  BY <1>1, <1>2, PTL DEF H!Spec

-----------------------------------------------------------------------------
(***************************************************************************)
(* Learning. What a request saw can only have grown since: predictions     *)
(* keep their places in time, their external ids and that they have an     *)
(* outcome, and runs are only added. So the number a cycle chose is free   *)
(* exactly when no other cycle was in between, and what it scanned still   *)
(* has an outcome when it commits.                                         *)
(***************************************************************************)
L == INSTANCE Learning

LEMMA LNumbers ==
  /\ \A S : L!Cardinality(S) = Cardinality(S)
  /\ \A s, places : L!Selected(s, places) = Selected(s, places)
  /\ \A s : L!ToSet(s) = {s[i] : i \in DOMAIN s}
<1>1. ASSUME NEW S PROVE L!Cardinality(S) = Cardinality(S)
  BY DEF L!Cardinality, Cardinality
<1>2. ASSUME NEW s, NEW places PROVE L!Selected(s, places) = Selected(s, places)
  BY DEF L!Selected, Selected, L!InOrder, InOrder, L!Cardinality, Cardinality
<1>3. ASSUME NEW s PROVE L!ToSet(s) = {s[i] : i \in DOMAIN s}
  BY DEF L!ToSet
<1> QED
  BY <1>1, <1>2, <1>3

\* The predictions that are kept, and the runs over them.
Predicted(rows) ==
  /\ rows \in Seq(L!Prediction)
  /\ \A i, j \in DOMAIN rows : i < j => rows[i].at < rows[j].at
  /\ \A i, j \in DOMAIN rows : i # j /\ rows[i].ext = rows[j].ext => rows[i].ext = NoName
HasOutcome(rows, at) == \E i \in DOMAIN rows : rows[i].at = at /\ rows[i].actual # -1
Cycled(runs, rows) ==
  /\ runs \in Seq(L!Run)
  /\ \A i \in DOMAIN runs :
       /\ runs[i].number = i /\ Cardinality(runs[i].scanned) <= 6
       /\ \A at \in runs[i].scanned : HasOutcome(rows, at)
Records(x) ==
  /\ x = [predictions |-> x.predictions, runs |-> x.runs]
  /\ Predicted(x.predictions) /\ Cycled(x.runs, x.predictions)

\* What is kept from one state of the records to a later one: the predictions with their
\* outcomes, though another one may take their place, and the runs.
KeptRows(old, new) ==
  \A i \in DOMAIN old : \E j \in DOMAIN new :
    new[j].at = old[i].at /\ new[j].ext = old[i].ext /\ (old[i].actual # -1 => new[j].actual # -1)
Later(old, new) == KeptRows(old.predictions, new.predictions) /\ Len(old.runs) <= Len(new.runs)

Sent(r) ==
  /\ r.op \in {"predict", "outcome", "cycle", "recommendation"}
  /\ r.op = "predict" => r.arg.ext \in Ids \cup {NoName} /\ r.arg.subject \in L!Subjects /\ r.arg.pred \in {2, 8}
  /\ r.op = "outcome" => r.arg.actual \in {0, 10}
  /\ r.op = "recommendation" => r.arg \in L!RecommendationStatus
InFlight(r, x, n) ==
  /\ Sent(r) /\ r.at \in 1 .. n /\ Records(r.saw) /\ Later(r.saw, x)
  /\ r.op = "predict" => \A i \in DOMAIN x.predictions : x.predictions[i].at # r.at
LearningInv ==
  /\ req = [c \in Clients |-> req[c]] /\ calls \in 0 .. MaxCalls /\ mem = <<>> /\ Records(db)
  /\ \A i \in DOMAIN db.predictions : db.predictions[i].at <= calls
  /\ \A c \in Clients : req[c].op # "idle" => InFlight(req[c], db, calls)
  /\ \A c, d \in Clients : c # d /\ req[c].op # "idle" /\ req[d].op # "idle" => req[c].at # req[d].at

\* What a transaction may make of the records.
Written(c, new) ==
  /\ Records(new) /\ Later(db, new)
  /\ \A j \in DOMAIN new.predictions :
       \/ \E i \in DOMAIN db.predictions : db.predictions[i].at = new.predictions[j].at
       \/ req[c].op = "predict" /\ new.predictions[j].at = req[c].at

LEMMA LaterAgain ==
  ASSUME NEW x, NEW y, NEW z, Records(x), Records(y), Records(z), Later(x, y), Later(y, z)
  PROVE  Later(x, z)
<1>1. KeptRows(x.predictions, z.predictions)
  BY DEF Later, KeptRows
<1>2. Len(x.runs) \in Nat /\ Len(y.runs) \in Nat /\ Len(z.runs) \in Nat
  BY DEF Records, Cycled
<1> QED
  BY <1>1, <1>2 DEF Later

LEMMA LaterItself ==
  ASSUME NEW x, Records(x)
  PROVE  Later(x, x)
<1>1. Len(x.runs) \in Nat
  BY DEF Records, Cycled
<1> QED
  BY <1>1 DEF Later, KeptRows

LEMMA LearningWrite ==
  ASSUME LearningInv, NEW c \in Clients, req[c].op # "idle", NEW new, L!Commit(c, new), Written(c, new)
  PROVE  LearningInv'
<1>1. req' = [req EXCEPT ![c] = L!Idle] /\ db' = new /\ mem' = mem /\ calls' = calls
  BY DEF L!Commit
<1>2. InFlight(req[c], db, calls) /\ Records(db) /\ calls \in 0 .. MaxCalls
  BY DEF LearningInv
<1>3. \A d \in Clients : req'[d].op # "idle" => d # c /\ req'[d] = req[d]
  BY <1>1 DEF LearningInv, L!Idle
<1>4. \A j \in DOMAIN new.predictions : new.predictions[j].at <= calls
  <2>1. req[c].at \in Nat /\ req[c].at <= calls
    BY <1>2 DEF InFlight
  <2> QED
    BY <2>1 DEF Written, LearningInv
<1>5. ASSUME NEW d \in Clients, req'[d].op # "idle" PROVE InFlight(req'[d], new, calls)
  <2>1. InFlight(req[d], db, calls) /\ req'[d] = req[d] /\ req[d].at # req[c].at
    BY <1>3, <1>5 DEF LearningInv
  <2>2. Later(req[d].saw, new)
    BY <1>2, <2>1, LaterAgain DEF InFlight, Written
  <2>3. req[d].op = "predict" => \A j \in DOMAIN new.predictions : new.predictions[j].at # req[d].at
    BY <2>1 DEF InFlight, Written
  <2> QED
    BY <2>1, <2>2, <2>3 DEF InFlight
<1>6. \A d, e \in Clients : d # e /\ req'[d].op # "idle" /\ req'[e].op # "idle" => req'[d].at # req'[e].at
  BY <1>3 DEF LearningInv
<1>7. req' = [d \in Clients |-> req'[d]]
  BY <1>1 DEF LearningInv
<1>8. Records(new)
  BY DEF Written
<1> QED
  BY <1>1, <1>4, <1>5, <1>6, <1>7, <1>8 DEF LearningInv

LEMMA LearningAsked ==
  ASSUME LearningInv, NEW c \in Clients, NEW op, NEW arg, L!Ask(c, op, arg), Sent([op |-> op, arg |-> arg, saw |-> db, at |-> calls + 1])
  PROVE  LearningInv'
<1> DEFINE new == [op |-> op, arg |-> arg, saw |-> db, at |-> calls + 1]
<1>1. req' = [req EXCEPT ![c] = new] /\ db' = db /\ mem' = mem /\ calls' = calls + 1
  BY DEF L!Ask
<1>0. calls < MaxCalls
  BY DEF L!Ask
<1>2. new.op = op /\ new.arg = arg /\ new.saw = db /\ new.at = calls + 1 /\ Sent(new)
  OBVIOUS
<1> HIDE DEF new
<1>3. calls \in Nat /\ calls + 1 \in 0 .. MaxCalls /\ Records(db)
  BY <1>0, SessionsAssumption DEF LearningInv
<1>4. \A i \in DOMAIN db.predictions : db.predictions[i].at \in Int /\ db.predictions[i].at <= calls
  <2>1. \A p \in L!Prediction : p.at \in Int
    BY SessionsAssumption DEF L!Prediction
  <2>2. \A i \in DOMAIN db.predictions : db.predictions[i] \in L!Prediction
    BY <1>3 DEF Records, Predicted
  <2> QED
    BY <2>1, <2>2 DEF LearningInv
<1>5. InFlight(new, db, calls + 1)
  <2>1. Later(db, db)
    BY <1>3, LaterItself
  <2>2. \A i \in DOMAIN db.predictions : db.predictions[i].at # calls + 1
    BY <1>3, <1>4
  <2>3. calls + 1 \in 1 .. calls + 1
    BY <1>3
  <2> QED
    BY <1>2, <1>3, <2>1, <2>2, <2>3 DEF InFlight
<1>6. ASSUME NEW d \in Clients, req[d].op # "idle" PROVE InFlight(req[d], db, calls + 1) /\ req[d].at # calls + 1
  <2>1. InFlight(req[d], db, calls)
    BY <1>6 DEF LearningInv
  <2>2. req[d].at \in 1 .. calls
    BY <2>1 DEF InFlight
  <2>3. req[d].at \in 1 .. (calls + 1) /\ req[d].at # calls + 1
    BY <1>3, <2>2
  <2> QED
    BY <2>1, <2>3 DEF InFlight
<1>7. \A d \in Clients : req'[d] = IF d = c THEN new ELSE req[d]
  BY <1>1 DEF LearningInv
<1>8. \A d \in Clients : req'[d].op # "idle" => InFlight(req'[d], db, calls + 1)
  BY <1>5, <1>6, <1>7
<1>9. \A d, e \in Clients : d # e /\ req'[d].op # "idle" /\ req'[e].op # "idle" => req'[d].at # req'[e].at
  BY <1>2, <1>6, <1>7 DEF LearningInv
<1>10. req' = [d \in Clients |-> req'[d]]
  BY <1>1 DEF LearningInv
<1>11. \A i \in DOMAIN db.predictions : db.predictions[i].at <= calls + 1
  BY <1>3, <1>4
<1> QED
  BY <1>1, <1>3, <1>8, <1>9, <1>10, <1>11 DEF LearningInv

Rising(s) == \A i, j \in DOMAIN s : i < j => s[i].at < s[j].at

LEMMA ForecastAt ==
  ASSUME NEW s \in Seq(L!Prediction)
  PROVE  /\ Len(s) \in Nat /\ DOMAIN s = 1 .. Len(s)
         /\ \A i \in DOMAIN s : s[i] \in L!Prediction /\ s[i].at \in Int
<1>1. \A p \in L!Prediction : p.at \in Int
  BY SessionsAssumption DEF L!Prediction
<1>2. \A i \in DOMAIN s : s[i] \in L!Prediction
  OBVIOUS
<1> QED
  BY <1>1, <1>2

LEMMA RisingSelected ==
  ASSUME NEW s \in Seq(L!Prediction), Rising(s), NEW places \in SUBSET DOMAIN s
  PROVE  LET t == Selected(s, places)
         IN /\ t \in Seq(L!Prediction) /\ Rising(t)
            /\ \A m \in DOMAIN t : \E i \in places : t[m] = s[i]
            /\ \A i \in places : \E m \in DOMAIN t : t[m] = s[i]
<1> DEFINE n == Len(s)
           k == Cardinality(places)
           order == InOrder(places)
           t == Selected(s, places)
<1>1. n \in Nat /\ DOMAIN s = 1 .. n /\ \A i \in DOMAIN s : s[i] \in L!Prediction
  BY ForecastAt
<1>2. t = [m \in 1 .. k |-> s[order[m]]]
  BY DEF Selected
<1> HIDE DEF n, order, t
<1>3. /\ k \in Nat /\ order \in [1 .. k -> places]
      /\ \A i \in places : \E m \in 1 .. k : order[m] = i
      /\ \A m, l \in 1 .. k : m < l => order[m] < order[l]
  BY <1>1, InOrderIs DEF order
<1> HIDE DEF k
<1>4. DOMAIN t = 1 .. k /\ \A m \in 1 .. k : t[m] = s[order[m]] /\ order[m] \in places /\ order[m] \in DOMAIN s
  BY <1>2, <1>3
<1>5. t \in Seq(L!Prediction)
  <2>1. \A m \in 1 .. k : s[order[m]] \in L!Prediction
    BY <1>1, <1>4
  <2> QED
    BY <1>2, <1>3, <2>1
<1>6. Rising(t)
  BY <1>3, <1>4 DEF Rising
<1>7. \A m \in DOMAIN t : \E i \in places : t[m] = s[i]
  BY <1>4
<1>8. \A i \in places : \E m \in DOMAIN t : t[m] = s[i]
  <2> SUFFICES ASSUME NEW i \in places PROVE \E m \in DOMAIN t : t[m] = s[i]
    OBVIOUS
  <2>1. PICK m \in 1 .. k : order[m] = i
    BY <1>3
  <2> QED
    BY <1>4, <2>1
<1> QED
  BY <1>5, <1>6, <1>7, <1>8 DEF t

LEMMA RisingJoined ==
  ASSUME NEW s \in Seq(L!Prediction), NEW t \in Seq(L!Prediction), Rising(s), Rising(t),
         \A i \in DOMAIN s, j \in DOMAIN t : s[i].at < t[j].at
  PROVE  LET u == s \o t
         IN /\ u \in Seq(L!Prediction) /\ Rising(u)
            /\ \A m \in DOMAIN u : (\E i \in DOMAIN s : u[m] = s[i]) \/ (\E j \in DOMAIN t : u[m] = t[j])
            /\ \A i \in DOMAIN s : \E m \in DOMAIN u : u[m] = s[i]
            /\ \A j \in DOMAIN t : \E m \in DOMAIN u : u[m] = t[j]
<1> DEFINE u == s \o t
           m == Len(s)
           n == Len(t)
<1>1. /\ u \in Seq(L!Prediction) /\ m \in Nat /\ n \in Nat /\ DOMAIN u = 1 .. (m + n) /\ DOMAIN s = 1 .. m /\ DOMAIN t = 1 .. n
      /\ \A i \in 1 .. m : u[i] = s[i]
      /\ \A i \in (m + 1) .. (m + n) : u[i] = t[i - m]
  OBVIOUS
<1> HIDE DEF u, m, n
<1>2. \A j \in 1 .. n : u[m + j] = t[j] /\ m + j \in DOMAIN u
  BY <1>1
<1>3. ASSUME NEW i \in DOMAIN u, NEW j \in DOMAIN u, i < j PROVE u[i].at < u[j].at
  <2>1. CASE i \in 1 .. m /\ j \in 1 .. m
    BY <1>1, <1>3, <2>1 DEF Rising
  <2>2. CASE i \in 1 .. m /\ j \in (m + 1) .. (m + n)
    <3>1. j - m \in 1 .. n
      BY <1>1, <2>2
    <3> QED
      BY <1>1, <2>2, <3>1
  <2>3. CASE i \in (m + 1) .. (m + n) /\ j \in (m + 1) .. (m + n)
    <3>1. i - m \in 1 .. n /\ j - m \in 1 .. n /\ i - m < j - m
      BY <1>1, <1>3, <2>3
    <3> QED
      BY <1>1, <2>3, <3>1 DEF Rising
  <2> QED
    BY <1>1, <1>3, <2>1, <2>2, <2>3
<1>4. ASSUME NEW i \in DOMAIN u PROVE (\E k \in DOMAIN s : u[i] = s[k]) \/ (\E k \in DOMAIN t : u[i] = t[k])
  <2>1. CASE i \in 1 .. m
    BY <1>1, <2>1
  <2>2. CASE i \in (m + 1) .. (m + n)
    <3>1. i - m \in 1 .. n
      BY <1>1, <2>2
    <3> QED
      BY <1>1, <2>2, <3>1
  <2> QED
    BY <1>1, <2>1, <2>2
<1>5. \A i \in DOMAIN s : \E k \in DOMAIN u : u[k] = s[i]
  BY <1>1
<1>6. \A j \in DOMAIN t : \E k \in DOMAIN u : u[k] = t[j]
  BY <1>1, <1>2
<1> QED
  BY <1>1, <1>3, <1>4, <1>5, <1>6 DEF Rising, u

LEMMA InsertedIs ==
  ASSUME NEW rows, Predicted(rows), NEW new \in L!Prediction, \A i \in DOMAIN rows : rows[i].at # new.at,
         new.ext # NoName => \A i \in DOMAIN rows : rows[i].ext # new.ext
  PROVE  LET u == L!Inserted(rows, new)
         IN /\ Predicted(u)
            /\ \A i \in DOMAIN rows : \E m \in DOMAIN u : u[m] = rows[i]
            /\ \A m \in DOMAIN u : u[m] = new \/ \E i \in DOMAIN rows : u[m] = rows[i]
<1> DEFINE before == {i \in DOMAIN rows : rows[i].at < new.at}
           after == {i \in DOMAIN rows : rows[i].at >= new.at}
           a == Selected(rows, before)
           b == Selected(rows, after)
           one == <<new>>
           v == a \o one
           u == v \o b
<1>1. L!Inserted(rows, new) = u
  BY LNumbers DEF L!Inserted, L!Filter
<1>2. rows \in Seq(L!Prediction) /\ Rising(rows)
  BY DEF Predicted, Rising
<1>3. /\ a \in Seq(L!Prediction) /\ Rising(a)
      /\ \A m \in DOMAIN a : \E i \in before : a[m] = rows[i]
      /\ \A i \in before : \E m \in DOMAIN a : a[m] = rows[i]
  <2>1. before \in SUBSET DOMAIN rows
    OBVIOUS
  <2> HIDE DEF before
  <2> QED
    BY <1>2, <2>1, RisingSelected
<1>4. /\ b \in Seq(L!Prediction) /\ Rising(b)
      /\ \A m \in DOMAIN b : \E i \in after : b[m] = rows[i]
      /\ \A i \in after : \E m \in DOMAIN b : b[m] = rows[i]
  <2>1. after \in SUBSET DOMAIN rows
    OBVIOUS
  <2> HIDE DEF after
  <2> QED
    BY <1>2, <2>1, RisingSelected
<1> HIDE DEF a, b
<1>5. new.at \in Int /\ \A i \in DOMAIN rows : rows[i].at \in Int
  <2>1. \A p \in L!Prediction : p.at \in Int
    BY SessionsAssumption DEF L!Prediction
  <2> QED
    BY <1>2, <2>1, ForecastAt
<1>6. one \in Seq(L!Prediction) /\ Rising(one) /\ DOMAIN one = {1} /\ one[1] = new
  BY DEF Rising
<1>7. \A i \in DOMAIN rows : i \in before \/ i \in after
  BY <1>5
<1>8. \A m \in DOMAIN a : a[m].at < new.at
  BY <1>3
<1>9. \A m \in DOMAIN b : new.at < b[m].at
  <2>1. \A i \in after : new.at < rows[i].at
    BY <1>5
  <2> QED
    BY <1>4, <2>1
<1>10. \A m \in DOMAIN a : \E i \in DOMAIN rows : a[m] = rows[i]
  BY <1>3
<1>11. \A m \in DOMAIN b : \E i \in DOMAIN rows : b[m] = rows[i]
  BY <1>4
<1> HIDE DEF before, after, one
<1>12. \A i \in DOMAIN a, j \in DOMAIN one : a[i].at < one[j].at
  BY <1>6, <1>8
<1>13. /\ v \in Seq(L!Prediction) /\ Rising(v)
       /\ \A m \in DOMAIN v : (\E i \in DOMAIN a : v[m] = a[i]) \/ (\E j \in DOMAIN one : v[m] = one[j])
       /\ \A i \in DOMAIN a : \E m \in DOMAIN v : v[m] = a[i]
       /\ \A j \in DOMAIN one : \E m \in DOMAIN v : v[m] = one[j]
  BY <1>3, <1>6, <1>12, RisingJoined
<1> HIDE DEF v
<1>14. \A i \in DOMAIN v, j \in DOMAIN b : v[i].at < b[j].at
  <2> SUFFICES ASSUME NEW i \in DOMAIN v, NEW j \in DOMAIN b PROVE v[i].at < b[j].at
    OBVIOUS
  <2>1. v[i].at \in Int /\ b[j].at \in Int
    BY <1>4, <1>13, ForecastAt
  <2>2. v[i].at <= new.at
    BY <1>5, <1>6, <1>8, <1>13, <2>1
  <2> QED
    BY <1>5, <1>9, <2>1, <2>2
<1>15. /\ u \in Seq(L!Prediction) /\ Rising(u)
       /\ \A m \in DOMAIN u : (\E i \in DOMAIN v : u[m] = v[i]) \/ (\E j \in DOMAIN b : u[m] = b[j])
       /\ \A i \in DOMAIN v : \E m \in DOMAIN u : u[m] = v[i]
       /\ \A j \in DOMAIN b : \E m \in DOMAIN u : u[m] = b[j]
  BY <1>4, <1>13, <1>14, RisingJoined
<1> HIDE DEF u
<1>16. \A m \in DOMAIN u : u[m] = new \/ \E i \in DOMAIN rows : u[m] = rows[i]
  <2> SUFFICES ASSUME NEW m \in DOMAIN u PROVE u[m] = new \/ \E i \in DOMAIN rows : u[m] = rows[i]
    OBVIOUS
  <2>1. ASSUME NEW k \in DOMAIN v, u[m] = v[k] PROVE u[m] = new \/ \E i \in DOMAIN rows : u[m] = rows[i]
    BY <1>6, <1>10, <1>13, <2>1
  <2>2. ASSUME NEW k \in DOMAIN b, u[m] = b[k] PROVE \E i \in DOMAIN rows : u[m] = rows[i]
    BY <1>11, <2>2
  <2> QED
    BY <1>15, <2>1, <2>2
<1>17. ASSUME NEW i \in DOMAIN rows PROVE \E m \in DOMAIN u : u[m] = rows[i]
  <2>1. CASE i \in before
    BY <1>3, <1>13, <1>15, <2>1
  <2>2. CASE i \in after
    BY <1>4, <1>15, <2>2
  <2> QED
    BY <1>7, <2>1, <2>2
<1>18. ASSUME NEW i \in DOMAIN u, NEW j \in DOMAIN u, i # j, u[i].ext = u[j].ext PROVE u[i].ext = NoName
  <2>1. u[i].at # u[j].at
    BY <1>15, <1>18, ForecastAt DEF Rising
  <2>2. CASE u[i] = new \/ u[j] = new
    BY <1>16, <1>18, <2>1, <2>2
  <2>3. CASE u[i] # new /\ u[j] # new
    <3>1. PICK k \in DOMAIN rows : u[i] = rows[k]
      BY <1>16, <2>3
    <3>2. PICK l \in DOMAIN rows : u[j] = rows[l]
      BY <1>16, <2>3
    <3> QED
      BY <1>18, <2>1, <3>1, <3>2 DEF Predicted
  <2> QED
    BY <2>2, <2>3
<1>19. Predicted(u)
  BY <1>15, <1>18 DEF Predicted, Rising
<1> QED
  BY <1>1, <1>16, <1>17, <1>19

\* A sequence of as many elements as a finite set has.
LEMMA SetInSequence ==
  ASSUME NEW S, IsFiniteSet(S)
  PROVE  /\ Cardinality(S) \in Nat /\ L!SetToSeq(S) \in [1 .. Cardinality(S) -> S]
<1>1. Cardinality(S) \in Nat /\ ExistsBijection(1 .. Cardinality(S), S)
  BY FS_CountingElements, FS_CardinalityType
<1>2. PICK f \in [1 .. Cardinality(S) -> S] : \A a, b \in DOMAIN f : f[a] = f[b] => a = b
  BY <1>1 DEF ExistsBijection, Bijection, Injection, Surjection, IsInjective
<1>3. L!IsInjective(f)
  BY <1>2 DEF L!IsInjective
<1>4. L!SetToSeq(S) = CHOOSE g \in [1 .. Cardinality(S) -> S] : L!IsInjective(g)
  BY LNumbers DEF L!SetToSeq
<1> QED
  BY <1>1, <1>3, <1>4

LEMMA FilteredLength ==
  ASSUME NEW n \in Nat, NEW s, NEW places \in SUBSET (1 .. n)
  PROVE  Len(Selected(s, places)) \in Nat /\ DOMAIN Selected(s, places) = 1 .. Len(Selected(s, places))
<1>1. Cardinality(places) \in Nat
  BY InOrderIs
<1>2. Selected(s, places) = [m \in 1 .. Cardinality(places) |-> s[InOrder(places)[m]]]
  BY DEF Selected
<1> QED
  BY <1>1, <1>2

LEMMA GroupsLength ==
  ASSUME NEW rows
  PROVE  \E n \in Nat : DOMAIN L!Groups(rows) = 1 .. n
<1> DEFINE S == {s \in L!Subjects : L!Group(rows, s) # <<>>}
<1>1. IsFiniteSet(L!Subjects)
  <2>1. IsFiniteSet({"a"}) /\ IsFiniteSet({"b"})
    BY FS_Singleton
  <2>2. IsFiniteSet({"a"} \cup {"b"}) /\ {"a"} \cup {"b"} = L!Subjects
    BY <2>1, FS_Union DEF L!Subjects
  <2> QED
    BY <2>2
<1>2. S \in SUBSET L!Subjects
  OBVIOUS
<1>3. L!Groups(rows) = L!SetToSeq(S)
  BY DEF L!Groups
<1> HIDE DEF S
<1>4. IsFiniteSet(S)
  BY <1>1, <1>2, FS_Subset
<1> QED
  BY <1>3, <1>4, SetInSequence

LEMMA Recommended ==
  ASSUME NEW rows
  PROVE  L!Recommendations(rows) \in Seq(L!Recommendation)
<1> DEFINE threshold == [target |-> "rule_threshold", status |-> "open"]
           tuning == [target |-> "rule_threshold", status |-> "applied"]
           weight == [target |-> "feature_weight", status |-> "open"]
           a == L!RecommendationsForIssues(rows)
           b == L!AutoTuneRules(rows)
           d == L!AutoReweight(rows)
<1>1. threshold \in L!Recommendation /\ tuning \in L!Recommendation /\ weight \in L!Recommendation
  BY DEF L!Recommendation, L!RecommendationStatus
<1> HIDE DEF threshold, tuning, weight
<1>2. PICK n \in Nat : DOMAIN L!Groups(rows) = 1 .. n
  BY GroupsLength
<1>3. a \in Seq(L!Recommendation)
  <2> DEFINE groups == [i \in DOMAIN L!Groups(rows) |-> [id |-> L!Groups(rows)[i], pairs |-> L!Group(rows, L!Groups(rows)[i])]]
             issues == L!E!ScanIssues(groups)
  <2>1. DOMAIN groups = 1 .. n
    BY <1>2
  <2>2. a = [i \in DOMAIN issues |-> threshold]
    BY DEF L!RecommendationsForIssues, threshold
  <2> HIDE DEF groups
  <2>3. \E k \in Nat : DOMAIN issues = 1 .. k
    <3> DEFINE places == {i \in DOMAIN groups : Len(groups[i].pairs) >= 5 /\ L!E!Severity(groups[i].pairs) >= 4000}
               bad == L!E!Selected(groups, places)
               found == [i \in DOMAIN bad |-> [id |-> bad[i].id, severity |-> L!E!Severity(bad[i].pairs), mode |-> L!E!Mode(bad[i].pairs)]]
               order == L!E!Placing([i \in 1 .. Len(found) |-> found[i].severity])
    <3>1. \A s, x : L!E!Selected(s, x) = Selected(s, x)
      BY DEF L!E!Selected, Selected, L!E!InOrder, InOrder, L!E!Cardinality, Cardinality
    <3>2. issues = [m \in 1 .. Len(found) |-> found[order[m]]]
      <4>1. issues = L!E!Ranked(found, LAMBDA issue : issue.severity)
        BY DEF L!E!ScanIssues, L!E!Filter
      <4> HIDE DEF issues, found
      <4>2. L!E!Ranked(found, LAMBDA issue : issue.severity) = [m \in 1 .. Len(found) |-> found[order[m]]]
        BY DEF L!E!Ranked
      <4> QED
        BY <4>1, <4>2
    <3>3. places \in SUBSET (1 .. n)
      BY <2>1
    <3> HIDE DEF places
    <3>4. Len(bad) \in Nat /\ DOMAIN bad = 1 .. Len(bad)
      BY <3>1, <3>3, FilteredLength
    <3> HIDE DEF bad
    <3>5. Len(found) = Len(bad)
      BY <3>4
    <3> HIDE DEF found, order
    <3> QED
      BY <3>2, <3>4, <3>5
  <2>4. PICK k \in Nat : DOMAIN issues = 1 .. k
    BY <2>3
  <2> HIDE DEF issues
  <2> QED
    BY <1>1, <2>2, <2>4
<1>4. b \in Seq(L!Recommendation)
  <2> DEFINE places == {i \in DOMAIN L!Groups(rows) : /\ Len(L!Group(rows, L!Groups(rows)[i])) >= L!MinSamples
                                                      /\ L!OptimizeRule(L!Group(rows, L!Groups(rows)[i])).applied}
             tuned == Selected(L!Groups(rows), places)
  <2>1. b = [i \in DOMAIN tuned |-> tuning]
    BY LNumbers DEF L!AutoTuneRules, L!Filter, tuning
  <2>2. places \in SUBSET (1 .. n)
    BY <1>2
  <2> HIDE DEF places
  <2>3. Len(tuned) \in Nat /\ DOMAIN tuned = 1 .. Len(tuned)
    BY <2>2, FilteredLength
  <2> HIDE DEF tuned
  <2> QED
    BY <1>1, <2>1, <2>3
<1>5. d \in Seq(L!Recommendation)
  <2>1. d = <<weight>> \/ d = <<>>
    BY DEF L!AutoReweight, weight
  <2> HIDE DEF d
  <2>2. <<weight>> \in Seq(L!Recommendation) /\ <<>> \in Seq(L!Recommendation)
    BY <1>1
  <2> QED
    BY <2>1, <2>2
<1>6. L!Recommendations(rows) = a \o b \o d
  BY DEF L!Recommendations
<1> HIDE DEF a, b, d
<1> QED
  BY <1>3, <1>4, <1>5, <1>6

LEMMA TopOf ==
  ASSUME NEW S, NEW s \in Seq(S), NEW n \in Nat
  PROVE  /\ L!Top(s, n) \in Seq(S) /\ Len(L!Top(s, n)) <= n
         /\ \A i \in DOMAIN L!Top(s, n) : i \in DOMAIN s /\ L!Top(s, n)[i] = s[i]
<1> DEFINE k == L!Least(n, Len(s))
<1>1. k \in Nat /\ k <= n /\ k <= Len(s)
  BY DEF L!Least
<1> HIDE DEF k
<1>2. L!Top(s, n) = SubSeq(s, 1, k)
  BY DEF L!Top, k
<1>3. SubSeq(s, 1, k) \in Seq(S) /\ Len(SubSeq(s, 1, k)) = k /\ \A i \in 1 .. k : SubSeq(s, 1, k)[i] = s[i]
  BY <1>1
<1> QED
  BY <1>1, <1>2, <1>3

\* What a cycle scans are predictions with an outcome, not too many.
LEMMA ScannedIs ==
  ASSUME NEW x, Predicted(x.predictions)
  PROVE  LET scanned == {L!Scanned(x)[i].at : i \in DOMAIN L!Scanned(x)}
         IN /\ Cardinality(scanned) <= 6 /\ \A at \in scanned : HasOutcome(x.predictions, at)
            /\ scanned \in SUBSET (-5 .. MaxCalls)
<1> DEFINE rows == x.predictions
           places == {i \in DOMAIN rows : L!Given(rows[i].actual)}
           given == Selected(rows, places)
           top == L!Scanned(x)
           scanned == {top[i].at : i \in DOMAIN top}
           at == [i \in DOMAIN top |-> top[i].at]
<1>1. rows \in Seq(L!Prediction) /\ Rising(rows) /\ places \in SUBSET DOMAIN rows
  BY DEF Predicted, Rising
<1>2. top = L!Top(given, 6)
  BY LNumbers DEF L!Scanned, L!Filter, L!MaxScan
<1>3. \A i \in places : rows[i].actual # -1 /\ i \in DOMAIN rows
  BY DEF L!Given, L!None
<1> HIDE DEF places
<1>4. given \in Seq(L!Prediction) /\ \A m \in DOMAIN given : \E i \in places : given[m] = rows[i]
  BY <1>1, RisingSelected
<1> HIDE DEF given, top
<1>5. top \in Seq(L!Prediction) /\ Len(top) <= 6 /\ \A i \in DOMAIN top : i \in DOMAIN given /\ top[i] = given[i]
  BY <1>2, <1>4, TopOf
<1>6. \A p \in L!Prediction : p.at \in -5 .. MaxCalls
  BY DEF L!Prediction
<1>7. \A i \in DOMAIN top : top[i].at \in -5 .. MaxCalls /\ HasOutcome(rows, top[i].at)
  BY <1>3, <1>4, <1>5, <1>6 DEF HasOutcome
<1>8. Cardinality(scanned) <= 6
  <2>1. Len(top) \in Nat /\ DOMAIN top = 1 .. Len(top)
    BY <1>5
  <2>2. ASSUME NEW k \in Nat PROVE IsFiniteSet(1 .. k) /\ Cardinality(1 .. k) = k
    <3>1. Cardinality(1 .. k) = IF 1 > k THEN 0 ELSE k - 1 + 1
      BY FS_Interval
    <3>2. IsFiniteSet(1 .. k)
      BY FS_Interval
    <3> QED
      BY <3>1, <3>2
  <2>3. at \in Surjection(1 .. Len(top), scanned)
    BY <2>1 DEF Surjection
  <2> HIDE DEF at, scanned
  <2>4. IsFiniteSet(scanned) /\ Cardinality(scanned) <= Len(top)
    BY <2>1, <2>2, <2>3, FS_Surjection
  <2>5. Cardinality(scanned) \in Nat
    BY <2>4, FS_CardinalityType
  <2> QED
    BY <1>5, <2>1, <2>4, <2>5
<1> QED
  BY <1>7, <1>8 DEF top

LEMMA NewPredictions ==
  ASSUME NEW x, Records(x), NEW u, Predicted(u), KeptRows(x.predictions, u)
  PROVE  LET new == [x EXCEPT !.predictions = u]
         IN new.predictions = u /\ new.runs = x.runs /\ Records(new) /\ Later(x, new)
<1> DEFINE new == [x EXCEPT !.predictions = u]
<1>1. new = [predictions |-> u, runs |-> x.runs] /\ new.predictions = u /\ new.runs = x.runs
  BY DEF Records
<1> HIDE DEF new
<1>2. \A at : HasOutcome(x.predictions, at) => HasOutcome(u, at)
  BY DEF HasOutcome, KeptRows
<1>3. Cycled(x.runs, u)
  BY <1>2 DEF Records, Cycled
<1>4. Len(x.runs) \in Nat
  BY DEF Records, Cycled
<1> QED
  BY <1>1, <1>3, <1>4 DEF Records, Later, new

LEMMA NewRuns ==
  ASSUME NEW x, Records(x), NEW runs, Cycled(runs, x.predictions), Len(x.runs) <= Len(runs)
  PROVE  LET new == [x EXCEPT !.runs = runs]
         IN new.predictions = x.predictions /\ new.runs = runs /\ Records(new) /\ Later(x, new)
<1> DEFINE new == [x EXCEPT !.runs = runs]
<1>1. new = [predictions |-> x.predictions, runs |-> runs] /\ new.predictions = x.predictions /\ new.runs = runs
  BY DEF Records
<1> HIDE DEF new
<1>2. KeptRows(x.predictions, x.predictions)
  BY DEF KeptRows
<1> QED
  BY <1>1, <1>2 DEF Records, Later, new

LEMMA LearningRefused ==
  ASSUME LearningInv, NEW c \in Clients, req[c].op # "idle", L!Commit(c, db)
  PROVE  LearningInv'
<1>1. Records(db)
  BY DEF LearningInv
<1>2. Written(c, db)
  BY <1>1, LaterItself DEF Written
<1> QED
  BY <1>2, LearningWrite

\* A prediction that is stored has an id, and an external id, of its own.
LEMMA Foreseen ==
  ASSUME LearningInv, NEW c \in Clients, req[c].op = "predict", ~L!Has(db, req[c].arg.ext)
  PROVE  LET sent == req[c].arg
             new == [at |-> req[c].at, ext |-> sent.ext, subject |-> sent.subject, pred |-> sent.pred, actual |-> L!None]
             u == L!Inserted(db.predictions, new)
         IN /\ Predicted(u) /\ KeptRows(db.predictions, u)
            /\ \A i \in DOMAIN db.predictions : \E m \in DOMAIN u : u[m] = db.predictions[i]
            /\ \A m \in DOMAIN u : u[m].at = req[c].at \/ \E i \in DOMAIN db.predictions : u[m] = db.predictions[i]
<1> DEFINE sent == req[c].arg
           new == [at |-> req[c].at, ext |-> sent.ext, subject |-> sent.subject, pred |-> sent.pred, actual |-> L!None]
           u == L!Inserted(db.predictions, new)
<1>1. InFlight(req[c], db, calls) /\ calls \in 0 .. MaxCalls /\ Predicted(db.predictions)
  BY DEF LearningInv, Records
<1>2. new \in L!Prediction
  <2>1. req[c].at \in -5 .. MaxCalls
    BY <1>1, SessionsAssumption DEF InFlight
  <2>2. sent.ext \in Ids \cup {NoName} /\ sent.subject \in L!Subjects /\ sent.pred \in {2, 8}
    BY <1>1 DEF InFlight, Sent
  <2>3. L!None \in {L!None, 0, 10} /\ L!NoName = NoName
    BY DEF L!NoName, NoName
  <2> HIDE DEF sent
  <2> QED
    BY <2>1, <2>2, <2>3 DEF L!Prediction
<1>3. \A i \in DOMAIN db.predictions : db.predictions[i].at # new.at
  BY <1>1 DEF InFlight
<1>4. new.ext # NoName => \A i \in DOMAIN db.predictions : db.predictions[i].ext # new.ext
  BY DEF L!Has, L!NoName, NoName
<1>5. new.at = req[c].at
  OBVIOUS
<1> HIDE DEF new, sent
<1>6. /\ Predicted(u)
      /\ \A i \in DOMAIN db.predictions : \E m \in DOMAIN u : u[m] = db.predictions[i]
      /\ \A m \in DOMAIN u : u[m] = new \/ \E i \in DOMAIN db.predictions : u[m] = db.predictions[i]
  BY <1>1, <1>2, <1>3, <1>4, InsertedIs
<1> HIDE DEF u
<1>7. KeptRows(db.predictions, u)
  BY <1>6 DEF KeptRows
<1> QED
  BY <1>5, <1>6, <1>7 DEF u, new, sent

LEMMA LearningPredicts ==
  ASSUME LearningInv, NEW c \in Clients, L!RecordPrediction(c)
  PROVE  LearningInv'
<1>0. req[c].op = "predict"
  BY DEF L!RecordPrediction
<1>1. CASE L!Commit(c, db)
  BY <1>0, <1>1, LearningRefused
<1>2. CASE ~L!Commit(c, db)
  <2> DEFINE sent == req[c].arg
             row == [at |-> req[c].at, ext |-> sent.ext, subject |-> sent.subject, pred |-> sent.pred, actual |-> L!None]
             u == L!Inserted(db.predictions, row)
             new == [db EXCEPT !.predictions = u]
  <2>1. ~L!Has(db, sent.ext) /\ L!Commit(c, new)
    BY <1>2 DEF L!RecordPrediction
  <2>2. /\ Predicted(u) /\ KeptRows(db.predictions, u)
        /\ \A m \in DOMAIN u : u[m].at = req[c].at \/ \E i \in DOMAIN db.predictions : u[m] = db.predictions[i]
    BY <1>0, <2>1, Foreseen
  <2> HIDE DEF u
  <2>3. Records(db)
    BY DEF LearningInv
  <2>4. new.predictions = u /\ Records(new) /\ Later(db, new)
    BY <2>2, <2>3, NewPredictions
  <2> HIDE DEF new
  <2>5. Written(c, new)
    BY <1>0, <2>2, <2>4 DEF Written
  <2> QED
    BY <1>0, <2>1, <2>5, LearningWrite
<1> QED
  BY <1>1, <1>2

\* A prediction with its outcome is the same prediction.
LEMMA OutcomeIs ==
  ASSUME NEW c, NEW rows, Predicted(rows), req[c].arg.actual \in {0, 10}
  PROVE  LET u == L!WithOutcome(c, rows)
         IN /\ Predicted(u) /\ KeptRows(rows, u) /\ DOMAIN u = DOMAIN rows
            /\ \A i \in DOMAIN rows :
                 /\ u[i].at = rows[i].at /\ u[i].ext = rows[i].ext /\ u[i] \in L!Prediction /\ rows[i] \in L!Prediction
                 /\ [u[i] EXCEPT !.actual = rows[i].actual] = rows[i]
                 /\ u[i].actual # rows[i].actual => L!Resolved(c, rows[i])
<1> DEFINE u == L!WithOutcome(c, rows)
           k == Len(rows)
<1>1. k \in Nat /\ DOMAIN rows = 1 .. k /\ \A i \in DOMAIN rows : rows[i] \in L!Prediction
  BY ForecastAt DEF Predicted
<1>2. u = [i \in 1 .. k |-> IF L!Resolved(c, rows[i]) THEN [rows[i] EXCEPT !.actual = req[c].arg.actual] ELSE rows[i]]
  BY <1>1 DEF L!WithOutcome
<1> HIDE DEF u, k
<1>3. ASSUME NEW p \in L!Prediction
      PROVE  LET q == [p EXCEPT !.actual = req[c].arg.actual]
             IN /\ q \in L!Prediction /\ q.at = p.at /\ q.ext = p.ext /\ q.actual # -1
                /\ [q EXCEPT !.actual = p.actual] = p /\ [p EXCEPT !.actual = p.actual] = p
  <2> DEFINE v == req[c].arg.actual
             q == [p EXCEPT !.actual = v]
  <2>1. v \in {0, 10} /\ L!None = -1
    BY DEF L!None
  <2> HIDE DEF v
  <2>2. p = [at |-> p.at, ext |-> p.ext, subject |-> p.subject, pred |-> p.pred, actual |-> p.actual]
    BY DEF L!Prediction
  <2>3. q = [at |-> p.at, ext |-> p.ext, subject |-> p.subject, pred |-> p.pred, actual |-> v]
    BY <2>2
  <2>4. q \in L!Prediction
    BY <2>1, <2>3 DEF L!Prediction
  <2>5. q.at = p.at /\ q.ext = p.ext /\ q.actual # -1
    BY <2>1, <2>3
  <2>6. [q EXCEPT !.actual = p.actual] = p
    BY <2>2, <2>3
  <2>7. [p EXCEPT !.actual = p.actual] = p
    BY <2>2
  <2> QED
    BY <2>4, <2>5, <2>6, <2>7 DEF v
<1>4. ASSUME NEW i \in DOMAIN rows
      PROVE  /\ u[i].at = rows[i].at /\ u[i].ext = rows[i].ext /\ u[i] \in L!Prediction /\ rows[i] \in L!Prediction
             /\ [u[i] EXCEPT !.actual = rows[i].actual] = rows[i]
             /\ rows[i].actual # -1 => u[i].actual # -1
             /\ u[i].actual # rows[i].actual => L!Resolved(c, rows[i])
  <2>1. rows[i] \in L!Prediction /\ i \in 1 .. k
    BY <1>1
  <2>2. CASE L!Resolved(c, rows[i])
    <3>1. u[i] = [rows[i] EXCEPT !.actual = req[c].arg.actual]
      BY <1>2, <2>1, <2>2
    <3> QED
      BY <1>3, <2>1, <2>2, <3>1
  <2>3. CASE ~L!Resolved(c, rows[i])
    <3>1. u[i] = rows[i]
      BY <1>2, <2>1, <2>3
    <3> QED
      BY <1>3, <2>1, <3>1
  <2> QED
    BY <2>2, <2>3
<1>5. DOMAIN u = 1 .. k /\ u \in Seq(L!Prediction)
  <2>1. DOMAIN u = 1 .. k
    BY <1>2
  <2>2. u = [i \in 1 .. k |-> u[i]]
    BY <1>2
  <2> QED
    BY <1>1, <1>4, <2>1, <2>2
<1>6. Predicted(u)
  BY <1>1, <1>4, <1>5 DEF Predicted
<1>7. KeptRows(rows, u)
  BY <1>1, <1>4, <1>5 DEF KeptRows
<1> QED
  BY <1>1, <1>4, <1>5, <1>6, <1>7 DEF u

LEMMA LearningResolves ==
  ASSUME LearningInv, NEW c \in Clients, L!RecordOutcome(c)
  PROVE  LearningInv'
<1> DEFINE u == L!WithOutcome(c, db.predictions)
           new == [db EXCEPT !.predictions = u]
<1>1. req[c].op = "outcome" /\ L!Commit(c, new)
  BY DEF L!RecordOutcome
<1>2. req[c].arg.actual \in {0, 10} /\ Records(db) /\ Predicted(db.predictions)
  BY <1>1 DEF LearningInv, InFlight, Sent, Records
<1>3. /\ Predicted(u) /\ KeptRows(db.predictions, u)
      /\ \A i \in DOMAIN u : \E j \in DOMAIN db.predictions : db.predictions[j].at = u[i].at
  BY <1>2, OutcomeIs
<1> HIDE DEF u
<1>4. new.predictions = u /\ Records(new) /\ Later(db, new)
  BY <1>2, <1>3, NewPredictions
<1> HIDE DEF new
<1>5. Written(c, new)
  BY <1>3, <1>4 DEF Written
<1> QED
  BY <1>1, <1>5, LearningWrite

\* Runs are numbered from one without gaps, so the next number is the next place.
LEMMA NextNumber ==
  ASSUME NEW x, Records(x)
  PROVE  Len(x.runs) \in Nat /\ L!NextRunNumber(x) = Len(x.runs) + 1
<1> DEFINE n == Len(x.runs)
           S == {0} \cup {x.runs[i].number : i \in DOMAIN x.runs}
<1>1. n \in Nat /\ DOMAIN x.runs = 1 .. n /\ \A i \in DOMAIN x.runs : x.runs[i].number = i
  BY DEF Records, Cycled
<1> HIDE DEF n
<1>2. S = 0 .. n
  BY <1>1
<1>3. L!NextRunNumber(x) = L!Max(S) + 1
  BY DEF L!NextRunNumber
<1> HIDE DEF S
<1>4. L!Max(S) = n
  <2>1. L!Max(S) = CHOOSE a \in S : \A b \in S : a >= b
    BY DEF L!Max
  <2>2. n \in S /\ \A b \in S : n >= b
    BY <1>1, <1>2
  <2>3. \A a \in S : (\A b \in S : a >= b) => a = n
    BY <1>1, <1>2
  <2> QED
    BY <2>1, <2>2, <2>3
<1> QED
  BY <1>1, <1>3, <1>4 DEF n

\* A run more, over predictions that have an outcome.
LEMMA OneMoreRun ==
  ASSUME NEW runs, NEW rows, Cycled(runs, rows), NEW run \in L!Run, run.number = Len(runs) + 1,
         Cardinality(run.scanned) <= 6, \A at \in run.scanned : HasOutcome(rows, at)
  PROVE  LET new == Append(runs, run)
         IN Cycled(new, rows) /\ Len(runs) <= Len(new) /\ \A i \in DOMAIN runs : new[i] = runs[i]
<1> DEFINE n == Len(runs)
           new == Append(runs, run)
<1>1. n \in Nat /\ DOMAIN runs = 1 .. n /\ runs \in Seq(L!Run)
  BY DEF Cycled
<1>2. /\ new \in Seq(L!Run) /\ Len(new) = n + 1 /\ DOMAIN new = 1 .. (n + 1)
      /\ new[n + 1] = run /\ \A i \in 1 .. n : new[i] = runs[i]
  BY <1>1
<1> HIDE DEF new, n
<1>3. \A i \in DOMAIN new :
        /\ new[i].number = i /\ Cardinality(new[i].scanned) <= 6
        /\ \A at \in new[i].scanned : HasOutcome(rows, at)
  <2> SUFFICES ASSUME NEW i \in DOMAIN new
               PROVE  /\ new[i].number = i /\ Cardinality(new[i].scanned) <= 6
                      /\ \A at \in new[i].scanned : HasOutcome(rows, at)
    OBVIOUS
  <2>1. CASE i = n + 1
    BY <1>2, <2>1 DEF n
  <2>2. CASE i \in 1 .. n
    BY <1>1, <1>2, <2>2 DEF Cycled
  <2> QED
    BY <1>1, <1>2, <2>1, <2>2
<1> QED
  BY <1>1, <1>2, <1>3 DEF Cycled, new, n

LEMMA CycleIs ==
  ASSUME LearningInv, NEW c \in Clients, L!RunCycle(c)
  PROVE  \E runs : /\ L!Commit(c, [db EXCEPT !.runs = runs]) /\ Cycled(runs, db.predictions)
                   /\ Len(db.runs) <= Len(runs) /\ \A i \in DOMAIN db.runs : runs[i] = db.runs[i]
<1> DEFINE saw == req[c].saw
           rows == L!Scanned(saw)
           scanned == {rows[i].at : i \in DOMAIN rows}
           recs == L!Top(L!Recommendations(rows), L!MaxRecommendations)
           run == [number |-> L!NextRunNumber(saw), scanned |-> scanned, recs |-> recs]
           runs == Append(db.runs, run)
<1>1. req[c].op = "cycle" /\ L!NextRunNumber(saw) \notin {db.runs[i].number : i \in DOMAIN db.runs}
  BY DEF L!RunCycle
<1>2. L!Commit(c, [db EXCEPT !.runs = runs])
  BY DEF L!RunCycle
<1>3. Records(saw) /\ Later(saw, db) /\ Records(db)
  BY <1>1 DEF LearningInv, InFlight
<1>4. L!NextRunNumber(saw) = Len(db.runs) + 1 /\ Len(db.runs) \in Nat
  <2>1. Len(saw.runs) \in Nat /\ L!NextRunNumber(saw) = Len(saw.runs) + 1 /\ Len(db.runs) \in Nat /\ Len(saw.runs) <= Len(db.runs)
    BY <1>3, NextNumber DEF Later
  <2>2. \A i \in 1 .. Len(db.runs) : db.runs[i].number = i
    BY <1>3 DEF Records, Cycled
  <2>3. L!NextRunNumber(saw) \notin 1 .. Len(db.runs)
    BY <1>1, <1>3, <2>2 DEF Records, Cycled
  <2> QED
    <3>1. ASSUME NEW a \in Nat, NEW b \in Nat, a <= b, a + 1 \notin 1 .. b PROVE a = b
      BY <3>1
    <3> QED
      BY <2>1, <2>3, <3>1
<1>5. /\ Cardinality(scanned) <= 6 /\ \A at \in scanned : HasOutcome(saw.predictions, at)
      /\ scanned \in SUBSET (-5 .. MaxCalls)
  BY <1>3, ScannedIs DEF Records
<1>6. \A at \in scanned : HasOutcome(db.predictions, at)
  <2> SUFFICES ASSUME NEW at \in scanned PROVE HasOutcome(db.predictions, at)
    OBVIOUS
  <2>1. HasOutcome(saw.predictions, at) /\ KeptRows(saw.predictions, db.predictions)
    BY <1>3, <1>5 DEF Later
  <2> QED
    BY <2>1 DEF HasOutcome, KeptRows
<1>7. recs \in Seq(L!Recommendation)
  BY Recommended, TopOf DEF L!MaxRecommendations
<1> HIDE DEF scanned, recs
<1>8. run \in L!Run /\ run.number = Len(db.runs) + 1 /\ run.scanned = scanned
  BY <1>4, <1>5, <1>7 DEF L!Run
<1> HIDE DEF run
<1>9. Cycled(runs, db.predictions) /\ Len(db.runs) <= Len(runs) /\ \A i \in DOMAIN db.runs : runs[i] = db.runs[i]
  <2>1. Cycled(db.runs, db.predictions)
    BY <1>3 DEF Records
  <2> QED
    BY <1>5, <1>6, <1>8, <2>1, OneMoreRun
<1> QED
  BY <1>2, <1>9

LEMMA LearningCycles ==
  ASSUME LearningInv, NEW c \in Clients, L!RunCycle(c)
  PROVE  LearningInv'
<1>1. PICK runs : L!Commit(c, [db EXCEPT !.runs = runs]) /\ Cycled(runs, db.predictions) /\ Len(db.runs) <= Len(runs)
  BY CycleIs
<1> DEFINE new == [db EXCEPT !.runs = runs]
<1>2. Records(db) /\ req[c].op # "idle"
  BY DEF LearningInv, L!RunCycle
<1>3. new.predictions = db.predictions /\ Records(new) /\ Later(db, new)
  BY <1>1, <1>2, NewRuns
<1>4. L!Commit(c, new)
  BY <1>1
<1> HIDE DEF new
<1>5. Written(c, new)
  BY <1>3 DEF Written
<1> QED
  BY <1>2, <1>4, <1>5, LearningWrite

\* The j-th recommendation of the i-th run with another status.
Restated(runs, i, j, v) ==
  [runs EXCEPT ![i] = [runs[i] EXCEPT !.recs = [runs[i].recs EXCEPT ![j] = [runs[i].recs[j] EXCEPT !.status = v]]]]

\* A recommendation with another status is about the same target.
LEMMA RestatedIs ==
  ASSUME NEW runs, NEW rows, Cycled(runs, rows), NEW i, NEW j, NEW v \in L!RecommendationStatus
  PROVE  LET new == Restated(runs, i, j, v)
         IN /\ Cycled(new, rows) /\ Len(new) = Len(runs)
            /\ \A k \in DOMAIN runs : /\ new[k].scanned = runs[k].scanned
                                      /\ \A m \in DOMAIN runs[k].recs : new[k].recs[m].target = runs[k].recs[m].target
<1> DEFINE n == Len(runs)
           other == [runs[i] EXCEPT !.recs = [runs[i].recs EXCEPT ![j] = [runs[i].recs[j] EXCEPT !.status = v]]]
           new == Restated(runs, i, j, v)
<1>1. n \in Nat /\ DOMAIN runs = 1 .. n /\ \A k \in DOMAIN runs : runs[k] \in L!Run
  BY DEF Cycled
<1>2. \A r \in L!Recommendation : [r EXCEPT !.status = v] \in L!Recommendation /\ [r EXCEPT !.status = v].target = r.target
  BY DEF L!Recommendation
<1>3. ASSUME i \in DOMAIN runs
      PROVE  /\ other \in L!Run /\ other.number = runs[i].number /\ other.scanned = runs[i].scanned
             /\ \A m \in DOMAIN runs[i].recs : other.recs[m].target = runs[i].recs[m].target
  <2> DEFINE old == runs[i]
             s == old.recs
             t == [s EXCEPT ![j] = [s[j] EXCEPT !.status = v]]
  <2>1. old \in L!Run
    BY <1>1, <1>3
  <2>2. s \in Seq(L!Recommendation) /\ old = [number |-> old.number, scanned |-> old.scanned, recs |-> s]
    BY <2>1 DEF L!Run
  <2>3. other = [old EXCEPT !.recs = t]
    OBVIOUS
  <2> HIDE DEF old, s, other
  <2>4. other = [number |-> old.number, scanned |-> old.scanned, recs |-> t]
    BY <2>2, <2>3
  <2>5. \A m \in DOMAIN s : s[m] \in L!Recommendation
    BY <2>2
  <2>6. DOMAIN t = DOMAIN s /\ \A m \in DOMAIN s : t[m] \in L!Recommendation /\ t[m].target = s[m].target
    <3> SUFFICES ASSUME NEW m \in DOMAIN s PROVE t[m] \in L!Recommendation /\ t[m].target = s[m].target
      OBVIOUS
    <3>1. CASE m = j
      BY <1>2, <2>5, <3>1
    <3>2. CASE m # j
      BY <2>5, <3>2
    <3> QED
      BY <3>1, <3>2
  <2>7. t \in Seq(L!Recommendation)
    <3>1. t = [m \in 1 .. Len(s) |-> t[m]] /\ Len(s) \in Nat /\ DOMAIN s = 1 .. Len(s)
      BY <2>2
    <3> HIDE DEF t
    <3> QED
      BY <2>6, <3>1
  <2> HIDE DEF t
  <2>8. other \in L!Run
    BY <2>1, <2>4, <2>7 DEF L!Run
  <2> QED
    BY <2>4, <2>6, <2>8 DEF old, s
<1>4. new = [k \in 1 .. n |-> IF k = i THEN other ELSE runs[k]]
  <2>1. new = [runs EXCEPT ![i] = other]
    BY DEF Restated
  <2> HIDE DEF new, other
  <2> QED
    BY <1>1, <2>1
<1> HIDE DEF other, n, new
<1>5. \A k \in DOMAIN runs : /\ new[k] \in L!Run /\ new[k].number = runs[k].number /\ new[k].scanned = runs[k].scanned
                             /\ \A m \in DOMAIN runs[k].recs : new[k].recs[m].target = runs[k].recs[m].target
  BY <1>1, <1>3, <1>4
<1>6. new \in Seq(L!Run) /\ Len(new) = n /\ DOMAIN new = 1 .. n
  <2>1. new = [k \in 1 .. n |-> new[k]]
    BY <1>4
  <2> QED
    BY <1>1, <1>5, <2>1
<1>7. Cycled(new, rows)
  BY <1>1, <1>5, <1>6 DEF Cycled
<1> QED
  BY <1>5, <1>6, <1>7 DEF new, other, n

LEMMA LearningRestates ==
  ASSUME LearningInv, NEW c \in Clients, L!UpdateRecommendation(c)
  PROVE  LearningInv'
<1>1. PICK i, j : L!Commit(c, [db EXCEPT !.runs[i].recs[j].status = req[c].arg])
  BY DEF L!UpdateRecommendation
<1> DEFINE v == req[c].arg
           runs == Restated(db.runs, i, j, v)
           new == [db EXCEPT !.runs = runs]
<1>2. [db EXCEPT !.runs[i].recs[j].status = v] = new
  BY DEF Restated
<1>3. L!Commit(c, new)
  BY <1>1, <1>2
<1>4. Records(db) /\ req[c].op = "recommendation"
  BY DEF LearningInv, L!UpdateRecommendation
<1>5. v \in L!RecommendationStatus
  BY <1>4 DEF LearningInv, InFlight, Sent
<1>6. Cycled(runs, db.predictions) /\ Len(runs) = Len(db.runs) /\ Len(db.runs) \in Nat
  <2>1. Cycled(db.runs, db.predictions)
    BY <1>4 DEF Records
  <2>2. Len(db.runs) \in Nat
    BY <2>1 DEF Cycled
  <2> HIDE DEF v
  <2> QED
    BY <1>5, <2>1, <2>2, RestatedIs
<1> HIDE DEF runs
<1>7. new.predictions = db.predictions /\ Records(new) /\ Later(db, new)
  BY <1>4, <1>6, NewRuns
<1> HIDE DEF new
<1>8. Written(c, new)
  BY <1>7 DEF Written
<1> QED
  BY <1>3, <1>4, <1>8, LearningWrite

LEMMA LearningRequests ==
  ASSUME LearningInv, NEW c \in Clients, L!Requests(c)
  PROVE  LearningInv'
<1>1. ASSUME NEW ext \in Ids \cup {L!NoName}, NEW pred \in {2, 8}, L!Ask(c, "predict", [ext |-> ext, subject |-> "b", pred |-> pred])
      PROVE  LearningInv'
  <2>1. L!NoName = NoName /\ "b" \in L!Subjects
    BY DEF L!NoName, NoName, L!Subjects
  <2>2. Sent([op |-> "predict", arg |-> [ext |-> ext, subject |-> "b", pred |-> pred], saw |-> db, at |-> calls + 1])
    BY <2>1 DEF Sent
  <2> QED
    BY <1>1, <2>2, LearningAsked
<1>2. ASSUME NEW ext, NEW actual \in {0, 10}, L!Ask(c, "outcome", [ext |-> ext, subject |-> "a", actual |-> actual])
      PROVE  LearningInv'
  <2>1. Sent([op |-> "outcome", arg |-> [ext |-> ext, subject |-> "a", actual |-> actual], saw |-> db, at |-> calls + 1])
    BY DEF Sent
  <2> QED
    BY <1>2, <2>1, LearningAsked
<1>3. ASSUME L!Ask(c, "cycle", <<>>) PROVE LearningInv'
  <2>1. Sent([op |-> "cycle", arg |-> <<>>, saw |-> db, at |-> calls + 1])
    BY DEF Sent
  <2> QED
    BY <1>3, <2>1, LearningAsked
<1>4. ASSUME NEW status \in {"applied", "dismissed"}, L!Ask(c, "recommendation", status) PROVE LearningInv'
  <2>1. Sent([op |-> "recommendation", arg |-> status, saw |-> db, at |-> calls + 1])
    BY DEF Sent, L!RecommendationStatus
  <2> QED
    BY <1>4, <2>1, LearningAsked
<1> QED
  BY <1>1, <1>2, <1>3, <1>4 DEF L!Requests

LEMMA LearningBegins ==
  ASSUME L!Init
  PROVE  LearningInv
<1> DEFINE rows == db.predictions
<1>1. rows \in L!Histories /\ db.runs = <<>> /\ db = [predictions |-> rows, runs |-> db.runs]
  BY DEF L!Init
<1>2. PICK late \in {{2, 4}, {1, 3, 5}}, open \in {{}, {1, 5}} :
        rows = [i \in 1 .. 5 |-> [at |-> i - 6, ext |-> IF i = 1 THEN "a" ELSE NoName, subject |-> "a",
                                  pred |-> IF i \in late THEN 8 ELSE 2,
                                  actual |-> IF i \in open THEN L!None ELSE IF i % 2 = 0 THEN 10 ELSE 0]]
  <2>1. L!NoName = NoName
    BY DEF L!NoName, NoName
  <2> QED
    BY <1>1, <2>1 DEF L!Histories
<1> HIDE DEF rows
<1>3. \A i \in 1 .. 5 : rows[i].at = i - 6 /\ rows[i].ext = IF i = 1 THEN "a" ELSE NoName
  BY <1>2
<1>4. \A i \in 1 .. 5 : rows[i] \in L!Prediction
  <2> SUFFICES ASSUME NEW i \in 1 .. 5 PROVE rows[i] \in L!Prediction
    OBVIOUS
  <2> DEFINE ext == IF i = 1 THEN "a" ELSE NoName
             pred == IF i \in late THEN 8 ELSE 2
             actual == IF i \in open THEN L!None ELSE IF i % 2 = 0 THEN 10 ELSE 0
  <2>1. rows[i] = [at |-> i - 6, ext |-> ext, subject |-> "a", pred |-> pred, actual |-> actual]
    BY <1>2
  <2>2. i - 6 \in -5 .. MaxCalls
    BY SessionsAssumption
  <2>3. ext \in Ids \cup {L!NoName} /\ "a" \in L!Subjects /\ pred \in {2, 8} /\ actual \in {L!None, 0, 10}
    BY NamesAssumption DEF L!NoName, NoName, L!Subjects
  <2> HIDE DEF ext, pred, actual
  <2> QED
    BY <2>1, <2>2, <2>3 DEF L!Prediction
<1>5. rows \in Seq(L!Prediction) /\ DOMAIN rows = 1 .. 5
  <2>1. DOMAIN rows = 1 .. 5 /\ rows = [i \in 1 .. 5 |-> rows[i]]
    BY <1>2
  <2> QED
    BY <1>4, <2>1
<1>6. Predicted(rows)
  <2>1. \A i, j \in 1 .. 5 : i < j => rows[i].at < rows[j].at
    BY <1>3
  <2>2. \A i, j \in 1 .. 5 : i # j /\ rows[i].ext = rows[j].ext => rows[i].ext = NoName
    BY <1>3
  <2> QED
    BY <1>5, <2>1, <2>2 DEF Predicted
<1>7. Records(db)
  <2>1. Cycled(<<>>, rows)
    BY DEF Cycled
  <2> QED
    BY <1>1, <1>6, <2>1 DEF Records, rows
<1>8. req = [c \in Clients |-> L!Idle] /\ calls = 0 /\ mem = <<>>
  BY DEF L!Init, L!NoRequests
<1>9. req = [c \in Clients |-> req[c]] /\ \A c \in Clients : req[c].op = "idle"
  BY <1>8 DEF L!Idle
<1>10. \A i \in DOMAIN db.predictions : db.predictions[i].at <= calls
  BY <1>3, <1>5, <1>8 DEF rows
<1>11. calls \in 0 .. MaxCalls
  BY <1>8, SessionsAssumption
<1> QED
  BY <1>7, <1>8, <1>9, <1>10, <1>11 DEF LearningInv

LEMMA LearningInductive == L!Spec => []LearningInv
<1>1. L!Init => LearningInv
  BY LearningBegins
<1>2. LearningInv /\ [L!Next]_L!sessionVars => LearningInv'
  <2> SUFFICES ASSUME LearningInv, [L!Next]_L!sessionVars PROVE LearningInv'
    OBVIOUS
  <2>1. ASSUME NEW c \in Clients, L!Rollback(c) PROVE LearningInv'
    BY <2>1, LearningRefused DEF L!Rollback
  <2>2. CASE UNCHANGED L!sessionVars
    BY <2>2 DEF LearningInv, InFlight, L!sessionVars
  <2> QED
    BY <2>1, <2>2, LearningRequests, LearningPredicts, LearningResolves, LearningCycles, LearningRestates DEF L!Next
<1> QED
  BY <1>1, <1>2, PTL DEF L!Spec

\* However many cycles and outcomes are on their way at once, runs are numbered without gaps and
\* have scanned only predictions that have an outcome, and predictions are in the order of their
\* creation with external ids of their own (learning/manager.py run_cycle, record_prediction).
THEOREM LearningSound == L!Spec => [](L!TypeOK /\ L!RunsSound /\ L!PredictionsSound)
<1>1. ASSUME LearningInv PROVE L!TypeOK /\ L!RunsSound /\ L!PredictionsSound
  <2>1. Predicted(db.predictions) /\ Cycled(db.runs, db.predictions) /\ db = [predictions |-> db.predictions, runs |-> db.runs]
    BY <1>1 DEF LearningInv, Records
  <2>2. L!TypeOK
    BY <1>1, <2>1 DEF LearningInv, L!TypeOK, Predicted, Cycled
  <2>3. L!RunsSound
    <3> SUFFICES ASSUME NEW i \in DOMAIN db.runs
                 PROVE  /\ db.runs[i].number = i /\ Cardinality(db.runs[i].scanned) <= 6
                        /\ \A at \in db.runs[i].scanned : \E p \in L!ToSet(db.predictions) : p.at = at /\ L!Given(p.actual)
      BY LNumbers DEF L!RunsSound, L!MaxScan
    <3>1. ASSUME NEW at \in db.runs[i].scanned PROVE \E p \in L!ToSet(db.predictions) : p.at = at /\ L!Given(p.actual)
      <4>1. PICK k \in DOMAIN db.predictions : db.predictions[k].at = at /\ db.predictions[k].actual # -1
        BY <2>1 DEF Cycled, HasOutcome
      <4> QED
        BY <4>1, LNumbers DEF L!Given, L!None
    <3> QED
      BY <2>1, <3>1 DEF Cycled
  <2>4. L!PredictionsSound
    <3>1. L!NoName = NoName
      BY DEF L!NoName, NoName
    <3>2. \A i, j \in DOMAIN db.predictions : i < j => i # j
      BY <2>1, ForecastAt DEF Predicted
    <3> QED
      BY <2>1, <3>1, <3>2 DEF L!PredictionsSound, Predicted
  <2> QED
    BY <2>2, <2>3, <2>4
<1> QED
  BY <1>1, LearningInductive, PTL

\* The two halves of a legal step.
Outcomes ==
  \A p \in L!ToSet(db.predictions) :
    \E q \in L!ToSet(db'.predictions) :
      /\ [q EXCEPT !.actual = p.actual] = p
      /\ L!Given(p.actual) /\ q.actual # p.actual =>
           \E c \in Clients :
             /\ req[c].op = "outcome"
             /\ \/ req[c].arg.ext = p.ext /\ p.ext # L!NoName
                \/ \E s \in L!ToSet(req[c].saw.predictions) : s.at = p.at /\ ~L!Given(s.actual)
RunsStay ==
  /\ Len(db'.runs) >= Len(db.runs)
  /\ \A i \in DOMAIN db.runs :
       /\ db'.runs[i].scanned = db.runs[i].scanned
       /\ \A j \in DOMAIN db.runs[i].recs : db'.runs[i].recs[j].target = db.runs[i].recs[j].target

LEMMA HalvesLegal == Outcomes /\ RunsStay => L!LegalStep
BY DEF Outcomes, RunsStay, L!LegalStep

LEMMA OutcomesStay ==
  ASSUME LearningInv, \A i \in DOMAIN db.predictions : \E m \in DOMAIN db'.predictions : db'.predictions[m] = db.predictions[i]
  PROVE  Outcomes
<1> SUFFICES ASSUME NEW p \in L!ToSet(db.predictions)
             PROVE  \E q \in L!ToSet(db'.predictions) : [q EXCEPT !.actual = p.actual] = p /\ q.actual = p.actual
  BY DEF Outcomes
<1>1. PICK i \in DOMAIN db.predictions : p = db.predictions[i]
  BY LNumbers
<1>2. p \in L!Prediction
  BY <1>1, ForecastAt DEF LearningInv, Records, Predicted
<1>3. [p EXCEPT !.actual = p.actual] = p
  BY <1>2 DEF L!Prediction
<1>4. p \in L!ToSet(db'.predictions)
  BY <1>1, LNumbers
<1> QED
  BY <1>3, <1>4

LEMMA RunsRemain ==
  ASSUME LearningInv, db'.runs = db.runs
  PROVE  RunsStay
<1>1. Len(db.runs) \in Nat
  BY DEF LearningInv, Records, Cycled
<1> QED
  BY <1>1 DEF RunsStay

LEMMA UnchangedLegal ==
  ASSUME LearningInv, db' = db
  PROVE  L!LegalStep
BY OutcomesStay, RunsRemain, HalvesLegal

LEMMA PredictionLegal ==
  ASSUME LearningInv, NEW c \in Clients, L!RecordPrediction(c)
  PROVE  L!LegalStep
<1>0. req[c].op = "predict"
  BY DEF L!RecordPrediction
<1>1. CASE L!Commit(c, db)
  BY <1>1, UnchangedLegal DEF L!Commit
<1>2. CASE ~L!Commit(c, db)
  <2> DEFINE sent == req[c].arg
             row == [at |-> req[c].at, ext |-> sent.ext, subject |-> sent.subject, pred |-> sent.pred, actual |-> L!None]
             u == L!Inserted(db.predictions, row)
  <2>1. ~L!Has(db, sent.ext) /\ db' = [db EXCEPT !.predictions = u]
    BY <1>2 DEF L!RecordPrediction, L!Commit
  <2>2. /\ Predicted(u) /\ KeptRows(db.predictions, u)
        /\ \A i \in DOMAIN db.predictions : \E m \in DOMAIN u : u[m] = db.predictions[i]
    BY <1>0, <2>1, Foreseen
  <2> HIDE DEF u
  <2>3. db'.predictions = u /\ db'.runs = db.runs
    BY <2>1, <2>2, NewPredictions DEF LearningInv
  <2> QED
    BY <2>2, <2>3, OutcomesStay, RunsRemain, HalvesLegal
<1> QED
  BY <1>1, <1>2

LEMMA OutcomeLegal ==
  ASSUME LearningInv, NEW c \in Clients, L!RecordOutcome(c)
  PROVE  L!LegalStep
<1> DEFINE old == db.predictions
           saw == req[c].saw.predictions
           u == L!WithOutcome(c, old)
           o == req[c].arg
<1>1. req[c].op = "outcome" /\ db' = [db EXCEPT !.predictions = u]
  BY DEF L!RecordOutcome, L!Commit
<1>2. o.actual \in {0, 10} /\ Records(db) /\ Predicted(old) /\ Records(req[c].saw) /\ KeptRows(saw, old)
  BY <1>1 DEF LearningInv, InFlight, Sent, Records, Later
<1>3. /\ Predicted(u) /\ KeptRows(old, u) /\ DOMAIN u = DOMAIN old
      /\ \A i \in DOMAIN old : /\ [u[i] EXCEPT !.actual = old[i].actual] = old[i]
                               /\ u[i].actual # old[i].actual => L!Resolved(c, old[i])
  BY <1>2, OutcomeIs
<1> HIDE DEF u
<1>4. db'.predictions = u /\ db'.runs = db.runs
  BY <1>1, <1>2, <1>3, NewPredictions
<1>5. ASSUME NEW p, NEW i \in DOMAIN old, p = old[i], L!Resolved(c, p)
      PROVE  \/ o.ext = p.ext /\ p.ext # L!NoName
             \/ \E s \in L!ToSet(saw) : s.at = p.at /\ ~L!Given(s.actual)
  <2>1. PICK k \in DOMAIN saw : /\ saw[k].at = p.at
                                /\ IF o.ext # L!NoName THEN saw[k].ext = o.ext ELSE ~L!Given(saw[k].actual)
    BY <1>5 DEF L!Resolved
  <2>2. CASE o.ext # L!NoName
    <3>1. PICK j \in DOMAIN old : old[j].at = saw[k].at /\ old[j].ext = saw[k].ext
      BY <1>2 DEF KeptRows
    <3>2. j = i
      <4>1. old[j].at = old[i].at
        BY <1>5, <2>1, <3>1
      <4>2. \A a, b \in DOMAIN old : a # b => old[a].at # old[b].at
        <5>1. old \in Seq(L!Prediction) /\ \A a, b \in DOMAIN old : a < b => old[a].at < old[b].at
          BY <1>2 DEF Predicted
        <5>2. Len(old) \in Nat /\ DOMAIN old = 1 .. Len(old) /\ \A a \in DOMAIN old : old[a].at \in Int
          BY <5>1, ForecastAt
        <5> HIDE DEF old
        <5>3. ASSUME NEW a \in DOMAIN old, NEW b \in DOMAIN old, a # b PROVE old[a].at # old[b].at
          <6>1. a < b \/ b < a
            BY <5>2, <5>3
          <6> QED
            BY <5>1, <5>2, <6>1
        <5> QED
          BY <5>3
      <4> QED
        BY <4>1, <4>2
    <3> QED
      BY <1>5, <2>1, <2>2, <3>1, <3>2
  <2>3. CASE o.ext = L!NoName
    BY <2>1, <2>3, LNumbers
  <2> QED
    BY <2>2, <2>3
<1>6. Outcomes
  <2> SUFFICES ASSUME NEW p \in L!ToSet(old)
               PROVE  \E q \in L!ToSet(u) :
                        /\ [q EXCEPT !.actual = p.actual] = p
                        /\ q.actual # p.actual =>
                             \E d \in Clients :
                               /\ req[d].op = "outcome"
                               /\ \/ req[d].arg.ext = p.ext /\ p.ext # L!NoName
                                  \/ \E s \in L!ToSet(req[d].saw.predictions) : s.at = p.at /\ ~L!Given(s.actual)
    BY <1>4 DEF Outcomes
  <2>1. PICK i \in DOMAIN old : p = old[i]
    BY LNumbers
  <2>2. u[i] \in L!ToSet(u) /\ [u[i] EXCEPT !.actual = p.actual] = p
    BY <1>3, <2>1, LNumbers
  <2>3. ASSUME u[i].actual # p.actual
        PROVE  \/ o.ext = p.ext /\ p.ext # L!NoName
               \/ \E s \in L!ToSet(saw) : s.at = p.at /\ ~L!Given(s.actual)
    BY <1>3, <1>5, <2>1, <2>3
  <2> QED
    BY <1>1, <2>2, <2>3
<1> QED
  BY <1>4, <1>6, RunsRemain, HalvesLegal

LEMMA RunLegal ==
  ASSUME LearningInv, NEW c \in Clients, L!RunCycle(c) \/ L!UpdateRecommendation(c)
  PROVE  L!LegalStep
<1>1. Records(db)
  BY DEF LearningInv
<1>2. Cycled(db.runs, db.predictions) /\ Len(db.runs) \in Nat
  BY <1>1 DEF Records, Cycled
<1>3. ASSUME NEW runs, db' = [db EXCEPT !.runs = runs], Cycled(runs, db.predictions), Len(db.runs) <= Len(runs),
             \A i \in DOMAIN db.runs :
               /\ runs[i].scanned = db.runs[i].scanned
               /\ \A j \in DOMAIN db.runs[i].recs : runs[i].recs[j].target = db.runs[i].recs[j].target
      PROVE  L!LegalStep
  <2>1. db'.predictions = db.predictions /\ db'.runs = runs
    BY <1>1, <1>3, NewRuns
  <2>2. Len(runs) \in Nat
    BY <1>3 DEF Cycled
  <2>3. RunsStay
    BY <1>2, <1>3, <2>1, <2>2 DEF RunsStay
  <2> QED
    BY <2>1, <2>3, OutcomesStay, HalvesLegal
<1>4. CASE L!RunCycle(c)
  <2>1. PICK runs : /\ L!Commit(c, [db EXCEPT !.runs = runs]) /\ Cycled(runs, db.predictions)
                    /\ Len(db.runs) <= Len(runs) /\ \A i \in DOMAIN db.runs : runs[i] = db.runs[i]
    BY <1>4, CycleIs
  <2> QED
    BY <1>3, <2>1 DEF L!Commit
<1>5. CASE L!UpdateRecommendation(c)
  <2> DEFINE v == req[c].arg
  <2>1. PICK i, j : db' = [db EXCEPT !.runs[i].recs[j].status = v]
    BY <1>5 DEF L!UpdateRecommendation, L!Commit
  <2> DEFINE runs == Restated(db.runs, i, j, v)
  <2>2. [db EXCEPT !.runs[i].recs[j].status = v] = [db EXCEPT !.runs = runs]
    BY DEF Restated
  <2>3. v \in L!RecommendationStatus
    BY <1>5 DEF L!UpdateRecommendation, LearningInv, InFlight, Sent
  <2> HIDE DEF v
  <2>4. /\ Cycled(runs, db.predictions) /\ Len(runs) = Len(db.runs)
        /\ \A k \in DOMAIN db.runs : /\ runs[k].scanned = db.runs[k].scanned
                                     /\ \A m \in DOMAIN db.runs[k].recs : runs[k].recs[m].target = db.runs[k].recs[m].target
    BY <1>2, <2>3, RestatedIs
  <2> HIDE DEF runs
  <2> QED
    BY <1>2, <1>3, <2>1, <2>2, <2>4
<1> QED
  BY <1>4, <1>5

\* An outcome is only changed by a request that names its external id, or by one that read the
\* prediction before it had an outcome; runs and what they found stay (learning/repository.py
\* record_outcome, manager.py update_recommendation).
THEOREM LearningLegalSteps == L!Spec => [][L!LegalStep]_L!sessionVars
<1>1. ASSUME LearningInv, L!Next PROVE L!LegalStep
  <2>1. PICK c \in Clients : \/ L!Requests(c) \/ L!RecordPrediction(c) \/ L!RecordOutcome(c) \/ L!RunCycle(c)
                             \/ L!UpdateRecommendation(c) \/ L!Rollback(c)
    BY <1>1 DEF L!Next
  <2>2. CASE L!Requests(c) \/ L!Rollback(c)
    <3>1. db' = db
      BY <2>2 DEF L!Requests, L!Ask, L!Rollback, L!Commit
    <3> QED
      BY <1>1, <3>1, UnchangedLegal
  <2> QED
    BY <1>1, <2>1, <2>2, PredictionLegal, OutcomeLegal, RunLegal
<1> QED
  BY <1>1, LearningInductive, PTL DEF L!Spec

-----------------------------------------------------------------------------
(***************************************************************************)
(* Documents. A document is known by the request that stored it, and no    *)
(* two requests have the same name.                                        *)
(***************************************************************************)
D == INSTANCE Documents

\* A sequence whose documents have ids of their own, up to a number.
Sequence(s) == \E S : s \in Seq(S)
Numbered(s, n) ==
  /\ Sequence(s) /\ \A i \in DOMAIN s : s[i].id \in 1 .. n
  /\ \A i, j \in DOMAIN s : i # j => s[i].id # s[j].id
DocumentsInv ==
  /\ req = [c \in Clients |-> req[c]] /\ calls \in Nat /\ Numbered(db, calls)
  /\ \A c \in Clients : req[c].op # "idle" => req[c].at \in 1 .. calls
  /\ \A c \in Clients : req[c].op = "ingest" => \A i \in DOMAIN db : db[i].id # req[c].at
  /\ \A c, d \in Clients : c # d /\ req[c].op # "idle" /\ req[d].op # "idle" => req[c].at # req[d].at

LEMMA DNumbers == \A s, places : D!Selected(s, places) = Selected(s, places)
BY DEF D!Selected, Selected, D!InOrder, InOrder, D!Cardinality, Cardinality

\* What is left of the documents are documents, each once.
LEMMA LeftOver ==
  ASSUME NEW s, NEW n \in Nat, Numbered(s, n), NEW places \in SUBSET DOMAIN s
  PROVE  LET t == Selected(s, places)
         IN /\ Numbered(t, n)
            /\ \A m \in DOMAIN t : \E i \in DOMAIN s : t[m] = s[i]
            /\ \A i \in places : \E m \in DOMAIN t : t[m] = s[i]
<1> DEFINE k == Cardinality(places)
           order == InOrder(places)
           t == Selected(s, places)
<1>1. PICK S : s \in Seq(S)
  BY DEF Numbered, Sequence
<1>2. Len(s) \in Nat /\ DOMAIN s = 1 .. Len(s) /\ \A i \in DOMAIN s : s[i] \in S
  BY <1>1
<1>3. t = [m \in 1 .. k |-> s[order[m]]]
  BY DEF Selected
<1>4. /\ k \in Nat /\ order \in [1 .. k -> places]
      /\ \A i \in places : \E m \in 1 .. k : order[m] = i
      /\ \A m, l \in 1 .. k : m < l => order[m] < order[l]
  BY <1>2, InOrderIs
<1> HIDE DEF k, order, t
<1>5. DOMAIN t = 1 .. k /\ \A m \in 1 .. k : t[m] = s[order[m]] /\ order[m] \in DOMAIN s /\ order[m] \in Int
  BY <1>2, <1>3, <1>4
<1>6. Sequence(t)
  <2>1. \A m \in 1 .. k : s[order[m]] \in S
    BY <1>2, <1>5
  <2>2. t \in Seq(S)
    BY <1>3, <1>4, <2>1
  <2> QED
    BY <2>2 DEF Sequence
<1>7. ASSUME NEW i \in DOMAIN t, NEW j \in DOMAIN t, i # j PROVE t[i].id # t[j].id
  <2>1. i < j \/ j < i
    BY <1>4, <1>5, <1>7
  <2>2. order[i] # order[j]
    BY <1>4, <1>5, <2>1
  <2> QED
    BY <1>5, <2>2 DEF Numbered
<1>8. \A m \in DOMAIN t : t[m].id \in 1 .. n
  BY <1>5 DEF Numbered
<1>9. \A i \in places : \E m \in DOMAIN t : t[m] = s[i]
  <2> SUFFICES ASSUME NEW i \in places PROVE \E m \in DOMAIN t : t[m] = s[i]
    OBVIOUS
  <2>1. PICK m \in 1 .. k : order[m] = i
    BY <1>4
  <2> QED
    BY <1>5, <2>1
<1> QED
  BY <1>5, <1>6, <1>7, <1>8, <1>9 DEF Numbered, t

\* One document more.
LEMMA OneDocumentMore ==
  ASSUME NEW s, NEW n \in Nat, Numbered(s, n), NEW d, d.id \in 1 .. n, \A i \in DOMAIN s : s[i].id # d.id
  PROVE  LET t == Append(s, d)
         IN /\ Numbered(t, n)
            /\ \A m \in DOMAIN t : t[m] = d \/ \E i \in DOMAIN s : t[m] = s[i]
            /\ \A i \in DOMAIN s : \E m \in DOMAIN t : t[m] = s[i]
<1> DEFINE k == Len(s)
           t == Append(s, d)
<1>1. PICK S : s \in Seq(S)
  BY DEF Numbered, Sequence
<1>2. s \in Seq(S \cup {d}) /\ d \in S \cup {d}
  BY <1>1
<1>3. k \in Nat /\ DOMAIN s = 1 .. k
  BY <1>1
<1>4. t \in Seq(S \cup {d}) /\ DOMAIN t = 1 .. (k + 1) /\ t[k + 1] = d /\ \A i \in 1 .. k : t[i] = s[i]
  BY <1>2
<1> HIDE DEF k, t
<1>5. \A m \in DOMAIN t : (m = k + 1 /\ t[m] = d) \/ (m \in DOMAIN s /\ t[m] = s[m])
  BY <1>3, <1>4
<1>6. \A i \in DOMAIN s : i \in DOMAIN t /\ t[i] = s[i]
  BY <1>3, <1>4
<1>7. \A i \in DOMAIN t : t[i].id \in 1 .. n
  BY <1>5 DEF Numbered
<1>8. ASSUME NEW i \in DOMAIN t, NEW j \in DOMAIN t, i # j PROVE t[i].id # t[j].id
  BY <1>5, <1>8 DEF Numbered
<1>9. Sequence(t)
  BY <1>4 DEF Sequence
<1> QED
  BY <1>5, <1>6, <1>7, <1>8, <1>9 DEF Numbered, t

\* A step that commits documents which were there, or the one of its request.
LEMMA DocumentsWrite ==
  ASSUME DocumentsInv, NEW c \in Clients, req[c].op # "idle", NEW new, D!Commit(c, new), Numbered(new, calls),
         \A m \in DOMAIN new : \/ \E i \in DOMAIN db : new[m].id = db[i].id
                               \/ new[m].id = req[c].at
  PROVE  DocumentsInv'
<1>1. req' = [req EXCEPT ![c] = D!Idle] /\ db' = new /\ calls' = calls
  BY DEF D!Commit
<1>2. \A d \in Clients : req'[d].op # "idle" => d # c /\ req'[d] = req[d]
  BY <1>1 DEF DocumentsInv, D!Idle
<1>3. req' = [d \in Clients |-> req'[d]]
  BY <1>1 DEF DocumentsInv
<1>4. ASSUME NEW d \in Clients, req'[d].op = "ingest" PROVE \A m \in DOMAIN new : new[m].id # req'[d].at
  <2>1. d # c /\ req'[d] = req[d] /\ req[d].op = "ingest"
    BY <1>2, <1>4
  <2>2. req[d].at # req[c].at
    BY <2>1 DEF DocumentsInv
  <2> QED
    BY <2>1, <2>2 DEF DocumentsInv
<1> QED
  BY <1>1, <1>2, <1>3, <1>4 DEF DocumentsInv

LEMMA DocumentsAsked ==
  ASSUME DocumentsInv, NEW c \in Clients, NEW op, NEW arg, D!Ask(c, op, arg)
  PROVE  DocumentsInv'
<1> DEFINE new == [op |-> op, arg |-> arg, saw |-> db, at |-> calls + 1]
<1>1. req' = [req EXCEPT ![c] = new] /\ db' = db /\ calls' = calls + 1
  BY DEF D!Ask
<1>2. new.at = calls + 1
  OBVIOUS
<1> HIDE DEF new
<1>3. calls \in Nat /\ Numbered(db, calls)
  BY DEF DocumentsInv
<1>4. Numbered(db, calls + 1) /\ \A i \in DOMAIN db : db[i].id # calls + 1
  <2>1. \A i \in DOMAIN db : db[i].id \in 1 .. (calls + 1) /\ db[i].id # calls + 1
    BY <1>3 DEF Numbered
  <2> QED
    BY <1>3, <2>1 DEF Numbered
<1>5. \A d \in Clients : req'[d] = IF d = c THEN new ELSE req[d]
  BY <1>1 DEF DocumentsInv
<1>6. ASSUME NEW d \in Clients, req[d].op # "idle" PROVE req[d].at \in 1 .. (calls + 1) /\ req[d].at # calls + 1
  <2>1. req[d].at \in 1 .. calls
    BY <1>6 DEF DocumentsInv
  <2> QED
    BY <1>3, <2>1
<1>7. \A d \in Clients : req'[d].op # "idle" => req'[d].at \in 1 .. (calls + 1)
  BY <1>2, <1>3, <1>5, <1>6
<1>8. \A d, e \in Clients : d # e /\ req'[d].op # "idle" /\ req'[e].op # "idle" => req'[d].at # req'[e].at
  BY <1>2, <1>5, <1>6 DEF DocumentsInv
<1>9. \A d \in Clients : req'[d].op = "ingest" => \A i \in DOMAIN db : db[i].id # req'[d].at
  BY <1>2, <1>4, <1>5 DEF DocumentsInv
<1>10. req' = [d \in Clients |-> req'[d]]
  BY <1>1 DEF DocumentsInv
<1> QED
  BY <1>1, <1>3, <1>4, <1>7, <1>8, <1>9, <1>10 DEF DocumentsInv

LEMMA DocumentsRefused ==
  ASSUME DocumentsInv, NEW c \in Clients, D!Rollback(c)
  PROVE  DocumentsInv' /\ D!LegalStep
<1>1. req[c].op # "idle" /\ D!Commit(c, db) /\ db' = db
  BY DEF D!Rollback, D!Commit
<1>2. Numbered(db, calls)
  BY DEF DocumentsInv
<1> QED
  BY <1>1, <1>2, DocumentsWrite DEF D!LegalStep

LEMMA DocumentIngested ==
  ASSUME DocumentsInv, NEW c \in Clients, D!Ingest(c)
  PROVE  DocumentsInv' /\ D!LegalStep
<1> DEFINE sent == req[c].arg
           existing == D!FindBySha256(req[c].saw, sent.content)
           parsed == D!Parse(sent.content, sent.ocr)
           d == [id |-> req[c].at, user |-> sent.user, type |-> sent.type, content |-> sent.content,
                 format |-> parsed.format, fields |-> parsed.fields, ocr |-> parsed.ocr,
                 confidence |-> D!ComputeConfidence(parsed.fields)]
<1>1. CASE existing # <<>>
  BY <1>1, DocumentsRefused DEF D!Ingest
<1>2. CASE existing = <<>>
  <2>1. req[c].op = "ingest" /\ D!Commit(c, Append(db, d))
    BY <1>2 DEF D!Ingest
  <2>2. d.id = req[c].at /\ d.content = sent.content
    OBVIOUS
  <2> HIDE DEF d
  <2>3. calls \in Nat /\ Numbered(db, calls) /\ d.id \in 1 .. calls /\ \A i \in DOMAIN db : db[i].id # d.id
    BY <2>1, <2>2 DEF DocumentsInv
  <2> DEFINE new == Append(db, d)
  <2>4. /\ Numbered(new, calls)
        /\ \A m \in DOMAIN new : new[m] = d \/ \E i \in DOMAIN db : new[m] = db[i]
        /\ \A i \in DOMAIN db : \E m \in DOMAIN new : new[m] = db[i]
    BY <2>3, OneDocumentMore
  <2>5. D!Commit(c, new) /\ db' = new
    BY <2>1 DEF D!Commit
  <2> HIDE DEF new
  <2>6. DocumentsInv'
    BY <2>1, <2>2, <2>4, <2>5, DocumentsWrite
  <2>7. \A m \in DOMAIN new : \/ \E i \in DOMAIN db : db[i] = new[m]
                              \/ new[m].id = req[c].at /\ D!FindBySha256(req[c].saw, new[m].content) = <<>>
    BY <1>2, <2>2, <2>4
  <2>8. D!LegalStep
    BY <2>1, <2>4, <2>5, <2>7 DEF D!LegalStep
  <2> QED
    BY <2>6, <2>8
<1> QED
  BY <1>1, <1>2

LEMMA DocumentDeleted ==
  ASSUME DocumentsInv, NEW c \in Clients, D!Delete(c)
  PROVE  DocumentsInv' /\ D!LegalStep
<1> DEFINE places == {i \in DOMAIN db : db[i].id # req[c].arg}
           new == Selected(db, places)
<1>1. CASE D!Rollback(c)
  BY <1>1, DocumentsRefused
<1>2. CASE ~D!Rollback(c)
  <2>1. req[c].op = "delete" /\ D!Commit(c, new)
    BY <1>2, DNumbers DEF D!Delete, D!Filter
  <2>2. calls \in Nat /\ Numbered(db, calls)
    BY DEF DocumentsInv
  <2>3. \A i \in DOMAIN db : i \notin places => db[i].id = req[c].arg
    OBVIOUS
  <2>4. places \in SUBSET DOMAIN db
    OBVIOUS
  <2> HIDE DEF places
  <2>5. /\ Numbered(new, calls)
        /\ \A m \in DOMAIN new : \E i \in DOMAIN db : new[m] = db[i]
        /\ \A i \in places : \E m \in DOMAIN new : new[m] = db[i]
    BY <2>2, <2>4, LeftOver
  <2>6. db' = new
    BY <2>1 DEF D!Commit
  <2> HIDE DEF new
  <2>7. DocumentsInv'
    BY <2>1, <2>5, DocumentsWrite
  <2>8. D!LegalStep
    BY <2>1, <2>3, <2>5, <2>6 DEF D!LegalStep
  <2> QED
    BY <2>7, <2>8
<1> QED
  BY <1>1, <1>2

LEMMA DocumentsStep ==
  ASSUME DocumentsInv, D!Next
  PROVE  DocumentsInv' /\ D!LegalStep
<1>1. ASSUME NEW c \in Clients, D!Requests(c) PROVE DocumentsInv' /\ D!LegalStep
  <2>1. PICK op, arg : D!Ask(c, op, arg)
    BY <1>1 DEF D!Requests
  <2>2. db' = db
    BY <2>1 DEF D!Ask
  <2> QED
    BY <2>1, <2>2, DocumentsAsked DEF D!LegalStep
<1> QED
  BY <1>1, DocumentsRefused, DocumentIngested, DocumentDeleted DEF D!Next

LEMMA DocumentsInductive == D!Spec => []DocumentsInv
<1>1. D!Init => DocumentsInv
  <2> SUFFICES ASSUME D!Init PROVE DocumentsInv
    OBVIOUS
  <2>1. db = <<>> /\ req = [c \in Clients |-> D!Idle] /\ calls = 0
    BY DEF D!Init, D!NoRequests
  <2>2. req = [c \in Clients |-> req[c]] /\ \A c \in Clients : req[c].op = "idle"
    BY <2>1 DEF D!Idle
  <2>3. <<>> \in Seq({}) /\ DOMAIN <<>> = {}
    OBVIOUS
  <2>4. Numbered(db, calls)
    BY <2>1, <2>3 DEF Numbered, Sequence
  <2> QED
    BY <2>1, <2>2, <2>3, <2>4 DEF DocumentsInv
<1>2. DocumentsInv /\ [D!Next]_D!sessionVars => DocumentsInv'
  <2> SUFFICES ASSUME DocumentsInv, [D!Next]_D!sessionVars PROVE DocumentsInv'
    OBVIOUS
  <2>1. CASE UNCHANGED D!sessionVars
    BY <2>1 DEF DocumentsInv, D!sessionVars
  <2> QED
    BY <2>1, DocumentsStep
<1> QED
  BY <1>1, <1>2, PTL DEF D!Spec

\* A content is stored again only by a request that found none when it looked, and a document stays
\* as it is until a request deletes it by its id (documents/manager.py ingest, delete).
THEOREM DocumentsLegalSteps == D!Spec => [][D!LegalStep]_D!sessionVars
<1> QED
  BY DocumentsStep, DocumentsInductive, PTL DEF D!Spec
=============================================================================
