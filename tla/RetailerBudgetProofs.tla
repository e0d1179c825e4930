------------------------ MODULE RetailerBudgetProofs ------------------------
(***************************************************************************)
(* RetailerBudget keeps its types and its limit, for every number of       *)
(* callers, months and lookups and every limit.                            *)
(*                                                                         *)
(* WithinLimit alone is not inductive: the INCR compares the counter with  *)
(* the limit, not the searches.  NothingUncounted connects the two: the    *)
(* counter is at least what was spent and what is held, so an INCR that    *)
(* returns no more than the limit leaves room for one search.              *)
(*                                                                         *)
(* A key may go in the last second of its month, and what it had counted   *)
(* is then in `lost'.  That this never happens earlier (Dated) makes the   *)
(* Restarted of the properties and `lost' the same, and the proofs use the *)
(* latter.                                                                 *)
(*                                                                         *)
(* At the end Research, the lookups that spend a budget, for any clients   *)
(* and any products.                                                       *)
(***************************************************************************)
EXTENDS RetailerBudget, Sessions, FiniteSetTheorems, TLAPS

States == {"idle", "expire", "undo", "search", "release"}

(* The states of a caller are five different strings.                      *)
LEMMA StateNames ==
  /\ "idle" \in States /\ "expire" \in States /\ "undo" \in States
  /\ "search" \in States /\ "release" \in States
  BY DEF States

-----------------------------------------------------------------------------
(* Type correctness.                                                       *)

(* Adding one to, or taking one from, the entry of a month.                *)
LEMMA CountTyped ==
  ASSUME NEW f \in [Months -> Int], NEW m \in Months
  PROVE  [f EXCEPT ![m] = @ + 1] \in [Months -> Int] /\ [f EXCEPT ![m] = @ - 1] \in [Months -> Int]
OBVIOUS

(* INCR and DECR keep the types.                                           *)
LEMMA CountKeepsTypes ==
  ASSUME TypeOK, NEW m \in Months, Count(m, 1) \/ Count(m, 0 - 1)
  PROVE  /\ used' \in [Months -> Int] /\ keys' \in SUBSET Months
         /\ Count(m, 1) => used' = [used EXCEPT ![m] = @ + 1]
         /\ Count(m, 0 - 1) => used' = [used EXCEPT ![m] = @ - 1]
<1>1. used \in [Months -> Int] /\ keys \in SUBSET Months
  BY DEF TypeOK
<1> QED
  BY <1>1 DEF Count

(* The moments, and that a date set now is one the type allows.            *)
LEMMA Clock ==
  ASSUME TypeOK
  PROVE  /\ month \in Nat /\ month >= 1 /\ month <= LastMonth /\ LastMonth \in Nat
         /\ Now \in Nat /\ Now >= 2 * month - 1 /\ Now <= 2 * month
         /\ Now + 1 \in 0 .. 2 * LastMonth + 1
<1>1. month \in Months /\ last \in BOOLEAN /\ LastMonth \in Nat
  BY BudgetAssumption DEF TypeOK
<1> QED
  BY <1>1 DEF Now, Months

(* EXPIRE keeps the type of the dates.                                     *)
LEMMA DueTyped ==
  ASSUME TypeOK, NEW m \in Months, SetExpiry(m)
  PROVE  due' \in [Months -> 0 .. 2 * LastMonth + 1]
<1>1. due \in [Months -> 0 .. 2 * LastMonth + 1]
  BY DEF TypeOK
<1> QED
  BY <1>1, Clock DEF SetExpiry

LEMMA HistoryTyped ==
  ASSUME NEW f \in [Months -> Nat], NEW m \in Months
  PROVE  [f EXCEPT ![m] = @ + 1] \in [Months -> Nat]
OBVIOUS

(* A step of one caller or of the calendar keeps the types.                *)
LEMMA TypeStep == TypeOK /\ [Next]_vars => TypeOK'
<1> SUFFICES ASSUME TypeOK, [Next]_vars PROVE TypeOK'
  OBVIOUS
<1> USE DEF TypeOK
<1>b. shared' \in BOOLEAN
  BY DEF Next, Step, vars, Incr, LocalAcquire, Expire, Undo, Succeed, Fail, Release,
         Cancel, AcquireFailsOpen, ReleaseFails, LastSecond, NextMonth, KeyGoes
<1> USE <1>b
<1>0. ASSUME NEW c \in Callers, Begin(c) PROVE lookups' \in 0 .. MaxLookups
  BY <1>0, BudgetAssumption DEF Begin
<1>a. ASSUME NEW c \in Callers, NEW s \in States, Goto(c, s) PROVE at' \in [Callers -> States]
  BY <1>a DEF Goto, States
<1>1. ASSUME NEW c \in Callers, Incr(c) PROVE TypeOK'
  <2>1. used' \in [Months -> Int] /\ keys' \in SUBSET Months /\ key' \in [Callers -> Months]
    BY <1>1, CountKeepsTypes DEF Incr
  <2>2. at' \in [Callers -> States]
    <3>1. PICK s \in States : Goto(c, s)
      BY <1>1, StateNames DEF Incr
    <3> QED
      BY <3>1, <1>a
  <2>3. lookups' \in 0 .. MaxLookups
    BY <1>1, <1>0 DEF Incr
  <2> QED
    BY <1>1, <2>1, <2>2, <2>3 DEF Incr, States
<1>2. ASSUME NEW c \in Callers, LocalAcquire(c) PROVE TypeOK'
  <2>1. used' \in [Months -> Int] /\ key' \in [Callers -> Months]
    BY <1>2, CountTyped DEF LocalAcquire
  <2>2. at' \in [Callers -> States]
    BY <1>2, <1>a, StateNames DEF LocalAcquire, States
  <2>3. lookups' \in 0 .. MaxLookups
    BY <1>2, <1>0 DEF LocalAcquire
  <2> QED
    BY <1>2, <2>1, <2>2, <2>3 DEF LocalAcquire, States
<1>3. ASSUME NEW c \in Callers, Step(c) PROVE TypeOK'
  <2>0. key[c] \in Months /\ month \in Months
    OBVIOUS
  <2>1. CASE Expire(c)
    <3>1. due' \in [Months -> 0 .. 2 * LastMonth + 1]
      BY <2>0, <2>1, DueTyped DEF Expire
    <3> QED
      BY <2>1, <3>1 DEF Expire, Goto
  <2>2. CASE Undo(c)
    <3>1. used' \in [Months -> Int] /\ keys' \in SUBSET Months
      BY <2>0, <2>2, CountKeepsTypes DEF Undo
    <3> QED
      BY <2>2, <3>1 DEF Undo, Goto
  <2>3. CASE Succeed(c)
    <3>1. spent' \in [Months -> Nat]
      BY <2>0, <2>3, HistoryTyped DEF Succeed
    <3> QED
      BY <2>3, <3>1 DEF Succeed, Goto
  <2>4. CASE Fail(c)
    BY <2>4 DEF Fail, Goto
  <2>5. CASE Release(c)
    <3>1. used' \in [Months -> Int] /\ keys' \in SUBSET Months
      <4>1. CASE shared
        BY <2>0, <2>5, <4>1, CountKeepsTypes DEF Release
      <4>2. CASE ~shared
        BY <2>5, <4>2 DEF Release
      <4> QED
        BY <4>1, <4>2
    <3>2. strays' \in [Months -> Nat]
      BY <2>0, <2>5, HistoryTyped DEF Release, Stray
    <3> QED
      BY <2>5, <3>1, <3>2 DEF Release, Goto
  <2> QED
    BY <1>3, <2>1, <2>2, <2>3, <2>4, <2>5 DEF Step
<1>4. ASSUME NEW c \in Callers, Cancel(c) PROVE TypeOK'
  BY <1>4 DEF Cancel, Goto
<1>5. ASSUME NEW c \in Callers, AcquireFailsOpen(c) PROVE TypeOK'
  <2>0. key[c] \in Months /\ month \in Months
    OBVIOUS
  <2>1. /\ used' \in [Months -> Int] /\ keys' \in SUBSET Months
        /\ key' \in [Callers -> Months]
    BY <1>5, <2>0, CountKeepsTypes DEF AcquireFailsOpen
  <2>2. due' \in [Months -> 0 .. 2 * LastMonth + 1] /\ lookups' \in 0 .. MaxLookups
    BY <1>5, <1>0, <2>0, DueTyped DEF AcquireFailsOpen
  <2>3. opens' \in [Months -> Nat]
    BY <1>5, <2>1, HistoryTyped DEF AcquireFailsOpen
  <2> QED
    BY <1>5, <2>1, <2>2, <2>3 DEF AcquireFailsOpen, Goto
<1>6. ASSUME NEW c \in Callers, ReleaseFails(c) PROVE TypeOK'
  BY <1>6 DEF ReleaseFails, Goto
<1>7. CASE NextMonth
  <2>1. month' \in Months
    BY <1>7, BudgetAssumption DEF NextMonth, Months
  <2> QED
    BY <1>7, <2>1 DEF NextMonth
<1>l. CASE LastSecond
  BY <1>l DEF LastSecond
<1>k. ASSUME NEW m \in Months, KeyGoes(m) PROVE TypeOK'
  <2>1. lost' \in [Months -> Int]
    BY <1>k DEF KeyGoes
  <2>2. due' \in [Months -> 0 .. 2 * LastMonth + 1]
    BY <1>k, BudgetAssumption DEF KeyGoes
  <2> QED
    BY <1>k, <2>1, <2>2 DEF KeyGoes
<1>8. CASE UNCHANGED vars
  BY <1>8 DEF vars
<1>9. CASE \E c \in Callers : \/ Incr(c) \/ LocalAcquire(c) \/ Step(c)
                              \/ Cancel(c) \/ AcquireFailsOpen(c) \/ ReleaseFails(c)
  BY <1>9, <1>1, <1>2, <1>3, <1>4, <1>5, <1>6
<1> HIDE DEF TypeOK
<1> QED
  BY <1>7, <1>l, <1>k, <1>8, <1>9 DEF Next

(* They hold at the start.                                                 *)
LEMMA TypeStarts == Init => TypeOK
<1> SUFFICES ASSUME Init PROVE TypeOK
  OBVIOUS
<1>1. 1 \in Months /\ 0 \in 0 .. 2 * LastMonth + 1 /\ 0 \in 0 .. MaxLookups
  BY BudgetAssumption DEF Months
<1>2. /\ due \in [Months -> 0 .. 2 * LastMonth + 1] /\ used \in [Months -> Int]
      /\ lost \in [Months -> Int] /\ key \in [Callers -> Months]
      /\ spent \in [Months -> Nat] /\ strays \in [Months -> Nat] /\ opens \in [Months -> Nat]
      /\ at \in [Callers -> States]
  BY <1>1, StateNames DEF Init
<1> QED
  BY <1>1, <1>2 DEF Init, TypeOK, States

(* The counter, the keys, the callers and the history keep their types.    *)
THEOREM TypeCorrect == Spec => []TypeOK
<1> QED
  BY TypeStarts, TypeStep, PTL DEF Spec

-----------------------------------------------------------------------------
(* Who holds a unit of the counter, before and after a step of one caller. *)

(* Both sets are finite, and a caller that searches holds its unit.        *)
LEMMA Finite ==
  ASSUME NEW m
  PROVE  /\ IsFiniteSet(Holding(m)) /\ IsFiniteSet(Granted(m))
         /\ Cardinality(Holding(m)) \in Nat /\ Cardinality(Granted(m)) \in Nat
         /\ Cardinality(Granted(m)) <= Cardinality(Holding(m))
<1>1. Holding(m) \subseteq Callers /\ Granted(m) \subseteq Holding(m)
  BY DEF Holding, Granted
<1>2. IsFiniteSet(Holding(m))
  BY <1>1, FS_Subset, BudgetAssumption
<1> QED
  BY <1>1, <1>2, FS_Subset, FS_CardinalityType

LEMMA FiniteNext ==
  ASSUME NEW m
  PROVE  /\ IsFiniteSet(Holding(m)') /\ IsFiniteSet(Granted(m)')
         /\ Cardinality(Holding(m)') \in Nat /\ Cardinality(Granted(m)') \in Nat
<1>1. Holding(m)' \subseteq Callers /\ Granted(m)' \subseteq Callers
  BY DEF Holding, Granted
<1> QED
  BY <1>1, FS_Subset, FS_CardinalityType, BudgetAssumption

(* A lookup begins: one more caller holds a unit of month k.               *)
LEMMA HoldingEnters ==
  ASSUME TypeOK, NEW c \in Callers, NEW k \in Months, NEW s \in States, s # "idle",
         at[c] = "idle", Goto(c, s), key' = [key EXCEPT ![c] = k]
  PROVE  /\ Cardinality(Holding(k)') = Cardinality(Holding(k)) + 1
         /\ \A m \in Months : m # k => Holding(m)' = Holding(m)
<1>1. Holding(k)' = Holding(k) \cup {c} /\ c \notin Holding(k)
  <2>1. c \in Holding(k)'
    BY DEF Holding, Goto, TypeOK
  <2>2. ASSUME NEW d \in Callers, d # c PROVE d \in Holding(k)' <=> d \in Holding(k)
    BY <2>2 DEF Holding, Goto, TypeOK
  <2>3. c \notin Holding(k) /\ Holding(k) \subseteq Callers /\ Holding(k)' \subseteq Callers
    BY DEF Holding
  <2> QED
    BY <2>1, <2>2, <2>3
<1>2. ASSUME NEW m \in Months, m # k PROVE Holding(m)' = Holding(m)
  BY <1>2 DEF Holding, Goto, TypeOK
<1> QED
  BY <1>1, <1>2, Finite, FS_AddElement

(* A lookup goes on: the same callers hold.                                *)
LEMMA HoldingStays ==
  ASSUME TypeOK, NEW c \in Callers, NEW s \in States, s # "idle",
         at[c] # "idle", Goto(c, s), key' = key
  PROVE  \A m \in Months : Holding(m)' = Holding(m)
BY DEF Holding, Goto, TypeOK

(* A lookup ends: one caller less holds a unit of its month.               *)
LEMMA HoldingLeaves ==
  ASSUME TypeOK, NEW c \in Callers, NEW k \in Months, k = key[c],
         at[c] # "idle", Goto(c, "idle"), key' = key
  PROVE  /\ Cardinality(Holding(k)') = Cardinality(Holding(k)) - 1
         /\ \A m \in Months : m # k => Holding(m)' = Holding(m)
<1>1. Holding(k)' = Holding(k) \ {c} /\ c \in Holding(k)
  BY DEF Holding, Goto, TypeOK
<1>2. ASSUME NEW m \in Months, m # k PROVE Holding(m)' = Holding(m)
  BY <1>2 DEF Holding, Goto, TypeOK
<1> QED
  BY <1>1, <1>2, Finite, FS_RemoveElement, ZenonT(60)

(* At most the caller that moves is let through, in its own month.         *)
LEMMA GrantedGrows ==
  ASSUME TypeOK, NEW c \in Callers, NEW s \in States, NEW k \in Months, Goto(c, s),
         key' = [key EXCEPT ![c] = k]
  PROVE  /\ Cardinality(Granted(k)') <= Cardinality(Granted(k)) + 1
         /\ \A m \in Months : m # k => Cardinality(Granted(m)') <= Cardinality(Granted(m))
<1>1. Granted(k)' \subseteq Granted(k) \cup {c}
  BY DEF Granted, Goto, TypeOK
<1>2. IsFiniteSet(Granted(k) \cup {c})
      /\ Cardinality(Granted(k) \cup {c}) <= Cardinality(Granted(k)) + 1
  <2>1. IsFiniteSet(Granted(k)) /\ Cardinality(Granted(k)) \in Nat
    BY Finite
  <2>2. CASE c \in Granted(k)
    <3>1. Granted(k) \cup {c} = Granted(k)
      BY <2>2
    <3> QED
      BY <2>1, <3>1
  <2>3. CASE c \notin Granted(k)
    <3>1. /\ IsFiniteSet(Granted(k) \cup {c})
          /\ Cardinality(Granted(k) \cup {c}) = Cardinality(Granted(k)) + 1
      BY <2>1, <2>3, FS_AddElement
    <3> QED
      BY <2>1, <3>1
  <2> QED
    BY <2>2, <2>3
<1>3. Cardinality(Granted(k)') <= Cardinality(Granted(k) \cup {c})
  BY <1>1, <1>2, FS_Subset
<1>4. ASSUME NEW m \in Months, m # k PROVE Cardinality(Granted(m)') <= Cardinality(Granted(m))
  <2>1. Granted(m)' \subseteq Granted(m)
    BY <1>4 DEF Granted, Goto, TypeOK
  <2> QED
    BY <2>1, Finite, FS_Subset
<1> QED
  BY <1>2, <1>3, <1>4, Finite, FiniteNext, FS_CardinalityType

(* A caller that moves without being let through lets nobody through.      *)
LEMMA GrantedShrinks ==
  ASSUME TypeOK, NEW c \in Callers, NEW s \in States, Goto(c, s),
         s = "search" => at[c] = "expire" /\ Limit > 0,
         s = "expire" => Limit = 0,
         \/ key' = key
         \/ at[c] = "idle" /\ s # "search" /\ \E k \in Months : key' = [key EXCEPT ![c] = k]
  PROVE  \A m \in Months : Cardinality(Granted(m)') <= Cardinality(Granted(m))
<1>1. ASSUME NEW m \in Months PROVE Granted(m)' \subseteq Granted(m)
  BY BudgetAssumption DEF Granted, Goto, TypeOK
<1> QED
  BY <1>1, Finite, FS_Subset

(* A caller that searched and is done is let through no more.              *)
LEMMA GrantedLeaves ==
  ASSUME TypeOK, NEW c \in Callers, NEW k \in Months, k = key[c],
         at[c] = "search", Goto(c, "idle"), key' = key
  PROVE  /\ Cardinality(Granted(k)') = Cardinality(Granted(k)) - 1
         /\ \A m \in Months : m # k => Granted(m)' = Granted(m)
<1>1. Granted(k)' = Granted(k) \ {c} /\ c \in Granted(k)
  BY DEF Granted, Goto, TypeOK
<1>2. ASSUME NEW m \in Months, m # k PROVE Granted(m)' = Granted(m)
  BY <1>2 DEF Granted, Goto, TypeOK
<1> QED
  BY <1>1, <1>2, Finite, FS_RemoveElement, ZenonT(60)

-----------------------------------------------------------------------------
(* The inductive invariant.                                                *)

\* A lookup counts in no month to come; a key lives until the last second of its month at
\* least, and nothing is lost before it; a month without a key counts nothing.
Dated ==
  /\ \A c \in Callers : at[c] # "idle" => key[c] <= month
  /\ \A m \in Months : due[m] # 0 => due[m] >= 2 * m
  /\ \A m \in Months : lost[m] # 0 => Now >= 2 * m
  /\ \A m \in Months : shared /\ m \notin keys => used[m] = 0

\* NothingUncounted and WithinLimit with what was lost.
Covered ==
  \A m \in Months : m >= month =>
    spent[m] + Cardinality(Holding(m)) <= used[m] + strays[m] + opens[m] + lost[m]

Limited ==
  \A m \in Months :
    spent[m] + Cardinality(Granted(m)) <= Limit + strays[m] + opens[m] + lost[m]

Budget == TypeOK /\ Dated /\ Covered /\ Limited

(* The terms of the two bounds are numbers, before and after.              *)
LEMMA Numbers ==
  ASSUME TypeOK, TypeOK', NEW m \in Months
  PROVE  /\ spent[m] \in Nat /\ strays[m] \in Nat /\ opens[m] \in Nat /\ used[m] \in Int
         /\ spent'[m] \in Nat /\ strays'[m] \in Nat /\ opens'[m] \in Nat /\ used'[m] \in Int
         /\ lost[m] \in Int /\ lost'[m] \in Int
         /\ Cardinality(Holding(m)) \in Nat /\ Cardinality(Granted(m)) \in Nat
         /\ Cardinality(Holding(m)') \in Nat /\ Cardinality(Granted(m)') \in Nat
         /\ Cardinality(Granted(m)) <= Cardinality(Holding(m))
         /\ Limit \in Nat
<1>1. /\ spent[m] \in Nat /\ strays[m] \in Nat /\ opens[m] \in Nat /\ used[m] \in Int
      /\ spent'[m] \in Nat /\ strays'[m] \in Nat /\ opens'[m] \in Nat /\ used'[m] \in Int
      /\ lost[m] \in Int /\ lost'[m] \in Int
  BY DEF TypeOK, Months
<1> QED
  BY <1>1, Finite, FiniteNext, BudgetAssumption

(* A step that raises neither the searches nor the units of a month above  *)
(* what it adds to the counter and to the two exceptions keeps the bounds. *)
LEMMA Balanced ==
  ASSUME Budget, TypeOK', UNCHANGED <<lost, month>>,
         \A m \in Months :
           /\ (spent'[m] + Cardinality(Holding(m)')) - (spent[m] + Cardinality(Holding(m)))
                <= (used'[m] + strays'[m] + opens'[m]) - (used[m] + strays[m] + opens[m])
           /\ (spent'[m] + Cardinality(Granted(m)')) - (spent[m] + Cardinality(Granted(m)))
                <= (strays'[m] + opens'[m]) - (strays[m] + opens[m])
  PROVE  Covered' /\ Limited'
<1>1. ASSUME NEW m \in Months
      PROVE /\ m >= month => spent'[m] + Cardinality(Holding(m)') <= used'[m] + strays'[m] + opens'[m] + lost'[m]
            /\ spent'[m] + Cardinality(Granted(m)') <= Limit + strays'[m] + opens'[m] + lost'[m]
  <2>1. /\ m >= month => spent[m] + Cardinality(Holding(m)) <= used[m] + strays[m] + opens[m] + lost[m]
        /\ spent[m] + Cardinality(Granted(m)) <= Limit + strays[m] + opens[m] + lost[m]
    BY DEF Budget, Covered, Limited
  <2> QED
    BY <2>1, Numbers DEF Budget
<1> QED
  BY <1>1 DEF Covered, Limited

(* A lookup takes a unit of month k, and is let through only if the        *)
(* counter says that the limit is not exceeded.                            *)
LEMMA TakeKeepsBudget ==
  ASSUME Budget, TypeOK', NEW c \in Callers, NEW k \in Months, k >= month, NEW z \in States,
         z # "idle", at[c] = "idle", Goto(c, z), key' = [key EXCEPT ![c] = k],
         used' = [used EXCEPT ![k] = used[k] + 1],
         UNCHANGED <<spent, strays, opens, lost, month>>,
         used[k] + 1 <= Limit \/ (z # "search" /\ (z = "expire" => Limit = 0))
  PROVE  Covered' /\ Limited'
<1>0. TypeOK
  BY DEF Budget
<1>1. /\ Cardinality(Holding(k)') = Cardinality(Holding(k)) + 1
      /\ \A m \in Months : m # k => Holding(m)' = Holding(m)
  BY <1>0, HoldingEnters
<1>2. ASSUME NEW m \in Months
      PROVE /\ m >= month => spent'[m] + Cardinality(Holding(m)') <= used'[m] + strays'[m] + opens'[m] + lost'[m]
            /\ spent'[m] + Cardinality(Granted(m)') <= Limit + strays'[m] + opens'[m] + lost'[m]
  <2>1. /\ m >= month => spent[m] + Cardinality(Holding(m)) <= used[m] + strays[m] + opens[m] + lost[m]
        /\ spent[m] + Cardinality(Granted(m)) <= Limit + strays[m] + opens[m] + lost[m]
    BY DEF Budget, Covered, Limited
  <2>2. CASE m = k
    <3>1. used'[m] = used[m] + 1 /\ Cardinality(Holding(m)') = Cardinality(Holding(m)) + 1
      BY <1>0, <1>1, <2>2 DEF TypeOK
    <3>2. CASE used[k] + 1 <= Limit
      <4>1. Cardinality(Granted(m)') <= Cardinality(Granted(m)) + 1
        BY <1>0, <2>2, GrantedGrows
      <4>2. month' = month /\ spent[m] + Cardinality(Holding(m))
                                <= used[m] + strays[m] + opens[m] + lost[m]
        BY <2>1, <2>2
      <4> QED
        BY <1>0, <2>1, <2>2, <3>1, <3>2, <4>1, <4>2, Numbers
    <3>3. CASE z # "search" /\ (z = "expire" => Limit = 0)
      <4>1. Cardinality(Granted(m)') <= Cardinality(Granted(m))
        BY <1>0, <3>3, GrantedShrinks
      <4> QED
        BY <1>0, <2>1, <3>1, <4>1, Numbers
    <3> QED
      BY <3>2, <3>3
  <2>3. CASE m # k
    <3>1. used'[m] = used[m] /\ Holding(m)' = Holding(m)
      BY <1>0, <1>1, <2>3 DEF TypeOK
    <3>2. Cardinality(Granted(m)') <= Cardinality(Granted(m))
      BY <1>0, <2>3, GrantedGrows
    <3> QED
      BY <1>0, <2>1, <3>1, <3>2, Numbers
  <2> QED
    BY <2>2, <2>3
<1> QED
  BY <1>2 DEF Covered, Limited

(* The INCR lets its caller through only within the limit.                 *)
LEMMA IncrKeepsBudget ==
  ASSUME Budget, TypeOK', NEW c \in Callers, Incr(c) PROVE Covered' /\ Limited'
<1> DEFINE n == used[month] + 1
           s == IF n = 1 THEN "expire" ELSE IF n > Limit THEN "undo" ELSE "search"
<1>0. PICK k \in Months : k = month
  BY DEF Budget, TypeOK
<1>m. k >= month
  BY <1>0 DEF Months
<1>1. /\ at[c] = "idle" /\ Goto(c, s) /\ key' = [key EXCEPT ![c] = k]
      /\ used' = [used EXCEPT ![k] = used[k] + 1] /\ UNCHANGED <<spent, strays, opens, lost, month>>
  BY <1>0 DEF Incr, Begin, Count
<1>2. PICK z \in States : z = s /\ z # "idle"
  BY StateNames
<1>3. Goto(c, z)
  BY <1>1, <1>2
<1>4. used[k] + 1 <= Limit \/ (z # "search" /\ (z = "expire" => Limit = 0))
  <2>1. used[k] \in Int /\ Limit \in Nat
    BY BudgetAssumption DEF Budget, TypeOK
  <2> QED
    BY <1>0, <1>2, <2>1
<1> HIDE DEF s
<1> QED
  BY <1>m, <1>1, <1>2, <1>3, <1>4, TakeKeepsBudget

(* So does the check under the lock.                                       *)
LEMMA LocalAcquireKeepsBudget ==
  ASSUME Budget, TypeOK', NEW c \in Callers, LocalAcquire(c)
  PROVE  Covered' /\ Limited'
<1>0. PICK k \in Months : k = month
  BY DEF Budget, TypeOK
<1>1. CASE used[month] >= Limit
  <2>1. UNCHANGED <<used, at, key, spent, strays, opens, lost, month>>
    BY <1>1 DEF LocalAcquire
  <2>2. \A m \in Months : Holding(m)' = Holding(m) /\ Granted(m)' = Granted(m)
    BY <2>1 DEF Holding, Granted
  <2> QED
    BY <2>1, <2>2 DEF Budget, Covered, Limited
<1>2. CASE ~(used[month] >= Limit)
  <2>0. k >= month
    BY <1>0 DEF Months
  <2>1. /\ at[c] = "idle" /\ Goto(c, "search") /\ key' = [key EXCEPT ![c] = k]
        /\ used' = [used EXCEPT ![k] = used[k] + 1] /\ UNCHANGED <<spent, strays, opens, lost, month>>
    BY <1>0, <1>2 DEF LocalAcquire, Begin
  <2>2. used[k] + 1 <= Limit
    <3>1. used[k] \in Int /\ Limit \in Nat
      BY BudgetAssumption DEF Budget, TypeOK
    <3> QED
      BY <1>0, <1>2, <3>1
  <2>3. "search" \in States /\ "search" # "idle"
    BY StateNames
  <2> QED
    BY <2>0, <2>1, <2>2, <2>3, TakeKeepsBudget
<1> QED
  BY <1>1, <1>2

(* A step of a lookup under way.                                           *)
LEMMA StepKeepsBudget ==
  ASSUME Budget, TypeOK', NEW c \in Callers, Step(c) PROVE Covered' /\ Limited'
<1>0. TypeOK /\ key[c] \in Months
  BY DEF Budget, TypeOK
<1>1. CASE Expire(c)
  <2>1. PICK z \in States : /\ z = (IF 1 > Limit THEN "undo" ELSE "search")
                            /\ z # "idle" /\ z # "expire" /\ (z = "search" => Limit > 0)
    BY StateNames, BudgetAssumption
  <2>2. at[c] = "expire" /\ Goto(c, z) /\ key' = key /\ UNCHANGED <<used, spent, strays, opens, lost, month>>
    BY <1>1, <2>1 DEF Expire
  <2>3. \A m \in Months : Holding(m)' = Holding(m)
    BY <1>0, <2>1, <2>2, HoldingStays
  <2>4. \A m \in Months : Cardinality(Granted(m)') <= Cardinality(Granted(m))
    BY <1>0, <2>1, <2>2, GrantedShrinks
  <2> QED
    BY <1>0, <2>2, <2>3, <2>4, Numbers, Balanced
<1>2. CASE Undo(c)
  <2>0. PICK k \in Months : k = key[c]
    BY <1>0
  <2>1. /\ at[c] # "idle" /\ Goto(c, "idle") /\ key' = key
        /\ used' = [used EXCEPT ![key[c]] = @ - 1] /\ UNCHANGED <<spent, strays, opens, lost, month>>
    BY <1>0, <1>2, CountKeepsTypes DEF Undo
  <2>2. /\ Cardinality(Holding(k)') = Cardinality(Holding(k)) - 1
        /\ \A m \in Months : m # k => Holding(m)' = Holding(m)
    BY <1>0, <2>0, <2>1, HoldingLeaves
  <2>3. \A m \in Months : Cardinality(Granted(m)') <= Cardinality(Granted(m))
    BY <1>0, <2>1, StateNames, GrantedShrinks
  <2>4. ASSUME NEW m \in Months
        PROVE Cardinality(Holding(m)') - Cardinality(Holding(m)) <= used'[m] - used[m]
    <3>1. CASE m = k
      BY <1>0, <2>0, <2>1, <2>2, <3>1, Numbers DEF TypeOK
    <3>2. CASE m # k
      BY <1>0, <2>0, <2>1, <2>2, <3>2, Numbers DEF TypeOK
    <3> QED
      BY <3>1, <3>2
  <2> QED
    BY <1>0, <2>1, <2>3, <2>4, Numbers, Balanced
<1>3. CASE Succeed(c)
  <2>0. PICK k \in Months : k = key[c]
    BY <1>0
  <2>1. /\ at[c] = "search" /\ Goto(c, "idle") /\ key' = key
        /\ spent' = [spent EXCEPT ![key[c]] = @ + 1] /\ UNCHANGED <<used, strays, opens, lost, month>>
    BY <1>3 DEF Succeed
  <2>2. /\ Cardinality(Holding(k)') = Cardinality(Holding(k)) - 1
        /\ \A m \in Months : m # k => Holding(m)' = Holding(m)
    BY <1>0, <2>0, <2>1, HoldingLeaves
  <2>3. /\ Cardinality(Granted(k)') = Cardinality(Granted(k)) - 1
        /\ \A m \in Months : m # k => Granted(m)' = Granted(m)
    BY <1>0, <2>0, <2>1, GrantedLeaves
  <2>4. ASSUME NEW m \in Months
        PROVE /\ spent'[m] - spent[m] + (Cardinality(Holding(m)') - Cardinality(Holding(m))) <= 0
              /\ spent'[m] - spent[m] + (Cardinality(Granted(m)') - Cardinality(Granted(m))) <= 0
    <3>1. CASE m = k
      <4>1. spent'[m] = spent[m] + 1
        BY <1>0, <2>0, <2>1, <3>1 DEF TypeOK
      <4> QED
        BY <1>0, <2>2, <2>3, <3>1, <4>1, Numbers
    <3>2. CASE m # k
      <4>1. spent'[m] = spent[m]
        BY <1>0, <2>0, <2>1, <3>2 DEF TypeOK
      <4> QED
        BY <1>0, <2>2, <2>3, <3>2, <4>1, Numbers
    <3> QED
      BY <3>1, <3>2
  <2> QED
    BY <1>0, <2>1, <2>4, Numbers, Balanced
<1>4. CASE Fail(c)
  <2>1. /\ at[c] # "idle" /\ Goto(c, "release") /\ key' = key
        /\ UNCHANGED <<used, spent, strays, opens, lost, month>>
    BY <1>4 DEF Fail
  <2>2. \A m \in Months : Holding(m)' = Holding(m)
    BY <1>0, <2>1, StateNames, HoldingStays
  <2>3. \A m \in Months : Cardinality(Granted(m)') <= Cardinality(Granted(m))
    BY <1>0, <2>1, StateNames, GrantedShrinks
  <2> QED
    BY <1>0, <2>1, <2>2, <2>3, Numbers, Balanced
<1>5. CASE Release(c)
  <2>0. PICK k \in Months : k = month
    BY <1>0 DEF TypeOK
  <2>h. PICK h \in Months : h = key[c]
    BY <1>0
  <2>1. /\ at[c] # "idle" /\ Goto(c, "idle") /\ key' = key /\ UNCHANGED <<spent, opens, lost, month>>
        /\ \E n \in Int : used' = [used EXCEPT ![k] = n] /\ n >= used[k] - 1
        /\ strays' = IF h = k THEN strays ELSE [strays EXCEPT ![k] = @ + 1]
    <3>1. CASE shared
      BY <1>0, <1>5, <2>0, <2>h, <3>1, CountKeepsTypes DEF Release, Stray
    <3>2. CASE ~shared
      <4>1. PICK n \in Int : used' = [used EXCEPT ![k] = n] /\ n >= used[k] - 1
        BY <1>0, <1>5, <2>0, <3>2 DEF Release, TypeOK
      <4> QED
        BY <1>0, <1>5, <2>0, <2>h, <3>2, <4>1 DEF Release, Stray
    <3> QED
      BY <3>1, <3>2
  <2>2. /\ Cardinality(Holding(h)') = Cardinality(Holding(h)) - 1
        /\ \A m \in Months : m # h => Holding(m)' = Holding(m)
    BY <1>0, <2>1, <2>h, HoldingLeaves
  <2>3. \A m \in Months : Cardinality(Granted(m)') <= Cardinality(Granted(m))
    BY <1>0, <2>1, StateNames, GrantedShrinks
  <2>4. ASSUME NEW m \in Months
        PROVE /\ Cardinality(Holding(m)') - Cardinality(Holding(m))
                   <= (used'[m] + strays'[m]) - (used[m] + strays[m])
              /\ strays'[m] >= strays[m]
    <3>1. CASE m = k /\ h = k
      <4>1. used'[m] >= used[m] - 1 /\ strays'[m] = strays[m]
        BY <1>0, <2>1, <3>1 DEF TypeOK
      <4> QED
        BY <1>0, <2>2, <3>1, <4>1, Numbers
    <3>2. CASE m = k /\ h # k
      <4>1. used'[m] >= used[m] - 1
        BY <1>0, <2>1, <3>2 DEF TypeOK
      <4>2. strays'[m] = strays[m] + 1
        BY <1>0, <2>1, <3>2 DEF TypeOK
      <4>3. Holding(m)' = Holding(m)
        BY <2>2, <3>2
      <4> QED
        BY <1>0, <4>1, <4>2, <4>3, Numbers
    <3>3. CASE m # k
      <4>1. used'[m] = used[m] /\ strays'[m] = strays[m]
        BY <1>0, <2>1, <3>3 DEF TypeOK
      <4>2. Cardinality(Holding(m)') <= Cardinality(Holding(m))
        BY <1>0, <2>2, Numbers
      <4> QED
        BY <1>0, <4>1, <4>2, Numbers
    <3> QED
      BY <3>1, <3>2, <3>3
  <2> QED
    BY <1>0, <2>1, <2>3, <2>4, Numbers, Balanced
<1> QED
  BY <1>1, <1>2, <1>3, <1>4, <1>5 DEF Step

(* A lookup that is cancelled, or whose DECR fails, keeps its unit counted. *)
LEMMA AbandonKeepsBudget ==
  ASSUME Budget, TypeOK', NEW c \in Callers, Cancel(c) \/ ReleaseFails(c)
  PROVE  Covered' /\ Limited'
<1>0. TypeOK /\ key[c] \in Months
  BY DEF Budget, TypeOK
<1>k. PICK k \in Months : k = key[c]
  BY <1>0
<1>1. /\ at[c] # "idle" /\ Goto(c, "idle") /\ key' = key
      /\ UNCHANGED <<used, spent, strays, opens, lost, month>>
  BY DEF Cancel, ReleaseFails
<1>2. /\ Cardinality(Holding(k)') = Cardinality(Holding(k)) - 1
      /\ \A m \in Months : m # k => Holding(m)' = Holding(m)
  BY <1>0, <1>1, <1>k, HoldingLeaves
<1>3. \A m \in Months : Cardinality(Granted(m)') <= Cardinality(Granted(m))
  BY <1>0, <1>1, StateNames, GrantedShrinks
<1>4. \A m \in Months : Cardinality(Holding(m)') <= Cardinality(Holding(m))
  BY <1>0, <1>2, Numbers
<1> QED
  BY <1>0, <1>1, <1>3, <1>4, Numbers, Balanced

(* A lookup let through by a Redis error is one of the opens of its month. *)
LEMMA FailOpenKeepsBudget ==
  ASSUME Budget, TypeOK', NEW c \in Callers, AcquireFailsOpen(c)
  PROVE  Covered' /\ Limited'
<1>0. TypeOK /\ key[c] \in Months /\ month \in Months
  BY DEF Budget, TypeOK
<1>s. "search" \in States /\ "search" # "idle"
  BY StateNames
<1>1. PICK k \in Months : /\ key' = [key EXCEPT ![c] = k] /\ opens' = [opens EXCEPT ![k] = @ + 1]
                          /\ \A m \in Months : Cardinality(Holding(m)') - Cardinality(Holding(m))
                               <= (used'[m] + opens'[m]) - (used[m] + opens[m])
  <2>1. ASSUME NEW k \in Months, opens' = [opens EXCEPT ![k] = @ + 1],
               used' = used \/ used' = [used EXCEPT ![k] = @ + 1],
               at[c] = "idle", key' = [key EXCEPT ![c] = k]
        PROVE \A m \in Months : Cardinality(Holding(m)') - Cardinality(Holding(m))
                <= (used'[m] + opens'[m]) - (used[m] + opens[m])
    <3>1. Goto(c, "search")
      BY DEF AcquireFailsOpen
    <3>2. /\ Cardinality(Holding(k)') = Cardinality(Holding(k)) + 1
          /\ \A m \in Months : m # k => Holding(m)' = Holding(m)
      BY <1>0, <1>s, <2>1, <3>1, HoldingEnters
    <3>3. /\ opens'[k] = opens[k] + 1 /\ used'[k] >= used[k]
          /\ \A m \in Months : m # k => opens'[m] = opens[m] /\ used'[m] = used[m]
      BY <1>0, <2>1 DEF TypeOK
    <3> QED
      BY <1>0, <3>2, <3>3, Numbers
  <2>2. ASSUME NEW k \in Months, opens' = [opens EXCEPT ![k] = @ + 1],
               used' = used \/ used' = [used EXCEPT ![k] = @ - 1],
               at[c] # "idle", key' = key
        PROVE \A m \in Months : Cardinality(Holding(m)') - Cardinality(Holding(m))
                <= (used'[m] + opens'[m]) - (used[m] + opens[m])
    <3>1. Goto(c, "search")
      BY DEF AcquireFailsOpen
    <3>2. \A m \in Months : Holding(m)' = Holding(m)
      BY <1>0, <1>s, <2>2, <3>1, HoldingStays
    <3>3. /\ opens'[k] = opens[k] + 1 /\ used'[k] >= used[k] - 1
          /\ \A m \in Months : m # k => opens'[m] = opens[m] /\ used'[m] = used[m]
      BY <1>0, <2>2 DEF TypeOK
    <3> QED
      BY <1>0, <3>2, <3>3, Numbers
  <2>3. CASE Begin(c) /\ key' = [key EXCEPT ![c] = month]
             /\ used' \in {used, [used EXCEPT ![month] = @ + 1]}
    <3>1. PICK k \in Months : k = month
      BY <1>0
    <3>2. key'[c] = k
      BY <1>0, <2>3, <3>1 DEF TypeOK
    <3>3. opens' = [opens EXCEPT ![k] = @ + 1]
      BY <3>2 DEF AcquireFailsOpen
    <3>4. at[c] = "idle" /\ key' = [key EXCEPT ![c] = k]
          /\ (used' = used \/ used' = [used EXCEPT ![k] = @ + 1])
      BY <2>3, <3>1 DEF Begin
    <3> QED
      BY <2>1, <3>3, <3>4
  <2>4. CASE at[c] # "idle" /\ key' = key /\ used' \in {used, [used EXCEPT ![key[c]] = @ - 1]}
    <3>1. PICK k \in Months : k = key[c]
      BY <1>0
    <3>2. opens' = [opens EXCEPT ![k] = @ + 1]
      BY <2>4, <3>1 DEF AcquireFailsOpen
    <3>3. used' = used \/ used' = [used EXCEPT ![k] = @ - 1]
      BY <2>4, <3>1
    <3>4. key' = [key EXCEPT ![c] = k]
      BY <1>0, <2>4, <3>1 DEF TypeOK
    <3> QED
      BY <2>2, <2>4, <3>2, <3>3, <3>4
  <2>5. CASE Begin(c) /\ key' = [key EXCEPT ![c] = month]
             /\ (Count(month, 1) \/ UNCHANGED <<used, keys>>)
    BY <1>0, <2>3, <2>5, CountKeepsTypes
  <2>6. CASE /\ at[c] \in {"expire", "undo"} /\ key' = key
             /\ (Count(key[c], 0 - 1) \/ UNCHANGED <<used, keys>>)
    BY <1>0, <2>4, <2>6, CountKeepsTypes
  <2> QED
    BY <2>5, <2>6 DEF AcquireFailsOpen
<1>2. Goto(c, "search") /\ UNCHANGED <<spent, strays, lost, month>>
  BY DEF AcquireFailsOpen
<1>3. /\ Cardinality(Granted(k)') <= Cardinality(Granted(k)) + 1
      /\ \A m \in Months : m # k => Cardinality(Granted(m)') <= Cardinality(Granted(m))
  BY <1>0, <1>s, <1>1, <1>2, GrantedGrows
<1>4. opens'[k] = opens[k] + 1 /\ \A m \in Months : m # k => opens'[m] = opens[m]
  BY <1>0, <1>1 DEF TypeOK
<1>5. \A m \in Months : Cardinality(Granted(m)') - Cardinality(Granted(m)) <= opens'[m] - opens[m]
  BY <1>0, <1>3, <1>4, Numbers
<1> QED
  BY <1>0, <1>1, <1>2, <1>5, Numbers, Balanced

(* A key goes in the last second of its month or later: what the counter   *)
(* of the month then forgets is lost, and of an earlier month nothing is   *)
(* counted on.                                                             *)
LEMMA KeyGoesKeepsBudget ==
  ASSUME Budget, TypeOK', NEW k \in Months, KeyGoes(k)
  PROVE  Covered' /\ Limited'
<1>0. TypeOK
  BY DEF Budget
<1>1. k <= month
  <2>1. due[k] >= 2 * k /\ Now >= due[k] /\ due[k] \in Nat /\ k \in Nat
    BY <1>0 DEF Budget, Dated, KeyGoes, TypeOK, Months
  <2> QED
    BY <1>0, <2>1, Clock
<1>2. UNCHANGED <<at, key, spent, strays, opens, month>>
  BY DEF KeyGoes
<1>3. ASSUME NEW m \in Months
      PROVE /\ m >= month => spent'[m] + Cardinality(Holding(m)') <= used'[m] + strays'[m] + opens'[m] + lost'[m]
            /\ spent'[m] + Cardinality(Granted(m)') <= Limit + strays'[m] + opens'[m] + lost'[m]
  <2>1. Holding(m)' = Holding(m) /\ Granted(m)' = Granted(m)
    BY <1>2 DEF Holding, Granted
  <2>2. /\ m >= month => spent[m] + Cardinality(Holding(m)) <= used[m] + strays[m] + opens[m] + lost[m]
        /\ spent[m] + Cardinality(Granted(m)) <= Limit + strays[m] + opens[m] + lost[m]
    BY DEF Budget, Covered, Limited
  <2>3. m \in Nat /\ k \in Nat /\ month \in Nat
    BY <1>0 DEF TypeOK, Months
  <2>4. CASE m = k /\ k = month
    <3>1. used'[m] = 0 /\ lost'[m] = lost[m] + used[m]
      BY <1>0, <2>4 DEF KeyGoes, TypeOK
    <3> QED
      BY <1>0, <1>2, <2>1, <2>2, <2>3, <2>4, <3>1, Numbers
  <2>5. CASE m = k /\ k # month
    <3>1. lost'[m] = lost[m]
      BY <2>5 DEF KeyGoes
    <3>2. ~(m >= month)
      BY <1>1, <2>3, <2>5
    <3> QED
      BY <1>2, <2>1, <2>2, <3>1, <3>2
  <2>6. CASE m # k
    <3>1. used'[m] = used[m] /\ lost'[m] = lost[m]
      BY <1>0, <2>6 DEF KeyGoes, TypeOK
    <3> QED
      BY <1>2, <2>1, <2>2, <3>1
  <2> QED
    BY <2>4, <2>5, <2>6
<1> QED
  BY <1>2, <1>3 DEF Covered, Limited

(* The dates are kept, by whoever moves.                                   *)
LEMMA DatedStep ==
  ASSUME TypeOK, TypeOK', Dated, [Next]_vars
  PROVE  Dated'
<1>0. /\ used \in [Months -> Int] /\ at \in [Callers -> States] /\ key \in [Callers -> Months]
      /\ due \in [Months -> 0 .. 2 * LastMonth + 1] /\ lost \in [Months -> Int]
      /\ month \in Months /\ \A m \in Months : m \in Nat
  <2>1. \A m \in Months : m \in Nat
    BY DEF Months
  <2> QED
    BY <2>1 DEF TypeOK, States
<1>1. ASSUME NEW m \in Months, Count(m, 1) \/ Count(m, 0 - 1)
      PROVE  \A k \in Months : k \notin keys' => k \notin keys /\ used'[k] = used[k]
  BY <1>0, <1>1 DEF Count
<1>2. ASSUME NEW m \in Months, m <= month, SetExpiry(m)
      PROVE  \A k \in Months : due'[k] # 0 => due'[k] >= 2 * k
  <2>1. Now + 1 >= 2 * m /\ Now + 1 \in Nat
    BY <1>0, <1>2, Clock
  <2> QED
    BY <1>0, <1>2, <2>1 DEF SetExpiry, Dated
<1>3. ASSUME NEW c \in Callers,
             \/ Incr(c) \/ LocalAcquire(c) \/ Step(c)
             \/ Cancel(c) \/ AcquireFailsOpen(c) \/ ReleaseFails(c)
      PROVE  Dated'
  <2>1. Now' = Now /\ UNCHANGED <<shared, month, lost>>
    BY <1>3 DEF Incr, LocalAcquire, Step, Expire, Undo, Succeed, Fail, Release, Cancel,
                AcquireFailsOpen, ReleaseFails, Now
  <2>2. \A d \in Callers : at'[d] # "idle" => key'[d] <= month
    <3>1. \/ at[c] = "idle" /\ key' = [key EXCEPT ![c] = month]
          \/ at[c] # "idle" /\ key' = key
          \/ at' = at /\ key' = key
      BY <1>3 DEF Incr, LocalAcquire, Step, Expire, Undo, Succeed, Fail, Release, Cancel,
                  AcquireFailsOpen, ReleaseFails, Begin
    <3>2. \A d \in Callers : d # c => at'[d] = at[d]
      BY <1>0, <1>3 DEF Incr, LocalAcquire, Step, Expire, Undo, Succeed, Fail, Release, Cancel,
                        AcquireFailsOpen, ReleaseFails, Goto
    <3> QED
      BY <1>0, <3>1, <3>2 DEF Dated
  <2>3. \A k \in Months : due'[k] # 0 => due'[k] >= 2 * k
    <3>1. due' = due \/ (at[c] = "expire" /\ SetExpiry(key[c]))
      BY <1>3 DEF Incr, LocalAcquire, Step, Expire, Undo, Succeed, Fail, Release, Cancel,
                  AcquireFailsOpen, ReleaseFails
    <3>2. CASE due' = due
      BY <3>2 DEF Dated
    <3>3. CASE at[c] = "expire" /\ SetExpiry(key[c])
      BY <1>0, <1>2, <3>3 DEF Dated
    <3> QED
      BY <3>1, <3>2, <3>3
  <2>4. \A k \in Months : shared' /\ k \notin keys' => used'[k] = 0
    <3>1. \/ ~shared
          \/ used' = used /\ keys' = keys
          \/ Count(month, 1) \/ Count(month, 0 - 1) \/ Count(key[c], 0 - 1)
      BY <1>3 DEF Incr, LocalAcquire, Step, Expire, Undo, Succeed, Fail, Release, Cancel,
                  AcquireFailsOpen, ReleaseFails
    <3> QED
      BY <1>0, <1>1, <2>1, <3>1 DEF Dated
  <2> QED
    BY <2>1, <2>2, <2>3, <2>4 DEF Dated
<1>4. CASE LastSecond \/ NextMonth
  <2>1. month' >= month /\ Now' >= Now /\ month' \in Nat /\ Now' \in Nat /\ Now \in Nat
    <3>1. month \in Nat /\ last \in BOOLEAN
      BY <1>0 DEF TypeOK
    <3> QED
      BY <1>4, <3>1, Clock DEF LastSecond, NextMonth, Now
  <2>2. UNCHANGED <<shared, used, keys, due, at, key, lost>>
    BY <1>4 DEF LastSecond, NextMonth
  <2> QED
    BY <1>0, <2>1, <2>2 DEF Dated
<1>5. ASSUME NEW m \in Months, KeyGoes(m) PROVE Dated'
  <2>1. Now' = Now /\ UNCHANGED <<shared, month, at, key>>
    BY <1>5 DEF KeyGoes, Now
  <2>2. \A k \in Months : due'[k] # 0 => due'[k] >= 2 * k
    BY <1>0, <1>5 DEF KeyGoes, Dated
  <2>3. \A k \in Months : lost'[k] # 0 => Now >= 2 * k
    <3>1. due[m] \in Nat /\ due[m] >= 2 * m /\ Now >= due[m] /\ m \in Nat
      BY <1>0, <1>5 DEF KeyGoes, Dated
    <3>2. Now >= 2 * m
      BY <3>1, Clock
    <3>3. \A k \in Months : k # m => lost'[k] = lost[k]
      BY <1>0, <1>5 DEF KeyGoes
    <3> QED
      BY <3>2, <3>3 DEF Dated
  <2>4. \A k \in Months : shared' /\ k \notin keys' => used'[k] = 0
    BY <1>0, <1>5, <2>1 DEF KeyGoes, Dated
  <2> QED
    BY <2>1, <2>2, <2>3, <2>4 DEF Dated
<1>6. CASE UNCHANGED vars
  BY <1>6 DEF vars, Dated, Now
<1> QED
  BY <1>3, <1>4, <1>5, <1>6 DEF Next

(* Every step keeps the inductive invariant.                               *)
LEMMA BudgetKept == Budget /\ [Next]_vars => Budget'
<1> SUFFICES ASSUME Budget, [Next]_vars PROVE Budget'
  OBVIOUS
<1>1. TypeOK'
  BY TypeStep DEF Budget
<1>2. ASSUME NEW c \in Callers, \/ Incr(c) \/ LocalAcquire(c) \/ Step(c)
                                \/ Cancel(c) \/ AcquireFailsOpen(c) \/ ReleaseFails(c)
      PROVE  Covered' /\ Limited'
  BY <1>1, <1>2, IncrKeepsBudget, LocalAcquireKeepsBudget, StepKeepsBudget,
     AbandonKeepsBudget, FailOpenKeepsBudget
<1>3. ASSUME LastSecond \/ NextMonth \/ UNCHANGED vars PROVE Covered' /\ Limited'
  <2>1. UNCHANGED <<used, at, key, spent, strays, opens, lost>>
    BY <1>3 DEF LastSecond, NextMonth, vars
  <2>2. \A m : Holding(m)' = Holding(m) /\ Granted(m)' = Granted(m)
    BY <2>1 DEF Holding, Granted
  <2>3. \A m \in Months : m >= month' => m >= month
    <3>1. month \in Months /\ (month' = month \/ month' = month + 1)
      BY <1>3 DEF LastSecond, NextMonth, vars, Budget, TypeOK
    <3> QED
      BY <3>1 DEF Months
  <2>4. Covered'
    <3> SUFFICES ASSUME NEW m \in Months, m >= month'
                 PROVE spent'[m] + Cardinality(Holding(m)')
                         <= used'[m] + strays'[m] + opens'[m] + lost'[m]
      BY DEF Covered
    <3>1. spent[m] + Cardinality(Holding(m)) <= used[m] + strays[m] + opens[m] + lost[m]
      BY <2>3 DEF Budget, Covered
    <3> QED
      BY <2>1, <2>2, <3>1
  <2>5. Limited'
    <3> SUFFICES ASSUME NEW m \in Months
                 PROVE spent'[m] + Cardinality(Granted(m)')
                         <= Limit + strays'[m] + opens'[m] + lost'[m]
      BY DEF Limited
    <3>1. spent[m] + Cardinality(Granted(m)) <= Limit + strays[m] + opens[m] + lost[m]
      BY DEF Budget, Limited
    <3> QED
      BY <2>1, <2>2, <3>1
  <2> QED
    BY <2>4, <2>5
<1>4. ASSUME NEW k \in Months, KeyGoes(k) PROVE Covered' /\ Limited'
  BY <1>1, <1>4, KeyGoesKeepsBudget
<1>5. Dated'
  BY <1>1, DatedStep DEF Budget
<1> QED
  BY <1>1, <1>2, <1>3, <1>4, <1>5 DEF Next, Budget

(* What has been lost of a month was lost in its last second or later.     *)
LEMMA LostIsRestarted ==
  ASSUME TypeOK, Dated, NEW m \in Months
  PROVE  Restarted(m) = lost[m]
<1>1. lost[m] \in Int /\ (lost[m] # 0 => Now >= 2 * m)
  BY DEF TypeOK, Dated
<1> QED
  BY <1>1 DEF Restarted

(* The inductive invariant gives the two properties.                       *)
LEMMA BudgetBounds == Budget => WithinLimit /\ NothingUncounted
  BY LostIsRestarted DEF Budget, Covered, Limited, WithinLimit, NothingUncounted

(* It holds from the start.                                                *)
LEMMA BudgetStarts == Init => Budget
<1> SUFFICES ASSUME Init PROVE Budget
  OBVIOUS
<1>1. TypeOK
  BY TypeStarts
<1>2. Dated
  BY DEF Init, Dated, Months
<1>3. \A m \in Months : Holding(m) = {} /\ Granted(m) = {}
  BY DEF Init, Holding, Granted
<1>4. \A m \in Months : Cardinality(Holding(m)) = 0 /\ Cardinality(Granted(m)) = 0
  BY <1>3, FS_EmptySet
<1>5. \A m \in Months : /\ spent[m] = 0 /\ used[m] = 0 /\ strays[m] = 0 /\ opens[m] = 0
                        /\ lost[m] = 0
  BY DEF Init
<1> QED
  BY <1>1, <1>2, <1>4, <1>5, BudgetAssumption DEF Budget, Covered, Limited

(* Before the last second of a month its searches that succeeded or are    *)
(* under way exceed the limit by no more than strays and fail-opens; in    *)
(* that second, when the key may go, by what it had counted besides.       *)
THEOREM LimitHolds == Spec => []WithinLimit
<1> QED
  BY BudgetStarts, BudgetBounds, BudgetKept, PTL DEF Spec

(* No search of the month that runs goes uncounted but for the same three: *)
(* whoever interleaves with the INCR and DECR of budget.py, the counter    *)
(* covers what was spent and what is held.                                 *)
THEOREM NothingUncountedHolds == Spec => []NothingUncounted
<1> QED
  BY BudgetStarts, BudgetBounds, BudgetKept, PTL DEF Spec

-----------------------------------------------------------------------------
(* The keys.                                                               *)

(* Inductive with the types and the dates: whoever brings a counter to 1   *)
(* is about to set its expiry, and leaves that place by setting it or by   *)
(* one of the two exceptions; the counter of a key that goes starts at 0.  *)
LEMMA KeysStep ==
  ASSUME TypeOK, Dated, KeysExpire, [Next]_vars
  PROVE  KeysExpire'
<1> DEFINE Excused(m) == due[m] # 0 \/ m \in cut \/ opens[m] > 0
           Waiting(m) == \E c \in Callers : at[c] = "expire" /\ key[c] = m
<1> SUFFICES ASSUME NEW m \in Months, shared', used'[m] >= 1 PROVE Excused(m)' \/ Waiting(m)'
  BY DEF KeysExpire
<1>0. /\ used \in [Months -> Int] /\ at \in [Callers -> States] /\ key \in [Callers -> Months]
      /\ due \in [Months -> 0 .. 2 * LastMonth + 1]
      /\ opens \in [Months -> Nat] /\ month \in Months
  BY DEF TypeOK, States
<1>1. ASSUME used[m] >= 1, shared PROVE (Excused(m) \/ Waiting(m)) /\ m \in keys
  BY <1>1 DEF KeysExpire, Dated
<1>s. ASSUME NEW k \in Months, SetExpiry(k)
      PROVE  /\ due[m] # 0 => due'[m] # 0
             /\ k = m /\ m \in keys => due'[m] # 0
  <2>1. Now + 1 # 0
    BY Clock
  <2> QED
    BY <1>0, <1>s, <2>1 DEF SetExpiry
<1>2. ASSUME NEW c \in Callers, Incr(c) PROVE Excused(m)' \/ Waiting(m)'
  <2>1. /\ at[c] = "idle" /\ used' = [used EXCEPT ![month] = used[month] + 1]
        /\ at' = [at EXCEPT ![c] = IF used[month] + 1 = 1 THEN "expire"
                                   ELSE IF used[month] + 1 > Limit THEN "undo" ELSE "search"]
        /\ key' = [key EXCEPT ![c] = month] /\ UNCHANGED <<shared, due, opens, cut>>
    BY <1>2 DEF Incr, Begin, Goto, Count
  <2>2. CASE m = month /\ used[month] + 1 = 1
    <3>1. at'[c] = "expire" /\ key'[c] = m
      BY <1>0, <2>1, <2>2
    <3> QED
      BY <3>1
  <2>3. CASE ~(m = month /\ used[month] + 1 = 1)
    <3>1. used[m] >= 1
      BY <1>0, <2>1, <2>3
    <3>2. ASSUME Waiting(m) PROVE Waiting(m)'
      BY <3>2, <1>0, <2>1
    <3> QED
      BY <3>1, <3>2, <2>1, <1>1
  <2> QED
    BY <2>2, <2>3
<1>3. ASSUME NEW c \in Callers, LocalAcquire(c) PROVE FALSE
  BY <1>3 DEF LocalAcquire
<1>4. ASSUME NEW c \in Callers,
             \/ Expire(c) \/ Undo(c) \/ Succeed(c) \/ Fail(c) \/ Release(c)
             \/ Cancel(c) \/ ReleaseFails(c)
      PROVE  Excused(m)' \/ Waiting(m)'
  <2>1. /\ \E s : at' = [at EXCEPT ![c] = s]
        /\ cut \subseteq cut' /\ UNCHANGED <<shared, key, opens>>
    BY <1>4 DEF Expire, Undo, Succeed, Fail, Release, Cancel, ReleaseFails, Goto
  <2>2. shared /\ used[m] >= 1
    <3>1. used' = used \/ \E k \in Months : Count(k, 0 - 1)
      BY <1>0, <1>4, <2>1 DEF Expire, Undo, Succeed, Fail, Release, Cancel, ReleaseFails
    <3> QED
      BY <1>0, <2>1, <3>1 DEF Count
  <2>3. /\ due[m] # 0 => due'[m] # 0
        /\ at[c] = "expire" /\ key[c] = m => due'[m] # 0 \/ m \in cut'
    <3>1. CASE Expire(c)
      BY <1>0, <1>1, <1>s, <2>2, <3>1 DEF Expire
    <3>2. CASE ~Expire(c)
      <4>1. due' = due /\ (at[c] = "expire" => key[c] \in cut')
        BY <1>4, <3>2 DEF Undo, Succeed, Fail, Release, Cancel, ReleaseFails
      <4> QED
        BY <4>1
    <3> QED
      BY <3>1, <3>2
  <2>4. ASSUME Waiting(m) PROVE Excused(m)' \/ Waiting(m)'
    BY <2>4, <1>0, <2>1, <2>3
  <2> QED
    BY <2>1, <2>2, <2>3, <2>4, <1>1
<1>5. ASSUME NEW c \in Callers, AcquireFailsOpen(c) PROVE Excused(m)' \/ Waiting(m)'
  <2>1. /\ at' = [at EXCEPT ![c] = "search"] /\ opens' = [opens EXCEPT ![key'[c]] = @ + 1]
        /\ UNCHANGED <<shared, cut>>
    BY <1>5 DEF AcquireFailsOpen, Goto
  <2>2. \/ at[c] = "idle" /\ key' = [key EXCEPT ![c] = month]
           /\ used' \in {used, [used EXCEPT ![month] = @ + 1]}
        \/ at[c] \in {"expire", "undo"} /\ key' = key
           /\ used' \in {used, [used EXCEPT ![key[c]] = @ - 1]}
    <3>1. key[c] \in Months /\ month \in Months
      BY <1>0
    <3>2. \/ at[c] = "idle" /\ key' = [key EXCEPT ![c] = month]
             /\ (Count(month, 1) \/ used' = used)
          \/ at[c] \in {"expire", "undo"} /\ key' = key
             /\ (Count(key[c], 0 - 1) \/ used' = used)
      BY <1>5 DEF AcquireFailsOpen, Begin
    <3> QED
      BY <3>1, <3>2, CountKeepsTypes
  <2>3. key'[c] \in Months
    BY <1>0, <2>2
  <2>4. CASE key'[c] = m
    BY <1>0, <2>1, <2>4
  <2>5. CASE key'[c] # m
    <3>1. used[m] >= 1
      BY <1>0, <2>2, <2>5
    <3>2. opens'[m] = opens[m]
      BY <1>0, <2>1, <2>3, <2>5
    <3>3. ASSUME Waiting(m) PROVE Waiting(m)'
      BY <3>3, <1>0, <2>1, <2>2, <2>5
    <3>4. due[m] # 0 => due'[m] # 0
      <4>1. due' = due \/ SetExpiry(key[c])
        BY <1>5 DEF AcquireFailsOpen
      <4> QED
        BY <1>0, <1>s, <4>1
    <3> QED
      BY <3>1, <3>2, <3>3, <3>4, <2>1, <1>1
  <2> QED
    BY <2>4, <2>5
<1>6. CASE LastSecond \/ NextMonth
  BY <1>6, <1>1 DEF LastSecond, NextMonth
<1>7. CASE UNCHANGED vars
  BY <1>7, <1>1 DEF vars
<1>8. ASSUME NEW k \in Months, KeyGoes(k) PROVE Excused(m)' \/ Waiting(m)'
  <2>1. k # m
    BY <1>0, <1>8 DEF KeyGoes
  <2>2. used[m] >= 1 /\ due'[m] = due[m] /\ UNCHANGED <<shared, at, key, opens, cut>>
    BY <1>0, <1>8, <2>1 DEF KeyGoes
  <2> QED
    BY <2>2, <1>1
<1> QED
  BY <1>2, <1>3, <1>4, <1>5, <1>6, <1>7, <1>8 DEF Next, Step

(* No month's key stays in Redis for ever, whoever decrements the counter  *)
(* to zero and raises it again between another's INCR and EXPIRE, but for  *)
(* an EXPIRE that raised or that a cancelled lookup never sent             *)
(* (budget.py try_acquire).                                                *)
THEOREM KeysExpireHolds == Spec => []KeysExpire
<1>1. Init => KeysExpire
  BY DEF Init, KeysExpire
<1>2. Budget /\ KeysExpire /\ [Next]_vars => KeysExpire'
  BY KeysStep DEF Budget
<1> QED
  BY <1>1, <1>2, BudgetStarts, BudgetKept, PTL DEF Spec

-----------------------------------------------------------------------------
(***************************************************************************)
(* Lookups of retailers' products.  Every unit of the budget has its place *)
(* in every state; the limiter's lock is held by who waits, and long       *)
(* enough, which is why no two requests leave within the interval.         *)
(***************************************************************************)
R == INSTANCE Research

Lookup ==
  [op : R!Steps \ {"idle"}, todo : Seq(Ids) \ {<<>>}, job : BOOLEAN, allowance : Nat \ {0},
   attempt : 0 .. R!MaxRetries, wait : 0 .. R!RetryAfter]

Account == [left : Nat, spent : Nat, lost : Nat]

Holders == {c \in Clients : req[c].op \in R!Holding}
Charge(r) == IF r.op \in R!Holding THEN 1 ELSE 0
UnitsOf(x) == x.left + x.spent + x.lost

ResearchTyped ==
  /\ req = [c \in Clients |-> req[c]] /\ \A c \in Clients : req[c] \in Lookup \cup {R!Idle}
  /\ mem \in R!Limiter(Ids) /\ db \in Account

ResearchInv == ResearchTyped /\ R!LimiterSound /\ UnitsOf(db) + Cardinality(Holders) = R!MonthlyBudget

LEMMA RCardinality == \A S : R!Cardinality(S) = Cardinality(S)
BY DEF R!Cardinality, Cardinality

LEMMA HoldersFinite == IsFiniteSet(Holders) /\ Cardinality(Holders) \in Nat
<1>1. Holders \subseteq Clients /\ IsFiniteSet(Clients)
  BY SessionsAssumption DEF Holders
<1> QED
  BY <1>1, FS_Subset, FS_CardinalityType

LEMMA LookupFields ==
  ASSUME NEW r \in Lookup
  PROVE  /\ r.op \in R!Steps \ {"idle"} /\ r.todo \in Seq(Ids) /\ r.todo # <<>> /\ r.job \in BOOLEAN
         /\ r.allowance \in Nat \ {0} /\ r.attempt \in 0 .. R!MaxRetries /\ r.wait \in 0 .. R!RetryAfter
         /\ Head(r.todo) \in Ids
<1>1. r.todo \in Seq(Ids) /\ r.todo # <<>>
  BY DEF Lookup
<1> QED
  BY <1>1 DEF Lookup

\* What a lookup is after one of its steps.
LEMMA LookupMoves ==
  ASSUME NEW r \in Lookup, NEW op \in R!Steps \ {"idle"}, NEW wait \in 0 .. R!RetryAfter,
         NEW attempt \in 0 .. R!MaxRetries, NEW allowance \in Nat \ {0}, NEW todo \in Seq(Ids) \ {<<>>}
  PROVE  /\ [r EXCEPT !.op = op] \in Lookup
         /\ [r EXCEPT !.op = op].op = op /\ [r EXCEPT !.op = op].wait = r.wait
         /\ [r EXCEPT !.op = op].attempt = r.attempt /\ [r EXCEPT !.op = op].todo = r.todo
         /\ [r EXCEPT !.op = op].allowance = r.allowance
         /\ [r EXCEPT !.wait = wait] \in Lookup
         /\ [r EXCEPT !.wait = wait].op = r.op /\ [r EXCEPT !.wait = wait].wait = wait
         /\ [r EXCEPT !.wait = wait].todo = r.todo
         /\ [r EXCEPT !.attempt = attempt] \in Lookup
         /\ [r EXCEPT !.attempt = attempt].op = r.op /\ [r EXCEPT !.attempt = attempt].attempt = attempt
         /\ [r EXCEPT !.attempt = attempt].todo = r.todo
         /\ [r EXCEPT !.allowance = allowance] \in Lookup /\ [r EXCEPT !.allowance = allowance].op = r.op
         /\ [r EXCEPT !.todo = todo] \in Lookup /\ [r EXCEPT !.todo = todo].op = r.op
BY DEF Lookup

LEMMA Others ==
  ASSUME ResearchTyped, NEW c \in Clients, NEW new, req' = [req EXCEPT ![c] = new]
  PROVE  \A d \in Clients : req'[d] = IF d = c THEN new ELSE req[d]
BY DEF ResearchTyped

LEMMA HoldersMove ==
  ASSUME ResearchTyped, NEW c \in Clients, NEW new, req' = [req EXCEPT ![c] = new]
  PROVE  Cardinality(Holders') + Charge(req[c]) = Cardinality(Holders) + Charge(new)
<1>1. \A d \in Clients : req'[d] = IF d = c THEN new ELSE req[d]
  BY Others
<1>2. IsFiniteSet(Holders) /\ Cardinality(Holders) \in Nat
  BY HoldersFinite
<1>3. Holders' = IF new.op \in R!Holding THEN Holders \cup {c} ELSE Holders \ {c}
  BY <1>1 DEF Holders
<1>4. /\ Cardinality(Holders \cup {c}) = IF c \in Holders THEN Cardinality(Holders) ELSE Cardinality(Holders) + 1
      /\ Cardinality(Holders \ {c}) = IF c \in Holders THEN Cardinality(Holders) - 1 ELSE Cardinality(Holders)
  BY <1>2, FS_AddElement, FS_RemoveElement
<1>5. c \in Holders <=> req[c].op \in R!Holding
  BY DEF Holders
<1> QED
  BY <1>2, <1>3, <1>4, <1>5 DEF Charge

\* A step of one client, which leaves the lock to the others and moves a unit or none.
LEMMA ResearchMoved ==
  ASSUME ResearchInv, NEW c \in Clients, NEW new \in Lookup \cup {R!Idle}, req' = [req EXCEPT ![c] = new],
         mem' \in R!Limiter(Ids), db' \in Account,
         UnitsOf(db') + Charge(new) = UnitsOf(db) + Charge(req[c]),
         new.op = "wait" <=> mem'.lock = c,
         new.op = "wait" => mem'.since + new.wait >= R!MinInterval,
         \A d \in Clients \ {c} : mem'.lock = d <=> mem.lock = d,
         mem'.since = mem.since \/ mem.lock = c
  PROVE  ResearchInv'
<1>1. \A d \in Clients : req'[d] = IF d = c THEN new ELSE req[d]
  BY Others DEF ResearchInv
<1>2. ResearchTyped'
  BY <1>1 DEF ResearchInv, ResearchTyped, R!Limiter, R!Idle
<1>3. R!LimiterSound'
  BY <1>1 DEF ResearchInv, R!LimiterSound
<1>4. UnitsOf(db') + Cardinality(Holders') = R!MonthlyBudget
  <2>1. Cardinality(Holders') + Charge(req[c]) = Cardinality(Holders) + Charge(new)
    BY HoldersMove DEF ResearchInv
  <2>2. Cardinality(Holders) \in Nat /\ Cardinality(Holders') \in Nat
    <3>1. Holders' \subseteq Clients /\ IsFiniteSet(Clients)
      BY SessionsAssumption DEF Holders
    <3> QED
      BY <3>1, HoldersFinite, FS_Subset, FS_CardinalityType
  <2>3. Charge(new) \in Nat /\ Charge(req[c]) \in Nat
    BY DEF Charge
  <2>4. UnitsOf(db') \in Nat /\ UnitsOf(db) \in Nat
    BY DEF Account, UnitsOf, ResearchInv, ResearchTyped
  <2>5. UnitsOf(db) + Cardinality(Holders) = R!MonthlyBudget /\ R!MonthlyBudget \in Nat
    BY DEF ResearchInv, R!MonthlyBudget
  <2> QED
    BY <2>1, <2>2, <2>3, <2>4, <2>5
<1> QED
  BY <1>2, <1>3, <1>4 DEF ResearchInv

\* What LegalStep asks of a step of one client.
LEMMA ResearchLegal ==
  ASSUME ResearchTyped, NEW c \in Clients, NEW new, req' = [req EXCEPT ![c] = new],
         mem'.since = mem.since \/ (mem'.since = 0 /\ mem.since = R!MinInterval),
         db'.spent >= db.spent, db'.lost = db.lost,
         req[c].op = "sent" /\ new.op = "acquire" => new.attempt = req[c].attempt + 1 /\ new.todo = req[c].todo
  PROVE  R!LegalStep
<1>1. \A d \in Clients : req'[d] = IF d = c THEN new ELSE req[d]
  BY Others, ZenonT(60)
<1>2. db.lost \in Nat /\ mem.since \in 0 .. R!MinInterval
  BY DEF ResearchTyped, Account, R!Limiter
<1>3. db'.lost >= db.lost /\ ~ (db'.lost > db.lost)
  BY <1>2
<1>4. mem'.since < mem.since => mem.since = R!MinInterval
  BY <1>2
<1>5. R!Paced
  BY <1>1, <1>4 DEF R!Paced
<1> QED
  BY <1>3, <1>5 DEF R!LegalStep

\* Of a client that is at one of its steps.
LEMMA AtStep ==
  ASSUME ResearchInv, NEW c \in Clients, req[c].op # "idle"
  PROVE  /\ req[c] \in Lookup /\ mem \in R!Limiter(Ids) /\ db \in Account
         /\ (req[c].op = "wait" <=> mem.lock = c)
         /\ (req[c].op = "wait" => mem.since + req[c].wait >= R!MinInterval)
<1>1. R!Idle.op = "idle"
  BY DEF R!Idle
<1> QED
  BY <1>1 DEF ResearchInv, ResearchTyped, R!LimiterSound

LEMMA Rest ==
  ASSUME NEW s \in Seq(Ids), s # <<>>, Len(s) # 1
  PROVE  Tail(s) \in Seq(Ids) \ {<<>>}
<1>1. Len(s) \in Nat /\ Len(s) # 0
  OBVIOUS
<1>2. Tail(s) \in Seq(Ids) /\ Len(Tail(s)) = Len(s) - 1
  OBVIOUS
<1>3. Len(Tail(s)) # 0
  BY <1>1, <1>2
<1>4. ASSUME NEW t \in Seq(Ids), Len(t) # 0
      PROVE  t \in Seq(Ids) \ {<<>>}
  <2>1. t # <<>>
    BY <1>4
  <2> QED
    BY <2>1
<1> QED
  BY <1>2, <1>3, <1>4

\* A refresh or a lookup goes on with its next product, or ends.
LEMMA RefreshedTyped ==
  ASSUME NEW c \in Clients, req[c] \in Lookup, NEW ok \in BOOLEAN
  PROVE  R!Refreshed(c, ok) \in Lookup \cup {R!Idle} /\ R!Refreshed(c, ok).op \in {"look", "idle"}
<1> DEFINE left == req[c].allowance - (IF ok THEN 1 ELSE 0)
           next == [req[c] EXCEPT !.op = "look", !.todo = Tail(@), !.attempt = 0, !.wait = 0]
           new == [next EXCEPT !.allowance = left]
<1>1. R!Idle.op = "idle"
  BY DEF R!Idle
<1>2. CASE left = 0 \/ Len(req[c].todo) = 1
  BY <1>1, <1>2 DEF R!Refreshed
<1>3. CASE left # 0 /\ Len(req[c].todo) # 1
  <2>1. R!Refreshed(c, ok) = new
    BY <1>3 DEF R!Refreshed, R!Following
  <2>2. Tail(req[c].todo) \in Seq(Ids) \ {<<>>}
    <3>1. req[c].todo \in Seq(Ids) /\ req[c].todo # <<>> /\ Len(req[c].todo) # 1
      BY <1>3, LookupFields
    <3> QED
      BY <3>1, Rest
  <2>3. left \in Nat \ {0}
    BY <1>3, LookupFields
  <2>4. next \in Lookup /\ next.op = "look"
    <3>1. "look" \in R!Steps \ {"idle"} /\ 0 \in 0 .. R!MaxRetries /\ 0 \in 0 .. R!RetryAfter
      BY DEF R!Steps, R!MaxRetries, R!RetryAfter
    <3> QED
      BY <2>2, <3>1 DEF Lookup
  <2> HIDE DEF next, left
  <2>5. new \in Lookup /\ new.op = "look"
    BY <2>3, <2>4 DEF Lookup
  <2> QED
    BY <2>1, <2>5
<1> QED
  BY <1>2, <1>3

LEMMA BeginKeeps ==
  ASSUME ResearchInv, NEW c \in Clients, NEW todo \in Seq(Ids) \ {<<>>}, NEW job \in BOOLEAN, NEW allowance \in Nat \ {0},
         R!Begin(c, todo, job, allowance), UNCHANGED <<db, mem>>
  PROVE  ResearchInv' /\ R!LegalStep
<1> DEFINE new == [op |-> "look", todo |-> todo, job |-> job, allowance |-> allowance, attempt |-> 0, wait |-> 0]
<1>1. req[c].op = "idle" /\ req' = [req EXCEPT ![c] = new] /\ db' = db /\ mem' = mem
  BY DEF R!Begin
<1>2. new \in Lookup /\ new.op = "look"
  BY DEF Lookup, R!Steps, R!MaxRetries, R!RetryAfter
<1> HIDE DEF new
<1>3. Charge(new) = 0 /\ Charge(req[c]) = 0
  BY <1>1, <1>2 DEF Charge, R!Holding
<1>4. ResearchTyped /\ mem \in R!Limiter(Ids) /\ db \in Account /\ (req[c].op = "wait" <=> mem.lock = c)
  BY DEF ResearchInv, ResearchTyped, R!LimiterSound
<1>5. ResearchInv'
  BY <1>1, <1>2, <1>3, <1>4, ResearchMoved
<1>6. db.spent >= db.spent
  BY <1>4 DEF Account
<1> QED
  BY <1>1, <1>2, <1>4, <1>5, <1>6, ResearchLegal

LEMMA IdsAsSequence == R!SetToSeq(Ids) \in Seq(Ids) \ {<<>>}
<1> DEFINE n == Cardinality(Ids)
<1>1. n \in Nat /\ ExistsBijection(1 .. n, Ids)
  BY SessionsAssumption, FS_CardinalityType
<1>2. PICK f \in [1 .. n -> Ids] : \A a, b \in 1 .. n : f[a] = f[b] => a = b
  BY <1>1 DEF ExistsBijection, Bijection, Injection, Surjection, IsInjective
<1>3. n # 0
  BY <1>1, NamesAssumption, SessionsAssumption, FS_EmptySet
<1>4. R!SetToSeq(Ids) = CHOOSE g \in [1 .. n -> Ids] : R!IsInjective(g)
  BY RCardinality DEF R!SetToSeq
<1>5. R!IsInjective(f)
  BY <1>2 DEF R!IsInjective
<1>6. R!SetToSeq(Ids) \in [1 .. n -> Ids]
  BY <1>2, <1>4, <1>5
<1> HIDE DEF n
<1>7. R!SetToSeq(Ids) \in Seq(Ids) /\ Len(R!SetToSeq(Ids)) = n
  BY <1>1, <1>6
<1> QED
  BY <1>3, <1>7

LEMMA RequestKeeps ==
  ASSUME ResearchInv, NEW c \in Clients, R!Lookup(c) \/ R!RefreshCycle(c)
  PROVE  ResearchInv' /\ R!LegalStep
<1>1. CASE R!Lookup(c)
  <2>1. PICK k \in Ids : R!Begin(c, <<k>>, FALSE, 1)
    BY <1>1 DEF R!Lookup
  <2>2. <<k>> \in Seq(Ids) \ {<<>>} /\ 1 \in Nat \ {0}
    OBVIOUS
  <2>3. UNCHANGED <<db, mem>>
    BY <2>1 DEF R!Begin
  <2> QED
    BY <2>1, <2>2, <2>3, BeginKeeps
<1>2. CASE R!RefreshCycle(c)
  <2> DEFINE allowance == R!DailyAllowance(db.left)
  <2>1. R!Begin(c, R!SetToSeq(Ids), TRUE, allowance) /\ allowance > 0
    BY <1>2 DEF R!RefreshCycle
  <2>2. allowance \in Nat \ {0}
    BY <2>1 DEF R!DailyAllowance
  <2>3. UNCHANGED <<db, mem>>
    BY <2>1 DEF R!Begin
  <2> QED
    BY <2>1, <2>2, <2>3, BeginKeeps, IdsAsSequence
<1> QED
  BY <1>1, <1>2

\* A step that leaves the limiter and its lock alone: a unit is moved, or none.
LEMMA UnitKeeps ==
  ASSUME ResearchInv, NEW c \in Clients, req[c].op # "idle", req[c].op # "wait",
         NEW new \in Lookup \cup {R!Idle}, new.op # "wait", req' = [req EXCEPT ![c] = new],
         mem' \in R!Limiter(Ids), mem'.lock = mem.lock, mem'.since = mem.since,
         db' \in Account, db'.spent >= db.spent, db'.lost = db.lost,
         UnitsOf(db') + Charge(new) = UnitsOf(db) + Charge(req[c]),
         req[c].op = "sent" /\ new.op = "acquire" => new.attempt = req[c].attempt + 1 /\ new.todo = req[c].todo
  PROVE  ResearchInv' /\ R!LegalStep
<1>1. mem.lock # c
  BY AtStep
<1>2. ResearchInv'
  BY <1>1, ResearchMoved
<1>3. ResearchTyped
  BY DEF ResearchInv
<1> QED
  BY <1>2, <1>3, ResearchLegal

LEMMA CachedKeeps ==
  ASSUME ResearchInv, NEW c \in Clients, R!Cached(c)
  PROVE  ResearchInv' /\ R!LegalStep
<1> DEFINE new == R!Refreshed(c, TRUE)
<1>1. req[c].op = "look" /\ req' = [req EXCEPT ![c] = new] /\ mem' = mem /\ db' = db
  BY DEF R!Cached, R!To
<1>2. req[c] \in Lookup /\ mem \in R!Limiter(Ids) /\ db \in Account
  BY <1>1, AtStep
<1>3. new \in Lookup \cup {R!Idle} /\ new.op \in {"look", "idle"}
  BY <1>2, RefreshedTyped
<1> HIDE DEF new
<1>4. Charge(new) = 0 /\ Charge(req[c]) = 0
  BY <1>1, <1>3 DEF Charge, R!Holding
<1>5. db.spent >= db.spent
  BY <1>2 DEF Account
<1> QED
  BY <1>1, <1>2, <1>3, <1>4, <1>5, UnitKeeps

LEMMA TryAcquireKeeps ==
  ASSUME ResearchInv, NEW c \in Clients, R!TryAcquire(c)
  PROVE  ResearchInv' /\ R!LegalStep
<1> DEFINE new == IF db.left = 0 THEN R!Idle ELSE R!Go(c, "acquire")
<1>1. /\ req[c].op = "look" /\ req' = [req EXCEPT ![c] = new] /\ mem' = mem
      /\ db' = IF db.left = 0 THEN db ELSE [db EXCEPT !.left = @ - 1]
  BY DEF R!TryAcquire
<1>2. req[c] \in Lookup /\ mem \in R!Limiter(Ids) /\ db \in Account
  BY <1>1, AtStep
<1>3. R!Go(c, "acquire") \in Lookup /\ R!Go(c, "acquire").op = "acquire"
  BY <1>2 DEF R!Go, Lookup, R!Steps
<1>4. Charge(req[c]) = 0 /\ Charge(R!Idle) = 0 /\ Charge(R!Go(c, "acquire")) = 1 /\ R!Idle.op = "idle"
  BY <1>1, <1>3 DEF Charge, R!Holding, R!Idle
<1>5. new \in Lookup \cup {R!Idle} /\ new.op \in {"idle", "acquire"} /\ Charge(new) = IF db.left = 0 THEN 0 ELSE 1
  BY <1>3, <1>4
<1> HIDE DEF new
<1>6. db' \in Account /\ db'.spent >= db.spent /\ db'.lost = db.lost /\ UnitsOf(db') = UnitsOf(db) - (IF db.left = 0 THEN 0 ELSE 1)
  BY <1>1, <1>2 DEF Account, UnitsOf
<1>7. UnitsOf(db) \in Nat
  BY <1>2 DEF Account, UnitsOf
<1>8. UnitsOf(db') + Charge(new) = UnitsOf(db) + Charge(req[c])
  BY <1>4, <1>5, <1>6, <1>7
<1> QED
  BY <1>1, <1>2, <1>5, <1>6, <1>8, UnitKeeps

LEMMA AnsweredKeeps ==
  ASSUME ResearchInv, NEW c \in Clients, R!Answered(c)
  PROVE  ResearchInv' /\ R!LegalStep
<1> DEFINE new == R!Refreshed(c, TRUE)
<1>1. /\ req[c].op = "sent" /\ req' = [req EXCEPT ![c] = new] /\ db' = [db EXCEPT !.spent = @ + 1]
      /\ mem' = [mem EXCEPT !.cache = @ \cup {Head(req[c].todo)}]
  BY DEF R!Answered
<1>2. req[c] \in Lookup /\ mem \in R!Limiter(Ids) /\ db \in Account
  BY <1>1, AtStep
<1>3. new \in Lookup \cup {R!Idle} /\ new.op \in {"look", "idle"}
  BY <1>2, RefreshedTyped
<1> HIDE DEF new
<1>4. Charge(new) = 0 /\ Charge(req[c]) = 1
  BY <1>1, <1>3 DEF Charge, R!Holding
<1>5. db' \in Account /\ db'.spent >= db.spent /\ db'.lost = db.lost /\ UnitsOf(db') = UnitsOf(db) + 1
  BY <1>1, <1>2 DEF Account, UnitsOf
<1>6. mem' \in R!Limiter(Ids) /\ mem'.lock = mem.lock /\ mem'.since = mem.since
  <2>1. Head(req[c].todo) \in Ids
    BY <1>2, LookupFields
  <2> QED
    BY <1>1, <1>2, <2>1 DEF R!Limiter
<1>7. UnitsOf(db') + Charge(new) = UnitsOf(db) + Charge(req[c])
  <2>1. UnitsOf(db) \in Nat
    BY <1>2 DEF Account, UnitsOf
  <2> QED
    BY <1>4, <1>5, <2>1
<1> QED
  BY <1>1, <1>3, <1>5, <1>6, <1>7, UnitKeeps

LEMMA ReleasedKeeps ==
  ASSUME ResearchInv, NEW c \in Clients, R!Released(c)
  PROVE  ResearchInv' /\ R!LegalStep
<1> DEFINE new == R!Refreshed(c, FALSE)
<1>1. req[c].op = "failed" /\ req' = [req EXCEPT ![c] = new] /\ db' = [db EXCEPT !.left = @ + 1] /\ mem' = mem
  BY DEF R!Released
<1>2. req[c] \in Lookup /\ mem \in R!Limiter(Ids) /\ db \in Account
  BY <1>1, AtStep
<1>3. new \in Lookup \cup {R!Idle} /\ new.op \in {"look", "idle"}
  BY <1>2, RefreshedTyped
<1> HIDE DEF new
<1>4. Charge(new) = 0 /\ Charge(req[c]) = 1
  BY <1>1, <1>3 DEF Charge, R!Holding
<1>5. db' \in Account /\ db'.spent >= db.spent /\ db'.lost = db.lost /\ UnitsOf(db') = UnitsOf(db) + 1
  BY <1>1, <1>2 DEF Account, UnitsOf
<1>6. UnitsOf(db') + Charge(new) = UnitsOf(db) + Charge(req[c])
  <2>1. UnitsOf(db) \in Nat
    BY <1>2 DEF Account, UnitsOf
  <2> QED
    BY <1>4, <1>5, <2>1
<1> QED
  BY <1>1, <1>2, <1>3, <1>5, <1>6, UnitKeeps

LEMMA RefusedKeeps ==
  ASSUME ResearchInv, NEW c \in Clients, NEW status \in {401, 429, 500}, R!Refused(c, status)
  PROVE  ResearchInv' /\ R!LegalStep
<1> DEFINE delay == IF status = 429 THEN R!RetryAfter ELSE R!RetryDelay(req[c].attempt)
           again == [R!Go(c, "acquire") EXCEPT !.attempt = @ + 1, !.wait = delay]
           slept == [R!Go(c, "failed") EXCEPT !.wait = R!RetryAfter]
           over == R!Go(c, "failed")
<1>1. req[c].op = "sent" /\ mem' = mem /\ db' = db
  BY DEF R!Refused, R!To
<1> DEFINE left == req[c].attempt < R!MaxRetries
           new == CASE status \in {429, 500} /\ left -> again [] status = 429 /\ ~left -> slept [] OTHER -> over
<1>2. req' = [req EXCEPT ![c] = new]
  BY DEF R!Refused, R!To
<1>3. req[c] \in Lookup /\ mem \in R!Limiter(Ids) /\ db \in Account
  BY <1>1, AtStep
<1>4. over \in Lookup /\ over.op = "failed" /\ R!Go(c, "acquire") \in Lookup /\ R!Go(c, "acquire").op = "acquire"
      /\ R!Go(c, "acquire").attempt = req[c].attempt /\ R!Go(c, "acquire").todo = req[c].todo
  BY <1>3 DEF R!Go, Lookup, R!Steps
<1>5. slept \in Lookup /\ slept.op = "failed"
  BY <1>4 DEF Lookup, R!RetryAfter
<1>6. ASSUME req[c].attempt < R!MaxRetries
      PROVE  again \in Lookup /\ again.op = "acquire" /\ again.attempt = req[c].attempt + 1 /\ again.todo = req[c].todo
  <2>1. req[c].attempt \in 0 .. R!MaxRetries
    BY <1>3, LookupFields
  <2>2. delay \in 0 .. R!RetryAfter
    <3>1. req[c].attempt + 1 = 1 \/ req[c].attempt + 1 = 2
      BY <1>6, <2>1 DEF R!MaxRetries
    <3>2. R!RetryDelay(req[c].attempt) \in {1, 2}
      BY <3>1 DEF R!RetryDelay, R!Least, R!RetryMaxDelay
    <3> QED
      BY <3>2 DEF R!RetryAfter
  <2>3. req[c].attempt + 1 \in 0 .. R!MaxRetries
    BY <1>6, <2>1 DEF R!MaxRetries
  <2> HIDE DEF delay
  <2> QED
    BY <1>4, <2>2, <2>3 DEF Lookup
<1>7. /\ new \in Lookup /\ new.op \in {"failed", "acquire"}
      /\ new.op = "acquire" => new.attempt = req[c].attempt + 1 /\ new.todo = req[c].todo
  <2> HIDE DEF again, slept, over
  <2>1. CASE status \in {429, 500} /\ left
    <3>1. new = again
      BY <2>1
    <3> QED
      BY <1>6, <2>1, <3>1
  <2>2. CASE ~ (status \in {429, 500} /\ left)
    <3>1. new \in {slept, over}
      BY <2>2
    <3> QED
      BY <1>4, <1>5, <3>1
  <2> QED
    BY <2>1, <2>2
<1> HIDE DEF new
<1>8. Charge(new) = 1 /\ Charge(req[c]) = 1
  BY <1>1, <1>7 DEF Charge, R!Holding
<1>9. db.spent >= db.spent
  BY <1>3 DEF Account
<1>10. UnitsOf(db') + Charge(new) = UnitsOf(db) + Charge(req[c]) /\ db'.spent >= db.spent /\ db'.lost = db.lost
  BY <1>1, <1>8, <1>9
<1>11. new \in Lookup \cup {R!Idle} /\ new.op # "wait" /\ req[c].op # "idle" /\ req[c].op # "wait"
  BY <1>1, <1>7
<1> QED
  BY <1>1, <1>2, <1>3, <1>7, <1>10, <1>11, UnitKeeps

LEMMA AcquireKeeps ==
  ASSUME ResearchInv, NEW c \in Clients, R!Acquire(c)
  PROVE  ResearchInv' /\ R!LegalStep
<1> DEFINE going == R!Go(c, "wait")
           new == [going EXCEPT !.wait = R!MinInterval - mem.since]
<1>1. /\ req[c].op = "acquire" /\ mem.lock = R!Nobody /\ req' = [req EXCEPT ![c] = new]
      /\ mem' = [mem EXCEPT !.lock = c] /\ db' = db
  BY DEF R!Acquire, R!To
<1>2. req[c] \in Lookup /\ mem \in R!Limiter(Ids) /\ db \in Account
  BY <1>1, AtStep
<1>3. mem.since \in 0 .. R!MinInterval /\ R!MinInterval - mem.since \in 0 .. R!RetryAfter
  BY <1>2 DEF R!Limiter, R!MinInterval, R!RetryAfter
<1>4. going \in Lookup /\ going.op = "wait"
  BY <1>2 DEF R!Go, Lookup, R!Steps
<1> HIDE DEF going
<1>5. new \in Lookup /\ new.op = "wait" /\ new.wait = R!MinInterval - mem.since
  BY <1>3, <1>4 DEF Lookup
<1> HIDE DEF new
<1>6. mem' \in R!Limiter(Ids) /\ mem'.lock = c /\ mem'.since = mem.since
  BY <1>1, <1>2 DEF R!Limiter
<1>7. \A d \in Clients \ {c} : mem'.lock = d <=> mem.lock = d
  BY <1>1, <1>6, NamesAssumption DEF R!Nobody, Nobody
<1>8. mem'.since + new.wait >= R!MinInterval
  BY <1>3, <1>5, <1>6 DEF R!MinInterval
<1>9. Charge(new) = 1 /\ Charge(req[c]) = 1 /\ db.spent >= db.spent
  BY <1>1, <1>2, <1>5 DEF Charge, R!Holding, Account
<1>10. UnitsOf(db') + Charge(new) = UnitsOf(db) + Charge(req[c]) /\ db' \in Account
  BY <1>1, <1>2, <1>9
<1>11. ResearchInv'
  BY <1>1, <1>5, <1>6, <1>7, <1>8, <1>10, ResearchMoved
<1>12. ResearchTyped
  BY DEF ResearchInv
<1> QED
  BY <1>1, <1>5, <1>6, <1>9, <1>11, <1>12, ResearchLegal

LEMMA SendKeeps ==
  ASSUME ResearchInv, NEW c \in Clients, R!Send(c)
  PROVE  ResearchInv' /\ R!LegalStep
<1> DEFINE new == R!Go(c, "sent")
<1>1. /\ req[c].op = "wait" /\ req[c].wait = 0 /\ req' = [req EXCEPT ![c] = new]
      /\ mem' = [mem EXCEPT !.since = 0, !.lock = R!Nobody] /\ db' = db
  BY DEF R!Send, R!To
<1>2. req[c] \in Lookup /\ mem \in R!Limiter(Ids) /\ db \in Account /\ mem.lock = c /\ mem.since + 0 >= R!MinInterval
  BY <1>1, AtStep
<1>3. mem.since = R!MinInterval
  BY <1>2 DEF R!Limiter, R!MinInterval
<1>4. new \in Lookup /\ new.op = "sent"
  BY <1>2 DEF R!Go, Lookup, R!Steps
<1> HIDE DEF new
<1>5. mem' \in R!Limiter(Ids) /\ mem'.lock = R!Nobody /\ mem'.since = 0
  <2>1. mem' = [since |-> 0, lock |-> R!Nobody, cache |-> mem.cache, running |-> mem.running]
    BY <1>1, <1>2 DEF R!Limiter
  <2>2. mem.cache \subseteq Ids /\ mem.running \in BOOLEAN /\ 0 \in 0 .. R!MinInterval
    BY <1>2 DEF R!Limiter, R!MinInterval
  <2> QED
    BY <2>1, <2>2 DEF R!Limiter
<1>6. mem'.lock \notin Clients
  BY <1>5, NamesAssumption DEF R!Nobody, Nobody
<1>7. Charge(new) = 1 /\ Charge(req[c]) = 1 /\ db.spent >= db.spent
  BY <1>1, <1>2, <1>4 DEF Charge, R!Holding, Account
<1>8. UnitsOf(db') + Charge(new) = UnitsOf(db) + Charge(req[c]) /\ db' \in Account
  BY <1>1, <1>2, <1>7
<1>9. ResearchInv'
  BY <1>1, <1>2, <1>4, <1>5, <1>6, <1>8, ResearchMoved
<1>10. ResearchTyped
  BY DEF ResearchInv
<1> QED
  BY <1>1, <1>3, <1>4, <1>5, <1>7, <1>9, <1>10, ResearchLegal

\* A sleeper's rest and the time since the last request change by one, together.
LEMMA TickKeeps ==
  ASSUME ResearchInv, R!Tick
  PROVE  ResearchInv' /\ R!LegalStep
<1> DEFINE rest(c) == R!Greatest(0, req[c].wait - 1)
           slept(c) == [req[c] EXCEPT !.wait = rest(c)]
<1>1. /\ mem' = [mem EXCEPT !.since = R!Least(mem.since + 1, R!MinInterval)] /\ db' = db
      /\ req' = [c \in Clients |-> IF req[c].op = "idle" THEN R!Idle ELSE slept(c)]
  BY DEF R!Tick
<1>2. mem \in R!Limiter(Ids) /\ db \in Account /\ ResearchTyped /\ R!Idle.op = "idle"
  BY DEF ResearchInv, ResearchTyped, R!Idle
<1>3. ASSUME NEW c \in Clients, req[c].op # "idle"
      PROVE  /\ req'[c] \in Lookup /\ req'[c].op = req[c].op /\ req'[c].wait \in Nat /\ req'[c].wait >= req[c].wait - 1
             /\ req[c].wait \in Nat
  <2>1. req[c] \in Lookup /\ req[c].wait \in 0 .. R!RetryAfter
    BY <1>3, AtStep, LookupFields
  <2>2. rest(c) \in 0 .. R!RetryAfter /\ rest(c) >= req[c].wait - 1
    BY <2>1 DEF R!Greatest, R!RetryAfter
  <2> HIDE DEF rest
  <2>3. slept(c) \in Lookup /\ slept(c).op = req[c].op /\ slept(c).wait = rest(c)
    BY <2>1, <2>2 DEF Lookup
  <2>4. req'[c] = slept(c)
    BY <1>1, <1>3
  <2> QED
    BY <2>1, <2>2, <2>3, <2>4 DEF R!RetryAfter
<1>4. ASSUME NEW c \in Clients, req[c].op = "idle" PROVE req'[c] = R!Idle
  BY <1>1, <1>4
<1>5. \A c \in Clients : req'[c].op = req[c].op /\ req'[c] \in Lookup \cup {R!Idle}
  BY <1>2, <1>3, <1>4
<1>6. /\ mem' \in R!Limiter(Ids) /\ mem'.lock = mem.lock /\ mem.since \in Nat /\ mem'.since \in Nat
      /\ mem'.since >= mem.since /\ (mem'.since = R!MinInterval \/ mem'.since = mem.since + 1)
  BY <1>1, <1>2 DEF R!Limiter, R!Least, R!MinInterval
<1>7. ResearchTyped'
  <2>1. req' = [c \in Clients |-> req'[c]]
    BY <1>1
  <2>2. Clients' = Clients /\ Ids' = Ids
    OBVIOUS
  <2>3. (mem \in R!Limiter(Ids))'
    BY <1>6 DEF R!Limiter
  <2> QED
    BY <1>1, <1>2, <1>5, <2>1, <2>3 DEF ResearchTyped, R!Idle
<1>8. R!LimiterSound'
  <2>1. ASSUME NEW c \in Clients, req[c].op = "wait" PROVE mem'.since + req'[c].wait >= R!MinInterval
    <3>1. mem.since + req[c].wait >= R!MinInterval /\ R!MinInterval \in Nat
      BY <2>1 DEF ResearchInv, R!LimiterSound, R!MinInterval
    <3>2. req'[c].wait \in Nat /\ req'[c].wait >= req[c].wait - 1 /\ req[c].wait \in Nat
      BY <1>3, <2>1
    <3> QED
      BY <1>6, <3>1, <3>2
  <2>2. \A c \in Clients : req[c].op = "wait" <=> mem'.lock = c
    BY <1>6 DEF ResearchInv, R!LimiterSound
  <2> QED
    BY <1>5, <2>1, <2>2 DEF R!LimiterSound
<1>9. Holders' = Holders
  BY <1>5 DEF Holders
<1>10. ~ (mem'.since < mem.since) /\ db.spent >= db.spent /\ db.lost >= db.lost /\ ~ (db.lost > db.lost)
  BY <1>2, <1>6 DEF Account
<1>11. R!LegalStep
  BY <1>1, <1>5, <1>10 DEF R!LegalStep, R!Paced
<1> QED
  BY <1>1, <1>7, <1>8, <1>9, <1>11 DEF ResearchInv

\* A stop takes every lookup of the job out at once, with the units they hold.
LEMMA StopKeeps ==
  ASSUME ResearchInv, R!StopRefresh
  PROVE  ResearchInv' /\ R!LegalStep
<1> DEFINE Stopped == R!Refreshing
           cost == R!Cardinality({c \in Stopped : req[c].op \in R!Holding})
<1>1. /\ mem.running /\ mem' = [mem EXCEPT !.running = FALSE, !.lock = IF @ \in Stopped THEN R!Nobody ELSE @]
      /\ req' = [c \in Clients |-> IF c \in Stopped THEN R!Idle ELSE req[c]]
      /\ db' = [db EXCEPT !.lost = @ + cost]
  BY DEF R!StopRefresh, R!CancelJob
<1>2. mem \in R!Limiter(Ids) /\ db \in Account /\ ResearchTyped /\ R!LimiterSound /\ R!Idle.op = "idle"
  BY DEF ResearchInv, ResearchTyped, R!Idle
<1>3. \A c \in Clients : req'[c] = IF c \in Stopped THEN R!Idle ELSE req[c]
  BY <1>1
<1>4. Stopped \subseteq Clients
  BY DEF R!Refreshing
<1>5. /\ mem'.lock = (IF mem.lock \in Stopped THEN R!Nobody ELSE mem.lock) /\ mem'.since = mem.since /\ mem'.running = FALSE
      /\ mem' \in R!Limiter(Ids)
  <2> DEFINE lock == IF mem.lock \in Stopped THEN R!Nobody ELSE mem.lock
  <2>1. mem' = [since |-> mem.since, lock |-> lock, cache |-> mem.cache, running |-> FALSE]
    BY <1>1, <1>2 DEF R!Limiter
  <2>2. lock \in Clients \cup {R!Nobody} /\ mem.cache \subseteq Ids /\ mem.since \in 0 .. R!MinInterval
    BY <1>2 DEF R!Limiter
  <2> HIDE DEF lock
  <2>3. mem'.lock = lock
    BY <2>1
  <2> QED
    BY <2>1, <2>2, <2>3 DEF R!Limiter, lock
<1> HIDE DEF Stopped
<1>6. R!Nobody \notin Clients
  BY NamesAssumption DEF R!Nobody, Nobody
<1>7. ResearchTyped'
  <2>1. req' = [c \in Clients |-> req'[c]] /\ \A c \in Clients : req'[c] \in Lookup \cup {R!Idle}
    BY <1>1, <1>2, <1>3 DEF ResearchTyped
  <2>2. (mem \in R!Limiter(Ids))'
    BY <1>5 DEF R!Limiter
  <2>3. db' \in Account
    <3>1. cost \in Nat
      <4>1. {c \in Stopped : req[c].op \in R!Holding} \subseteq Clients
        BY <1>4
      <4> QED
        BY <4>1, SessionsAssumption, RCardinality, FS_Subset, FS_CardinalityType
    <3> HIDE DEF cost
    <3> QED
      BY <1>1, <1>2, <3>1 DEF Account
  <2> QED
    BY <2>1, <2>2, <2>3 DEF ResearchTyped, R!Idle
<1>8. R!LimiterSound'
  BY <1>2, <1>3, <1>4, <1>5, <1>6 DEF R!LimiterSound
<1>9. /\ cost \in Nat /\ Cardinality(Holders) \in Nat /\ Cardinality(Holders') = Cardinality(Holders) - cost
  <2>1. Holders' = Holders \ Stopped
    BY <1>2, <1>3 DEF Holders, R!Holding
  <2>2. {c \in Stopped : req[c].op \in R!Holding} = Holders \cap Stopped
    BY <1>4 DEF Holders
  <2>3. IsFiniteSet(Holders) /\ Cardinality(Holders) \in Nat /\ IsFiniteSet(Holders \cap Stopped)
    BY HoldersFinite, FS_Subset
  <2>4. Cardinality(Holders \cap Stopped) \in Nat
    BY <2>3, FS_CardinalityType
  <2>5. Cardinality(Holders \ Stopped) = Cardinality(Holders) - Cardinality(Holders \cap Stopped)
    BY <2>3, FS_Difference
  <2> QED
    BY <2>1, <2>2, <2>3, <2>4, <2>5, RCardinality
<1> HIDE DEF cost
<1>10. UnitsOf(db') = UnitsOf(db) + cost /\ UnitsOf(db) \in Nat /\ db'.spent = db.spent /\ db'.lost >= db.lost /\ db.spent >= db.spent
  BY <1>1, <1>2, <1>9 DEF Account, UnitsOf
<1>11. UnitsOf(db') + Cardinality(Holders') = R!MonthlyBudget
  BY <1>9, <1>10 DEF ResearchInv
<1>12. R!LegalStep
  <2>1. \A c \in Clients : ~ (req[c].op = "sent" /\ req'[c].op = "acquire")
    BY <1>2, <1>3
  <2>2. ~ (mem'.since < mem.since)
    BY <1>2, <1>5 DEF R!Limiter
  <2> QED
    BY <1>1, <1>5, <1>10, <2>1, <2>2 DEF R!LegalStep, R!Paced
<1>13. (UnitsOf(db) + Cardinality(Holders) = R!MonthlyBudget)'
  BY <1>11 DEF UnitsOf, R!MonthlyBudget
<1> QED
  BY <1>7, <1>8, <1>12, <1>13 DEF ResearchInv

\* The job starts, or the cache forgets.
LEMMA AsideKeeps ==
  ASSUME ResearchInv, R!StartJob \/ R!CacheExpires
  PROVE  ResearchInv' /\ R!LegalStep
<1>1. ResearchTyped /\ mem \in R!Limiter(Ids) /\ db \in Account /\ R!LimiterSound
  BY DEF ResearchInv, ResearchTyped
<1>2. db' = db /\ req' = req
  BY DEF R!StartJob, R!CacheExpires
<1>3. mem' \in R!Limiter(Ids) /\ mem'.since = mem.since /\ mem'.lock = mem.lock
  <2>1. CASE R!StartJob
    BY <1>1, <2>1 DEF R!StartJob, R!Limiter
  <2>2. CASE R!CacheExpires
    BY <1>1, <2>2 DEF R!CacheExpires, R!Limiter
  <2> QED
    BY <2>1, <2>2
<1>4. ResearchTyped'
  BY <1>1, <1>2, <1>3 DEF ResearchTyped, R!Limiter, R!Idle
<1>5. R!LimiterSound' /\ Holders' = Holders
  BY <1>1, <1>2, <1>3 DEF R!LimiterSound, Holders
<1>6. ~ (mem'.since < mem.since) /\ db.spent >= db.spent /\ db.lost >= db.lost /\ ~ (db.lost > db.lost)
  BY <1>1, <1>3 DEF R!Limiter, Account
<1>7. R!LegalStep
  BY <1>2, <1>6 DEF R!LegalStep, R!Paced
<1> QED
  BY <1>2, <1>4, <1>5, <1>7 DEF ResearchInv

LEMMA ResearchStep ==
  ASSUME ResearchInv, [R!Next]_R!sessionVars
  PROVE  ResearchInv' /\ (R!LegalStep \/ UNCHANGED R!sessionVars)
<1>1. CASE R!Next
  BY <1>1, RequestKeeps, CachedKeeps, TryAcquireKeeps, AcquireKeeps, SendKeeps, AnsweredKeeps, ReleasedKeeps, RefusedKeeps,
     TickKeeps, StopKeeps, AsideKeeps DEF R!Next
<1>2. CASE UNCHANGED R!sessionVars
  <2>1. db' = db /\ mem' = mem /\ req' = req
    BY <1>2 DEF R!sessionVars
  <2>2. Holders' = Holders
    BY <2>1 DEF Holders
  <2> QED
    BY <1>2, <2>1, <2>2 DEF ResearchInv, ResearchTyped, R!LimiterSound, R!Limiter, R!Idle
<1> QED
  BY <1>1, <1>2

LEMMA ResearchInit == R!Init => ResearchInv
<1> SUFFICES ASSUME R!Init PROVE ResearchInv
  OBVIOUS
<1>1. /\ db = [left |-> R!MonthlyBudget, spent |-> 0, lost |-> 0] /\ mem = R!Ready
      /\ req = [c \in Clients |-> R!Idle] /\ R!Idle.op = "idle"
  BY DEF R!Init, R!NoRequests, R!Idle
<1>2. ResearchTyped
  BY <1>1 DEF ResearchTyped, R!Limiter, R!Ready, R!MinInterval, Account, R!MonthlyBudget
<1>3. R!LimiterSound
  BY <1>1, NamesAssumption DEF R!LimiterSound, R!Ready, R!Nobody, Nobody
<1>4. Holders = {}
  BY <1>1 DEF Holders, R!Holding
<1>5. UnitsOf(db) + Cardinality(Holders) = R!MonthlyBudget
  BY <1>1, <1>4, FS_EmptySet DEF UnitsOf, R!MonthlyBudget
<1> QED
  BY <1>2, <1>3, <1>5 DEF ResearchInv

\* Every unit of the month's budget is left, held by a lookup on its way, spent on an answer
\* or lost to a stopped job, and who holds the limiter's lock waits out the interval: for any
\* number of clients, whatever fails, is retried, expires or is cancelled
\* (app/integrations/retailers: client.py, service.py, scheduler.py).
THEOREM ResearchIntegrity == R!Spec => [](R!TypeOK /\ R!Integrity)
<1>1. R!Init => ResearchInv
  BY ResearchInit
<1>2. ResearchInv /\ [R!Next]_R!sessionVars => ResearchInv'
  BY ResearchStep
<1>3. ResearchInv => R!TypeOK /\ R!Integrity
  <2> SUFFICES ASSUME ResearchInv PROVE R!TypeOK /\ R!Integrity
    OBVIOUS
  <2>1. R!RequestsTyped
    <3> SUFFICES ASSUME NEW c \in Clients
                 PROVE  req[c].op \in R!Steps /\ (req[c].op # "idle" => req[c].attempt \in 0 .. R!MaxRetries /\ req[c].wait \in 0 .. R!RetryAfter)
      BY DEF R!RequestsTyped
    <3>1. CASE req[c].op = "idle"
      BY <3>1 DEF R!Steps
    <3>2. CASE req[c].op # "idle"
      BY <3>2, AtStep, LookupFields
    <3> QED
      BY <3>1, <3>2
  <2>2. db \in Account /\ UnitsOf(db) + Cardinality(Holders) = 2 /\ Cardinality(Holders) \in Nat
    BY HoldersFinite DEF ResearchInv, ResearchTyped, R!MonthlyBudget
  <2>3. db \in [left : 0 .. R!MonthlyBudget, spent : 0 .. R!MonthlyBudget, lost : 0 .. R!MonthlyBudget]
    BY <2>2 DEF Account, UnitsOf, R!MonthlyBudget
  <2>4. R!TypeOK
    BY <2>1, <2>3 DEF R!TypeOK, ResearchInv, ResearchTyped
  <2>5. R!Cardinality({c \in Clients : req[c].op \in R!Holding}) = Cardinality(Holders)
    BY RCardinality DEF Holders
  <2> QED
    BY <2>2, <2>4, <2>5 DEF R!Integrity, ResearchInv, UnitsOf, R!MonthlyBudget
<1> QED
  BY <1>1, <1>2, <1>3, PTL DEF R!Spec

\* Two requests leave at least the limiter's interval apart and one product is asked for
\* no more often than the retries allow; what was spent or lost stays so, and a unit is lost
\* only by the stop of the running job (RetailerRateLimiter.acquire, RetailerRefreshJob.stop).
THEOREM ResearchLegalSteps == R!Spec => [][R!LegalStep]_R!sessionVars
<1>1. R!Init => ResearchInv
  BY ResearchInit
<1>2. ResearchInv /\ [R!Next]_R!sessionVars => ResearchInv'
  BY ResearchStep
<1>3. ResearchInv /\ [R!Next]_R!sessionVars => [R!LegalStep]_R!sessionVars
  BY ResearchStep
<1> QED
  BY <1>1, <1>2, <1>3, PTL DEF R!Spec
=============================================================================
