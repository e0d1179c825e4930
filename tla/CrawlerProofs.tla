--------------------------- MODULE CrawlerProofs ---------------------------
(***************************************************************************)
(* The page pool keeps its bound and loses no notification, for every      *)
(* number of fetches, pages and retries and every size.                    *)
(*                                                                         *)
(* Neither property is inductive alone.  A page is added two awaits after  *)
(* the room for it was seen; what holds meanwhile is that only the holder  *)
(* of the lock is past that check, and that the room it saw is still there *)
(* (LockHeld, Room).  The two properties need each other as well: a        *)
(* checkout that waits knows the pool is full because it is at most full.  *)
(***************************************************************************)
EXTENDS Crawler, FiniteSetTheorems, SequenceTheorems, TLAPS

Holding == {"recycle", "recycling", "create"}

(* The names of the awaits are distinct strings.                           *)
LEMMA PlaceNames ==
  /\ Holding \subseteq Places
  /\ {"idle", "polite", "wait", "lock", "relock", "page", "close"} \subseteq Places
  BY DEF Holding, Places

-----------------------------------------------------------------------------
(* Type correctness.                                                       *)

(* What a fetch goes on with is a place, and its locals keep their types.  *)
LEMMA GotoTyped ==
  ASSUME TypeOK, NEW f \in Fetches, NEW s \in Places, Goto(f, s) \/ NotifyAll(f, s)
  PROVE  /\ at' \in [Fetches -> Places]
         /\ kind' \in [Fetches -> Kinds]
         /\ tries' \in [Fetches -> 0 .. MaxRetries]
<1>1. at' \in [Fetches -> Places]
  BY PlaceNames DEF TypeOK, Goto, NotifyAll
<1>2. Ended(f, s)
  BY DEF Goto, NotifyAll
<1>3. kind' \in [Fetches -> Kinds]
  BY <1>2 DEF TypeOK, Ended, Kinds
<1>4. tries' \in [Fetches -> 0 .. MaxRetries]
  BY <1>2, CrawlerAssumption DEF TypeOK, Ended
<1> QED
  BY <1>1, <1>3, <1>4

LEMMA RetryTyped ==
  ASSUME TypeOK, NEW f \in Fetches, Retry(f)
  PROVE  /\ at' \in [Fetches -> Places]
         /\ kind' \in [Fetches -> Kinds]
         /\ tries' \in [Fetches -> 0 .. MaxRetries]
<1>1. CASE Goto(f, "idle")
  BY <1>1, GotoTyped, PlaceNames
<1>2. CASE /\ tries[f] < MaxRetries
           /\ at' = [at EXCEPT ![f] = "polite"]
           /\ tries' = [tries EXCEPT ![f] = @ + 1]
           /\ UNCHANGED kind
  <2>1. tries[f] + 1 \in 0 .. MaxRetries
    BY <1>2, CrawlerAssumption DEF TypeOK
  <2> QED
    BY <1>2, <2>1, PlaceNames DEF TypeOK
<1>3. tries[f] \in Int /\ MaxRetries \in Int
  BY CrawlerAssumption DEF TypeOK
<1> QED
  BY <1>1, <1>2, <1>3 DEF Retry

(* A step of a fetch, or of the rest of the program, keeps the types.      *)
LEMMA TypeStep == TypeOK /\ [Next]_vars => TypeOK'
<1> SUFFICES ASSUME TypeOK, [Next]_vars PROVE TypeOK'
  OBVIOUS
<1> USE DEF browserVars, poolVars, fetchVars
<1>1. ASSUME NEW f \in Fetches, Step(f) PROVE TypeOK'
  <2>1. CASE StartPlaywright(f)
    <3>1. \E s \in Places : Goto(f, s)
      BY <2>1 DEF StartPlaywright, Places
    <3> QED
      BY <2>1, <3>1, GotoTyped DEF StartPlaywright, TypeOK
  <2>2. CASE StartChromium(f)
    <3>1. \E s \in Places : Goto(f, s)
      BY <2>2 DEF StartChromium, Places
    <3>2. launched' \in BOOLEAN /\ alive' \in BOOLEAN
      BY <2>2 DEF StartChromium, TypeOK
    <3> QED
      BY <2>2, <3>1, <3>2, GotoTyped DEF StartChromium, TypeOK
  <2>3. CASE Polite(f)
    <3>1. \E s \in Places : Goto(f, s)
      BY <2>3 DEF Polite, Places
    <3> QED
      BY <2>3, <3>1, GotoTyped DEF Polite, TypeOK
  <2>4. CASE Lock(f)
    BY <2>4, GotoTyped, PlaceNames DEF Lock, TypeOK, Holding
  <2>5. CASE RecyclePop(f)
    <3>1. Head(idle) \in Pages /\ Tail(idle) \in Seq(Pages)
      BY <2>5 DEF RecyclePop, TypeOK
    <3> QED
      BY <2>5, <3>1, GotoTyped, PlaceNames DEF RecyclePop, TypeOK, Holding
  <2>6. CASE Recycled(f)
    BY <2>6, GotoTyped, PlaceNames DEF Recycled, TypeOK, Holding
  <2>7. CASE Take(f)
    <3>1. Head(idle) \in Pages /\ Tail(idle) \in Seq(Pages)
      BY <2>7 DEF Take, TypeOK
    <3> QED
      BY <2>7, <3>1, GotoTyped, PlaceNames DEF Take, TypeOK
  <2>8. CASE Create(f)
    BY <2>8, GotoTyped, PlaceNames DEF Create, TypeOK, Holding
  <2>9. CASE Created(f)
    BY <2>9, GotoTyped, PlaceNames DEF Created, TypeOK, Unused
  <2>10. CASE CreateFails(f)
    BY <2>10, GotoTyped, PlaceNames DEF CreateFails, TypeOK
  <2>11. CASE Wait(f)
    <3>1. /\ at' \in [Fetches -> Places]
          /\ kind' \in [Fetches -> Kinds]
          /\ tries' \in [Fetches -> 0 .. MaxRetries]
      BY <2>11, GotoTyped, RetryTyped, PlaceNames DEF Wait
    <3> QED
      BY <2>11, <3>1 DEF Wait, TypeOK
  <2>12. CASE TimeOut(f)
    BY <2>12, RetryTyped DEF TimeOut, TypeOK
  <2>13. CASE OpenContext(f)
    <3>1. \E s \in Places : Goto(f, s)
      BY <2>13 DEF OpenContext, Places
    <3> QED
      BY <2>13, <3>1, GotoTyped DEF OpenContext, TypeOK
  <2>14. CASE Succeed(f)
    <3>1. \E s \in Places : Goto(f, s)
      BY <2>14 DEF Succeed, Places
    <3> QED
      BY <2>14, <3>1, GotoTyped DEF Succeed, TypeOK
  <2>15. CASE NavigationFails(f) \/ ExtractFails(f)
    <3>1. PICK b \in BOOLEAN : Abort(f, b)
      BY <2>15 DEF NavigationFails, ExtractFails
    <3>2. \E s \in Places : Goto(f, s)
      BY <3>1 DEF Abort, Places
    <3> QED
      BY <3>1, <3>2, GotoTyped DEF Abort, TypeOK
  <2>16. CASE Checkin(f)
    <3>1. idle' \in Seq(Pages)
      BY <2>16 DEF Checkin, TypeOK
    <3> QED
      BY <2>16, <3>1, GotoTyped, PlaceNames DEF Checkin, TypeOK
  <2>17. CASE Discard(f)
    BY <2>17, GotoTyped, PlaceNames DEF Discard, TypeOK
  <2>18. CASE Close(f)
    <3>1. /\ at' \in [Fetches -> Places]
          /\ kind' \in [Fetches -> Kinds]
          /\ tries' \in [Fetches -> 0 .. MaxRetries]
      BY <2>18, GotoTyped, RetryTyped, PlaceNames DEF Close
    <3> QED
      BY <2>18, <3>1 DEF Close, TypeOK
  <2> QED
    BY <1>1, <2>1, <2>2, <2>3, <2>4, <2>5, <2>6, <2>7, <2>8, <2>9, <2>10, <2>11, <2>12,
       <2>13, <2>14, <2>15, <2>16, <2>17, <2>18 DEF Step
<1>2. ASSUME NEW f \in Fetches, NEW k \in Kinds, Begin(f, k) PROVE TypeOK'
  BY <1>2 DEF Begin, TypeOK, Places
<1>3. ASSUME NEW f \in Fetches, Cancel(f) PROVE TypeOK'
  BY <1>3, GotoTyped, PlaceNames DEF Cancel, TypeOK
<1>4. ASSUME NEW f \in Fetches, Expire(f) PROVE TypeOK'
  BY <1>4 DEF Expire, TypeOK
<1>5. CASE Age
  BY <1>5 DEF Age, TypeOK
<1>6. CASE Clear
  <2>1. clears' \in 0 .. MaxClears
    BY <1>6, CrawlerAssumption DEF Clear, TypeOK
  <2>2. at' \in [Fetches -> Places]
    BY <1>6, PlaceNames DEF Clear, TypeOK
  <2>3. {idle[i] : i \in 1 .. Len(idle)} \subseteq Pages
    BY DEF TypeOK
  <2>4. idle' \in Seq(Pages)
    BY <1>6 DEF Clear
  <2> QED
    BY <1>6, <2>1, <2>2, <2>3, <2>4 DEF Clear, TypeOK
<1>7. ASSUME NEW p \in Pages, ClosePage(p) PROVE TypeOK'
  BY <1>7 DEF ClosePage, TypeOK
<1>8. CASE UNCHANGED vars
  BY <1>8 DEF vars, TypeOK
<1>9. CASE \E f \in Fetches : (\E k \in Kinds : Begin(f, k)) \/ Step(f) \/ Expire(f) \/ Cancel(f)
  BY <1>9, <1>1, <1>2, <1>3, <1>4
<1> QED
  BY <1>5, <1>6, <1>7, <1>8, <1>9 DEF Next

(* The initial state has the types.                                        *)
LEMMA InitTyped == Init => TypeOK
<1>1. ASSUME Init PROVE TypeOK
  <2>1. 0 \in 0 .. MaxRetries /\ 0 \in 0 .. MaxClears
    BY CrawlerAssumption
  <2>2. idle \in Seq(Pages)
    BY <1>1 DEF Init
  <2>3. /\ at \in [Fetches -> Places]
        /\ kind \in [Fetches -> Kinds]
        /\ tries \in [Fetches -> 0 .. MaxRetries]
        /\ again \in [Fetches -> BOOLEAN]
        /\ mine \in [Fetches -> Pages \cup {NoPage}]
    BY <1>1, <2>1, PlaceNames DEF Init, Kinds
  <2> QED
    BY <1>1, <2>1, <2>2, <2>3 DEF Init, TypeOK
<1> QED
  BY <1>1

(* The fetches, the browser and the pool keep their types.                 *)
THEOREM TypeCorrect == Spec => []TypeOK
  BY InitTyped, TypeStep, PTL DEF Spec
-----------------------------------------------------------------------------
(* The inductive invariant.                                                *)

\* Who is past the first await of checkout holds the lock, and nobody else does.
LockHeld == \A f \in Fetches : at[f] \in Holding <=> lock = f

\* The room a checkout saw before it opens a page is still there.
Room == \A f \in Fetches : at[f] = "create" => idle = <<>> /\ Size < MaxSize

Bounded == Size <= MaxSize

Pool == TypeOK /\ LockHeld /\ Room /\ Bounded /\ NobodyWaitsInVain

(* Size is a number, and so is what it is compared with.                   *)
LEMMA SizeTyped ==
  ASSUME TypeOK
  PROVE  /\ IsFiniteSet(inUse)
         /\ Len(idle) \in Nat /\ Cardinality(inUse) \in Nat /\ Size \in Nat
         /\ MaxSize \in Nat /\ MaxSize > 0
<1>1. IsFiniteSet(inUse)
  BY CrawlerAssumption, FS_Subset DEF TypeOK
<1>2. Cardinality(inUse) \in Nat
  BY <1>1, FS_CardinalityType
<1>3. Len(idle) \in Nat
  BY DEF TypeOK
<1> QED
  BY <1>1, <1>2, <1>3, CrawlerAssumption DEF Size

(* A page added to, or taken from, the pages in use.                       *)
LEMMA InUseGrows ==
  ASSUME TypeOK, NEW p
  PROVE  /\ Cardinality(inUse \cup {p}) \in Nat
         /\ Cardinality(inUse \cup {p}) <= Cardinality(inUse) + 1
         /\ Cardinality(inUse \ {p}) \in Nat
         /\ Cardinality(inUse \ {p}) <= Cardinality(inUse)
         /\ p \in inUse => Cardinality(inUse \ {p}) = Cardinality(inUse) - 1
<1> DEFINE more == Cardinality(inUse \cup {p})
           less == Cardinality(inUse \ {p})
           n == Cardinality(inUse)
<1>1. IsFiniteSet(inUse) /\ n \in Nat
  BY SizeTyped
<1>2. CASE p \in inUse
  <2>1. more = n
    <3>1. inUse \cup {p} = inUse
      BY <1>2
    <3> QED
      BY <3>1
  <2>2. less = n - 1
    BY <1>1, <1>2, FS_RemoveElement
  <2>3. less \in Nat
    BY <1>1, FS_RemoveElement, FS_CardinalityType
  <2> HIDE DEF more, less, n
  <2>4. more \in Nat /\ more <= n + 1 /\ less \in Nat /\ less <= n /\ less = n - 1
    BY <1>1, <2>1, <2>2, <2>3
  <2> QED
    BY <2>4 DEF more, less, n
<1>3. CASE p \notin inUse
  <2>1. less = n
    <3>1. inUse \ {p} = inUse
      BY <1>3
    <3> QED
      BY <3>1
  <2>2. more = n + 1
    BY <1>1, <1>3, FS_AddElement
  <2> HIDE DEF more, less, n
  <2>3. more \in Nat /\ more <= n + 1 /\ less \in Nat /\ less <= n
    BY <1>1, <2>1, <2>2
  <2> QED
    BY <1>3, <2>3 DEF more, less, n
<1> QED
  BY <1>2, <1>3

(* At most one checkout is opening a page.                                 *)
LEMMA PoolIsBounded == Pool => PoolBounded
<1> SUFFICES ASSUME Pool PROVE PoolBounded
  OBVIOUS
<1> DEFINE C == {f \in Fetches : at[f] = "create"}
<1>0. Size \in Nat /\ MaxSize \in Nat
  BY SizeTyped DEF Pool
<1>1. CASE C = {}
  <2>1. Cardinality(C) = 0
    BY <1>1, FS_EmptySet
  <2> QED
    BY <1>0, <2>1 DEF Pool, Bounded, PoolBounded
<1>2. CASE C # {}
  <2>1. PICK f \in Fetches : at[f] = "create"
    BY <1>2
  <2>2. C = {f}
    BY <2>1 DEF Pool, LockHeld, Holding
  <2>3. Cardinality(C) = 1
    BY <2>2, FS_Singleton
  <2>4. Size < MaxSize
    BY <2>1 DEF Pool, Room
  <2> QED
    BY <1>0, <2>3, <2>4 DEF PoolBounded
<1> QED
  BY <1>1, <1>2

(* A step outside the pool: its fetch neither holds the lock nor waits     *)
(* afterwards, and the lock and the pages are left alone.                  *)
LEMMA OutsideKeepsPool ==
  ASSUME Pool, TypeOK', NEW f \in Fetches, NEW s \in Places \ Holding, s # "wait",
         at[f] \notin Holding, at' = [at EXCEPT ![f] = s], UNCHANGED <<lock, idle, inUse>>
  PROVE  Pool'
<1>1. TypeOK /\ Size' = Size
  BY DEF Pool, Size
<1>2. LockHeld'
  BY DEF Pool, LockHeld, TypeOK
<1>3. Room'
  BY <1>1, PlaceNames DEF Pool, Room, TypeOK, Holding
<1>4. Bounded'
  BY <1>1 DEF Pool, Bounded
<1>5. NobodyWaitsInVain'
  BY <1>1 DEF Pool, NobodyWaitsInVain, TypeOK
<1> QED
  BY <1>2, <1>3, <1>4, <1>5 DEF Pool

(* The holder of the lock lets it go, and takes up one place at most.      *)
LEMMA ReleaseKeepsPool ==
  ASSUME Pool, TypeOK', NEW f \in Fetches, NEW s \in Places \ Holding,
         lock = f, lock' = NoFetch, at' = [at EXCEPT ![f] = s],
         Size' <= MaxSize,
         NobodyWaitsInVain'
  PROVE  Pool'
<1>1. LockHeld'
  BY CrawlerAssumption DEF Pool, LockHeld, TypeOK
<1>2. Room'
  BY <1>1, CrawlerAssumption DEF LockHeld, Room, Holding
<1> QED
  BY <1>1, <1>2 DEF Pool, Bounded

(* The holder of the lock goes on holding it.                              *)
LEMMA HolderKeepsPool ==
  ASSUME Pool, TypeOK', NEW f \in Fetches, NEW s \in Holding,
         lock = f, lock' = lock, at' = [at EXCEPT ![f] = s],
         Size' <= MaxSize, s = "create" => idle' = <<>> /\ Size' < MaxSize,
         NobodyWaitsInVain'
  PROVE  Pool'
<1>1. LockHeld'
  BY DEF Pool, LockHeld, TypeOK
<1>2. Room'
  <2>1. ASSUME NEW g \in Fetches, at'[g] = "create" PROVE g = f /\ s = "create"
    BY <2>1, <1>1 DEF Pool, LockHeld, Holding, TypeOK
  <2> QED
    BY <2>1 DEF Room
<1> QED
  BY <1>1, <1>2 DEF Pool, Bounded

(* A step taken while the lock is free that wakes every waiting checkout.  *)
LEMMA WakingKeepsPool ==
  ASSUME Pool, TypeOK', lock = NoFetch, lock' = NoFetch, Size' <= MaxSize,
         \A g \in Fetches : at'[g] = at[g] \/ at'[g] \notin Holding,
         \A g \in Fetches : at'[g] # "wait"
  PROVE  Pool'
<1>1. \A g \in Fetches : at'[g] \notin Holding
  BY CrawlerAssumption DEF Pool, LockHeld
<1>2. LockHeld'
  BY <1>1, CrawlerAssumption DEF LockHeld
<1>3. Room'
  BY <1>1 DEF Room, Holding
<1>4. NobodyWaitsInVain'
  BY DEF NobodyWaitsInVain
<1> QED
  BY <1>2, <1>3, <1>4 DEF Pool, Bounded

(* Nobody waits where there is a page to take or room for one.             *)
LEMMA NobodyWaits ==
  ASSUME Pool, NEW f \in Fetches, NEW s \in Places, s # "wait", at' = [at EXCEPT ![f] = s],
         idle # <<>> \/ Size < MaxSize
  PROVE  NobodyWaitsInVain'
<1>1. Size \in Nat /\ MaxSize \in Nat
  BY SizeTyped DEF Pool
<1>2. \A g \in Fetches : at[g] # "wait"
  BY <1>1 DEF Pool, NobodyWaitsInVain
<1> QED
  BY <1>2 DEF Pool, TypeOK, NobodyWaitsInVain

(* The steps of a checkout.                                                *)
LEMMA CheckoutKeepsPool ==
  ASSUME Pool, TypeOK', NEW f \in Fetches,
         \/ Lock(f) \/ RecyclePop(f) \/ Recycled(f) \/ Take(f) \/ Create(f)
         \/ Created(f) \/ CreateFails(f) \/ Wait(f)
  PROVE  Pool'
<1>0. /\ TypeOK /\ Size \in Nat /\ MaxSize \in Nat /\ Size <= MaxSize
      /\ Len(idle) \in Nat /\ Cardinality(inUse) \in Nat
      /\ Size = Len(idle) + Cardinality(inUse)
  BY SizeTyped DEF Pool, Bounded, Size
<1>1. CASE Lock(f)
  <2>1. /\ lock = NoFetch /\ lock' = f /\ at' = [at EXCEPT ![f] = "recycle"]
        /\ UNCHANGED <<idle, inUse>> /\ Size' = Size
    BY <1>1 DEF Lock, Goto, Size
  <2>2. LockHeld'
    BY <2>1, CrawlerAssumption DEF Pool, LockHeld, TypeOK, Holding
  <2>3. Room'
    BY <2>1, CrawlerAssumption DEF Pool, LockHeld, Room, TypeOK, Holding
  <2>4. NobodyWaitsInVain'
    BY <2>1 DEF Pool, NobodyWaitsInVain, TypeOK
  <2> QED
    BY <1>0, <2>1, <2>2, <2>3, <2>4 DEF Pool, Bounded
<1>2. CASE RecyclePop(f)
  <2>1. /\ lock = f /\ lock' = lock /\ at' = [at EXCEPT ![f] = "recycling"]
        /\ idle # <<>> /\ idle' = Tail(idle) /\ UNCHANGED inUse
    BY <1>2 DEF RecyclePop, Goto, Pool, LockHeld, Holding
  <2>2. Len(Tail(idle)) = Len(idle) - 1
    BY <1>0, <2>1 DEF TypeOK
  <2>3. Size' <= MaxSize
    BY <1>0, <2>1, <2>2 DEF Size
  <2>4. NobodyWaitsInVain'
    BY <2>1, NobodyWaits, PlaceNames DEF Holding
  <2> QED
    BY <2>1, <2>3, <2>4, HolderKeepsPool DEF Holding
<1>3. CASE Recycled(f)
  <2>1. /\ lock = f /\ lock' = lock /\ at' = [at EXCEPT ![f] = "recycle"]
        /\ UNCHANGED <<idle, inUse>> /\ Size' = Size
    BY <1>3 DEF Recycled, Goto, Pool, LockHeld, Holding, Size
  <2>2. NobodyWaitsInVain'
    BY <2>1 DEF Pool, NobodyWaitsInVain, TypeOK
  <2> QED
    BY <1>0, <2>1, <2>2, HolderKeepsPool DEF Holding
<1>4. CASE Take(f)
  <2>1. /\ lock = f /\ lock' = NoFetch /\ at' = [at EXCEPT ![f] = "page"]
        /\ idle # <<>> /\ idle' = Tail(idle) /\ inUse' = inUse \cup {Head(idle)}
    BY <1>4 DEF Take, Goto, Pool, LockHeld, Holding
  <2>2. Len(Tail(idle)) = Len(idle) - 1
    BY <1>0, <2>1 DEF TypeOK
  <2>3. Cardinality(inUse') \in Nat /\ Cardinality(inUse') <= Cardinality(inUse) + 1
    BY <1>0, <2>1, InUseGrows
  <2>4. Size' <= MaxSize
    BY <1>0, <2>1, <2>2, <2>3 DEF Size
  <2>5. NobodyWaitsInVain'
    BY <2>1, NobodyWaits, PlaceNames
  <2> QED
    BY <2>1, <2>4, <2>5, ReleaseKeepsPool, PlaceNames DEF Holding
<1>5. CASE Create(f)
  <2>1. /\ lock = f /\ lock' = lock /\ at' = [at EXCEPT ![f] = "create"]
        /\ UNCHANGED <<idle, inUse>> /\ Size' = Size /\ idle = <<>> /\ Size < MaxSize
    BY <1>5 DEF Create, Goto, Pool, LockHeld, Holding, Size, poolVars
  <2>2. NobodyWaitsInVain'
    BY <2>1, NobodyWaits, PlaceNames DEF Holding
  <2> QED
    BY <1>0, <2>1, <2>2, HolderKeepsPool DEF Holding
<1>6. CASE Created(f)
  <2>1. PICK p \in Unused : inUse' = inUse \cup {p}
    BY <1>6 DEF Created
  <2>2. /\ lock = f /\ lock' = NoFetch /\ at' = [at EXCEPT ![f] = "page"] /\ UNCHANGED idle
        /\ at[f] = "create"
    BY <1>6 DEF Created, Goto, Pool, LockHeld, Holding
  <2>3. Size < MaxSize
    BY <2>2 DEF Pool, Room
  <2>4. Cardinality(inUse') \in Nat /\ Cardinality(inUse') <= Cardinality(inUse) + 1
    BY <1>0, <2>1, InUseGrows
  <2>5. Size' <= MaxSize
    BY <1>0, <2>2, <2>3, <2>4 DEF Size
  <2>6. NobodyWaitsInVain'
    BY <2>2, <2>3, NobodyWaits, PlaceNames
  <2> QED
    BY <2>2, <2>5, <2>6, ReleaseKeepsPool, PlaceNames DEF Holding
<1>7. CASE CreateFails(f)
  <2>1. /\ lock = f /\ lock' = NoFetch /\ at' = [at EXCEPT ![f] = "idle"]
        /\ UNCHANGED <<idle, inUse>> /\ Size' = Size
    BY <1>7 DEF CreateFails, Goto, Pool, LockHeld, Holding, Size
  <2>2. NobodyWaitsInVain'
    BY <2>1 DEF Pool, NobodyWaitsInVain, TypeOK
  <2> QED
    BY <1>0, <2>1, <2>2, ReleaseKeepsPool, PlaceNames DEF Holding
<1>8. CASE Wait(f)
  <2>1. /\ lock = f /\ lock' = NoFetch /\ idle = <<>> /\ Size = MaxSize
        /\ UNCHANGED <<idle, inUse>> /\ Size' = Size
    BY <1>0, <1>8 DEF Wait, Pool, LockHeld, Holding, Size
  <2>2. PICK s \in {"wait", "idle", "polite"} : at' = [at EXCEPT ![f] = s]
    BY <1>8 DEF Wait, Goto, Retry
  <2>3. NobodyWaitsInVain'
    BY <2>1 DEF NobodyWaitsInVain
  <2> QED
    BY <1>0, <2>1, <2>2, <2>3, ReleaseKeepsPool, PlaceNames DEF Holding
<1> QED
  BY <1>1, <1>2, <1>3, <1>4, <1>5, <1>6, <1>7, <1>8

(* The steps that give a page back.                                        *)
LEMMA ReturnKeepsPool ==
  ASSUME Pool, TypeOK', NEW f \in Fetches, Checkin(f) \/ Discard(f)
  PROVE  Pool'
<1>0. /\ TypeOK /\ Size \in Nat /\ MaxSize \in Nat /\ Size <= MaxSize
      /\ Len(idle) \in Nat /\ Cardinality(inUse) \in Nat
      /\ Size = Len(idle) + Cardinality(inUse)
  BY SizeTyped DEF Pool, Bounded, Size
<1>1. /\ lock = NoFetch /\ lock' = NoFetch /\ inUse' = inUse \ {mine[f]}
      /\ NotifyAll(f, "idle") \/ NotifyAll(f, "close")
  BY DEF Checkin, Discard
<1>2. /\ \A g \in Fetches : at'[g] = at[g] \/ at'[g] \notin Holding
      /\ \A g \in Fetches : at'[g] # "wait"
  BY <1>1 DEF NotifyAll, Holding
<1>3. Size' <= MaxSize
  <2>1. /\ Cardinality(inUse') \in Nat /\ Cardinality(inUse') <= Cardinality(inUse)
        /\ mine[f] \in inUse => Cardinality(inUse') = Cardinality(inUse) - 1
    BY <1>0, <1>1, InUseGrows
  <2>2. idle' = idle \/ (mine[f] \in inUse /\ idle' = Append(idle, mine[f]))
    BY DEF Checkin, Discard
  <2>3. mine[f] \in inUse => Len(Append(idle, mine[f])) = Len(idle) + 1
    BY <1>0 DEF TypeOK
  <2> QED
    BY <1>0, <2>1, <2>2, <2>3 DEF Size
<1> QED
  BY <1>1, <1>2, <1>3, WakingKeepsPool

(* The steps outside the pool.                                             *)
LEMMA OutsideStepKeepsPool ==
  ASSUME Pool, TypeOK', NEW f \in Fetches,
         \/ StartPlaywright(f) \/ StartChromium(f) \/ Polite(f) \/ TimeOut(f)
         \/ OpenContext(f) \/ Succeed(f) \/ NavigationFails(f) \/ ExtractFails(f) \/ Close(f)
         \/ \E k \in Kinds : Begin(f, k)
  PROVE  Pool'
<1>1. UNCHANGED <<lock, idle, inUse>>
  BY DEF StartPlaywright, StartChromium, Polite, TimeOut, OpenContext, Succeed,
         NavigationFails, ExtractFails, Abort, Close, Begin, poolVars
<1>2. at[f] \notin Holding
  BY DEF StartPlaywright, StartChromium, Polite, TimeOut, OpenContext, Succeed,
         NavigationFails, ExtractFails, Abort, Close, Begin, Holding
<1>3. \E s \in Places \ Holding : s # "wait" /\ at' = [at EXCEPT ![f] = s]
  BY DEF StartPlaywright, StartChromium, Polite, TimeOut, OpenContext, Succeed, Goto, Retry,
         NavigationFails, ExtractFails, Abort, Close, Begin, Holding, Places
<1> QED
  BY <1>1, <1>2, <1>3, OutsideKeepsPool

(* A fetch that is cancelled lets the lock go if it held it.               *)
LEMMA CancelKeepsPool ==
  ASSUME Pool, TypeOK', NEW f \in Fetches, Cancel(f)
  PROVE  Pool'
<1>1. /\ at' = [at EXCEPT ![f] = "idle"] /\ UNCHANGED <<idle, inUse>> /\ Size' = Size
      /\ lock' = IF lock = f THEN NoFetch ELSE lock
  BY DEF Cancel, Goto, Size
<1>2. CASE lock = f
  <2>1. NobodyWaitsInVain'
    BY <1>1 DEF Pool, NobodyWaitsInVain, TypeOK
  <2> QED
    BY <1>1, <1>2, <2>1, ReleaseKeepsPool, PlaceNames DEF Holding, Pool, Bounded
<1>3. CASE lock # f
  <2>1. at[f] \notin Holding
    BY <1>3 DEF Pool, LockHeld
  <2> QED
    BY <1>1, <1>3, <2>1, OutsideKeepsPool, PlaceNames DEF Holding
<1> QED
  BY <1>2, <1>3

(* Clearing the pool leaves it empty and wakes everybody.                  *)
LEMMA ClearKeepsPool ==
  ASSUME Pool, TypeOK', Clear
  PROVE  Pool'
<1>1. /\ lock = NoFetch /\ lock' = NoFetch /\ idle' = <<>> /\ inUse' = {}
      /\ at' = [f \in Fetches |-> IF at[f] = "wait" THEN "relock" ELSE at[f]]
  BY DEF Clear
<1>2. Size' = 0
  BY <1>1, FS_EmptySet DEF Size
<1>3. Size' <= MaxSize
  BY <1>2, CrawlerAssumption
<1> QED
  BY <1>1, <1>3, WakingKeepsPool DEF Holding, Pool, TypeOK

(* A step that leaves the fetches where they are, the lock and the pages.  *)
LEMMA StillKeepsPool ==
  ASSUME Pool, TypeOK', UNCHANGED <<at, lock, idle, inUse>>
  PROVE  Pool'
BY DEF Pool, LockHeld, Room, Bounded, NobodyWaitsInVain, Size

(* Every step keeps the inductive invariant.                               *)
LEMMA PoolStep == Pool /\ [Next]_vars => Pool'
<1> SUFFICES ASSUME Pool, [Next]_vars PROVE Pool'
  OBVIOUS
<1>0. TypeOK'
  BY TypeStep DEF Pool
<1>1. ASSUME NEW f \in Fetches, Step(f) \/ \E k \in Kinds : Begin(f, k) PROVE Pool'
  BY <1>0, <1>1, CheckoutKeepsPool, ReturnKeepsPool, OutsideStepKeepsPool DEF Step
<1>2. ASSUME NEW f \in Fetches, Cancel(f) PROVE Pool'
  BY <1>0, <1>2, CancelKeepsPool
<1>3. CASE Clear
  BY <1>0, <1>3, ClearKeepsPool
<1>4. ASSUME \/ \E f \in Fetches : Expire(f)
             \/ Age \/ UNCHANGED vars
             \/ \E p \in Pages : ClosePage(p)
      PROVE Pool'
  <2>1. UNCHANGED <<at, lock, idle, inUse>>
    BY <1>4 DEF Expire, Age, ClosePage, vars, fetchVars, poolVars
  <2> QED
    BY <1>0, <2>1, StillKeepsPool
<1> QED
  BY <1>1, <1>2, <1>3, <1>4 DEF Next

(* The empty pool satisfies the invariant.                                 *)
LEMMA PoolInit == Init => Pool
<1> SUFFICES ASSUME Init PROVE Pool
  OBVIOUS
<1>1. TypeOK
  BY InitTyped
<1>2. Size = 0
  BY FS_EmptySet DEF Init, Size
<1>3. LockHeld /\ Room /\ NobodyWaitsInVain
  BY CrawlerAssumption DEF Init, LockHeld, Room, NobodyWaitsInVain, Holding
<1>4. Bounded
  BY <1>2, CrawlerAssumption DEF Bounded
<1> QED
  BY <1>1, <1>3, <1>4 DEF Pool

(* The pages of the pool, with the one that a checkout is opening, are     *)
(* never more than max_size, however checkouts, checkins, discards,        *)
(* cancellations and a clear interleave.                                   *)
THEOREM PoolBoundHolds == Spec => []PoolBounded
<1>1. Spec => []Pool
  BY PoolInit, PoolStep, PTL DEF Spec
<1> QED
  BY <1>1, PoolIsBounded, PTL

(* No notification is lost: a checkout waits only while the pool is full   *)
(* and nothing in it is idle.                                              *)
THEOREM NobodyWaitsInVainHolds == Spec => []NobodyWaitsInVain
<1>1. Spec => []Pool
  BY PoolInit, PoolStep, PTL DEF Spec
<1>2. Pool => NobodyWaitsInVain
  BY DEF Pool
<1> QED
  BY <1>1, <1>2, PTL

-----------------------------------------------------------------------------
(* Who owns the pages.  What is inductive says where a fetch can have a    *)
(* page, so that no step overwrites the name of one in use.                *)

Carrying == {"recycling", "page", "checkin", "discard", "close"}
InCheckout == {"lock", "relock", "recycle", "recycling", "create", "wait"}

IdleOnce == \A i, j \in 1 .. Len(idle) : idle[i] = idle[j] => i = j

IdleFree ==
  \A i \in 1 .. Len(idle) :
    idle[i] \in open \ (inUse \cup doomed) /\ \A f \in Fetches : mine[f] # idle[i]

\* No two fetches have the same page.
Apart == \A f, g \in Fetches : mine[f] = mine[g] /\ mine[f] # NoPage => f = g

UsedOpen == inUse \subseteq open \ doomed

\* A page in use that nobody has was left by a fetch that was cancelled.
Left ==
  /\ abandoned \subseteq inUse
  /\ \A p \in inUse : p \in abandoned <=> \A f \in Fetches : mine[f] # p

\* Where fetches have pages, and that only those that share the pool do.
Whereabouts ==
  \A f \in Fetches :
    /\ mine[f] # NoPage => at[f] \in Carrying
    /\ at[f] \in {"recycling", "close"} => mine[f] \notin inUse
    /\ at[f] \in InCheckout => kind[f] = "pooled"
    /\ kind[f] # "pooled" => mine[f] = NoPage

Owners == IdleOnce /\ IdleFree /\ Apart /\ UsedOpen /\ Left /\ Whereabouts

LEMMA OwnersInit == Init => Owners
  BY EmptySeq DEF Init, Owners, IdleOnce, IdleFree, Apart, UsedOpen, Left, Whereabouts, Carrying, InCheckout

(* A step that leaves the pages where they are and moves one fetch.        *)
LEMMA MoveKeepsOwners ==
  ASSUME TypeOK, Owners, NEW f \in Fetches, NEW s \in Places, NEW k,
         UNCHANGED <<mine, idle, inUse, doomed, open, abandoned>>,
         at' = [at EXCEPT ![f] = s], kind' = [kind EXCEPT ![f] = k],
         mine[f] # NoPage => s \in Carrying,
         s \in {"recycling", "close"} => mine[f] \notin inUse,
         s \in InCheckout => k = "pooled",
         k # "pooled" => mine[f] = NoPage
  PROVE  Owners'
<1>1. IdleOnce' /\ IdleFree' /\ Apart' /\ UsedOpen' /\ Left'
  BY DEF Owners, IdleOnce, IdleFree, Apart, UsedOpen, Left
<1>2. Whereabouts'
  <2>1. \A g \in Fetches : /\ at'[g] = IF g = f THEN s ELSE at[g]
                           /\ kind'[g] = IF g = f THEN k ELSE kind[g]
    BY DEF TypeOK
  <2> QED
    BY <2>1 DEF Owners, Whereabouts
<1> QED
  BY <1>1, <1>2 DEF Owners

(* What the retry counter and the end of a call do to the kind of a fetch. *)
LEMMA KindIs ==
  ASSUME TypeOK, NEW f \in Fetches
  PROVE  /\ \A s : Goto(f, s) =>
              /\ at' = [at EXCEPT ![f] = s]
              /\ kind' = [kind EXCEPT ![f] = IF s = "idle" THEN "pooled" ELSE kind[f]]
         /\ Retry(f) =>
              Goto(f, "idle") \/ (at' = [at EXCEPT ![f] = "polite"] /\ kind' = [kind EXCEPT ![f] = kind[f]])
<1>1. kind = [kind EXCEPT ![f] = kind[f]]
  BY DEF TypeOK
<1>2. ASSUME NEW s, Goto(f, s)
      PROVE  /\ at' = [at EXCEPT ![f] = s]
             /\ kind' = [kind EXCEPT ![f] = IF s = "idle" THEN "pooled" ELSE kind[f]]
  <2>1. at' = [at EXCEPT ![f] = s] /\ kind' = IF s = "idle" THEN [kind EXCEPT ![f] = "pooled"] ELSE kind
    BY <1>2 DEF Goto, Ended
  <2> QED
    BY <1>1, <2>1
<1>3. ASSUME Retry(f)
      PROVE  Goto(f, "idle") \/ (at' = [at EXCEPT ![f] = "polite"] /\ kind' = [kind EXCEPT ![f] = kind[f]])
  BY <1>1, <1>3 DEF Retry
<1> QED
  BY <1>2, <1>3

(* The steps outside the pool, and those of a checkout that get no page.   *)
LEMMA EmptyStepKeepsOwners ==
  ASSUME TypeOK, Owners, NEW f \in Fetches,
         \/ StartPlaywright(f) \/ StartChromium(f) \/ Polite(f) \/ Lock(f) \/ Create(f)
         \/ CreateFails(f) \/ Wait(f) \/ TimeOut(f) \/ OpenContext(f)
         \/ Succeed(f) \/ NavigationFails(f) \/ ExtractFails(f)
         \/ \E k \in Kinds : Begin(f, k)
  PROVE  Owners'
<1> DEFINE Stays == UNCHANGED <<mine, idle, inUse, doomed, open, abandoned>>
<1>0. mine[f] # NoPage => kind[f] = "pooled" /\ at[f] \in Carrying
  BY DEF Owners, Whereabouts
<1>1. NoPage \notin inUse
  BY CrawlerAssumption DEF TypeOK
<1>2. Stays
  BY DEF StartPlaywright, StartChromium, Polite, Lock, Create, CreateFails, Wait, TimeOut, OpenContext,
         Succeed, NavigationFails, ExtractFails, Abort, Begin, poolVars
<1>3. CASE at[f] \in {"start", "chromium", "context", "polite"}
           /\ (StartPlaywright(f) \/ StartChromium(f) \/ Polite(f) \/ OpenContext(f))
  <2>1. mine[f] = NoPage
    BY <1>3 DEF Owners, Whereabouts, Carrying
  <2>2. PICK s \in Places : Goto(f, s) /\ s \notin {"recycling", "close"}
                            /\ (s \in InCheckout => kind[f] = "pooled")
    BY <1>3 DEF StartPlaywright, StartChromium, Polite, OpenContext, Places, InCheckout
  <2> QED
    BY <1>2, <2>1, <2>2, KindIs, MoveKeepsOwners
<1>4. CASE Lock(f) \/ Create(f) \/ CreateFails(f)
  <2>1. mine[f] = NoPage /\ kind[f] = "pooled"
    BY <1>4 DEF Lock, Create, CreateFails, Owners, Whereabouts, Carrying, InCheckout
  <2>2. PICK s \in Places : Goto(f, s) /\ s \notin {"recycling", "close"}
    BY <1>4 DEF Lock, Create, CreateFails, Places
  <2> QED
    BY <1>2, <2>1, <2>2, KindIs, MoveKeepsOwners
<1>5. CASE Wait(f) \/ TimeOut(f)
  <2>1. mine[f] = NoPage /\ kind[f] = "pooled"
    BY <1>5 DEF Wait, TimeOut, Owners, Whereabouts, Carrying, InCheckout
  <2>2. Goto(f, "idle") \/ Goto(f, "wait") \/ Retry(f)
    BY <1>5 DEF Wait, TimeOut
  <2>3. PICK s \in {"idle", "wait", "polite"} :
          at' = [at EXCEPT ![f] = s] /\ kind' = [kind EXCEPT ![f] = "pooled"]
    BY <2>1, <2>2, KindIs
  <2> QED
    BY <1>2, <2>1, <2>3, PlaceNames, MoveKeepsOwners DEF Places
<1>6. CASE Succeed(f)
  <2>1. PICK s \in {"checkin", "idle"} : Goto(f, s) /\ (s = "idle" => kind[f] # "pooled")
    BY <1>6 DEF Succeed
  <2>2. s = "idle" => mine[f] = NoPage
    BY <2>1, <1>0
  <2>3. s \in Places /\ s \notin InCheckout
    BY <2>1 DEF Places, InCheckout
  <2> QED
    BY <1>0, <1>2, <2>1, <2>2, <2>3, KindIs, MoveKeepsOwners DEF Carrying
<1>7. CASE NavigationFails(f) \/ ExtractFails(f)
  <2>1. PICK s \in {"discard", "close"} : Goto(f, s) /\ (s = "close" => kind[f] # "pooled")
    BY <1>7 DEF NavigationFails, ExtractFails, Abort
  <2>2. s = "close" => mine[f] \notin inUse
    BY <2>1, <1>0, <1>1
  <2>3. s \in Places /\ s \notin InCheckout
    BY <2>1 DEF Places, InCheckout
  <2> QED
    BY <1>0, <1>2, <2>1, <2>2, <2>3, KindIs, MoveKeepsOwners DEF Carrying
<1>8. CASE \E k \in Kinds : Begin(f, k)
  <2>1. PICK k \in Kinds : Begin(f, k)
    BY <1>8
  <2>2. mine[f] = NoPage
    BY <2>1 DEF Begin, Owners, Whereabouts, Carrying
  <2>3. PICK s \in {"polite", "start"} : at' = [at EXCEPT ![f] = s] /\ kind' = [kind EXCEPT ![f] = k]
    BY <2>1 DEF Begin
  <2>4. s \in Places /\ s \notin InCheckout
    BY <2>3 DEF Places, InCheckout
  <2> QED
    BY <1>2, <2>2, <2>3, <2>4, MoveKeepsOwners
<1> QED
  BY <1>3, <1>4, <1>5, <1>6, <1>7, <1>8 DEF StartPlaywright, StartChromium, Polite, OpenContext

(* A page leaves the queue for the hands of the checkout that pops it.     *)
LEMMA PopKeepsOwners ==
  ASSUME TypeOK, Owners, NEW f \in Fetches, RecyclePop(f) \/ Take(f)
  PROVE  Owners'
<1> DEFINE p == Head(idle)
<1>1. /\ idle \in Seq(Pages) /\ idle # <<>> /\ idle' = Tail(idle) /\ UNCHANGED <<doomed, open, abandoned>>
      /\ mine' = [mine EXCEPT ![f] = p] /\ at[f] = "recycle"
      /\ kind' = kind
      /\ \/ at' = [at EXCEPT ![f] = "recycling"] /\ inUse' = inUse
         \/ at' = [at EXCEPT ![f] = "page"] /\ inUse' = inUse \cup {p}
  BY DEF RecyclePop, Take, Goto, Ended, TypeOK
<1>2. /\ Len(idle) \in Nat \ {0} /\ p = idle[1] /\ Len(idle') = Len(idle) - 1 /\ p \in Pages
      /\ \A m \in 1 .. Len(idle') : m + 1 \in 1 .. Len(idle) /\ idle'[m] = idle[m + 1]
  <2>1. Len(idle) \in Nat \ {0} /\ p = idle[1] /\ Len(Tail(idle)) = Len(idle) - 1 /\ p \in Pages
    BY <1>1, HeadTailProperties, EmptySeq
  <2>2. \A m \in 1 .. Len(Tail(idle)) : Tail(idle)[m] = idle[m + 1]
    BY <1>1, HeadTailProperties
  <2> QED
    BY <1>1, <2>1, <2>2
<1>3. /\ \A g \in Fetches : /\ mine'[g] = IF g = f THEN p ELSE mine[g]
                            /\ at'[g] = IF g = f THEN at'[f] ELSE at[g]
      /\ at'[f] \in {"recycling", "page"}
      /\ at'[f] = "recycling" => inUse' = inUse
  BY <1>1 DEF TypeOK
<1>4. /\ mine[f] = NoPage /\ kind[f] = "pooled"
      /\ p \in open \ (inUse \cup doomed) /\ \A g \in Fetches : mine[g] # p
  <2>1. 1 \in 1 .. Len(idle)
    BY <1>2
  <2> QED
    BY <1>1, <1>2, <2>1 DEF Owners, IdleFree, Whereabouts, Carrying, InCheckout
<1>5. inUse \subseteq Pages /\ NoPage \notin Pages
  BY CrawlerAssumption DEF TypeOK
<1> HIDE DEF p
<1>6. \A m \in 1 .. Len(idle') : idle'[m] # p
  BY <1>2 DEF Owners, IdleOnce
<1>7. IdleOnce'
  <2> SUFFICES ASSUME NEW m \in 1 .. Len(idle'), NEW n \in 1 .. Len(idle'), idle'[m] = idle'[n]
               PROVE  m = n
    BY DEF IdleOnce
  <2>1. m + 1 = n + 1
    BY <1>2 DEF Owners, IdleOnce
  <2> QED
    BY <1>2, <2>1
<1>8. IdleFree'
  BY <1>1, <1>2, <1>3, <1>6 DEF Owners, IdleFree
<1>9. Apart'
  BY <1>3, <1>4 DEF Owners, Apart
<1>10. UsedOpen'
  BY <1>1, <1>4 DEF Owners, UsedOpen
<1>11. Left'
  <2>1. \A q \in inUse : (\A g \in Fetches : mine'[g] # q) <=> (\A g \in Fetches : mine[g] # q)
    BY <1>3, <1>4, <1>5
  <2>2. mine'[f] = p /\ p \notin abandoned
    BY <1>3, <1>4 DEF Owners, Left
  <2> QED
    BY <1>1, <2>1, <2>2 DEF Owners, Left
<1>12. Whereabouts'
  <2>1. at'[f] \in {"recycling", "close"} => mine'[f] \notin inUse'
    BY <1>3, <1>4
  <2>2. \A g \in Fetches \ {f} : mine[g] \notin inUse => mine[g] \notin inUse'
    BY <1>1, <1>4
  <2> QED
    BY <1>1, <1>3, <1>4, <2>1, <2>2 DEF Owners, Whereabouts, Carrying
<1> QED
  BY <1>7, <1>8, <1>9, <1>10, <1>11, <1>12 DEF Owners

(* A new page has a name that nobody has.                                  *)
LEMMA CreatedKeepsOwners ==
  ASSUME TypeOK, Owners, NEW f \in Fetches, Created(f)
  PROVE  Owners'
<1>1. PICK p \in Unused : /\ mine' = [mine EXCEPT ![f] = p]
                          /\ inUse' = inUse \cup {p}
                          /\ open' = open \cup {p}
  BY DEF Created
<1>2. /\ p \in Pages /\ p \notin open \cup doomed \cup inUse /\ \A g \in Fetches : mine[g] # p
  BY <1>1 DEF Unused
<1>3. /\ at[f] = "create" /\ at' = [at EXCEPT ![f] = "page"] /\ kind' = kind
      /\ UNCHANGED <<idle, doomed, abandoned>>
  BY DEF Created, Goto, Ended
<1>4. \A g \in Fetches : /\ mine'[g] = IF g = f THEN p ELSE mine[g]
                         /\ at'[g] = IF g = f THEN "page" ELSE at[g]
  BY <1>1, <1>3 DEF TypeOK
<1>5. mine[f] = NoPage /\ kind[f] = "pooled"
  BY <1>3 DEF Owners, Whereabouts, Carrying, InCheckout
<1>6. inUse \subseteq Pages /\ NoPage \notin Pages
  BY CrawlerAssumption DEF TypeOK
<1>7. IdleOnce' /\ UsedOpen'
  BY <1>1, <1>2, <1>3 DEF Owners, IdleOnce, UsedOpen
<1>8. IdleFree'
  BY <1>1, <1>2, <1>3, <1>4 DEF Owners, IdleFree
<1>9. Apart'
  BY <1>2, <1>4 DEF Owners, Apart
<1>10. Left'
  <2>1. \A q \in inUse : (\A g \in Fetches : mine'[g] # q) <=> (\A g \in Fetches : mine[g] # q)
    BY <1>2, <1>4, <1>5, <1>6
  <2>2. mine'[f] = p /\ p \notin abandoned
    BY <1>2, <1>4 DEF Owners, Left
  <2> QED
    BY <1>1, <1>3, <2>1, <2>2 DEF Owners, Left
<1>11. Whereabouts'
  <2>1. \A g \in Fetches \ {f} : mine[g] \notin inUse => mine[g] \notin inUse'
    BY <1>1, <1>2
  <2> QED
    BY <1>3, <1>4, <1>5, <2>1 DEF Owners, Whereabouts, Carrying
<1> QED
  BY <1>7, <1>8, <1>9, <1>10, <1>11 DEF Owners

(* A fetch gives its page up: the page is in use no longer, and is what    *)
(* the queue gets, if anything.                                            *)
LEMMA CheckinKeepsOwners ==
  ASSUME TypeOK, Owners, NEW f \in Fetches, Checkin(f)
  PROVE  Owners'
<1> DEFINE p == mine[f]
<1>1. /\ inUse' = inUse \ {p} /\ idle' = IF p \in inUse THEN Append(idle, p) ELSE idle
      /\ mine' = [mine EXCEPT ![f] = NoPage] /\ kind' = [kind EXCEPT ![f] = "pooled"]
      /\ UNCHANGED <<doomed, open, abandoned>>
  BY DEF Checkin, NotifyAll, Ended
<1>2. /\ idle \in Seq(Pages) /\ Len(idle) \in Nat /\ inUse \subseteq Pages /\ NoPage \notin Pages
  BY CrawlerAssumption DEF TypeOK
<1>3. \A g \in Fetches :
        /\ mine'[g] = IF g = f THEN NoPage ELSE mine[g]
        /\ kind'[g] = IF g = f THEN "pooled" ELSE kind[g]
        /\ at'[g] = IF g = f THEN "idle" ELSE IF at[g] = "wait" THEN "relock" ELSE at[g]
  BY <1>1 DEF TypeOK, Checkin, NotifyAll
<1>4. /\ p \in inUse => Len(idle') = Len(idle) + 1 /\ idle'[Len(idle) + 1] = p
      /\ \A m \in 1 .. Len(idle) : idle'[m] = idle[m]
      /\ p \notin inUse => idle' = idle
  BY <1>1, <1>2, AppendProperties
<1>5. \A m \in 1 .. Len(idle) : idle[m] # p
  BY DEF Owners, IdleFree
<1>6. p \in inUse => p \in open \ doomed /\ p \notin abandoned
  BY DEF Owners, UsedOpen, Left
<1>7. \A g \in Fetches : mine'[g] # NoPage => mine'[g] # p
  BY <1>3 DEF Owners, Apart
<1>8. \A m \in 1 .. Len(idle') : \/ m \in 1 .. Len(idle) /\ idle'[m] = idle[m]
                                 \/ m = Len(idle) + 1 /\ p \in inUse /\ idle'[m] = p
  BY <1>2, <1>4
<1> HIDE DEF p
<1>9. IdleOnce'
  <2> SUFFICES ASSUME NEW m \in 1 .. Len(idle'), NEW n \in 1 .. Len(idle'), idle'[m] = idle'[n]
               PROVE  m = n
    BY DEF IdleOnce
  <2> QED
    BY <1>5, <1>8 DEF Owners, IdleOnce
<1>10. IdleFree'
  <2> SUFFICES ASSUME NEW m \in 1 .. Len(idle')
               PROVE  idle'[m] \in open' \ (inUse' \cup doomed') /\ \A g \in Fetches : mine'[g] # idle'[m]
    BY DEF IdleFree
  <2>1. CASE m \in 1 .. Len(idle) /\ idle'[m] = idle[m]
    <3>1. idle[m] \in Pages
      BY <2>1, <1>2, ElementOfSeq
    <3> QED
      BY <2>1, <3>1, <1>1, <1>2, <1>3 DEF Owners, IdleFree
  <2>2. CASE p \in inUse /\ idle'[m] = p
    BY <2>2, <1>1, <1>2, <1>6, <1>7
  <2> QED
    BY <1>8, <2>1, <2>2
<1>11. Apart' /\ UsedOpen'
  BY <1>1, <1>3 DEF Owners, Apart, UsedOpen
<1>12. Left'
  <2>1. \A q \in inUse' : (\A g \in Fetches : mine'[g] # q) <=> (\A g \in Fetches : mine[g] # q)
    BY <1>1, <1>2, <1>3 DEF p
  <2>2. p \notin abandoned
    BY <1>6 DEF Owners, Left
  <2> QED
    BY <1>1, <2>1, <2>2 DEF Owners, Left
<1>13. Whereabouts'
  BY <1>1, <1>3 DEF Owners, Whereabouts, Carrying, InCheckout
<1> QED
  BY <1>9, <1>10, <1>11, <1>12, <1>13 DEF Owners

LEMMA DiscardKeepsOwners ==
  ASSUME TypeOK, Owners, NEW f \in Fetches, Discard(f)
  PROVE  Owners'
<1>1. /\ inUse' = inUse \ {mine[f]} /\ UNCHANGED <<mine, idle, doomed, open, abandoned>>
      /\ at[f] = "discard" /\ kind' = kind
  BY DEF Discard, NotifyAll, Ended
<1>2. \A g \in Fetches : at'[g] = IF g = f THEN "close" ELSE IF at[g] = "wait" THEN "relock" ELSE at[g]
  BY DEF TypeOK, Discard, NotifyAll
<1>3. IdleOnce' /\ IdleFree' /\ Apart' /\ UsedOpen'
  BY <1>1 DEF Owners, IdleOnce, IdleFree, Apart, UsedOpen
<1>4. Left'
  BY <1>1 DEF Owners, Left
<1>5. Whereabouts'
  BY <1>1, <1>2 DEF Owners, Whereabouts, Carrying, InCheckout
<1> QED
  BY <1>3, <1>4, <1>5 DEF Owners

(* A page that is being closed is in use no longer, and that of a fetch    *)
(* that is cancelled is abandoned if it is.                                *)
LEMMA DropKeepsOwners ==
  ASSUME TypeOK, Owners, NEW f \in Fetches, Recycled(f) \/ Close(f) \/ Cancel(f)
  PROVE  Owners'
<1>1. /\ mine' = [mine EXCEPT ![f] = NoPage] /\ UNCHANGED <<idle, inUse, doomed>>
  BY DEF Recycled, Close, Cancel
<1>2. /\ inUse \subseteq Pages /\ NoPage \notin Pages
  BY CrawlerAssumption DEF TypeOK
<1>3. /\ open' \in {open, open \ {mine[f]}}
      /\ open' # open => mine[f] \notin inUse
      /\ abandoned' = abandoned \cup ({mine[f]} \cap inUse)
  BY DEF Recycled, Close, Cancel, Owners, Whereabouts
<1>4. PICK s \in Places : /\ at' = [at EXCEPT ![f] = s] /\ (s \in InCheckout => kind'[f] = "pooled")
                          /\ \A g \in Fetches \ {f} : kind'[g] = kind[g]
                          /\ s \notin {"recycling", "close"}
  <2>1. CASE Recycled(f)
    <3>1. Goto(f, "recycle") /\ kind[f] = "pooled"
      BY <2>1 DEF Recycled, Owners, Whereabouts, InCheckout
    <3> QED
      BY <3>1, KindIs, PlaceNames DEF Holding, TypeOK
  <2>2. CASE Close(f) \/ Cancel(f)
    <3>1. Goto(f, "idle") \/ Retry(f)
      BY <2>2 DEF Close, Cancel
    <3>2. PICK s \in {"idle", "polite"}, k \in Kinds :
            at' = [at EXCEPT ![f] = s] /\ kind' = [kind EXCEPT ![f] = k]
      BY <3>1, KindIs DEF Kinds, TypeOK
    <3> QED
      BY <3>2, PlaceNames DEF InCheckout, TypeOK
  <2> QED
    BY <2>1, <2>2
<1>5. \A g \in Fetches : /\ mine'[g] = IF g = f THEN NoPage ELSE mine[g]
                         /\ at'[g] = IF g = f THEN s ELSE at[g]
  BY <1>1, <1>4 DEF TypeOK
<1>6. IdleOnce' /\ Apart' /\ UsedOpen'
  BY <1>1, <1>3, <1>5 DEF Owners, IdleOnce, Apart, UsedOpen
<1>7. IdleFree'
  <2> SUFFICES ASSUME NEW m \in 1 .. Len(idle)
               PROVE  idle[m] \in open' \ (inUse \cup doomed) /\ \A g \in Fetches : mine'[g] # idle[m]
    BY <1>1 DEF IdleFree
  <2>1. idle[m] # NoPage
    BY <1>2, ElementOfSeq DEF TypeOK
  <2> QED
    BY <2>1, <1>3, <1>5 DEF Owners, IdleFree
<1>8. Left'
  <2> SUFFICES ASSUME NEW q \in inUse
               PROVE  q \in abandoned' <=> \A g \in Fetches : mine'[g] # q
    BY <1>1, <1>3 DEF Owners, Left
  <2>1. CASE q = mine[f]
    <3>1. \A g \in Fetches : mine'[g] # q
      BY <2>1, <1>2, <1>5 DEF Owners, Apart
    <3> QED
      BY <2>1, <3>1, <1>3
  <2>2. CASE q # mine[f]
    BY <2>2, <1>2, <1>3, <1>5 DEF Owners, Left
  <2> QED
    BY <2>1, <2>2
<1>9. Whereabouts'
  BY <1>1, <1>2, <1>4, <1>5 DEF Owners, Whereabouts
<1> QED
  BY <1>6, <1>7, <1>8, <1>9 DEF Owners

(* Clearing empties the pool; nobody's page is in it any more.             *)
LEMMA ClearKeepsOwners ==
  ASSUME TypeOK, Owners, Clear
  PROVE  Owners'
<1>1. /\ idle' = <<>> /\ inUse' = {} /\ abandoned' = {} /\ UNCHANGED <<mine, kind>>
      /\ \A f \in Fetches : at'[f] = IF at[f] = "wait" THEN "relock" ELSE at[f]
  BY DEF Clear
<1> QED
  BY <1>1, EmptySeq DEF Owners, IdleOnce, IdleFree, Apart, UsedOpen, Left, Whereabouts, Carrying, InCheckout

LEMMA OwnersStep ==
  ASSUME TypeOK, Owners, [Next]_vars
  PROVE  Owners'
<1>1. ASSUME NEW f \in Fetches, Step(f) \/ Cancel(f) \/ \E k \in Kinds : Begin(f, k) PROVE Owners'
  BY <1>1, EmptyStepKeepsOwners, PopKeepsOwners, CreatedKeepsOwners, CheckinKeepsOwners,
     DiscardKeepsOwners, DropKeepsOwners DEF Step
<1>2. CASE Clear
  BY <1>2, ClearKeepsOwners
<1>3. ASSUME NEW p \in Pages, ClosePage(p) PROVE Owners'
  <2>1. p \in doomed /\ doomed' = doomed \ {p} /\ open' = open \ {p}
        /\ UNCHANGED <<at, kind, mine, idle, inUse, abandoned>>
    BY <1>3 DEF ClosePage, fetchVars
  <2>2. IdleOnce' /\ IdleFree' /\ Apart' /\ UsedOpen'
    BY <2>1 DEF Owners, IdleOnce, IdleFree, Apart, UsedOpen
  <2>3. Left' /\ Whereabouts'
    BY <2>1 DEF Owners, Left, Whereabouts
  <2> QED
    BY <2>2, <2>3 DEF Owners
<1>4. ASSUME (\E f \in Fetches : Expire(f)) \/ Age \/ UNCHANGED vars PROVE Owners'
  <2>1. UNCHANGED <<at, kind, mine, idle, inUse, doomed, open, abandoned>>
    BY <1>4 DEF Expire, Age, vars, fetchVars, poolVars
  <2> QED
    BY <2>1 DEF Owners, IdleOnce, IdleFree, Apart, UsedOpen, Left, Whereabouts
<1> QED
  BY <1>1, <1>2, <1>3, <1>4 DEF Next

LEMMA OwnersAreSingle == TypeOK /\ Owners => OneOwner
<1> SUFFICES ASSUME TypeOK, Owners PROVE OneOwner
  OBVIOUS
<1>1. ASSUME NEW p \in inUse
      PROVE  LET owners == {f \in Fetches : mine[f] = p}
             IN IF p \in abandoned THEN owners = {} ELSE Cardinality(owners) = 1
  <2>1. CASE p \in abandoned
    BY <2>1 DEF Owners, Left
  <2>2. CASE p \notin abandoned
    <3>1. PICK f \in Fetches : mine[f] = p
      BY <2>2 DEF Owners, Left
    <3>2. p # NoPage
      BY CrawlerAssumption DEF TypeOK
    <3>3. {g \in Fetches : mine[g] = p} = {f}
      BY <3>1, <3>2 DEF Owners, Apart
    <3> QED
      BY <2>2, <3>3, FS_Singleton
  <2> QED
    BY <2>1, <2>2
<1> QED
  BY <1>1 DEF Owners, IdleOnce, IdleFree, OneOwner

(* No page is in two places: in the queue twice, in the queue and with a   *)
(* fetch, or with two fetches (pool.py checkout, checkin, discard, clear,  *)
(* and crawler.py, which gives back what it got, however it is cancelled). *)
THEOREM OneOwnerHolds == Spec => []OneOwner
<1>1. Spec => []Owners
  BY OwnersInit, OwnersStep, TypeCorrect, PTL DEF Spec
<1> QED
  BY <1>1, TypeCorrect, OwnersAreSingle, PTL
=============================================================================
