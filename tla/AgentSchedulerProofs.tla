------------------------ MODULE AgentSchedulerProofs ------------------------
(***************************************************************************)
(* Proofs about AgentScheduler, for any number of requests, workers and    *)
(* starts, and about Pipeline, what the workers of the agent do with a     *)
(* task, for any number of workers and any products.                       *)
(***************************************************************************)
EXTENDS AgentScheduler, Sessions, FiniteSetTheorems, TLAPS

-----------------------------------------------------------------------------
(* Types *)

\* Appending the new workers to the list keeps its type and only makes it longer.
LEMMA Appended ==
  ASSUME NEW list \in Seq(WorkerStates), NEW n \in Nat
  PROVE  LET more == list \o [i \in 1 .. n |-> "idle"] IN
         /\ more \in Seq(WorkerStates)
         /\ Len(more) = Len(list) + n
<1>1. [i \in 1 .. n |-> "idle"] \in Seq(WorkerStates) /\ Len([i \in 1 .. n |-> "idle"]) = n
  BY DEF WorkerStates
<1> HIDE DEF WorkerStates
<1>2. QED
  BY <1>1

\* Setting one worker's state keeps the type of the list and its length.
LEMMA OneSet ==
  ASSUME NEW S, NEW list \in Seq(S), NEW i, NEW s \in S
  PROVE  LET new == [list EXCEPT ![i] = s] IN
         /\ new \in Seq(S)
         /\ Len(new) = Len(list)
         /\ \A j \in 1 .. Len(list) : new[j] = IF j = i THEN s ELSE list[j]
<1> DEFINE new == [list EXCEPT ![i] = s]
<1>1. Len(list) \in Nat /\ DOMAIN list = 1 .. Len(list)
  OBVIOUS
<1>2. \A j \in 1 .. Len(list) : list[j] \in S
  BY <1>1
<1>3. new = [j \in 1 .. Len(list) |-> IF j = i THEN s ELSE list[j]]
  BY <1>1
<1>4. new \in [1 .. Len(list) -> S]
  BY <1>2, <1>3
<1>5. new \in Seq(S) /\ Len(new) = Len(list)
  BY <1>1, <1>4
<1>6. QED
  BY <1>3, <1>5

\* A recovery keeps the type of the list and its length.
LEMMA Revived ==
  ASSUME NEW list \in Seq(WorkerStates)
  PROVE  LET new == [i \in DOMAIN list |-> IF list[i] = "stopped" THEN "idle" ELSE list[i]] IN
         /\ new \in Seq(WorkerStates)
         /\ Len(new) = Len(list)
  BY SMT DEF WorkerStates

LEMMA ToldType ==
  ASSUME NEW s \in WorkerStates
  PROVE  Told(s) \in WorkerStates /\ (s # "stopped" => Told(s) # "stopped")
  BY DEF Told, WorkerStates

\* The part of a stop's walk over the workers that the type depends on.
LEMMA StopFromTyped ==
  ASSUME TypeOK, NEW r \in Requests, NEW list \in Seq(WorkerStates), NEW i \in Nat,
         Len(list) = Len(pool),
         StopFrom(r, list, i)
  PROVE  /\ pool' \in Seq(WorkerStates)
         /\ Len(pool') = Len(pool)
         /\ at' \in [Requests -> StopPlaces]
         /\ pos' \in [Requests -> Nat]
         /\ stranded' \in BOOLEAN
         /\ \A q \in Requests :
              \/ q # r /\ at'[q] = at[q] /\ pos'[q] = pos[q]
              \/ q = r /\ at'[q] = "none"
              \/ q = r /\ at'[q] = "worker" /\ pos'[q] \in 1 .. Len(pool)
<1>1. CASE ToStop(list, i) = {} /\ pool' = list /\ at' = [at EXCEPT ![r] = "none"]
           /\ UNCHANGED <<pos, stranded>>
  BY <1>1 DEF TypeOK, StopPlaces
<1>2. ASSUME NEW j \in ToStop(list, i),
             pool' = [list EXCEPT ![j] = Told(@)],
             at' = [at EXCEPT ![r] = "worker"],
             pos' = [pos EXCEPT ![r] = j],
             stranded' \in {stranded, TRUE}
      PROVE  /\ pool' \in Seq(WorkerStates)
             /\ Len(pool') = Len(pool)
             /\ at' \in [Requests -> StopPlaces]
             /\ pos' \in [Requests -> Nat]
             /\ stranded' \in BOOLEAN
             /\ \A q \in Requests :
                  \/ q # r /\ at'[q] = at[q] /\ pos'[q] = pos[q]
                  \/ q = r /\ at'[q] = "none"
                  \/ q = r /\ at'[q] = "worker" /\ pos'[q] \in 1 .. Len(pool)
  <2>1. j \in 1 .. Len(list) /\ j \in Nat
    BY DEF ToStop
  <2>2. list[j] \in WorkerStates
    BY <2>1
  <2>3. Told(list[j]) \in WorkerStates
    BY <2>2, ToldType
  <2>4. pool' \in Seq(WorkerStates) /\ Len(pool') = Len(pool)
    <3>1. pool' = [list EXCEPT ![j] = Told(list[j])]
      BY <1>2
    <3>2. /\ [list EXCEPT ![j] = Told(list[j])] \in Seq(WorkerStates)
          /\ Len([list EXCEPT ![j] = Told(list[j])]) = Len(list)
      BY <2>3, OneSet
    <3>3. QED
      BY <3>1, <3>2
  <2>5. QED
    BY <1>2, <2>1, <2>4 DEF TypeOK, StopPlaces
<1>3. QED
  BY <1>1, <1>2 DEF StopFrom

LEMMA TypeInit == Init => TypeOK
<1> SUFFICES ASSUME Init PROVE TypeOK
  OBVIOUS
<1>1. <<>> \in Seq(WorkerStates) /\ 0 \in 0 .. MaxStarts /\ 0 \in 0 .. Suppliers /\ 0 \in 0 .. MaxQueued
  BY AgentAssumption
<1>2. QED
  BY <1>1 DEF Init, TypeOK, Statuses, SchedulerPlaces, RecoveryPlaces, StopPlaces

LEMMA TypeStart == TypeOK /\ Start => TypeOK'
<1> SUFFICES ASSUME TypeOK, Start PROVE TypeOK'
  OBVIOUS
<1>1. WorkerCount \in Nat /\ MaxStarts \in Nat /\ starts \in Nat
  BY AgentAssumption DEF TypeOK
<1>2. pool' \in Seq(WorkerStates) /\ Len(pool') = Len(pool) + WorkerCount
  BY <1>1, Appended DEF TypeOK, Start
<1>3. Len(pool) \in Nat
  BY DEF TypeOK
<1>4. starts' \in 0 .. MaxStarts
  BY <1>1 DEF TypeOK, Start
<1>5. \A r \in Requests :
        /\ at[r] \in {"scheduler", "recovery"} => pos[r] \in 1 .. starts'
        /\ at[r] \in {"worker", "next"} => pos[r] \in 1 .. Len(pool')
  BY <1>1, <1>2, <1>3 DEF TypeOK, Start
<1>6. QED
  BY <1>2, <1>4, <1>5 DEF TypeOK, Start, Statuses, SchedulerPlaces, RecoveryPlaces, stopVars, queueVars

LEMMA TypeStop == \A r \in Requests : TypeOK /\ StopStep(r) => TypeOK'
<1> SUFFICES ASSUME NEW r \in Requests, TypeOK, StopStep(r) PROVE TypeOK'
  OBVIOUS
<1>0. starts \in 0 .. MaxStarts /\ MaxStarts \in Nat /\ starts \in Nat /\ Len(pool) \in Nat
  BY AgentAssumption DEF TypeOK
<1>1. CASE StopBegin(r)
  <2>1. starts # 0 => starts \in 1 .. starts
    BY <1>0
  <2>2. scheduler' \in [Runs -> SchedulerPlaces]
    BY <1>1 DEF StopBegin, TypeOK, Cancelled, SchedulerPlaces
  <2>4. \A k \in Runs : scheduler'[k] = "enqueue" => scheduler[k] = "enqueue"
    BY <1>1 DEF StopBegin, TypeOK, Cancelled
  <2>3. QED
    BY <1>0, <1>1, <2>1, <2>2, <2>4 DEF StopBegin, TypeOK, Statuses, StopPlaces, stopVars, queueVars
<1>2. CASE StopRecovery(r)
  <2>1. starts \in 1 .. starts
    BY <1>0, <1>2 DEF StopRecovery, TypeOK
  <2>2. recovery' \in [Runs -> RecoveryPlaces]
    BY <1>2 DEF StopRecovery, TypeOK, Cancelled, RecoveryPlaces
  <2>3. QED
    BY <1>0, <1>2, <2>1, <2>2 DEF StopRecovery, TypeOK, StopPlaces, queueVars
<1>3. CASE StopNext(r)
  <2>1. PICK list \in Seq(WorkerStates), i \in Nat : Len(list) = Len(pool) /\ StopFrom(r, list, i)
    <3>1. pool \in Seq(WorkerStates) /\ 0 \in Nat
      BY DEF TypeOK
    <3>2. [pool EXCEPT ![pos[r]] = "stopped"] \in Seq(WorkerStates)
          /\ Len([pool EXCEPT ![pos[r]] = "stopped"]) = Len(pool)
      <4>1. "stopped" \in WorkerStates
        BY DEF WorkerStates
      <4>2. QED
        BY <3>1, <4>1, OneSet
    <3>3. pos[r] \in Nat
      BY DEF TypeOK
    <3>4. QED
      BY <1>3, <3>1, <3>2, <3>3 DEF StopNext
  <2>2. /\ pool' \in Seq(WorkerStates)
        /\ Len(pool') = Len(pool)
        /\ at' \in [Requests -> StopPlaces]
        /\ pos' \in [Requests -> Nat]
        /\ stranded' \in BOOLEAN
        /\ \A q \in Requests :
             \/ q # r /\ at'[q] = at[q] /\ pos'[q] = pos[q]
             \/ q = r /\ at'[q] = "none"
             \/ q = r /\ at'[q] = "worker" /\ pos'[q] \in 1 .. Len(pool)
    BY <2>1, StopFromTyped
  <2>3. UNCHANGED <<running, status, starts, loopVars, queued>>
    BY <1>3 DEF StopNext
  <2>4. \A q \in Requests :
          /\ at'[q] \in {"scheduler", "recovery"} => pos'[q] \in 1 .. starts
          /\ at'[q] \in {"worker", "next"} => pos'[q] \in 1 .. Len(pool)
    BY <2>2 DEF TypeOK
  <2>5. QED
    BY <2>2, <2>3, <2>4 DEF TypeOK, loopVars
<1>4. QED
  BY <1>1, <1>2, <1>3 DEF StopStep

LEMMA TypeLoops == \A k \in Runs : TypeOK /\ (SchedulerStep(k) \/ RecoveryStep(k)) => TypeOK'
<1> SUFFICES ASSUME NEW k \in Runs, TypeOK, SchedulerStep(k) \/ RecoveryStep(k) PROVE TypeOK'
  OBVIOUS
<1>0. Suppliers \in Nat \ {0} /\ MaxQueued \in Nat \ {0}
  BY AgentAssumption
<1>1. CASE SchedulerWake(k)
  <2>0. Suppliers \in 0 .. Suppliers /\ Suppliers # 0
    BY <1>0
  <2>1. todo' \in [Runs -> 0 .. Suppliers]
    BY <2>0, <1>1 DEF SchedulerWake, TypeOK
  <2>4. \A i \in Runs : scheduler'[i] = "enqueue" => todo'[i] # 0
    BY <2>0, <1>1 DEF SchedulerWake, TypeOK
  <2>2. scheduler' \in [Runs -> SchedulerPlaces]
    BY <1>1 DEF SchedulerWake, TypeOK, SchedulerPlaces
  <2>3. QED
    BY <1>1, <2>1, <2>2, <2>4 DEF SchedulerWake, TypeOK, stopVars, queueVars
<1>2. CASE Enqueue(k)
  <2>0. todo[k] \in 0 .. Suppliers /\ todo[k] # 0
    BY <1>2 DEF Enqueue, TypeOK
  <2>5. \A i \in Runs : scheduler'[i] = "enqueue" => todo'[i] # 0
    BY <1>0, <2>0, <1>2 DEF Enqueue, TypeOK
  <2>1. todo' \in [Runs -> 0 .. Suppliers]
    BY <1>0, <2>0, <1>2 DEF Enqueue, TypeOK
  <2>2. scheduler' \in [Runs -> SchedulerPlaces]
    BY <1>2 DEF Enqueue, TypeOK, SchedulerPlaces
  <2>3. queued' \in 0 .. MaxQueued
    BY <1>0, <1>2 DEF Enqueue, TypeOK, More
  <2>4. QED
    BY <1>2, <2>1, <2>2, <2>3, <2>5 DEF Enqueue, TypeOK, stopVars
<1>3. CASE PollEmpty(k) \/ PollGivesUp(k) \/ SchedulerEnds(k)
  BY <1>3 DEF PollEmpty, PollGivesUp, SchedulerEnds, TypeOK, SchedulerPlaces, stopVars, queueVars
<1>4. CASE CycleFails(k)
  <2>1. todo' \in [Runs -> 0 .. Suppliers]
    BY <1>0, <1>4 DEF CycleFails, TypeOK
  <2>2. QED
    BY <1>4, <2>1 DEF CycleFails, TypeOK, SchedulerPlaces, stopVars, queueVars
<1>5. CASE RecoveryWake(k) /\ ~running
  BY <1>5 DEF RecoveryWake, TypeOK, RecoveryPlaces, queueVars
<1>6. CASE RecoveryWake(k) /\ running
  <2>1. pool' \in Seq(WorkerStates) /\ Len(pool') = Len(pool)
    BY <1>6, Revived DEF RecoveryWake, TypeOK
  <2>2. at' \in [Requests -> StopPlaces]
    BY <1>6 DEF RecoveryWake, TypeOK, StopPlaces
  <2>5. status' \in Statuses
    BY <1>6 DEF RecoveryWake, TypeOK, Statuses
  <2>6. recovery' \in [Runs -> RecoveryPlaces]
    BY <1>6 DEF RecoveryWake, TypeOK, RecoveryPlaces
  <2>3. \A q \in Requests : at'[q] = at[q] \/ (at[q] = "worker" /\ at'[q] = "next")
    BY <1>6 DEF RecoveryWake, TypeOK
  <2>4. QED
    BY <1>6, <2>1, <2>2, <2>3, <2>5, <2>6 DEF RecoveryWake, TypeOK, queueVars
<1>7. CASE RecoveryLoops(k) \/ RecoveryFails(k) \/ RecoveryEnds(k)
  BY <1>7 DEF RecoveryLoops, RecoveryFails, RecoveryEnds, TypeOK, RecoveryPlaces, stopVars, queueVars
<1>8. QED
  BY <1>1, <1>2, <1>3, <1>4, <1>5, <1>6, <1>7 DEF SchedulerStep, SchedulerRuns, RecoveryStep

LEMMA TypeWorkers == \A i \in DOMAIN pool : TypeOK /\ WorkerStep(i) => TypeOK'
<1> SUFFICES ASSUME NEW i \in DOMAIN pool, TypeOK, WorkerStep(i) PROVE TypeOK'
  OBVIOUS
<1>0. MaxQueued \in Nat \ {0} /\ queued \in 0 .. MaxQueued /\ pool \in Seq(WorkerStates)
  BY AgentAssumption DEF TypeOK
<1>1. /\ "busy" \in WorkerStates /\ "idle" \in WorkerStates /\ "ended" \in WorkerStates
  BY DEF WorkerStates
<1>2. \A s \in WorkerStates : /\ [pool EXCEPT ![i] = s] \in Seq(WorkerStates)
                               /\ Len([pool EXCEPT ![i] = s]) = Len(pool)
  BY <1>0, OneSet
<1>3. CASE Take(i)
  <2>1. queued' \in 0 .. MaxQueued
    BY <1>0, <1>3 DEF Take, Fewer
  <2>2. QED
    BY <1>1, <1>2, <1>3, <2>1 DEF Take, TypeOK, loopVars, stopVars
<1>4. CASE Finish(i)
  <2>1. queued' \in 0 .. MaxQueued
    BY <1>0, <1>4 DEF Finish, More, queueVars
  <2>3. stranded' \in BOOLEAN
    BY <1>4 DEF Finish, TypeOK, queueVars
  <2>2. QED
    BY <1>1, <1>2, <1>4, <2>1, <2>3 DEF Finish, TypeOK, loopVars, stopVars
<1>5. CASE WorkerEnds(i)
  BY <1>1, <1>2, <1>5 DEF WorkerEnds, TypeOK, loopVars, stopVars, queueVars
<1>6. QED
  BY <1>3, <1>4, <1>5 DEF WorkerStep

LEMMA TypeNext == TypeOK /\ [Next]_vars => TypeOK'
<1> SUFFICES ASSUME TypeOK, [Next]_vars PROVE TypeOK'
  OBVIOUS
<1>1. CASE Pause \/ Resume
  BY <1>1 DEF Pause, Resume, TypeOK, Statuses, loopVars, stopVars, queueVars
<1>2. CASE ClearQueue
  <2>1. 0 \in 0 .. MaxQueued
    BY AgentAssumption
  <2>2. QED
    BY <1>2, <2>1 DEF ClearQueue, TypeOK, loopVars, stopVars
<1>3. CASE UNCHANGED vars
  BY <1>3 DEF vars, TypeOK, loopVars, stopVars, queueVars
<1>4. QED
  BY <1>1, <1>2, <1>3, TypeStart, TypeStop, TypeLoops, TypeWorkers DEF Next

\* Every variable keeps its type, a stop awaits a run or a position that exists, and
\* a loop that enqueues has a task left.
THEOREM TypeCorrect == Spec => []TypeOK
<1>1. QED
  BY TypeInit, TypeNext, PTL DEF Spec

-----------------------------------------------------------------------------
(* At most one scheduler loop.  The invariant is inductive with the types:  *)
(* a start needs ~running, and running becomes FALSE only in the step that *)
(* cancels the loop of the last start.                                     *)

LEMMA OneSchedulerInit == Init => OneScheduler
  BY DEF Init, OneScheduler, Live

LEMMA OneSchedulerNext == TypeOK /\ OneScheduler /\ [Next]_vars => OneScheduler'
<1> SUFFICES ASSUME TypeOK, OneScheduler, [Next]_vars PROVE OneScheduler'
  OBVIOUS
<1>1. CASE Start
  <2>1. starts \in Nat /\ starts + 1 \in Runs
    BY <1>1, AgentAssumption DEF Start, TypeOK, Runs
  <2>2. \A k \in Runs : k # starts + 1 => ~Live(scheduler'[k])
    BY <1>1, <2>1 DEF Start, TypeOK, OneScheduler
  <2>3. Live(scheduler'[starts + 1])
    BY <1>1, <2>1 DEF Start, TypeOK, Live
  <2>4. QED
    BY <1>1, <2>1, <2>2, <2>3 DEF Start, OneScheduler
<1>2. ASSUME NEW r \in Requests, StopBegin(r) PROVE OneScheduler'
  <2>1. \A k \in Runs : k # starts => scheduler'[k] = scheduler[k]
    BY <1>2 DEF StopBegin, TypeOK
  <2>2. starts # 0 => starts \in Runs
    BY AgentAssumption DEF TypeOK, Runs
  <2>3. starts # 0 => ~Live(scheduler'[starts])
    BY <1>2, <2>2 DEF StopBegin, TypeOK, Live, Cancelled
  <2>4. \A k \in Runs : k # 0
    BY DEF Runs
  <2>5. QED
    BY <1>2, <2>1, <2>3, <2>4 DEF StopBegin, OneScheduler
<1>3. ASSUME NEW r \in Requests, StopRecovery(r) \/ StopNext(r) PROVE OneScheduler'
  BY <1>3 DEF StopRecovery, StopNext, OneScheduler, loopVars
<1>4. ASSUME NEW k \in Runs, SchedulerStep(k) PROVE OneScheduler'
  <2>1. \A i \in Runs : i # k => scheduler'[i] = scheduler[i]
    BY <1>4 DEF SchedulerStep, SchedulerRuns, SchedulerWake, Enqueue, PollEmpty, PollGivesUp,
                CycleFails, SchedulerEnds, TypeOK
  <2>2. UNCHANGED <<running, starts>>
    BY <1>4 DEF SchedulerStep, SchedulerRuns, SchedulerWake, Enqueue, PollEmpty, PollGivesUp,
                CycleFails, SchedulerEnds
  <2>3. Live(scheduler'[k]) <=> Live(scheduler[k])
    <3>1. Live(scheduler[k]) => running
      BY DEF OneScheduler
    <3>2. CASE SchedulerWake(k)
      BY <3>1, <3>2 DEF SchedulerWake, Live, TypeOK
    <3>3. CASE Enqueue(k) \/ PollEmpty(k) \/ PollGivesUp(k) \/ CycleFails(k) \/ SchedulerEnds(k)
      BY <3>3 DEF Enqueue, PollEmpty, PollGivesUp, CycleFails, SchedulerEnds, Live, TypeOK
    <3>4. QED
      BY <1>4, <3>2, <3>3 DEF SchedulerStep, SchedulerRuns
  <2>4. QED
    BY <2>1, <2>2, <2>3 DEF OneScheduler
<1>5. ASSUME NEW k \in Runs, RecoveryStep(k) PROVE OneScheduler'
  BY <1>5 DEF RecoveryStep, RecoveryWake, RecoveryLoops, RecoveryFails, RecoveryEnds, OneScheduler
<1>6. ASSUME NEW i \in DOMAIN pool, WorkerStep(i) PROVE OneScheduler'
  BY <1>6 DEF WorkerStep, Take, Finish, WorkerEnds, OneScheduler, loopVars
<1>7. CASE Pause \/ Resume \/ ClearQueue \/ UNCHANGED vars
  BY <1>7 DEF Pause, Resume, ClearQueue, vars, OneScheduler, loopVars
<1>8. QED
  BY <1>1, <1>2, <1>3, <1>4, <1>5, <1>6, <1>7 DEF Next, StopStep

\* At most one scheduler loop is at work: the one of the last start, exactly while
\* the agent runs, however many requests start and stop it at once.
THEOREM OneSchedulerHolds == Spec => []OneScheduler
<1>1. QED
  BY TypeInit, TypeNext, OneSchedulerInit, OneSchedulerNext, PTL DEF Spec

-----------------------------------------------------------------------------
(* Stopped means stopped.  What holds while stops are still on their way:   *)
(* a stopped agent's live worker is ahead of some stop, which will reach   *)
(* it.  A stop that begins is ahead of all of them, and only a running     *)
(* agent gets new workers, at the end of the list or in the place of one   *)
(* that has ended.                                                         *)

Reaches(r, i) ==
  \/ at[r] \in {"scheduler", "recovery"}
  \/ at[r] = "worker" /\ pos[r] <= i
  \/ at[r] = "next" /\ pos[r] < i

EveryoneIsReached ==
  ~running => \A i \in 1 .. Len(pool) : pool[i] = "stopped" \/ \E r \in Requests : Reaches(r, i)

NobodyBeforeTheFirstStart == starts = 0 => pool = <<>>

Stopped == NobodyBeforeTheFirstStart /\ EveryoneIsReached

LEMMA StoppedInit == Init => Stopped
  BY DEF Init, Stopped, NobodyBeforeTheFirstStart, EveryoneIsReached

\* A stop that goes on after position i leaves no live worker behind: the ones up to i
\* that it answered for have stopped, and the ones after i it reaches still.
LEMMA StopGoesOn ==
  ASSUME TypeOK, EveryoneIsReached, NEW r \in Requests, NEW i \in Nat,
         NEW list \in Seq(WorkerStates), Len(list) = Len(pool),
         StopFrom(r, list, i), UNCHANGED running,
         \A j \in 1 .. Len(pool) :
           list[j] # "stopped" => pool[j] # "stopped" /\ (Reaches(r, j) => j > i)
  PROVE  EveryoneIsReached'
<1> SUFFICES ASSUME ~running, NEW k \in 1 .. Len(pool), pool'[k] # "stopped"
             PROVE  \E q \in Requests : Reaches(q, k)'
  <2>1. Len(pool') = Len(pool)
    BY StopFromTyped
  <2>2. QED
    BY <2>1 DEF EveryoneIsReached
<1>1. list[k] # "stopped"
  <2>1. CASE pool' = list
    BY <2>1
  <2>2. ASSUME NEW j \in ToStop(list, i), pool' = [list EXCEPT ![j] = Told(@)] PROVE list[k] # "stopped"
    BY <2>2 DEF ToStop
  <2>3. QED
    BY <2>1, <2>2 DEF StopFrom
<1>2. PICK q \in Requests : Reaches(q, k)
  BY <1>1 DEF EveryoneIsReached
<1>3. CASE q # r
  <2>1. at'[q] = at[q] /\ pos'[q] = pos[q]
    BY <1>3, StopFromTyped DEF StopPlaces
  <2>2. Reaches(q, k)'
    BY <1>2, <2>1 DEF Reaches
  <2>3. QED
    BY <2>2
<1>4. CASE q = r
  <2>1. k > i /\ k \in i + 1 .. Len(list)
    BY <1>1, <1>2, <1>4
  <2>2. k \in ToStop(list, i)
    BY <1>1, <2>1 DEF ToStop
  <2>3. PICK j \in ToStop(list, i) :
          /\ \A other \in ToStop(list, i) : j <= other
          /\ at' = [at EXCEPT ![r] = "worker"]
          /\ pos' = [pos EXCEPT ![r] = j]
    BY <2>2 DEF StopFrom
  <2>4. j <= k /\ at'[r] = "worker" /\ pos'[r] = j
    BY <2>2, <2>3 DEF TypeOK
  <2>5. Reaches(r, k)'
    BY <2>4 DEF Reaches
  <2>6. QED
    BY <2>5
<1>5. QED
  BY <1>3, <1>4

LEMMA StoppedStop == \A r \in Requests : TypeOK /\ Stopped /\ StopStep(r) => Stopped'
<1> SUFFICES ASSUME NEW r \in Requests, TypeOK, Stopped, StopStep(r) PROVE Stopped'
  OBVIOUS
<1>1. CASE StopBegin(r) /\ starts = 0
  BY <1>1 DEF StopBegin, Stopped, NobodyBeforeTheFirstStart, EveryoneIsReached
<1>2. CASE StopBegin(r) /\ starts # 0
  <2>1. at'[r] = "scheduler"
    BY <1>2 DEF StopBegin, TypeOK
  <2>2. \A i \in 1 .. Len(pool) : Reaches(r, i)'
    BY <2>1 DEF Reaches
  <2>3. QED
    BY <1>2, <2>2 DEF StopBegin, Stopped, NobodyBeforeTheFirstStart, EveryoneIsReached
<1>3. CASE StopRecovery(r)
  <2>1. \A q \in Requests, i \in 1 .. Len(pool) : Reaches(q, i) => Reaches(q, i)'
    BY <1>3 DEF StopRecovery, Reaches, TypeOK
  <2>2. QED
    BY <1>3, <2>1 DEF StopRecovery, Stopped, NobodyBeforeTheFirstStart, EveryoneIsReached
<1>4. CASE StopNext(r)
  <2>1. running' = running /\ starts' = starts
    BY <1>4 DEF StopNext
  <2>2. pool \in Seq(WorkerStates) /\ Len(pool) \in Nat /\ pos[r] \in Nat /\ 0 \in Nat /\ "stopped" \in WorkerStates
    BY DEF TypeOK, WorkerStates
  <2>3. CASE at[r] = "recovery" /\ StopFrom(r, pool, 0)
    <3>1. EveryoneIsReached'
      BY <2>1, <2>2, <2>3, StopGoesOn DEF Stopped
    <3>2. Len(pool') = Len(pool)
      BY <2>2, <2>3, StopFromTyped
    <3>3. QED
      BY <2>1, <2>2, <3>1, <3>2, StopFromTyped DEF Stopped, NobodyBeforeTheFirstStart
  <2>4. CASE at[r] = "worker" /\ StopFrom(r, [pool EXCEPT ![pos[r]] = "stopped"], pos[r])
    <3> DEFINE list == [pool EXCEPT ![pos[r]] = "stopped"]
    <3>1. /\ list \in Seq(WorkerStates)
          /\ Len(list) = Len(pool)
          /\ \A j \in 1 .. Len(pool) : list[j] = IF j = pos[r] THEN "stopped" ELSE pool[j]
      BY <2>2, OneSet
    <3>2. \A j \in 1 .. Len(pool) :
            list[j] # "stopped" => pool[j] # "stopped" /\ (Reaches(r, j) => j > pos[r])
      BY <2>2, <2>4, <3>1 DEF Reaches
    <3>3. StopFrom(r, list, pos[r])
      BY <2>4
    <3> HIDE DEF list
    <3>4. EveryoneIsReached'
      BY <2>1, <2>2, <3>1, <3>2, <3>3, StopGoesOn DEF Stopped
    <3>5. Len(pool') = Len(pool) /\ pool' \in Seq(WorkerStates)
      BY <2>2, <3>1, <3>3, StopFromTyped
    <3>6. QED
      BY <2>1, <2>2, <3>4, <3>5 DEF Stopped, NobodyBeforeTheFirstStart
  <2>5. CASE at[r] = "next" /\ StopFrom(r, pool, pos[r])
    <3>1. \A j \in 1 .. Len(pool) : Reaches(r, j) => j > pos[r]
      BY <2>2, <2>5 DEF Reaches
    <3>2. EveryoneIsReached'
      BY <2>1, <2>2, <2>5, <3>1, StopGoesOn DEF Stopped
    <3>3. Len(pool') = Len(pool) /\ pool' \in Seq(WorkerStates)
      BY <2>2, <2>5, StopFromTyped
    <3>4. QED
      BY <2>1, <2>2, <3>2, <3>3 DEF Stopped, NobodyBeforeTheFirstStart
  <2>6. QED
    BY <1>4, <2>3, <2>4, <2>5 DEF StopNext
<1>5. QED
  BY <1>1, <1>2, <1>3, <1>4 DEF StopStep

LEMMA StoppedNext == TypeOK /\ Stopped /\ [Next]_vars => Stopped'
<1> SUFFICES ASSUME TypeOK, Stopped, [Next]_vars PROVE Stopped'
  OBVIOUS
<1>0. pool \in Seq(WorkerStates) /\ Len(pool) \in Nat /\ DOMAIN pool = 1 .. Len(pool)
  BY DEF TypeOK
<1>1. CASE Start
  <2>1. starts + 1 # 0
    BY DEF TypeOK
  <2>2. QED
    BY <1>1, <2>1 DEF Start, Stopped, NobodyBeforeTheFirstStart, EveryoneIsReached
<1>2. ASSUME NEW k \in Runs, SchedulerStep(k) PROVE Stopped'
  <2>1. UNCHANGED <<running, starts, pool, at, pos>>
    BY <1>2 DEF SchedulerStep, SchedulerRuns, SchedulerWake, Enqueue, PollEmpty, PollGivesUp,
                CycleFails, SchedulerEnds, stopVars
  <2>2. QED
    BY <2>1 DEF Stopped, NobodyBeforeTheFirstStart, EveryoneIsReached, Reaches
<1>3. ASSUME NEW k \in Runs, RecoveryStep(k) PROVE Stopped'
  <2>1. CASE RecoveryWake(k) /\ running
    <3>1. pool = <<>> => pool' = <<>>
      BY <1>0, <2>1, Revived DEF RecoveryWake
    <3>2. QED
      BY <2>1, <3>1 DEF RecoveryWake, Stopped, NobodyBeforeTheFirstStart, EveryoneIsReached
  <2>2. CASE ~(RecoveryWake(k) /\ running)
    <3>1. UNCHANGED <<running, starts, pool, at, pos>>
      BY <1>3, <2>2 DEF RecoveryStep, RecoveryWake, RecoveryLoops, RecoveryFails, RecoveryEnds, stopVars
    <3>2. QED
      BY <3>1 DEF Stopped, NobodyBeforeTheFirstStart, EveryoneIsReached, Reaches
  <2>3. QED
    BY <2>1, <2>2
<1>4. ASSUME NEW i \in DOMAIN pool, WorkerStep(i) PROVE Stopped'
  <2>1. PICK s \in WorkerStates : pool' = [pool EXCEPT ![i] = s] /\ pool[i] # "stopped"
    BY <1>4 DEF WorkerStep, Take, Finish, WorkerEnds, WorkerStates
  <2>2. /\ Len(pool') = Len(pool)
        /\ \A j \in 1 .. Len(pool) : pool[j] = "stopped" => pool'[j] = "stopped"
    BY <1>0, <2>1, OneSet
  <2>3. UNCHANGED <<running, starts, at, pos>> /\ pool # <<>>
    BY <1>0, <1>4 DEF WorkerStep, Take, Finish, WorkerEnds, stopVars
  <2>4. QED
    BY <2>2, <2>3 DEF Stopped, NobodyBeforeTheFirstStart, EveryoneIsReached, Reaches
<1>5. CASE Pause \/ Resume \/ ClearQueue \/ UNCHANGED vars
  BY <1>5 DEF Pause, Resume, ClearQueue, vars, stopVars, Stopped, NobodyBeforeTheFirstStart,
              EveryoneIsReached, Reaches
<1>6. QED
  BY <1>1, <1>2, <1>3, <1>4, <1>5, StoppedStop DEF Next

\* Once every stop has returned and no start came after it, no worker is left alive,
\* for any number of concurrent stops and of recovery loops that outlived theirs.
THEOREM StoppedMeansStoppedHolds == Spec => []StoppedMeansStopped
<1>1. TypeOK /\ Stopped => StoppedMeansStopped
  <2> SUFFICES ASSUME TypeOK, Stopped, ~running, ~Stopping, NEW i \in DOMAIN pool
               PROVE  pool[i] = "stopped"
    BY DEF StoppedMeansStopped
  <2>1. i \in 1 .. Len(pool)
    BY DEF TypeOK
  <2>2. \A r \in Requests : ~Reaches(r, i)
    BY DEF Stopping, Reaches
  <2> QED
    BY <2>1, <2>2 DEF Stopped, EveryoneIsReached
<1>2. QED
  BY <1>1, TypeInit, TypeNext, StoppedInit, StoppedNext, PTL DEF Spec

-----------------------------------------------------------------------------
(* Pauses *)

LEMMA NoLoopResumes ==
  ASSUME TypeOK, NEW k \in Runs, SchedulerStep(k) \/ RecoveryStep(k), status = "paused"
  PROVE  status' = "paused"
<1>1. CASE RecoveryWake(k) /\ running
  <2>1. \A i \in DOMAIN pool : pool'[i] # "stopped"
    BY <1>1 DEF RecoveryWake
  <2>2. QED
    BY <1>1, <2>1 DEF RecoveryWake
<1>2. CASE ~(RecoveryWake(k) /\ running)
  BY <1>2 DEF SchedulerStep, SchedulerRuns, SchedulerWake, Enqueue, PollEmpty, PollGivesUp,
     CycleFails, SchedulerEnds, RecoveryStep, RecoveryWake, RecoveryLoops, RecoveryFails, RecoveryEnds
<1>3. QED
  BY <1>1, <1>2

\* Only a request takes the agent out of a pause: a recovery that finds every worker
\* alive writes "running" over "degraded" only.
THEOREM PauseHoldsAlways == Spec => PauseHolds
<1>1. TypeOK /\ [Next]_vars
        => [status = "paused" /\ status' # "paused"
              => Resume \/ Start \/ \E r \in Requests : StopBegin(r)]_vars
  <2> SUFFICES ASSUME TypeOK, Next, status = "paused", status' # "paused"
               PROVE  Resume \/ Start \/ \E r \in Requests : StopBegin(r)
    OBVIOUS
  <2>1. CASE Pause \/ ClearQueue
    BY <2>1 DEF Pause, ClearQueue
  <2>2. ASSUME NEW r \in Requests, StopStep(r) PROVE StopBegin(r)
    BY <2>2 DEF StopStep, StopRecovery, StopNext
  <2>3. ASSUME NEW i \in DOMAIN pool, WorkerStep(i) PROVE FALSE
    BY <2>3 DEF WorkerStep, Take, Finish, WorkerEnds
  <2>4. QED
    BY <2>1, <2>2, <2>3, NoLoopResumes DEF Next
<1>2. QED
  BY <1>1, TypeInit, TypeNext, PTL DEF Spec, PauseHolds

-----------------------------------------------------------------------------
(***************************************************************************)
(* Decisions of the agent's workers.  An id has one writer at a time; its  *)
(* record only ever becomes an error, and no more once the worker is past  *)
(* the log, so what is learnt or told then rests on a record that stays.   *)
(***************************************************************************)
W == INSTANCE Pipeline

Telling == {"remember", "notify"}
Task ==
  [type : W!TaskType, todo : Seq(Ids) \ {<<>>}, done : Nat, id : Nat, action : W!DecisionAction,
   failing : BOOLEAN, op : {"scan", "find", "retrieve"} \cup W!LogSteps \cup Telling]
Record == [sku : Ids, action : W!DecisionAction]

Decides(r) == r.op \in W!LogSteps \cup Telling
Writes(r) == r.op \in W!LogSteps

\* The log after n decisions: an id that is listed twice is an error's.
Log(x, n) ==
  /\ x = [records |-> x.records, index |-> x.index, counter |-> x.counter]
  /\ DOMAIN x.records \subseteq 1 .. n /\ \A id \in DOMAIN x.records : x.records[id] \in Record
  /\ x.index \in Seq(1 .. n) /\ x.counter \in Nat /\ \A i \in DOMAIN x.index : x.index[i] \in DOMAIN x.records
  /\ \A i, j \in DOMAIN x.index : i # j /\ x.index[i] = x.index[j] => x.records[x.index[i]].action = "ERROR"

Lists(x, id) == \E i \in DOMAIN x.index : x.index[i] = id

\* What a worker on a decision knows of it in the log.
Logs(r, x) ==
  /\ r.failing => r.action = "ERROR"
  /\ r.op = "set" /\ r.id \in DOMAIN x.records => r.failing /\ x.records[r.id].sku = Head(r.todo)
  /\ r.op # "set" => r.id \in DOMAIN x.records /\ x.records[r.id] = [sku |-> Head(r.todo), action |-> r.action]
  /\ r.op \in {"set", "lpush"} /\ Lists(x, r.id) => r.failing

\* A decision in the log that nobody writes any more.
Settled(x, sku, action) ==
  \E id \in DOMAIN x.records :
    x.records[id] = [sku |-> sku, action |-> action] /\ \A c \in Clients : Writes(req[c]) => req[c].id # id

Grounded ==
  /\ \A lesson \in mem.open : Settled(db, lesson[2], IF lesson[1] = "false_positive" THEN "AVOID" ELSE "BUY")
  /\ \A sku \in mem.notified : Settled(db, sku, "BUY")

Tellers == {c \in Clients : req[c].op \in Telling}
Toll(r) == IF r.op \in Telling THEN 1 ELSE 0

Shared == [sound : BOOLEAN, open : SUBSET W!Lesson, notified : SUBSET Ids, reported : Nat]

Working ==
  /\ \A c \in Clients : req[c] \in Task \cup {W!Idle}
  /\ \A c \in Clients : Decides(req[c]) => req[c].id \in 1 .. calls /\ Logs(req[c], db)
  /\ \A c, d \in Clients : c # d /\ Decides(req[c]) /\ Decides(req[d]) => req[c].id # req[d].id

PipelineInv ==
  /\ req = [c \in Clients |-> req[c]] /\ calls \in 0 .. MaxCalls
  /\ mem \in Shared /\ Log(db, calls)
  /\ Working /\ Grounded
  /\ mem.reported + Cardinality(Tellers) <= db.counter

-----------------------------------------------------------------------------
\* A step of one worker, which is a new decision's, the same one's or no decision's.
Moves(c, new) ==
  /\ req' = [req EXCEPT ![c] = new]
  /\ calls' \in {calls, calls + 1} /\ calls' <= MaxCalls
  /\ Decides(new) => \/ calls' = calls + 1 /\ new.id = calls'
                     \/ Decides(req[c]) /\ new.id = req[c].id /\ (Writes(new) => Writes(req[c]))

\* It may write its own decision and no other.
Respects(c, x) ==
  \A id \in 1 .. calls :
    (Writes(req[c]) => id # req[c].id) =>
      /\ id \in DOMAIN x.records <=> id \in DOMAIN db.records
      /\ id \in DOMAIN db.records => x.records[id] = db.records[id]
      /\ Lists(x, id) => Lists(db, id)

LEMMA WorkersMove ==
  ASSUME PipelineInv, NEW c \in Clients, NEW new, Moves(c, new)
  PROVE  /\ \A d \in Clients : req'[d] = IF d = c THEN new ELSE req[d]
         /\ calls \in Nat /\ calls' \in calls .. MaxCalls
BY SessionsAssumption DEF PipelineInv, Moves

LEMMA WorkersGoOn ==
  ASSUME PipelineInv, NEW c \in Clients, NEW new \in Task \cup {W!Idle}, Moves(c, new),
         Respects(c, db'), Decides(new) => Logs(new, db')
  PROVE  Working'
<1>1. /\ \A d \in Clients : req'[d] = IF d = c THEN new ELSE req[d]
      /\ calls \in Nat /\ calls' \in calls .. MaxCalls
  BY WorkersMove
<1>2. \A d \in Clients : req'[d] \in Task \cup {W!Idle}
  BY <1>1 DEF PipelineInv, Working
<1>3. Decides(new) => /\ new.id \in 1 .. calls'
                      /\ \A d \in Clients \ {c} : Decides(req[d]) => new.id # req[d].id
  <2> SUFFICES ASSUME Decides(new) PROVE new.id \in 1 .. calls' /\ \A d \in Clients \ {c} : Decides(req[d]) => new.id # req[d].id
    OBVIOUS
  <2>1. CASE calls' = calls + 1 /\ new.id = calls'
    BY <1>1, <2>1 DEF PipelineInv, Working
  <2>2. CASE Decides(req[c]) /\ new.id = req[c].id
    BY <1>1, <2>2 DEF PipelineInv, Working
  <2> QED
    BY <2>1, <2>2 DEF Moves
<1>4. ASSUME NEW d \in Clients, Decides(req'[d])
      PROVE  req'[d].id \in 1 .. calls' /\ Logs(req'[d], db')
  <2>1. CASE d = c
    BY <1>1, <1>3, <1>4, <2>1
  <2>2. CASE d # c
    <3>1. req'[d] = req[d] /\ Decides(req[d]) /\ req[d].id \in 1 .. calls /\ Logs(req[d], db)
      BY <1>1, <1>4, <2>2 DEF PipelineInv, Working
    <3>2. Writes(req[c]) => req[d].id # req[c].id
      BY <2>2, <3>1 DEF PipelineInv, Working, Writes, Decides
    <3>3. Logs(req[d], db')
      BY <3>1, <3>2 DEF Respects, Logs
    <3> QED
      BY <1>1, <3>1, <3>3
  <2> QED
    BY <2>1, <2>2
<1>5. \A d, e \in Clients : d # e /\ Decides(req'[d]) /\ Decides(req'[e]) => req'[d].id # req'[e].id
  BY <1>1, <1>3 DEF PipelineInv, Working
<1> QED
  BY <1>2, <1>4, <1>5 DEF Working, Decides, Logs, Lists

LEMMA SettledStays ==
  ASSUME PipelineInv, NEW c \in Clients, NEW new, Moves(c, new), Respects(c, db'),
         NEW sku, NEW action, Settled(db, sku, action)
  PROVE  Settled(db, sku, action)'
<1>1. /\ \A d \in Clients : req'[d] = IF d = c THEN new ELSE req[d]
      /\ calls \in Nat /\ calls' \in calls .. MaxCalls
  BY WorkersMove
<1>2. PICK id \in DOMAIN db.records : db.records[id] = [sku |-> sku, action |-> action] /\ \A d \in Clients : Writes(req[d]) => req[d].id # id
  BY DEF Settled
<1>3. id \in 1 .. calls
  BY <1>2 DEF PipelineInv, Log
<1>4. id \in DOMAIN db'.records /\ db'.records[id] = [sku |-> sku, action |-> action]
  BY <1>2, <1>3 DEF Respects
<1>5. Writes(new) => new.id # id
  <2>1. Writes(new) => Decides(new)
    BY DEF Writes, Decides
  <2>2. Decides(new) /\ Writes(new) => (new.id = calls + 1) \/ (Writes(req[c]) /\ new.id = req[c].id)
    BY DEF Moves
  <2> QED
    BY <1>1, <1>2, <1>3, <2>1, <2>2
<1>6. \A d \in Clients : Writes(req'[d]) => req'[d].id # id
  BY <1>1, <1>2, <1>5
<1> QED
  BY <1>4, <1>6 DEF Settled, Writes

LEMMA WCardinality == \A S : W!Cardinality(S) = Cardinality(S)
BY DEF W!Cardinality, Cardinality

LEMMA WIdsAsSequence == W!SetToSeq(Ids) \in Seq(Ids) \ {<<>>}
<1> DEFINE n == Cardinality(Ids)
<1>1. n \in Nat /\ ExistsBijection(1 .. n, Ids)
  BY SessionsAssumption, FS_CardinalityType
<1>2. PICK f \in [1 .. n -> Ids] : \A a, b \in 1 .. n : f[a] = f[b] => a = b
  BY <1>1 DEF ExistsBijection, Bijection, Injection, Surjection, IsInjective
<1>3. n # 0
  BY <1>1, NamesAssumption, SessionsAssumption, FS_EmptySet
<1>4. W!SetToSeq(Ids) = CHOOSE g \in [1 .. n -> Ids] : W!IsInjective(g)
  BY WCardinality DEF W!SetToSeq
<1>5. W!IsInjective(f)
  BY <1>2 DEF W!IsInjective
<1>6. W!SetToSeq(Ids) \in [1 .. n -> Ids]
  BY <1>2, <1>4, <1>5
<1> HIDE DEF n
<1>7. W!SetToSeq(Ids) \in Seq(Ids) /\ Len(W!SetToSeq(Ids)) = n
  BY <1>1, <1>6
<1> QED
  BY <1>3, <1>7

LEMMA Rest ==
  ASSUME NEW s \in Seq(Ids), s # <<>>, Len(s) # 1
  PROVE  Tail(s) \in Seq(Ids) \ {<<>>}
<1>1. Len(s) \in Nat /\ Len(s) # 0
  OBVIOUS
<1>2. Tail(s) \in Seq(Ids) /\ Len(Tail(s)) = Len(s) - 1
  OBVIOUS
<1>3. Len(Tail(s)) # 0
  BY <1>1, <1>2
<1>4. ASSUME NEW t \in Seq(Ids), Len(t) # 0
      PROVE  t \in Seq(Ids) \ {<<>>}
  <2>1. t # <<>>
    BY <1>4
  <2> QED
    BY <2>1
<1> QED
  BY <1>2, <1>3, <1>4

LEMMA TellersMove ==
  ASSUME PipelineInv, NEW c \in Clients, NEW new, Moves(c, new)
  PROVE  /\ Cardinality(Tellers') + Toll(req[c]) = Cardinality(Tellers) + Toll(new)
         /\ Cardinality(Tellers) \in Nat /\ Cardinality(Tellers') \in Nat
<1>1. \A d \in Clients : req'[d] = IF d = c THEN new ELSE req[d]
  BY WorkersMove
<1>2. Tellers \subseteq Clients /\ Tellers' \subseteq Clients /\ IsFiniteSet(Clients)
  BY SessionsAssumption DEF Tellers
<1>3. IsFiniteSet(Tellers) /\ Cardinality(Tellers) \in Nat /\ Cardinality(Tellers') \in Nat
  BY <1>2, FS_Subset, FS_CardinalityType
<1>4. Tellers' = IF new.op \in Telling THEN Tellers \cup {c} ELSE Tellers \ {c}
  BY <1>1 DEF Tellers
<1>5. /\ Cardinality(Tellers \cup {c}) = IF c \in Tellers THEN Cardinality(Tellers) ELSE Cardinality(Tellers) + 1
      /\ Cardinality(Tellers \ {c}) = IF c \in Tellers THEN Cardinality(Tellers) - 1 ELSE Cardinality(Tellers)
  BY <1>3, FS_AddElement, FS_RemoveElement
<1>6. c \in Tellers <=> req[c].op \in Telling
  BY DEF Tellers
<1> QED
  BY <1>3, <1>4, <1>5, <1>6 DEF Toll

\* A step of one worker that writes no decision but its own, learns and tells only what
\* rests on one, and counts what it reports.
LEMMA WorkerMoved ==
  ASSUME PipelineInv, NEW c \in Clients, NEW new \in Task \cup {W!Idle}, Moves(c, new),
         Respects(c, db'), Decides(new) => Logs(new, db'), Log(db', calls'), mem' \in Shared,
         \A lesson \in mem'.open \ mem.open :
           Settled(db, lesson[2], IF lesson[1] = "false_positive" THEN "AVOID" ELSE "BUY"),
         \A sku \in mem'.notified \ mem.notified : Settled(db, sku, "BUY"),
         mem'.reported + Toll(new) + db.counter <= mem.reported + Toll(req[c]) + db'.counter
  PROVE  PipelineInv'
<1>1. Working'
  BY WorkersGoOn
<1>2. \A lesson \in mem'.open : Settled(db, lesson[2], IF lesson[1] = "false_positive" THEN "AVOID" ELSE "BUY")
  BY DEF PipelineInv, Grounded
<1>3. \A sku \in mem'.notified : Settled(db, sku, "BUY")
  BY DEF PipelineInv, Grounded
<1>4. Grounded'
  BY <1>2, <1>3, SettledStays DEF Grounded
<1>5. mem'.reported + Cardinality(Tellers') <= db'.counter
  <2>1. /\ Cardinality(Tellers') + Toll(req[c]) = Cardinality(Tellers) + Toll(new)
        /\ Cardinality(Tellers) \in Nat /\ Cardinality(Tellers') \in Nat
    BY TellersMove
  <2>2. mem.reported \in Nat /\ mem'.reported \in Nat /\ db.counter \in Nat /\ db'.counter \in Nat
    BY DEF PipelineInv, Shared, Log
  <2>3. mem.reported + Cardinality(Tellers) <= db.counter
    BY DEF PipelineInv
  <2>4. Toll(new) \in Nat /\ Toll(req[c]) \in Nat
    BY DEF Toll
  <2> QED
    BY <2>1, <2>2, <2>3, <2>4
<1>6. req' = [d \in Clients |-> req'[d]]
  BY DEF PipelineInv, Moves
<1>7. calls' \in 0 .. MaxCalls
  BY WorkersMove DEF PipelineInv
<1>8. Log(db, calls)'
  BY DEF Log
<1> QED
  BY <1>1, <1>4, <1>5, <1>6, <1>7, <1>8 DEF PipelineInv, Shared

-----------------------------------------------------------------------------
\* A command that is carried out.
Carries(c, x) ==
  /\ Log(x, calls) /\ Respects(c, x)
  /\ \A id \in DOMAIN db.records :
       id \in DOMAIN x.records /\ x.records[id] \in {db.records[id], [db.records[id] EXCEPT !.action = "ERROR"]}
  /\ x.counter = db.counter + (IF req[c].op = "incr" THEN 1 ELSE 0)
  /\ req[c].id \in DOMAIN x.records /\ x.records[req[c].id] = [sku |-> Head(req[c].todo), action |-> req[c].action]
  /\ req[c].op = "set" => x.index = db.index

AtLog(c) ==
  /\ req[c] \in Task /\ req[c].id \in 1 .. calls /\ Logs(req[c], db) /\ Log(db, calls) /\ calls \in Nat
  /\ Head(req[c].todo) \in Ids /\ req[c].action \in W!DecisionAction /\ req[c].failing \in BOOLEAN

LEMMA AtLogs ==
  ASSUME PipelineInv, NEW c \in Clients, Writes(req[c])
  PROVE  AtLog(c)
<1>1. req[c] \in Task
  BY DEF PipelineInv, Working, Writes, W!Idle, W!LogSteps
<1>2. req[c].todo \in Seq(Ids) /\ req[c].todo # <<>>
  BY <1>1 DEF Task
<1>3. Head(req[c].todo) \in Ids
  BY <1>2
<1>4. req[c].id \in 1 .. calls /\ Logs(req[c], db)
  BY DEF PipelineInv, Working, Writes, Decides
<1>5. Log(db, calls) /\ calls \in Nat
  BY SessionsAssumption DEF PipelineInv
<1> QED
  BY <1>1, <1>3, <1>4, <1>5 DEF AtLog, Task

LEMMA Prepended ==
  ASSUME NEW S, NEW s \in Seq(S), NEW e \in S
  PROVE  /\ <<e>> \o s \in Seq(S) /\ DOMAIN (<<e>> \o s) = 1 .. Len(s) + 1 /\ (<<e>> \o s)[1] = e
         /\ \A i \in 2 .. Len(s) + 1 : (<<e>> \o s)[i] = s[i - 1] /\ i - 1 \in DOMAIN s
OBVIOUS

LEMMA Trimmed ==
  ASSUME NEW S, NEW s \in Seq(S), NEW m \in 0 .. Len(s)
  PROVE  /\ SubSeq(s, 1, m) \in Seq(S) /\ DOMAIN SubSeq(s, 1, m) = 1 .. m
         /\ \A i \in 1 .. m : SubSeq(s, 1, m)[i] = s[i] /\ i \in DOMAIN s
<1>1. Len(s) \in Nat /\ DOMAIN s = 1 .. Len(s) /\ \A i \in DOMAIN s : s[i] \in S
  OBVIOUS
<1>2. SubSeq(s, 1, m) = [i \in 1 .. m |-> s[i]]
  BY <1>1
<1>3. \A i \in 1 .. m : i \in DOMAIN s
  BY <1>1
<1>4. [i \in 1 .. m |-> s[i]] \in [1 .. m -> S]
  BY <1>1, <1>3
<1> QED
  BY <1>1, <1>2, <1>3, <1>4

LEMMA SetCarries ==
  ASSUME NEW c \in Clients, AtLog(c), req[c].op = "set"
  PROVE  Carries(c, W!Logged(c))
<1> DEFINE id == req[c].id
           entry == [sku |-> Head(req[c].todo), action |-> req[c].action]
           x == W!Logged(c)
<1>1. x = [db EXCEPT !.records = W!With(@, id, entry)]
  BY DEF W!Logged, W!Sku
<1>2. db = [records |-> db.records, index |-> db.index, counter |-> db.counter]
  BY DEF AtLog, Log
<1>3. x = [records |-> W!With(db.records, id, entry), index |-> db.index, counter |-> db.counter]
  BY <1>1, <1>2
<1>4. /\ DOMAIN x.records = DOMAIN db.records \cup {id}
      /\ \A k \in DOMAIN x.records : x.records[k] = IF k = id THEN entry ELSE db.records[k]
      /\ x.index = db.index /\ x.counter = db.counter
  BY <1>3 DEF W!With
<1>5. entry \in Record /\ id \in 1 .. calls /\ entry.action = req[c].action
  BY DEF AtLog, Record
<1>6. Log(db, calls) /\ Logs(req[c], db)
  BY DEF AtLog
<1>7. x = [records |-> x.records, index |-> x.index, counter |-> x.counter]
  BY <1>3
<1> HIDE DEF x
<1>8. ASSUME NEW i \in DOMAIN x.index, NEW j \in DOMAIN x.index, i # j, x.index[i] = x.index[j]
      PROVE  x.records[x.index[i]].action = "ERROR"
  <2>1. CASE x.index[i] = id
    <3>1. Lists(db, id)
      BY <1>4, <2>1 DEF Lists
    <3>2. req[c].failing /\ req[c].action = "ERROR"
      BY <1>6, <3>1 DEF Logs
    <3> QED
      BY <1>4, <1>5, <2>1, <3>2
  <2>2. CASE x.index[i] # id
    BY <1>4, <1>6, <1>8, <2>2 DEF Log
  <2> QED
    BY <2>1, <2>2
<1>9. Log(x, calls)
  BY <1>4, <1>5, <1>6, <1>7, <1>8 DEF Log
<1>10. Respects(c, x)
  BY <1>4 DEF Respects, Writes, W!LogSteps, Lists
<1>11. \A k \in DOMAIN db.records :
        k \in DOMAIN x.records /\ x.records[k] \in {db.records[k], [db.records[k] EXCEPT !.action = "ERROR"]}
  <2> SUFFICES ASSUME NEW k \in DOMAIN db.records, k = id
               PROVE  x.records[k] = [db.records[k] EXCEPT !.action = "ERROR"]
    BY <1>4
  <2>1. req[c].failing /\ db.records[k].sku = Head(req[c].todo) /\ req[c].action = "ERROR"
    BY <1>6 DEF Logs
  <2>2. db.records[k] \in Record
    BY <1>6 DEF Log
  <2> QED
    BY <1>4, <2>1, <2>2 DEF Record
<1>12. x.counter = db.counter + 0
  BY <1>4, <1>6 DEF Log
<1>13. Carries(c, x)
  BY <1>4, <1>9, <1>10, <1>11, <1>12 DEF Carries
<1> QED
  BY <1>13 DEF x

\* A command on the list or the counter, which leaves the records alone.
LEMMA ListCarries ==
  ASSUME NEW c \in Clients, AtLog(c), req[c].op \in {"lpush", "ltrim", "incr"}
  PROVE  Carries(c, W!Logged(c))
<1> DEFINE id == req[c].id
           x == W!Logged(c)
           m == W!Least(Len(db.index), W!KeptIds)
<1>1. db = [records |-> db.records, index |-> db.index, counter |-> db.counter] /\ db.index \in Seq(1 .. calls) /\ db.counter \in Nat
  BY DEF AtLog, Log
<1>2. m \in 0 .. Len(db.index)
  <2>1. Len(db.index) \in Nat
    BY <1>1
  <2> QED
    BY <2>1 DEF W!Least, W!KeptIds
<1>3. /\ req[c].op = "lpush" => x = [records |-> db.records, index |-> <<id>> \o db.index, counter |-> db.counter]
      /\ req[c].op = "ltrim" => x = [records |-> db.records, index |-> SubSeq(db.index, 1, m), counter |-> db.counter]
      /\ req[c].op = "incr" => x = [records |-> db.records, index |-> db.index, counter |-> db.counter + 1]
  BY <1>1 DEF W!Logged
<1>4. Log(db, calls) /\ Logs(req[c], db) /\ id \in 1 .. calls
  BY DEF AtLog
<1> HIDE DEF x, m, id
<1>5. id \in DOMAIN db.records /\ db.records[id] = [sku |-> Head(req[c].todo), action |-> req[c].action]
  BY <1>4 DEF Logs, id
<1>6. x.records = db.records /\ x.counter = db.counter + (IF req[c].op = "incr" THEN 1 ELSE 0)
  BY <1>1, <1>3
<1>7. x.index \in Seq(1 .. calls)
  <2>1. <<id>> \o db.index \in Seq(1 .. calls)
    BY <1>1, <1>4, Prepended
  <2>2. SubSeq(db.index, 1, m) \in Seq(1 .. calls)
    BY <1>1, <1>2, Trimmed
  <2>3. x.index \in {<<id>> \o db.index, SubSeq(db.index, 1, m), db.index}
    BY <1>3
  <2> QED
    BY <1>1, <2>1, <2>2, <2>3
<1>8. \A i \in DOMAIN x.index : x.index[i] = id \/ Lists(db, x.index[i])
  <2>1. CASE req[c].op = "lpush"
    <3>1. \A i \in 2 .. Len(db.index) + 1 : (<<id>> \o db.index)[i] = db.index[i - 1] /\ i - 1 \in DOMAIN db.index
      BY <1>1, <1>4, Prepended
    <3>2. x.index[1] = id /\ DOMAIN x.index = 1 .. Len(db.index) + 1
      BY <1>1, <1>3, <1>4, <2>1, Prepended
    <3> QED
      BY <1>1, <1>3, <2>1, <3>1, <3>2 DEF Lists
  <2>2. CASE req[c].op = "ltrim"
    <3>1. x.index = SubSeq(db.index, 1, m)
      BY <1>3, <2>2
    <3> QED
      BY <1>1, <1>2, <3>1, Trimmed DEF Lists
  <2>3. CASE req[c].op = "incr"
    BY <1>3, <2>3 DEF Lists
  <2> QED
    BY <2>1, <2>2, <2>3
<1>9. ASSUME NEW i \in DOMAIN x.index, NEW j \in DOMAIN x.index, i # j, x.index[i] = x.index[j]
      PROVE  x.records[x.index[i]].action = "ERROR"
  <2>1. CASE req[c].op = "lpush"
    <3>1. /\ DOMAIN x.index = 1 .. Len(db.index) + 1 /\ x.index[1] = id
          /\ \A k \in 2 .. Len(db.index) + 1 : x.index[k] = db.index[k - 1] /\ k - 1 \in DOMAIN db.index
      BY <1>1, <1>3, <1>4, <2>1, Prepended
    <3>2. CASE i = 1 \/ j = 1
      <4>1. Lists(db, id) /\ x.index[i] = id
        BY <1>1, <1>9, <3>1, <3>2 DEF Lists
      <4>2. req[c].action = "ERROR"
        BY <1>4, <2>1, <4>1 DEF Logs, id
      <4> QED
        BY <1>5, <1>6, <4>1, <4>2
    <3>3. CASE i # 1 /\ j # 1
      <4>1. i - 1 \in DOMAIN db.index /\ j - 1 \in DOMAIN db.index /\ i - 1 # j - 1 /\ db.index[i - 1] = db.index[j - 1] /\ x.index[i] = db.index[i - 1]
        BY <1>1, <1>9, <3>1, <3>3
      <4> QED
        BY <1>4, <1>6, <4>1 DEF Log
    <3> QED
      BY <3>2, <3>3
  <2>2. CASE req[c].op = "ltrim"
    <3>1. \A k \in DOMAIN x.index : x.index[k] = db.index[k] /\ k \in DOMAIN db.index
      <4>1. x.index = SubSeq(db.index, 1, m)
        BY <1>3, <2>2
      <4> QED
        BY <1>1, <1>2, <4>1, Trimmed
    <3> QED
      BY <1>4, <1>6, <1>9, <3>1 DEF Log
  <2>3. CASE req[c].op = "incr"
    BY <1>3, <1>4, <1>6, <1>9, <2>3 DEF Log
  <2> QED
    BY <2>1, <2>2, <2>3
<1>10. \A i \in DOMAIN x.index : x.index[i] \in DOMAIN x.records
  BY <1>4, <1>5, <1>6, <1>8 DEF Log, Lists
<1>11. x.counter \in Nat
  BY <1>1, <1>6
<1>12. Log(x, calls)
  <2>1. x = [records |-> x.records, index |-> x.index, counter |-> x.counter]
    BY <1>3
  <2> QED
    BY <1>4, <1>6, <1>7, <1>9, <1>10, <1>11, <2>1 DEF Log
<1>13. Respects(c, x)
  <2>1. Writes(req[c])
    BY DEF Writes, W!LogSteps
  <2>2. \A k : k # id /\ Lists(x, k) => Lists(db, k)
    BY <1>8 DEF Lists
  <2> QED
    BY <1>6, <2>1, <2>2 DEF Respects, id
<1> QED
  BY <1>5, <1>6, <1>12, <1>13 DEF Carries, id, x

LEMMA LogCarries ==
  ASSUME NEW c \in Clients, AtLog(c), Writes(req[c])
  PROVE  Carries(c, W!Logged(c))
BY SetCarries, ListCarries DEF Writes, W!LogSteps

-----------------------------------------------------------------------------
\* One step of a worker keeps the invariant and is one that LegalStep allows.
LEMMA WorkerQuiet ==
  ASSUME PipelineInv, NEW c \in Clients, NEW new \in Task \cup {W!Idle}, req' = [req EXCEPT ![c] = new],
         calls' = calls, db' = db, mem' \in Shared,
         Decides(new) => Decides(req[c]) /\ new.id = req[c].id /\ Logs(new, db) /\ (Writes(new) => Writes(req[c])),
         \A lesson \in mem'.open \ mem.open :
           Settled(db, lesson[2], IF lesson[1] = "false_positive" THEN "AVOID" ELSE "BUY"),
         \A sku \in mem'.notified \ mem.notified : Settled(db, sku, "BUY"),
         mem'.reported + Toll(new) <= mem.reported + Toll(req[c]),
         mem.open \subseteq mem'.open \/ (mem'.open = {} /\ ~mem'.sound)
  PROVE  PipelineInv' /\ W!LegalStep
<1>1. Log(db, calls) /\ db.counter \in Nat /\ calls \in Nat /\ calls <= MaxCalls /\ mem.reported \in Nat /\ mem'.reported \in Nat
  BY SessionsAssumption DEF PipelineInv, Log, Shared
<1>2. Moves(c, new)
  BY <1>1 DEF Moves
<1>3. Respects(c, db')
  BY DEF Respects
<1>4. Toll(new) \in Nat /\ Toll(req[c]) \in Nat
  BY DEF Toll
<1>5. mem'.reported + Toll(new) + db.counter <= mem.reported + Toll(req[c]) + db'.counter
  BY <1>1, <1>4
<1>6. Log(db', calls')
  BY <1>1
<1>7. Decides(new) => Logs(new, db')
  OBVIOUS
<1>8. PipelineInv'
  BY <1>2, <1>3, <1>5, <1>6, <1>7, WorkerMoved
<1>9. W!LegalStep
  BY <1>1 DEF W!LegalStep
<1> QED
  BY <1>8, <1>9

LEMMA BrokenShared ==
  ASSUME mem \in Shared
  PROVE  /\ W!Broken \in Shared /\ W!Broken.open = {} /\ ~W!Broken.sound
         /\ W!Broken.notified = mem.notified /\ W!Broken.reported = mem.reported
BY DEF Shared, W!Broken

\* One that learns and tells nothing.
LEMMA WorkerElsewhere ==
  ASSUME PipelineInv, NEW c \in Clients, NEW new \in Task \cup {W!Idle}, req' = [req EXCEPT ![c] = new],
         calls' = calls, db' = db, mem' \in {mem, W!Broken},
         Decides(new) => Decides(req[c]) /\ new.id = req[c].id /\ Logs(new, db) /\ (Writes(new) => Writes(req[c])),
         Toll(new) = 0 \/ Toll(req[c]) = 1
  PROVE  PipelineInv' /\ W!LegalStep
<1>1. mem \in Shared /\ mem.reported \in Nat
  BY DEF PipelineInv, Shared
<1>2. /\ mem' \in Shared /\ mem'.notified = mem.notified /\ mem'.reported = mem.reported
      /\ mem'.open = mem.open \/ (mem'.open = {} /\ ~mem'.sound)
  BY <1>1, BrokenShared
<1>3. mem'.reported + Toll(new) <= mem.reported + Toll(req[c])
  BY <1>1, <1>2 DEF Toll
<1>4. \A lesson \in mem'.open \ mem.open :
         Settled(db, lesson[2], IF lesson[1] = "false_positive" THEN "AVOID" ELSE "BUY")
  BY <1>2
<1>5. \A sku \in mem'.notified \ mem.notified : Settled(db, sku, "BUY")
  BY <1>2
<1>6. mem.open \subseteq mem'.open \/ (mem'.open = {} /\ ~mem'.sound)
  BY <1>2
<1> QED
  BY <1>2, <1>3, <1>4, <1>5, <1>6, WorkerQuiet

LEMMA WorkerLogs ==
  ASSUME PipelineInv, NEW c \in Clients, NEW new \in Task \cup {W!Idle}, req' = [req EXCEPT ![c] = new],
         calls' = calls, Writes(req[c]), Carries(c, db'), mem' \in Shared,
         Decides(new) => new.id = req[c].id /\ Logs(new, db'),
         mem'.open = mem.open, mem'.notified = mem.notified,
         mem'.reported + Toll(new) <= mem.reported + (IF req[c].op = "incr" THEN 1 ELSE 0)
  PROVE  PipelineInv' /\ W!LegalStep
<1>1. db.counter \in Nat /\ calls \in Nat /\ calls <= MaxCalls /\ mem.reported \in Nat /\ mem'.reported \in Nat
  BY SessionsAssumption DEF PipelineInv, Log, Shared
<1>2. Moves(c, new)
  BY <1>1 DEF Moves, Decides, Writes
<1>3. Respects(c, db') /\ Log(db', calls') /\ db'.counter = db.counter + (IF req[c].op = "incr" THEN 1 ELSE 0)
  BY DEF Carries
<1>4. Toll(new) \in Nat /\ Toll(req[c]) = 0
  BY DEF Toll, Writes, Telling, W!LogSteps
<1>5. mem'.reported + Toll(new) + db.counter <= mem.reported + Toll(req[c]) + db'.counter
  BY <1>1, <1>3, <1>4
<1>6. PipelineInv'
  BY <1>2, <1>3, <1>5, WorkerMoved
<1>7. \A id \in DOMAIN db.records :
        id \in DOMAIN db'.records /\ db'.records[id] \in {db.records[id], [db.records[id] EXCEPT !.action = "ERROR"]}
  BY DEF Carries
<1>8. W!LegalStep
  BY <1>1, <1>3, <1>7 DEF W!LegalStep
<1> QED
  BY <1>6, <1>8

LEMMA AtTask ==
  ASSUME PipelineInv, NEW c \in Clients, req[c].op # "idle"
  PROVE  /\ req[c] \in Task /\ req[c].todo \in Seq(Ids) /\ req[c].todo # <<>> /\ Head(req[c].todo) \in Ids
         /\ req[c].action \in W!DecisionAction /\ req[c].failing \in BOOLEAN
<1>1. req[c] \in Task
  BY DEF PipelineInv, Working, W!Idle
<1>2. req[c].todo \in Seq(Ids) /\ req[c].todo # <<>>
  BY <1>1 DEF Task
<1>3. Head(req[c].todo) \in Ids
  BY <1>2
<1> QED
  BY <1>1, <1>2, <1>3 DEF Task

LEMMA IdleDecidesNothing == ~Decides(W!Idle) /\ Toll(W!Idle) = 0 /\ W!Idle.op = "idle"
BY DEF Decides, Toll, Telling, W!Idle, W!LogSteps

LEMMA TaskMoves ==
  ASSUME NEW r \in Task, NEW op \in {"find", "lpush", "ltrim", "incr", "remember", "notify"}
  PROVE  /\ [r EXCEPT !.op = op] \in Task /\ [r EXCEPT !.op = op].op = op /\ [r EXCEPT !.op = op].id = r.id
         /\ [r EXCEPT !.op = op].todo = r.todo /\ [r EXCEPT !.op = op].action = r.action
         /\ [r EXCEPT !.op = op].failing = r.failing
BY DEF Task, W!LogSteps, Telling

LEMMA NextProductTyped ==
  ASSUME NEW c \in Clients, req[c] \in Task
  PROVE  W!NextProduct(c) \in Task \cup {W!Idle} /\ ~Decides(W!NextProduct(c)) /\ Toll(W!NextProduct(c)) = 0
<1> DEFINE done == req[c].done + 1
           again == [req[c] EXCEPT !.op = "scan", !.done = done]
           next == [req[c] EXCEPT !.op = "find", !.done = done, !.todo = Tail(@)]
<1>1. done \in Nat /\ req[c].todo \in Seq(Ids) /\ req[c].todo # <<>>
  BY DEF Task
<1>2. again \in Task /\ again.op = "scan"
  BY <1>1 DEF Task
<1>3. Len(req[c].todo) # 1 => next \in Task /\ next.op = "find"
  <2> SUFFICES ASSUME Len(req[c].todo) # 1 PROVE next \in Task /\ next.op = "find"
    OBVIOUS
  <2>1. Tail(req[c].todo) \in Seq(Ids) \ {<<>>}
    BY <1>1, Rest
  <2> QED
    BY <1>1, <2>1 DEF Task
<1>4. \/ W!NextProduct(c) = W!Idle \/ W!NextProduct(c) = again
      \/ Len(req[c].todo) # 1 /\ W!NextProduct(c) = next
  BY DEF W!NextProduct
<1> HIDE DEF again, next
<1> QED
  BY <1>2, <1>3, <1>4, IdleDecidesNothing DEF Decides, Toll, Telling, W!LogSteps

-----------------------------------------------------------------------------
LEMMA ExecuteTaskKeeps ==
  ASSUME PipelineInv, NEW c \in Clients, NEW type \in W!TaskType, W!ExecuteTask(c, type)
  PROVE  PipelineInv' /\ W!LegalStep
<1> DEFINE new == [type |-> type, todo |-> <<"a">>, done |-> 0, id |-> 0, action |-> "SKIP", failing |-> FALSE,
                   op |-> CASE type = "full_pipeline" -> "find" [] type = "retrieve_amazon" -> "retrieve" [] OTHER -> "scan"]
<1>1. req[c].op = "idle" /\ req' = [req EXCEPT ![c] = new] /\ db' = db /\ mem' = mem /\ calls' = calls
  BY DEF W!ExecuteTask, W!To
<1>2. new.op \in {"find", "retrieve", "scan"} /\ <<"a">> \in Seq(Ids) \ {<<>>}
  BY NamesAssumption
<1>3. new \in Task
  BY <1>2 DEF Task, W!DecisionAction
<1> HIDE DEF new
<1>4. ~Decides(new) /\ Toll(new) = 0 /\ Toll(req[c]) = 0
  BY <1>1, <1>2 DEF Decides, Toll, Telling, W!LogSteps
<1> QED
  BY <1>1, <1>3, <1>4, WorkerElsewhere

LEMMA Pages ==
  ASSUME NEW page \in W!Pages, page # <<>>
  PROVE  page \in Seq(Ids) \ {<<>>}
<1>1. <<"a">> \in Seq(Ids) \ {<<>>}
  BY NamesAssumption
<1>2. W!SetToSeq(Ids) \in Seq(Ids) \ {<<>>}
  BY WIdsAsSequence
<1> QED
  BY <1>1, <1>2 DEF W!Pages

LEMMA ScanKeeps ==
  ASSUME PipelineInv, NEW c \in Clients, W!ScanSupplier(c) \/ W!ScanFails(c) \/ W!RetrieveAmazonData(c)
  PROVE  PipelineInv' /\ W!LegalStep
<1>1. /\ req[c].op \in {"scan", "retrieve"} /\ db' = db /\ calls' = calls /\ mem' \in {mem, W!Broken}
      /\ \/ req' = [req EXCEPT ![c] = W!Idle]
         \/ \E page \in W!Pages : page # <<>> /\ req' = [req EXCEPT ![c] = [req[c] EXCEPT !.op = "find", !.todo = page]]
  BY DEF W!ScanSupplier, W!ScanFails, W!RetrieveAmazonData, W!To
<1>2. PICK new \in Task \cup {W!Idle} : req' = [req EXCEPT ![c] = new] /\ ~Decides(new) /\ Toll(new) = 0
  <2>1. CASE req' = [req EXCEPT ![c] = W!Idle]
    BY <2>1, IdleDecidesNothing
  <2>2. CASE \E page \in W!Pages : page # <<>> /\ req' = [req EXCEPT ![c] = [req[c] EXCEPT !.op = "find", !.todo = page]]
    <3>1. PICK page \in W!Pages : page # <<>> /\ req' = [req EXCEPT ![c] = [req[c] EXCEPT !.op = "find", !.todo = page]]
      BY <2>2
    <3>2. page \in Seq(Ids) \ {<<>>} /\ req[c] \in Task
      BY <1>1, <3>1, Pages, AtTask
    <3>3. [req[c] EXCEPT !.op = "find", !.todo = page] \in Task /\ [req[c] EXCEPT !.op = "find", !.todo = page].op = "find"
      BY <3>2 DEF Task
    <3> QED
      BY <3>1, <3>3 DEF Decides, Toll, Telling, W!LogSteps
  <2> QED
    BY <1>1, <2>1, <2>2
<1> QED
  BY <1>1, <1>2, WorkerElsewhere

LEMMA SeqWidens ==
  ASSUME NEW S, NEW T, S \subseteq T, NEW s \in Seq(S)
  PROVE  s \in Seq(T)
<1>1. Len(s) \in Nat /\ s = [i \in 1 .. Len(s) |-> s[i]] /\ \A i \in 1 .. Len(s) : s[i] \in T
  OBVIOUS
<1> QED
  BY <1>1

LEMMA DecideKeeps ==
  ASSUME PipelineInv, NEW c \in Clients, W!Decide(c)
  PROVE  PipelineInv' /\ W!LegalStep
<1>1. PICK action \in W!DecisionAction, failing \in BOOLEAN :
        /\ failing => action = "ERROR"
        /\ req' = [req EXCEPT ![c] = [req[c] EXCEPT !.op = "set", !.id = calls + 1, !.action = action, !.failing = failing]]
        /\ mem' \in {mem, W!Broken}
  BY DEF W!Decide, W!To
<1> DEFINE new == [req[c] EXCEPT !.op = "set", !.id = calls + 1, !.action = action, !.failing = failing]
<1>2. req[c].op = "find" /\ calls' = calls + 1 /\ db' = db /\ calls < MaxCalls - 1
  BY DEF W!Decide, W!MaxDecisions
<1>3. req[c] \in Task /\ calls \in Nat /\ Log(db, calls) /\ mem \in Shared /\ db.counter \in Nat /\ MaxCalls \in Nat
  BY <1>2, AtTask, SessionsAssumption DEF PipelineInv, Log
<1>4. new \in Task /\ new.op = "set" /\ new.id = calls + 1 /\ new.action = action /\ (new.failing => action = "ERROR")
  <2>1. action \in W!DecisionAction /\ calls + 1 \in Nat
    BY <1>3
  <2>2. CASE failing = TRUE
    BY <1>1, <1>3, <2>1, <2>2 DEF Task, W!LogSteps
  <2>3. CASE failing = FALSE
    BY <1>3, <2>1, <2>3 DEF Task, W!LogSteps
  <2>4. failing = TRUE \/ failing = FALSE
    OBVIOUS
  <2> QED
    BY <2>2, <2>3, <2>4
<1>5. req' = [req EXCEPT ![c] = new]
  BY <1>1
<1> HIDE DEF new
<1>6. Moves(c, new)
  BY <1>2, <1>3, <1>4, <1>5 DEF Moves
<1>7. Respects(c, db')
  BY <1>2 DEF Respects
<1>8. Log(db', calls')
  <2>1. \A id \in 1 .. calls : id \in 1 .. calls + 1
    BY <1>3
  <2>2. db.index \in Seq(1 .. calls + 1)
    <3>1. db.index \in Seq(1 .. calls)
      BY <1>3 DEF Log
    <3>2. 1 .. calls \subseteq 1 .. calls + 1
      BY <2>1
    <3> QED
      BY <3>1, <3>2, SeqWidens
  <2> QED
    BY <1>2, <1>3, <2>1, <2>2 DEF Log
<1>9. Logs(new, db')
  <2>1. calls + 1 \notin 1 .. calls
    BY <1>3
  <2>2. calls + 1 \notin DOMAIN db.records /\ ~Lists(db, calls + 1)
    BY <1>3, <2>1 DEF Log, Lists
  <2> QED
    BY <1>1, <1>2, <1>4, <2>2 DEF Logs
<1>10. Toll(new) = 0 /\ Toll(req[c]) = 0
  BY <1>2, <1>4 DEF Toll, Telling
<1>11. /\ mem' \in Shared /\ mem'.notified = mem.notified /\ mem'.reported = mem.reported
       /\ mem'.open = mem.open \/ (mem'.open = {} /\ ~mem'.sound)
  BY <1>1, <1>3, BrokenShared
<1>12. mem'.reported + Toll(new) + db.counter <= mem.reported + Toll(req[c]) + db'.counter
  BY <1>2, <1>3, <1>10, <1>11 DEF Shared
<1>13. PipelineInv'
  BY <1>4, <1>6, <1>7, <1>8, <1>9, <1>11, <1>12, WorkerMoved
<1>14. W!LegalStep
  BY <1>2, <1>3, <1>11 DEF W!LegalStep
<1> QED
  BY <1>13, <1>14

LEMMA LogCommandKeeps ==
  ASSUME PipelineInv, NEW c \in Clients, W!LogCommand(c)
  PROVE  PipelineInv' /\ W!LegalStep
<1>1. Writes(req[c]) /\ req[c].op # "idle" /\ db' = W!Logged(c) /\ calls' = calls
  BY DEF W!LogCommand, Writes, W!LogSteps
<1>2. AtLog(c) /\ Carries(c, db') /\ req[c] \in Task
  BY <1>1, AtLogs, LogCarries, AtTask
<1>3. mem \in Shared /\ mem.reported \in Nat
  BY DEF PipelineInv, Shared
<1>4. ASSUME NEW op \in {"lpush", "ltrim", "incr", "remember"}, mem' = mem,
             req' = [req EXCEPT ![c] = [req[c] EXCEPT !.op = op]],
             op = "lpush" => req[c].op = "set", op = "remember" => req[c].op = "incr"
      PROVE  PipelineInv' /\ W!LegalStep
  <2> DEFINE new == [req[c] EXCEPT !.op = op]
  <2>1. new \in Task /\ new.op = op /\ new.id = req[c].id /\ new.todo = req[c].todo /\ new.action = req[c].action /\ new.failing = req[c].failing
    <3>1. op \in {"find", "lpush", "ltrim", "incr", "remember", "notify"}
      OBVIOUS
    <3> QED
      BY <1>2, <3>1, TaskMoves, ZenonT(60)
  <2>2. req' = [req EXCEPT ![c] = new]
    BY <1>4
  <2> HIDE DEF new
  <2>3. Logs(new, db')
    <3>1. req[c].failing => req[c].action = "ERROR"
      BY <1>2 DEF AtLog, Logs
    <3>2. op = "lpush" /\ Lists(db', req[c].id) => req[c].failing
      BY <1>2, <1>4 DEF AtLog, Logs, Carries, Lists
    <3> QED
      BY <1>2, <2>1, <3>1, <3>2 DEF Logs, Carries
  <2>4. mem'.reported + Toll(new) <= mem.reported + (IF req[c].op = "incr" THEN 1 ELSE 0)
    BY <1>3, <1>4, <2>1 DEF Toll, Telling
  <2> QED
    BY <1>1, <1>2, <1>3, <1>4, <2>1, <2>2, <2>3, <2>4, WorkerLogs
<1>5. ASSUME req[c].op = "incr", W!Returns(c, mem)
      PROVE  PipelineInv' /\ W!LegalStep
  <2>1. req' = [req EXCEPT ![c] = W!NextProduct(c)] /\ mem' = [mem EXCEPT !.reported = @ + 1]
    BY <1>5 DEF W!Returns, W!To
  <2>2. mem' \in Shared /\ mem'.open = mem.open /\ mem'.notified = mem.notified /\ mem'.reported = mem.reported + 1
    BY <1>3, <2>1 DEF Shared
  <2>3. W!NextProduct(c) \in Task \cup {W!Idle} /\ ~Decides(W!NextProduct(c)) /\ Toll(W!NextProduct(c)) = 0
    BY <1>2, NextProductTyped
  <2>4. mem'.reported + Toll(W!NextProduct(c)) <= mem.reported + (IF req[c].op = "incr" THEN 1 ELSE 0)
    BY <1>3, <1>5, <2>2, <2>3
  <2> QED
    BY <1>1, <1>2, <2>1, <2>2, <2>3, <2>4, WorkerLogs
<1>6. CASE req[c].op = "set"
  BY <1>4, <1>6 DEF W!LogCommand, W!To
<1>7. CASE req[c].op = "lpush"
  BY <1>4, <1>7 DEF W!LogCommand, W!To
<1>8. CASE req[c].op = "ltrim"
  BY <1>4, <1>8 DEF W!LogCommand, W!To
<1>9. CASE req[c].op = "incr"
  BY <1>4, <1>5, <1>9 DEF W!LogCommand, W!To
<1> QED
  BY <1>1, <1>6, <1>7, <1>8, <1>9 DEF Writes, W!LogSteps

LEMMA LogFailsKeeps ==
  ASSUME PipelineInv, NEW c \in Clients, W!LogFails(c)
  PROVE  PipelineInv' /\ W!LegalStep
<1> DEFINE error == [req[c] EXCEPT !.op = "set", !.action = "ERROR", !.failing = TRUE]
           new == IF req[c].failing THEN W!Idle ELSE error
<1>1. Writes(req[c]) /\ req[c].op # "idle" /\ db' \in {db, W!Logged(c)} /\ calls' = calls /\ mem' = mem /\ req' = [req EXCEPT ![c] = new]
  BY DEF W!LogFails, W!To, Writes, W!LogSteps
<1>2. AtLog(c) /\ Carries(c, W!Logged(c)) /\ req[c] \in Task
  BY <1>1, AtLogs, LogCarries, AtTask
<1>3. mem \in Shared /\ mem.reported \in Nat
  BY DEF PipelineInv, Shared
<1>4. error \in Task /\ error.op = "set" /\ error.id = req[c].id /\ error.todo = req[c].todo /\ error.action = "ERROR" /\ error.failing = TRUE
  BY <1>2 DEF Task, W!LogSteps, W!DecisionAction
<1> HIDE DEF error
<1>5. new \in Task \cup {W!Idle} /\ (Decides(new) => new = error) /\ Toll(new) = 0 /\ Toll(req[c]) = 0
  BY <1>1, <1>4, IdleDecidesNothing DEF Toll, Telling, Writes, W!LogSteps
<1>6. ASSUME NEW x \in {db, W!Logged(c)}
      PROVE  Logs(error, x)
  <2>1. req[c].id \in DOMAIN x.records => x.records[req[c].id].sku = Head(req[c].todo)
    BY <1>2 DEF AtLog, Logs, Carries
  <2> QED
    BY <1>4, <2>1 DEF Logs
<1> HIDE DEF new
<1>7. CASE db' = db
  <2>1. Decides(req[c])
    BY <1>1 DEF Decides, Writes
  <2> QED
    BY <1>1, <1>4, <1>5, <1>6, <1>7, <2>1, WorkerElsewhere
<1>8. CASE db' = W!Logged(c)
  <2>1. mem'.reported + Toll(new) <= mem.reported + (IF req[c].op = "incr" THEN 1 ELSE 0)
    BY <1>1, <1>3, <1>5
  <2> QED
    BY <1>1, <1>2, <1>3, <1>4, <1>5, <1>6, <1>8, <2>1, WorkerLogs
<1> QED
  BY <1>1, <1>7, <1>8

LEMMA TellerSettled ==
  ASSUME PipelineInv, NEW c \in Clients, req[c].op \in Telling
  PROVE  Settled(db, Head(req[c].todo), req[c].action) /\ Logs(req[c], db)
<1>1. Decides(req[c]) /\ ~Writes(req[c])
  BY DEF Decides, Writes, Telling, W!LogSteps
<1>2. Logs(req[c], db) /\ \A d \in Clients : Writes(req[d]) => req[d].id # req[c].id
  BY <1>1 DEF PipelineInv, Working, Writes, Decides
<1>3. req[c].id \in DOMAIN db.records /\ db.records[req[c].id] = [sku |-> Head(req[c].todo), action |-> req[c].action]
  BY <1>2 DEF Logs, Telling
<1> QED
  BY <1>2, <1>3 DEF Settled

LEMMA LessonsSettled ==
  ASSUME PipelineInv, NEW c \in Clients, req[c].op \in Telling, NEW n \in 0 .. Len(W!Lessons(c)),
         NEW lesson \in W!ToSet(SubSeq(W!Lessons(c), 1, n))
  PROVE  lesson \in W!Lesson /\ Settled(db, lesson[2], IF lesson[1] = "false_positive" THEN "AVOID" ELSE "BUY")
<1> DEFINE sku == Head(req[c].todo)
<1>1. sku \in Ids /\ Settled(db, sku, req[c].action)
  BY AtTask, TellerSettled DEF Telling
<1>2. PICK i \in 1 .. n : lesson = W!Lessons(c)[i]
  BY DEF W!ToSet, W!Lessons
<1>3. CASE req[c].action = "BUY"
  <2>1. W!Lessons(c) = <<<<"purchase", sku>>, <<"favorite_supplier", sku>>, <<"category", sku>>>>
    BY <1>3 DEF W!Lessons, W!Sku
  <2>2. lesson \in {<<"purchase", sku>>, <<"favorite_supplier", sku>>, <<"category", sku>>}
    BY <1>2, <2>1
  <2> QED
    BY <1>1, <1>3, <2>2 DEF W!Lesson
<1>4. CASE req[c].action = "AVOID"
  <2>1. W!Lessons(c) = <<<<"false_positive", sku>>>>
    BY <1>4 DEF W!Lessons, W!Sku
  <2>2. lesson = <<"false_positive", sku>>
    BY <1>2, <2>1
  <2> QED
    BY <1>1, <1>4, <2>2 DEF W!Lesson
<1>5. CASE req[c].action \notin {"BUY", "AVOID"}
  BY <1>2, <1>5 DEF W!Lessons
<1> QED
  BY <1>3, <1>4, <1>5

LEMMA RememberKeeps ==
  ASSUME PipelineInv, NEW c \in Clients, W!RecordDecisionMemory(c)
  PROVE  PipelineInv' /\ W!LegalStep
<1> DEFINE new == [req[c] EXCEPT !.op = "notify"]
<1>1. req[c].op = "remember" /\ db' = db /\ calls' = calls /\ req' = [req EXCEPT ![c] = new]
  BY DEF W!RecordDecisionMemory, W!To
<1>2. req[c] \in Task /\ Logs(req[c], db) /\ mem \in Shared /\ mem.reported \in Nat
  BY <1>1, AtTask, TellerSettled DEF Telling, PipelineInv, Shared
<1>3. new \in Task /\ new.op = "notify" /\ new.id = req[c].id /\ new.todo = req[c].todo /\ new.action = req[c].action /\ new.failing = req[c].failing
  BY <1>2, TaskMoves
<1> HIDE DEF new
<1>4. Decides(req[c]) /\ ~Writes(new) /\ Toll(new) = 1 /\ Toll(req[c]) = 1
  BY <1>1, <1>3 DEF Decides, Writes, Toll, Telling, W!LogSteps
<1>5. Logs(new, db)
  BY <1>1, <1>2, <1>3 DEF Logs
<1>6. CASE mem' \in {mem, W!Broken}
  BY <1>1, <1>3, <1>4, <1>5, <1>6, WorkerElsewhere
<1>7. CASE \E n \in 0 .. Len(W!Lessons(c)) : mem' = [mem EXCEPT !.open = @ \cup W!ToSet(SubSeq(W!Lessons(c), 1, n))]
  <2>1. PICK n \in 0 .. Len(W!Lessons(c)) : mem' = [mem EXCEPT !.open = @ \cup W!ToSet(SubSeq(W!Lessons(c), 1, n))]
    BY <1>7
  <2> DEFINE taught == W!ToSet(SubSeq(W!Lessons(c), 1, n))
  <2>2. \A lesson \in taught : lesson \in W!Lesson /\ Settled(db, lesson[2], IF lesson[1] = "false_positive" THEN "AVOID" ELSE "BUY")
    BY <1>1, LessonsSettled DEF Telling
  <2> HIDE DEF taught
  <2>3. mem' = [mem EXCEPT !.open = @ \cup taught]
    BY <2>1 DEF taught
  <2>4. mem' \in Shared /\ mem'.open = mem.open \cup taught /\ mem'.notified = mem.notified /\ mem'.reported = mem.reported
    BY <1>2, <2>2, <2>3 DEF Shared
  <2> QED
    <3>1. \A lesson \in mem'.open \ mem.open :
            Settled(db, lesson[2], IF lesson[1] = "false_positive" THEN "AVOID" ELSE "BUY")
      BY <2>2, <2>4
    <3>2. mem'.reported + Toll(new) <= mem.reported + Toll(req[c])
      BY <1>2, <1>4, <2>4
    <3>3. \A sku \in mem'.notified \ mem.notified : Settled(db, sku, "BUY")
      BY <2>4
    <3>4. mem.open \subseteq mem'.open
      BY <2>4
    <3> QED
      BY <1>1, <1>3, <1>4, <1>5, <2>4, <3>1, <3>2, <3>3, <3>4, WorkerQuiet
<1> QED
  BY <1>6, <1>7 DEF W!RecordDecisionMemory

LEMMA NotifyKeeps ==
  ASSUME PipelineInv, NEW c \in Clients, W!Notify(c)
  PROVE  PipelineInv' /\ W!LegalStep
<1> DEFINE told == IF req[c].action = "BUY" THEN [mem EXCEPT !.notified = @ \cup {Head(req[c].todo)}] ELSE mem
           new == W!NextProduct(c)
<1>1. req[c].op = "notify" /\ db' = db /\ calls' = calls /\ req' = [req EXCEPT ![c] = new] /\ mem' = [told EXCEPT !.reported = @ + 1]
  BY DEF W!Notify, W!Returns, W!To, W!Sku
<1>2. req[c] \in Task /\ Head(req[c].todo) \in Ids /\ Settled(db, Head(req[c].todo), req[c].action) /\ mem \in Shared /\ mem.reported \in Nat
  BY <1>1, AtTask, TellerSettled DEF Telling, PipelineInv, Shared
<1>3. new \in Task \cup {W!Idle} /\ ~Decides(new) /\ Toll(new) = 0 /\ Toll(req[c]) = 1
  BY <1>1, <1>2, NextProductTyped DEF Toll, Telling
<1> HIDE DEF new
<1>4. told \in Shared /\ told.open = mem.open /\ told.reported = mem.reported
      /\ told.notified \subseteq mem.notified \cup (IF req[c].action = "BUY" THEN {Head(req[c].todo)} ELSE {})
  BY <1>2 DEF Shared
<1> HIDE DEF told
<1>5. mem' \in Shared /\ mem'.open = mem.open /\ mem'.reported = mem.reported + 1 /\ mem'.notified = told.notified
  BY <1>1, <1>2, <1>4 DEF Shared
<1>6. \A sku \in mem'.notified \ mem.notified : Settled(db, sku, "BUY")
  BY <1>2, <1>4, <1>5
<1>7. mem'.reported + Toll(new) <= mem.reported + Toll(req[c])
  BY <1>2, <1>3, <1>5
<1> QED
  BY <1>1, <1>3, <1>5, <1>6, <1>7, WorkerQuiet

LEMMA CancelledKeeps ==
  ASSUME PipelineInv, NEW c \in Clients, W!Cancelled(c)
  PROVE  PipelineInv' /\ W!LegalStep
<1>1. /\ req[c].op # "idle" /\ req' = [req EXCEPT ![c] = W!Idle] /\ calls' = calls
      /\ mem' = mem \/ (mem' = W!Broken /\ req[c].op \in {"find", "retrieve", "remember"})
      /\ db' = db \/ (db' = W!Logged(c) /\ req[c].op \in W!LogSteps)
  BY DEF W!Cancelled, W!To
<1>2. mem \in Shared /\ mem.reported \in Nat /\ Toll(req[c]) \in Nat
  BY DEF PipelineInv, Shared, Toll
<1>3. /\ mem' \in Shared /\ mem'.notified = mem.notified /\ mem'.reported = mem.reported
      /\ mem'.open = mem.open \/ (mem'.open = {} /\ ~mem'.sound)
  BY <1>1, <1>2, BrokenShared
<1>4. CASE db' = db
  <2>1. mem'.reported + Toll(W!Idle) <= mem.reported + Toll(req[c])
    BY <1>2, <1>3, IdleDecidesNothing
  <2> QED
    BY <1>1, <1>3, <1>4, <2>1, IdleDecidesNothing, WorkerQuiet
<1>5. CASE db' = W!Logged(c) /\ req[c].op \in W!LogSteps
  <2>1. Writes(req[c]) /\ mem' = mem
    BY <1>1, <1>5 DEF Writes, W!LogSteps
  <2>2. Carries(c, db')
    BY <1>5, <2>1, AtLogs, LogCarries
  <2>3. mem'.reported + Toll(W!Idle) <= mem.reported + (IF req[c].op = "incr" THEN 1 ELSE 0)
    BY <1>2, <2>1, IdleDecidesNothing
  <2> QED
    BY <1>1, <1>3, <2>1, <2>2, <2>3, IdleDecidesNothing, WorkerLogs
<1> QED
  BY <1>1, <1>4, <1>5

LEMMA PipelineAside ==
  ASSUME PipelineInv, W!HourPasses \/ UNCHANGED W!sessionVars
  PROVE  PipelineInv' /\ W!LegalStep
<1>1. /\ db' = db /\ req' = req /\ calls' = calls
      /\ mem' = [mem EXCEPT !.notified = {}] \/ mem' = mem
  BY DEF W!HourPasses, W!sessionVars
<1>2. mem \in Shared /\ db.counter \in Nat
  BY DEF PipelineInv, Log
<1>3. mem' \in Shared /\ mem'.open = mem.open /\ mem'.reported = mem.reported /\ mem'.notified \subseteq mem.notified
  BY <1>1, <1>2 DEF Shared
<1>4. Log(db, calls)' /\ Working' /\ Tellers' = Tellers
  BY <1>1 DEF PipelineInv, Log, Working, Logs, Lists, Decides, Tellers
<1>5. Grounded'
  BY <1>1, <1>3 DEF PipelineInv, Grounded, Settled, Writes
<1>6. PipelineInv'
  BY <1>1, <1>3, <1>4, <1>5 DEF PipelineInv, Shared
<1>7. W!LegalStep
  BY <1>1, <1>2, <1>3 DEF W!LegalStep
<1> QED
  BY <1>6, <1>7

LEMMA PipelineStep ==
  ASSUME PipelineInv, [W!Next]_W!sessionVars
  PROVE  PipelineInv' /\ [W!LegalStep]_W!sessionVars
<1>1. CASE W!HourPasses \/ UNCHANGED W!sessionVars
  BY <1>1, PipelineAside
<1>2. ASSUME NEW c \in Clients, \E type \in W!TaskType : W!ExecuteTask(c, type)
      PROVE  PipelineInv' /\ W!LegalStep
  BY <1>2, ExecuteTaskKeeps
<1>3. ASSUME NEW c \in Clients,
             \/ W!ScanSupplier(c) \/ W!ScanFails(c) \/ W!RetrieveAmazonData(c) \/ W!Decide(c) \/ W!LogCommand(c)
             \/ W!LogFails(c) \/ W!RecordDecisionMemory(c) \/ W!Notify(c) \/ W!Cancelled(c)
      PROVE  PipelineInv' /\ W!LegalStep
  BY <1>3, ScanKeeps, DecideKeeps, LogCommandKeeps, LogFailsKeeps, RememberKeeps, NotifyKeeps, CancelledKeeps
<1> QED
  BY <1>1, <1>2, <1>3 DEF W!Next

LEMMA PipelineInit == W!Init => PipelineInv
<1> SUFFICES ASSUME W!Init PROVE PipelineInv
  OBVIOUS
<1>1. /\ db = [records |-> <<>>, index |-> <<>>, counter |-> 0]
      /\ mem = [sound |-> TRUE, open |-> {}, notified |-> {}, reported |-> 0]
      /\ req = [c \in Clients |-> W!Idle] /\ calls = 0
  BY DEF W!Init, W!NoRequests
<1>2. calls \in 0 .. MaxCalls
  BY <1>1, SessionsAssumption
<1>3. mem \in Shared /\ Grounded
  BY <1>1 DEF Shared, Grounded
<1>4. Log(db, calls)
  <2>1. DOMAIN db.records = {} /\ DOMAIN db.index = {} /\ db.index \in Seq(1 .. calls)
    BY <1>1
  <2> QED
    BY <1>1, <2>1 DEF Log
<1>5. Working
  BY <1>1, IdleDecidesNothing DEF Working
<1>6. Tellers = {}
  BY <1>1, IdleDecidesNothing DEF Tellers, Telling
<1>7. mem.reported + Cardinality(Tellers) <= db.counter
  BY <1>1, <1>6, FS_EmptySet
<1> QED
  BY <1>1, <1>2, <1>3, <1>4, <1>5, <1>7 DEF PipelineInv

\* What the log lists twice is an error's, and both entries are counted as such.
LEMMA PipelineListed ==
  ASSUME PipelineInv
  PROVE  /\ W!ToSet(db.index) \subseteq DOMAIN db.records
         /\ \A i, j \in DOMAIN W!Recent(100) : i # j /\ db.index[i] = db.index[j] =>
              W!Recent(100)[i] = "ERROR" /\ W!Stats.errors >= 2
<1> DEFINE m == W!Least(100, Len(db.index))
           wrong == {k \in DOMAIN W!Recent(100) : W!Recent(100)[k] = "ERROR"}
<1>1. Log(db, calls) /\ db.index \in Seq(1 .. calls)
  BY DEF PipelineInv, Log
<1>2. m \in 0 .. Len(db.index) /\ DOMAIN db.index = 1 .. Len(db.index) /\ Len(db.index) \in Nat
  <2>1. Len(db.index) \in Nat /\ DOMAIN db.index = 1 .. Len(db.index)
    BY <1>1
  <2> QED
    BY <2>1 DEF W!Least
<1> HIDE DEF m
<1>3. DOMAIN W!Recent(100) = 1 .. m /\ \A k \in 1 .. m : W!Recent(100)[k] = db.records[db.index[k]].action
  BY DEF W!Recent, m
<1>4. \A k \in DOMAIN W!Recent(100) : k \in DOMAIN db.index
  BY <1>2, <1>3
<1>5. W!Stats.errors = Cardinality(wrong)
  BY WCardinality DEF W!Stats
<1>6. ASSUME NEW i \in DOMAIN W!Recent(100), NEW j \in DOMAIN W!Recent(100), i # j, db.index[i] = db.index[j]
      PROVE  W!Recent(100)[i] = "ERROR" /\ W!Stats.errors >= 2
  <2>1. db.records[db.index[i]].action = "ERROR"
    BY <1>1, <1>4, <1>6 DEF Log
  <2>2. {i, j} \subseteq wrong /\ W!Recent(100)[i] = "ERROR"
    <3>1. i \in 1 .. m /\ j \in 1 .. m
      BY <1>3
    <3>2. W!Recent(100)[i] = "ERROR" /\ W!Recent(100)[j] = "ERROR"
      BY <1>3, <1>6, <2>1, <3>1
    <3> QED
      BY <1>3, <3>1, <3>2
  <2>3. IsFiniteSet(wrong)
    <3>1. wrong \subseteq 1 .. m /\ m \in Nat
      BY <1>2, <1>3
    <3>2. IsFiniteSet(1 .. m)
      BY <3>1, FS_Interval
    <3> QED
      BY <3>1, <3>2, FS_Subset
  <2>4. Cardinality({i, j}) = 2
    <3>1. IsFiniteSet({i}) /\ Cardinality({i}) = 1 /\ j \notin {i} /\ {i, j} = {i} \cup {j}
      BY <1>6, FS_Singleton
    <3> QED
      BY <3>1, FS_AddElement
  <2>5. Cardinality({i, j}) <= Cardinality(wrong) /\ Cardinality(wrong) \in Nat
    BY <2>2, <2>3, FS_Subset, FS_CardinalityType
  <2> QED
    BY <1>5, <2>2, <2>4, <2>5
<1>7. W!ToSet(db.index) \subseteq DOMAIN db.records
  BY <1>1 DEF W!ToSet, Log
<1> QED
  BY <1>6, <1>7

\* Whatever the workers' commands interleave, fail or are cancelled at: the log lists what can
\* be read and nothing twice but errors, every reported decision is counted, and what was
\* learnt or told rests on a decision in the log (app/agent: pipeline.py, logger.py, notifier.py).
THEOREM PipelineIntegrity == W!Spec => [](W!TypeOK /\ W!Integrity)
<1>1. W!Init => PipelineInv
  BY PipelineInit
<1>2. PipelineInv /\ [W!Next]_W!sessionVars => PipelineInv'
  BY PipelineStep
<1>3. PipelineInv => W!TypeOK /\ W!Integrity
  <2> SUFFICES ASSUME PipelineInv PROVE W!TypeOK /\ W!Integrity
    OBVIOUS
  <2>1. Log(db, calls) /\ calls \in 0 .. MaxCalls /\ MaxCalls \in Nat /\ mem \in Shared
    BY SessionsAssumption DEF PipelineInv
  <2>2. \A id \in 1 .. calls : id \in 1 .. MaxCalls
    BY <2>1
  <2>3. DOMAIN db.records \subseteq 1 .. MaxCalls /\ W!ToSet(db.index) \subseteq 1 .. MaxCalls /\ db.counter \in Nat
    BY <2>1, <2>2, PipelineListed DEF Log
  <2>4. \A c \in Clients : req[c].op \in {"idle", "scan", "find", "retrieve", "remember", "notify"} \cup W!LogSteps
    BY DEF PipelineInv, Working, Task, Telling, W!Idle
  <2>5. W!TypeOK
    BY <2>1, <2>3, <2>4 DEF W!TypeOK, Log, Record, Shared
  <2>6. mem.reported <= db.counter
    <3>1. Cardinality(Tellers) \in Nat
      BY SessionsAssumption, FS_Subset, FS_CardinalityType DEF Tellers
    <3> QED
      BY <2>1, <3>1 DEF PipelineInv, Log, Shared
  <2>7. W!Stats.total = db.counter
    BY DEF W!Stats
  <2>8. \A sku, action : Settled(db, sku, action) => W!RecordedAs(sku, action)
    BY DEF Settled, W!RecordedAs
  <2>9. /\ \A lesson \in mem.open : W!RecordedAs(lesson[2], IF lesson[1] = "false_positive" THEN "AVOID" ELSE "BUY")
        /\ \A sku \in mem.notified : W!RecordedAs(sku, "BUY")
    BY <2>8 DEF PipelineInv, Grounded
  <2> QED
    BY <2>5, <2>6, <2>7, <2>9, PipelineListed DEF W!Integrity
<1> QED
  BY <1>1, <1>2, <1>3, PTL DEF W!Spec

\* A record of the log turns into an error or stays as it is, the counter never falls, and
\* what was learnt goes only with the whole broken session (DecisionLogger.log,
\* run_full_pipeline, _record_decision_memory).
THEOREM PipelineLegalSteps == W!Spec => [][W!LegalStep]_W!sessionVars
<1>1. W!Init => PipelineInv
  BY PipelineInit
<1>2. PipelineInv /\ [W!Next]_W!sessionVars => PipelineInv'
  BY PipelineStep
<1>3. PipelineInv /\ [W!Next]_W!sessionVars => [W!LegalStep]_W!sessionVars
  BY PipelineStep
<1> QED
  BY <1>1, <1>2, <1>3, PTL DEF W!Spec
=============================================================================
