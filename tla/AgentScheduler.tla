--------------------------- MODULE AgentScheduler ---------------------------
(***************************************************************************)
(* AgentScheduler (app/agent/scheduler.py): the API requests that start,   *)
(* stop, pause and resume the agent, the scheduler loop, the recovery loop *)
(* and the pool of workers (worker.py), on one asyncio event loop.         *)
(*                                                                         *)
(* start never suspends, so it is one step.  stop suspends at every task   *)
(* it cancels and awaits, and other requests run meanwhile: `at' and `pos' *)
(* say what each stop is waiting for.  An await of a task that has already *)
(* ended is a step of its own, which only adds interleavings.  The queue   *)
(* is what the scheduler sees of TaskQueue: how many tasks are pending and *)
(* whether an id was left for good in the pending or the running set.      *)
(***************************************************************************)
EXTENDS Integers, Sequences, FiniteSets

CONSTANTS
  Requests,    \* requests that may be in stop at the same time
  WorkerCount, \* worker_count
  Suppliers,   \* how many suppliers are enabled; with none a cycle changes nothing
  MaxStarts,   \* BOUND: times the agent is started
  MaxQueued    \* BOUND: pending tasks are counted up to this many

ASSUME AgentAssumption ==
  /\ WorkerCount \in Nat \ {0}
  /\ Suppliers \in Nat \ {0}
  /\ MaxStarts \in Nat \ {0}
  /\ MaxQueued \in Nat \ {0}

Runs == 1 .. MaxStarts

Statuses == {"stopped", "running", "paused", "degraded"}

\* Where the scheduler loop of a start sleeps or awaits.
SchedulerPlaces == {"none", "delay", "paused", "enqueue", "poll", "interval", "cancelled", "done"}

\* Where the recovery loop of a start sleeps or awaits.
RecoveryPlaces == {"none", "sleep", "depth", "error", "cancelled", "done"}

\* "cancelled": told to end; "ended": its loop is over; "stopped": its info says so.
\* The loop error of a worker ("error") is as alive as "idle" to whoever reads its info.
WorkerStates == {"idle", "busy", "cancelled", "ended", "stopped"}

\* What a stop awaits: the scheduler loop, the recovery loop, or a worker;
\* "next": its worker has ended and was replaced before the stop woke.
StopPlaces == {"none", "scheduler", "recovery", "worker", "next"}

VARIABLES
  running,    \* _running
  status,     \* _run_info.status
  starts,     \* how often the agent was started: _scheduler_task and _recovery_task are those of the last
  scheduler,  \* the scheduler loop of each start
  recovery,   \* the recovery loop of each start
  todo,       \* tasks each scheduler loop has still to enqueue in its cycle
  pool,       \* _workers
  at, pos,    \* the stop each request is in, and the run or the position it awaits
  queued,     \* pending tasks
  stranded    \* an id is left in the pending or the running set

loopVars == <<scheduler, recovery, todo>>
stopVars == <<at, pos>>
queueVars == <<queued, stranded>>
vars == <<running, status, starts, loopVars, pool, stopVars, queueVars>>

-----------------------------------------------------------------------------
\* The type of every variable; a stop awaits a run or a position that exists, and a
\* loop that enqueues has a task left.
TypeOK ==
  /\ running \in BOOLEAN
  /\ status \in Statuses
  /\ starts \in 0 .. MaxStarts
  /\ scheduler \in [Runs -> SchedulerPlaces]
  /\ recovery \in [Runs -> RecoveryPlaces]
  /\ todo \in [Runs -> 0 .. Suppliers]
  /\ pool \in Seq(WorkerStates)
  /\ at \in [Requests -> StopPlaces]
  /\ pos \in [Requests -> Nat]
  /\ queued \in 0 .. MaxQueued
  /\ stranded \in BOOLEAN
  /\ \A k \in Runs : scheduler[k] = "enqueue" => todo[k] # 0
  /\ \A r \in Requests :
       /\ at[r] \in {"scheduler", "recovery"} => pos[r] \in 1 .. starts
       /\ at[r] \in {"worker", "next"} => pos[r] \in 1 .. Len(pool)

Init ==
  /\ running = FALSE
  /\ status = "stopped"
  /\ starts = 0
  /\ scheduler = [k \in Runs |-> "none"]
  /\ recovery = [k \in Runs |-> "none"]
  /\ todo = [k \in Runs |-> 0]
  /\ pool = <<>>
  /\ at = [r \in Requests |-> "none"]
  /\ pos = [r \in Requests |-> 0]
  /\ queued = 0
  /\ stranded = FALSE

-----------------------------------------------------------------------------
(* Requests *)

\* start: new workers join whatever the list still holds.
Start ==
  /\ ~running
  /\ starts < MaxStarts
  /\ running' = TRUE
  /\ status' = "running"
  /\ starts' = starts + 1
  /\ pool' = pool \o [i \in 1 .. WorkerCount |-> "idle"]
  /\ scheduler' = [scheduler EXCEPT ![starts + 1] = "delay"]
  /\ recovery' = [recovery EXCEPT ![starts + 1] = "sleep"]
  /\ UNCHANGED <<todo, stopVars, queueVars>>

\* task.cancel(): nothing happens to a task that has ended.
Cancelled(place) == IF place \in {"none", "done"} THEN place ELSE "cancelled"

\* Mutant of StopBegin: stop relies on _running to end the scheduler loop it does not cancel.
StopByFlag(r) ==
  /\ at[r] = "none"
  /\ running' = FALSE
  /\ status' = "stopped"
  /\ IF starts = 0
       THEN UNCHANGED stopVars
       ELSE at' = [at EXCEPT ![r] = "scheduler"] /\ pos' = [pos EXCEPT ![r] = starts]
  /\ UNCHANGED <<starts, loopVars, pool, queueVars>>

\* stop, up to the first await; before the first start there is nothing to await.
StopBegin(r) ==
  /\ at[r] = "none"
  /\ running' = FALSE
  /\ status' = "stopped"
  /\ IF starts = 0
       THEN UNCHANGED <<scheduler, stopVars>>
       ELSE /\ scheduler' = [scheduler EXCEPT ![starts] = Cancelled(@)]
            /\ at' = [at EXCEPT ![r] = "scheduler"]
            /\ pos' = [pos EXCEPT ![r] = starts]
  /\ UNCHANGED <<starts, recovery, todo, pool, queueVars>>

\* The awaited scheduler loop has ended: stop reads _recovery_task now.
StopRecovery(r) ==
  /\ at[r] = "scheduler"
  /\ scheduler[pos[r]] = "done"
  /\ recovery' = [recovery EXCEPT ![starts] = Cancelled(@)]
  /\ at' = [at EXCEPT ![r] = "recovery"]
  /\ pos' = [pos EXCEPT ![r] = starts]
  /\ UNCHANGED <<running, status, starts, scheduler, todo, pool, queueVars>>

Told(state) == IF state \in {"idle", "busy"} THEN "cancelled" ELSE state

\* The positions after i whose worker.stop() suspends: the worker is not stopped yet.
ToStop(list, i) == {j \in i + 1 .. Len(list) : list[j] # "stopped"}

\* Mutant of StopFrom: stop awaits the worker after the one it has cancelled.
StopFromOffByOne(r, list, i) ==
  \/ /\ ToStop(list, i) = {}
     /\ pool' = list
     /\ at' = [at EXCEPT ![r] = "none"]
     /\ UNCHANGED <<pos, stranded>>
  \/ \E j \in ToStop(list, i) :
       /\ \A other \in ToStop(list, i) : j <= other
       /\ pool' = [list EXCEPT ![j] = Told(@)]
       /\ at' = [at EXCEPT ![r] = "worker"]
       /\ pos' = [pos EXCEPT ![r] = j + 1]
       /\ stranded' \in {stranded, TRUE}

\* The for loop over _workers goes on after position i of the list as it is now.
\* A cancelled worker may leave the id of its task in a set (module TaskQueue).
StopFrom(r, list, i) ==
  \/ /\ ToStop(list, i) = {}
     /\ pool' = list
     /\ at' = [at EXCEPT ![r] = "none"]
     /\ UNCHANGED <<pos, stranded>>
  \/ \E j \in ToStop(list, i) :
       /\ \A other \in ToStop(list, i) : j <= other
       /\ pool' = [list EXCEPT ![j] = Told(@)]
       /\ at' = [at EXCEPT ![r] = "worker"]
       /\ pos' = [pos EXCEPT ![r] = j]
       /\ stranded' \in {stranded, TRUE}

\* The awaited recovery loop, or the awaited worker, has ended.
StopNext(r) ==
  /\ \/ /\ at[r] = "recovery"
        /\ recovery[pos[r]] = "done"
        /\ StopFrom(r, pool, 0)
     \/ /\ at[r] = "worker"
        /\ pool[pos[r]] \in {"ended", "stopped"}
        /\ StopFrom(r, [pool EXCEPT ![pos[r]] = "stopped"], pos[r])
     \/ /\ at[r] = "next"
        /\ StopFrom(r, pool, pos[r])
  /\ UNCHANGED <<running, status, starts, loopVars, queued>>

Pause ==
  /\ status' = "paused"
  /\ UNCHANGED <<running, starts, loopVars, pool, stopVars, queueVars>>

Resume ==
  /\ status' = "running"
  /\ UNCHANGED <<running, starts, loopVars, pool, stopVars, queueVars>>

\* TaskQueue.clear, by POST /agent/queue/clear: the running set stays.
ClearQueue ==
  /\ queued' = 0
  /\ UNCHANGED <<running, status, starts, loopVars, pool, stopVars, stranded>>

-----------------------------------------------------------------------------
(* The scheduler loop of start k *)

\* Awake: leave, wait while paused, or begin a cycle.
SchedulerWake(k) ==
  /\ scheduler[k] \in {"delay", "paused", "interval"}
  /\ \/ /\ ~running
        /\ scheduler' = [scheduler EXCEPT ![k] = "done"]
        /\ UNCHANGED todo
     \/ /\ running
        /\ status = "paused"
        /\ scheduler[k] # "paused"
        /\ scheduler' = [scheduler EXCEPT ![k] = "paused"]
        /\ UNCHANGED todo
     \/ /\ running
        /\ status # "paused"
        /\ scheduler' = [scheduler EXCEPT ![k] = "enqueue"]
        /\ todo' = [todo EXCEPT ![k] = Suppliers]
  /\ UNCHANGED <<running, status, starts, recovery, pool, stopVars, queueVars>>

More(n) == IF n < MaxQueued THEN n + 1 ELSE n

\* enqueue_many: one supplier's task, and after the last one the polling begins.
Enqueue(k) ==
  /\ scheduler[k] = "enqueue"
  /\ queued' = More(queued)
  /\ todo' = [todo EXCEPT ![k] = @ - 1]
  /\ scheduler' = IF todo[k] > 1 THEN scheduler ELSE [scheduler EXCEPT ![k] = "poll"]
  /\ UNCHANGED <<running, status, starts, recovery, pool, stopVars, stranded>>

NothingRuns == queued = 0 /\ ~stranded /\ \A i \in DOMAIN pool : pool[i] # "busy"

\* The cycle is over: the queue is empty and nothing runs.
PollEmpty(k) ==
  /\ scheduler[k] = "poll"
  /\ NothingRuns
  /\ scheduler' = [scheduler EXCEPT ![k] = "interval"]
  /\ UNCHANGED <<running, status, starts, recovery, todo, pool, stopVars, queueVars>>

\* Mutant of PollGivesUp: a cycle waits for the queue to be empty, however long it takes.
PollStaysOn(k) == PollEmpty(k)

\* The cycle is over: ten minutes have passed.
PollGivesUp(k) ==
  /\ scheduler[k] = "poll"
  /\ scheduler' = [scheduler EXCEPT ![k] = "interval"]
  /\ UNCHANGED <<running, status, starts, recovery, todo, pool, stopVars, queueVars>>

\* A command of Redis fails in the cycle: it is logged, and the interval begins.
CycleFails(k) ==
  /\ scheduler[k] \in {"enqueue", "poll"}
  /\ scheduler' = [scheduler EXCEPT ![k] = "interval"]
  /\ todo' = [todo EXCEPT ![k] = 0]
  /\ UNCHANGED <<running, status, starts, recovery, pool, stopVars, queueVars>>

\* CancelledError leaves the loop wherever it was.
SchedulerEnds(k) ==
  /\ scheduler[k] = "cancelled"
  /\ scheduler' = [scheduler EXCEPT ![k] = "done"]
  /\ UNCHANGED <<running, status, starts, recovery, todo, pool, stopVars, queueVars>>

-----------------------------------------------------------------------------
(* The recovery loop of start k *)

\* Mutant of RecoveryWake: the loop does not look at _running after its sleep.
RecoverAnyway(k) ==
  /\ recovery[k] = "sleep"
  /\ recovery' = [recovery EXCEPT ![k] = "depth"]
  /\ pool' = [i \in DOMAIN pool |-> IF pool[i] = "stopped" THEN "idle" ELSE pool[i]]
  /\ UNCHANGED <<running, status, starts, scheduler, todo, stopVars, queueVars>>

\* Mutant of RecoveryWake: the loop sets "running" whenever all workers live.
RecoverAndResume(k) ==
  /\ recovery[k] = "sleep"
  /\ running
  /\ recovery' = [recovery EXCEPT ![k] = "depth"]
  /\ pool' = [i \in DOMAIN pool |-> IF pool[i] = "stopped" THEN "idle" ELSE pool[i]]
  /\ status' = "running"
  /\ UNCHANGED <<running, starts, scheduler, todo, stopVars, queueVars>>

\* Half a minute later: every worker that says it is stopped is replaced, the
\* status is brought up to date, and the depth of the queue is asked for.
RecoveryWake(k) ==
  /\ recovery[k] = "sleep"
  /\ IF ~running
       THEN /\ recovery' = [recovery EXCEPT ![k] = "done"]
            /\ UNCHANGED <<pool, status, at>>
       ELSE /\ recovery' = [recovery EXCEPT ![k] = "depth"]
            /\ pool' = [i \in DOMAIN pool |-> IF pool[i] = "stopped" THEN "idle" ELSE pool[i]]
            /\ at' = [r \in Requests |->
                        IF at[r] = "worker" /\ pool[pos[r]] = "stopped" THEN "next" ELSE at[r]]
            /\ status' = IF \E i \in DOMAIN pool : pool'[i] = "stopped" THEN "degraded"
                         ELSE IF status = "degraded" THEN "running" ELSE status
  /\ UNCHANGED <<running, starts, scheduler, todo, pos, queueVars>>

\* The depth has come, or the pause after an error is over: around the loop.
RecoveryLoops(k) ==
  /\ recovery[k] \in {"depth", "error"}
  /\ recovery' = [recovery EXCEPT ![k] = IF running THEN "sleep" ELSE "done"]
  /\ UNCHANGED <<running, status, starts, scheduler, todo, pool, stopVars, queueVars>>

RecoveryFails(k) ==
  /\ recovery[k] = "depth"
  /\ recovery' = [recovery EXCEPT ![k] = "error"]
  /\ UNCHANGED <<running, status, starts, scheduler, todo, pool, stopVars, queueVars>>

RecoveryEnds(k) ==
  /\ recovery[k] = "cancelled"
  /\ recovery' = [recovery EXCEPT ![k] = "done"]
  /\ UNCHANGED <<running, status, starts, scheduler, todo, pool, stopVars, queueVars>>

-----------------------------------------------------------------------------
(* The worker at position i *)

\* A count at its bound stands for any larger one.
Fewer(n) == {n - 1} \cup {m \in {n} : n = MaxQueued}

Take(i) ==
  /\ pool[i] = "idle"
  /\ queued > 0
  /\ pool' = [pool EXCEPT ![i] = "busy"]
  /\ queued' \in Fewer(queued)
  /\ UNCHANGED <<running, status, starts, loopVars, stopVars, stranded>>

\* The task is done or failed for good, goes back to the queue, or its id stays behind.
Finish(i) ==
  /\ pool[i] = "busy"
  /\ pool' = [pool EXCEPT ![i] = "idle"]
  /\ \/ UNCHANGED queueVars
     \/ queued' = More(queued) /\ UNCHANGED stranded
     \/ stranded' = TRUE /\ UNCHANGED queued
  /\ UNCHANGED <<running, status, starts, loopVars, stopVars>>

\* A cancelled worker leaves its loop.
WorkerEnds(i) ==
  /\ pool[i] = "cancelled"
  /\ pool' = [pool EXCEPT ![i] = "ended"]
  /\ UNCHANGED <<running, status, starts, loopVars, stopVars, queueVars>>

-----------------------------------------------------------------------------
\* The scheduler loop while Redis answers.
SchedulerRuns(k) == SchedulerWake(k) \/ Enqueue(k) \/ PollEmpty(k) \/ PollGivesUp(k)

SchedulerStep(k) == SchedulerRuns(k) \/ CycleFails(k) \/ SchedulerEnds(k)

RecoveryStep(k) ==
  RecoveryWake(k) \/ RecoveryLoops(k) \/ RecoveryFails(k) \/ RecoveryEnds(k)

StopStep(r) == StopBegin(r) \/ StopRecovery(r) \/ StopNext(r)

WorkerStep(i) == Take(i) \/ Finish(i) \/ WorkerEnds(i)

Next ==
  \/ Start \/ Pause \/ Resume \/ ClearQueue
  \/ \E r \in Requests : StopStep(r)
  \/ \E k \in Runs : SchedulerStep(k) \/ RecoveryStep(k)
  \/ \E i \in DOMAIN pool : WorkerStep(i)

Spec == Init /\ [][Next]_vars

\* The event loop runs a scheduler loop whose sleep or await is over; nothing
\* obliges a request to come, a worker to be done or Redis to fail.
FairSpec == Spec /\ \A k \in Runs : WF_vars(SchedulerRuns(k))

-----------------------------------------------------------------------------
(* Properties *)

Live(place) == place \notin {"none", "cancelled", "done"}

\* At most one scheduler loop is at work, however starts and stops interleave: the
\* one of the last start, exactly while the agent runs.
OneScheduler == \A k \in Runs : Live(scheduler[k]) <=> running /\ k = starts

Stopping == \E r \in Requests : at[r] # "none"

\* Once every stop has returned and no start came after it, no worker is left
\* alive, also when a recovery loop outlived the stop that should have ended it.
StoppedMeansStopped ==
  ~running /\ ~Stopping => \A i \in DOMAIN pool : pool[i] = "stopped"

\* Only a request takes the agent out of a pause: neither loop does, though the
\* recovery loop writes the status too.
PauseHolds ==
  [][status = "paused" /\ status' # "paused"
       => Resume \/ Start \/ \E r \in Requests : StopBegin(r)]_vars

BeginCycle == \E k \in Runs : scheduler[k] # "enqueue" /\ scheduler'[k] = "enqueue"

\* An agent that runs and is not paused begins one cycle after another, although a
\* task that a worker left behind keeps the queue from ever looking empty.
CyclesGoOn == []<>(~running \/ status = "paused") \/ []<><<BeginCycle>>_vars

\* Config: worker_count is the "Number of concurrent workers".
PoolAsConfigured ==
  ~Stopping => Cardinality({i \in DOMAIN pool : pool[i] \in {"idle", "busy"}}) <= WorkerCount

=============================================================================
