------------------------------ MODULE TaskQueue ------------------------------
(***************************************************************************)
(* The Redis task queue of the sourcing agent (app/agent/queue.py) and the *)
(* coroutines that use it: the producers that enqueue (the scheduler's     *)
(* cycle), the workers that dequeue, execute and complete or fail          *)
(* (app/agent/worker.py), and an operator who cancels or clears.           *)
(*                                                                         *)
(* Every TaskQueue method is a row of Redis commands with an await between *)
(* two of them.  One action is one command: whatever another coroutine     *)
(* does between two commands of a method happens between two actions.      *)
(* A step that raises, times out or is cancelled leaves the commands       *)
(* before it in force; a command whose reply is lost is the command        *)
(* followed by such a step.                                                *)
(***************************************************************************)
EXTENDS Naturals, Sequences, FiniteSets

CONSTANTS
  Tasks,      \* the task ids handed to enqueue, each once (they are uuid4)
  Workers,    \* worker coroutines
  Producers,  \* coroutines that call enqueue
  NoTask,     \* stands for "no task in hand"
  TopLevel,   \* the lists are p0 .. pTopLevel (10 in the code)
  Priority,   \* Task.priority
  MaxRetries, \* Task.max_retries of each task (3 unless the caller says otherwise)
  AdminOps,   \* the operator's methods in this instance
  Faults,     \* the faults of this instance
  MaxAdmin,   \* BOUND: calls the operator makes
  MaxStops    \* BOUND: cancellations and commands that raise in dequeue, fail or enqueue

Levels == 0 .. TopLevel

ASSUME QueueAssumption ==
  /\ NoTask \notin Tasks
  /\ TopLevel \in Nat
  /\ Priority \in [Tasks -> Levels]
  /\ MaxRetries \in [Tasks -> Nat]
  /\ AdminOps \subseteq {"cancel", "clear"}
  /\ Faults \subseteq {"break", "drop", "stop", "expire"}
  /\ MaxAdmin \in Nat
  /\ MaxStops \in Nat

VARIABLES
  record,   \* agent:queue:task:<id>, the stored Task
  list,     \* agent:queue:p<level>, head first
  pending,  \* agent:queue:pending
  running,  \* agent:queue:running
  counter,  \* agent:queue:counter:*
  backoff,  \* agent:queue:retry:<id> and agent:queue:scheduled:<id>
  todo,     \* tasks no producer has enqueued yet
  step,     \* each producer: the command it issues next
  item,     \* each producer: the task it is enqueuing
  at,       \* each worker: the command it issues next
  hand,     \* each worker: the task it has taken
  copy,     \* each worker: its copy of the record, as it will be written
  admin,    \* the operator: the next command and what it has read
  calls,    \* operator calls made
  stops,    \* cancellations and commands that raised, but for those in complete
  aged      \* history: tasks stored as finished whose record has expired

redis == <<record, list, pending, running, counter, backoff>>
prod == <<step, item>>
worker == <<at, hand, copy>>
vars == <<redis, todo, prod, worker, admin, calls, stops, aged>>

-----------------------------------------------------------------------------
Status == {"absent", "pending", "running", "success", "failed", "cancelled"}

Finished == {"success", "failed"}

TaskRecord == [status : Status, retries : Nat]

Absent == [status |-> "absent", retries |-> 0]

DequeueSteps == {"get", "srem", "sadd", "set"}
ProcessSteps == {"exec", "cget", "cset", "csrem", "cincr", "ack"}
FailSteps == {"fget", "fretry", "fsched", "fset", "fsrem", "fincr"}
WorkerSteps == DequeueSteps \cup ProcessSteps \cup FailSteps \cup {"idle", "stopped"}

Call(cmd, t, found, level) == [at |-> cmd, task |-> t, found |-> found, level |-> level]
NoCall == Call("none", NoTask, {}, 0)

Queued == {t \in Tasks : \E l \in Levels : \E i \in 1 .. Len(list[l]) : list[l][i] = t}

Held == {hand[w] : w \in Workers} \ {NoTask}

\* Tasks that have been pushed on a list, whatever happened to them since.
Pushed == Tasks \ (todo \cup {item[p] : p \in {q \in Producers : step[q] = "push"}})

TypeOK ==
  /\ record \in [Tasks -> TaskRecord]
  /\ list \in [Levels -> Seq(Tasks)]
  /\ pending \in SUBSET Tasks
  /\ running \in SUBSET Tasks
  /\ counter \in [{"enqueued", "completed", "failed"} -> Nat]
  /\ backoff \in [{"retry", "scheduled"} -> SUBSET Tasks]
  /\ todo \in SUBSET Tasks
  /\ step \in [Producers -> {"ready", "push", "track", "count"}]
  /\ item \in [Producers -> Tasks \cup {NoTask}]
  /\ at \in [Workers -> WorkerSteps]
  /\ hand \in [Workers -> Tasks \cup {NoTask}]
  /\ copy \in [Workers -> TaskRecord]
  /\ admin \in [at : {"none", "cset", "csrem", "del", "delpending", "dellist"},
                task : Tasks \cup {NoTask}, found : SUBSET Tasks, level : Levels]
  /\ calls \in 0 .. MaxAdmin
  /\ stops \in 0 .. MaxStops
  /\ aged \in SUBSET Tasks

Init ==
  /\ record = [t \in Tasks |-> Absent]
  /\ list = [l \in Levels |-> <<>>]
  /\ pending = {}
  /\ running = {}
  /\ counter = [c \in {"enqueued", "completed", "failed"} |-> 0]
  /\ backoff = [k \in {"retry", "scheduled"} |-> {}]
  /\ todo = Tasks
  /\ step = [p \in Producers |-> "ready"]
  /\ item = [p \in Producers |-> NoTask]
  /\ at = [w \in Workers |-> "idle"]
  /\ hand = [w \in Workers |-> NoTask]
  /\ copy = [w \in Workers |-> Absent]
  /\ admin = NoCall
  /\ calls = 0
  /\ stops = 0
  /\ aged = {}

-----------------------------------------------------------------------------
(* enqueue: SET the record, LPUSH the id, SADD it to pending, INCR.        *)

Proceed(p, s) == step' = [step EXCEPT ![p] = s] /\ UNCHANGED item

EndEnqueue(p) ==
  /\ step' = [step EXCEPT ![p] = "ready"]
  /\ item' = [item EXCEPT ![p] = NoTask]

EnqueueStore(p) ==
  /\ step[p] = "ready"
  /\ \E t \in todo :
       /\ todo' = todo \ {t}
       /\ item' = [item EXCEPT ![p] = t]
       /\ record' = [record EXCEPT ![t] = [status |-> "pending", retries |-> 0]]
  /\ step' = [step EXCEPT ![p] = "push"]
  /\ UNCHANGED <<list, pending, running, counter, backoff, worker, admin, calls, stops, aged>>

EnqueuePush(p) ==
  /\ step[p] = "push"
  /\ list' = [list EXCEPT ![Priority[item[p]]] = <<item[p]>> \o @]
  /\ Proceed(p, "track")
  /\ UNCHANGED <<record, pending, running, counter, backoff, todo, worker, admin, calls, stops, aged>>

EnqueueTrack(p) ==
  /\ step[p] = "track"
  /\ pending' = pending \cup {item[p]}
  /\ Proceed(p, "count")
  /\ UNCHANGED <<record, list, running, counter, backoff, todo, worker, admin, calls, stops, aged>>

EnqueueCount(p) ==
  /\ step[p] = "count"
  /\ counter' = [counter EXCEPT !["enqueued"] = @ + 1]
  /\ EndEnqueue(p)
  /\ UNCHANGED <<record, list, pending, running, backoff, todo, worker, admin, calls, stops, aged>>

ProducerStep(p) == EnqueueStore(p) \/ EnqueuePush(p) \/ EnqueueTrack(p) \/ EnqueueCount(p)

-----------------------------------------------------------------------------
(* dequeue: BLPOP p0 .. p10, GET the record, SREM pending, SADD running,   *)
(* SET the copy with status RUNNING.  A record that is gone returns None.  *)

Goto(w, s) == at' = [at EXCEPT ![w] = s] /\ UNCHANGED <<hand, copy>>

LetGo(w, s) ==
  /\ at' = [at EXCEPT ![w] = s]
  /\ hand' = [hand EXCEPT ![w] = NoTask]
  /\ copy' = [copy EXCEPT ![w] = Absent]

\* The record that is read is kept with the status it will be written with.
ReadAs(w, s, status, retries) ==
  /\ at' = [at EXCEPT ![w] = s]
  /\ copy' = [copy EXCEPT ![w] = [status |-> status, retries |-> retries]]
  /\ UNCHANGED hand

\* Mutants of DequeuePop: the id is read but left in the list; range(10) forgets p10.
DequeuePopPeeks(w) ==
  /\ at[w] = "idle"
  /\ \E l \in Levels :
       /\ list[l] # <<>>
       /\ \A k \in Levels : k < l => list[k] = <<>>
       /\ hand' = [hand EXCEPT ![w] = Head(list[l])]
  /\ at' = [at EXCEPT ![w] = "get"]
  /\ UNCHANGED <<redis, todo, prod, copy, admin, calls, stops, aged>>

DequeuePopForgetsLast(w) ==
  /\ at[w] = "idle"
  /\ \E l \in Levels \ {TopLevel} :
       /\ list[l] # <<>>
       /\ \A k \in Levels : k < l => list[k] = <<>>
       /\ list' = [list EXCEPT ![l] = Tail(@)]
       /\ hand' = [hand EXCEPT ![w] = Head(list[l])]
  /\ at' = [at EXCEPT ![w] = "get"]
  /\ UNCHANGED <<record, pending, running, counter, backoff, todo, prod, copy, admin, calls, stops, aged>>

DequeuePop(w) ==
  /\ at[w] = "idle"
  /\ \E l \in Levels :
       /\ list[l] # <<>>
       /\ \A k \in Levels : k < l => list[k] = <<>>
       /\ list' = [list EXCEPT ![l] = Tail(@)]
       /\ hand' = [hand EXCEPT ![w] = Head(list[l])]
  /\ at' = [at EXCEPT ![w] = "get"]
  /\ UNCHANGED <<record, pending, running, counter, backoff, todo, prod, copy, admin, calls, stops, aged>>

\* Mutant of DequeueGet: an id whose record is gone is put back on its list.
DequeueGetRequeues(w) ==
  /\ at[w] = "get"
  /\ IF record[hand[w]] = Absent
     THEN LetGo(w, "idle") /\ list' = [list EXCEPT ![Priority[hand[w]]] = <<hand[w]>> \o @]
     ELSE ReadAs(w, "srem", "running", record[hand[w]].retries) /\ UNCHANGED list
  /\ UNCHANGED <<record, pending, running, counter, backoff, todo, prod, admin, calls, stops, aged>>

DequeueGet(w) ==
  /\ at[w] = "get"
  /\ LET r == record[hand[w]]
     IN IF r = Absent THEN LetGo(w, "idle") ELSE ReadAs(w, "srem", "running", r.retries)
  /\ UNCHANGED <<redis, todo, prod, admin, calls, stops, aged>>

\* Mutant of DequeueSrem: the SADD of the running set is forgotten.
DequeueSremOnly(w) ==
  /\ at[w] = "srem"
  /\ pending' = pending \ {hand[w]}
  /\ Goto(w, "set")
  /\ UNCHANGED <<record, list, running, counter, backoff, todo, prod, admin, calls, stops, aged>>

DequeueSrem(w) ==
  /\ at[w] = "srem"
  /\ pending' = pending \ {hand[w]}
  /\ Goto(w, "sadd")
  /\ UNCHANGED <<record, list, running, counter, backoff, todo, prod, admin, calls, stops, aged>>

DequeueSadd(w) ==
  /\ at[w] = "sadd"
  /\ running' = running \cup {hand[w]}
  /\ Goto(w, "set")
  /\ UNCHANGED <<record, list, pending, counter, backoff, todo, prod, admin, calls, stops, aged>>

DequeueSet(w) ==
  /\ at[w] = "set"
  /\ record' = [record EXCEPT ![hand[w]] = copy[w]]
  /\ Goto(w, "exec")
  /\ UNCHANGED <<list, pending, running, counter, backoff, todo, prod, admin, calls, stops, aged>>

-----------------------------------------------------------------------------
(* _execute_task returns, then complete: GET, SET SUCCESS, SREM running,   *)
(* INCR completed.                                                         *)

Execute(w) ==
  /\ at[w] = "exec"
  /\ Goto(w, "cget")
  /\ UNCHANGED <<redis, todo, prod, admin, calls, stops, aged>>

\* Mutant of CompleteGet: a status that TaskStatus does not have.
CompleteGetNoSuchStatus(w) ==
  /\ at[w] = "cget"
  /\ LET r == record[hand[w]]
     IN IF r = Absent THEN Goto(w, "ack") ELSE ReadAs(w, "cset", "completed", r.retries)
  /\ UNCHANGED <<redis, todo, prod, admin, calls, stops, aged>>

CompleteGet(w) ==
  /\ at[w] = "cget"
  /\ LET r == record[hand[w]]
     IN IF r = Absent THEN Goto(w, "ack") ELSE ReadAs(w, "cset", "success", r.retries)
  /\ UNCHANGED <<redis, todo, prod, admin, calls, stops, aged>>

\* Mutant of CompleteSet: the record is not stored before the counter moves.
CompleteSetForgotten(w) ==
  /\ at[w] = "cset"
  /\ Goto(w, "csrem")
  /\ UNCHANGED <<redis, todo, prod, admin, calls, stops, aged>>

CompleteSet(w) ==
  /\ at[w] = "cset"
  /\ record' = [record EXCEPT ![hand[w]] = copy[w]]
  /\ Goto(w, "csrem")
  /\ UNCHANGED <<list, pending, running, counter, backoff, todo, prod, admin, calls, stops, aged>>

CompleteSrem(w) ==
  /\ at[w] = "csrem"
  /\ running' = running \ {hand[w]}
  /\ Goto(w, "cincr")
  /\ UNCHANGED <<record, list, pending, counter, backoff, todo, prod, admin, calls, stops, aged>>

CompleteIncr(w) ==
  /\ at[w] = "cincr"
  /\ counter' = [counter EXCEPT !["completed"] = @ + 1]
  /\ Goto(w, "ack")
  /\ UNCHANGED <<record, list, pending, running, backoff, todo, prod, admin, calls, stops, aged>>

\* complete has returned inside the timeout: the loop goes round.
Finish(w) ==
  /\ at[w] = "ack"
  /\ LetGo(w, "idle")
  /\ UNCHANGED <<redis, todo, prod, admin, calls, stops, aged>>

-----------------------------------------------------------------------------
(* fail: GET, then either the two backoff keys or FAILED, SREM, INCR.      *)

\* The timeout or an exception anywhere in the execution and in complete.
Break(w) ==
  /\ "break" \in Faults
  /\ at[w] \in ProcessSteps
  /\ Goto(w, "fget")
  /\ UNCHANGED <<redis, todo, prod, admin, calls, stops, aged>>

FailGet(w) ==
  /\ at[w] = "fget"
  /\ LET r == record[hand[w]]
     IN IF r = Absent THEN LetGo(w, "idle")
        ELSE IF r.retries + 1 < MaxRetries[hand[w]] THEN Goto(w, "fretry")
        ELSE ReadAs(w, "fset", "failed", r.retries + 1)
  /\ UNCHANGED <<redis, todo, prod, admin, calls, stops, aged>>

FailRetryKey(w) ==
  /\ at[w] = "fretry"
  /\ backoff' = [backoff EXCEPT !["retry"] = @ \cup {hand[w]}]
  /\ Goto(w, "fsched")
  /\ UNCHANGED <<record, list, pending, running, counter, todo, prod, admin, calls, stops, aged>>

\* Mutant of FailSchedule: the parked task leaves the running set.
FailScheduleUncounted(w) ==
  /\ at[w] = "fsched"
  /\ backoff' = [backoff EXCEPT !["scheduled"] = @ \cup {hand[w]}]
  /\ running' = running \ {hand[w]}
  /\ LetGo(w, "idle")
  /\ UNCHANGED <<record, list, pending, counter, todo, prod, admin, calls, stops, aged>>

FailSchedule(w) ==
  /\ at[w] = "fsched"
  /\ backoff' = [backoff EXCEPT !["scheduled"] = @ \cup {hand[w]}]
  /\ LetGo(w, "idle")
  /\ UNCHANGED <<record, list, pending, running, counter, todo, prod, admin, calls, stops, aged>>

FailSet(w) ==
  /\ at[w] = "fset"
  /\ record' = [record EXCEPT ![hand[w]] = copy[w]]
  /\ Goto(w, "fsrem")
  /\ UNCHANGED <<list, pending, running, counter, backoff, todo, prod, admin, calls, stops, aged>>

FailSrem(w) ==
  /\ at[w] = "fsrem"
  /\ running' = running \ {hand[w]}
  /\ Goto(w, "fincr")
  /\ UNCHANGED <<record, list, pending, counter, backoff, todo, prod, admin, calls, stops, aged>>

FailIncr(w) ==
  /\ at[w] = "fincr"
  /\ counter' = [counter EXCEPT !["failed"] = @ + 1]
  /\ LetGo(w, "idle")
  /\ UNCHANGED <<record, list, pending, running, backoff, todo, prod, admin, calls, stops, aged>>

WorkerStep(w) ==
  \/ DequeuePop(w) \/ DequeueGet(w) \/ DequeueSrem(w) \/ DequeueSadd(w) \/ DequeueSet(w)
  \/ Execute(w)
  \/ CompleteGet(w) \/ CompleteSet(w) \/ CompleteSrem(w) \/ CompleteIncr(w) \/ Finish(w)
  \/ FailGet(w) \/ FailRetryKey(w) \/ FailSchedule(w) \/ FailSet(w) \/ FailSrem(w) \/ FailIncr(w)

-----------------------------------------------------------------------------
(* Faults and the calendar.                                                *)

\* A Redis error in dequeue or fail reaches _run_loop, which goes round.
Drop(w) ==
  /\ "drop" \in Faults
  /\ stops < MaxStops
  /\ at[w] \in DequeueSteps \cup FailSteps
  /\ LetGo(w, "idle")
  /\ stops' = stops + 1
  /\ UNCHANGED <<redis, todo, prod, admin, calls, aged>>

\* Worker.stop cancels the loop at whatever await it is in.
Stop(w) ==
  /\ "stop" \in Faults
  /\ stops < MaxStops
  /\ at[w] # "stopped"
  /\ LetGo(w, "stopped")
  /\ stops' = stops + 1
  /\ UNCHANGED <<redis, todo, prod, admin, calls, aged>>

\* AgentScheduler.start or its recovery loop puts a new worker in its place.
Restart(w) ==
  /\ at[w] = "stopped"
  /\ LetGo(w, "idle")
  /\ UNCHANGED <<redis, todo, prod, admin, calls, stops, aged>>

\* A Redis error or AgentScheduler.stop ends an enqueue between two commands.
EnqueueAborts(p) ==
  /\ "stop" \in Faults
  /\ stops < MaxStops
  /\ step[p] # "ready"
  /\ EndEnqueue(p)
  /\ stops' = stops + 1
  /\ UNCHANGED <<redis, todo, worker, admin, calls, aged>>

\* ex=86400 (queue.py:78, :151, :188, :239): a record that nobody has written for a day is
\* gone, whatever its status.  A task in execution was written when that began, which its
\* timeout ends within minutes.
RecordExpires(t) ==
  /\ "expire" \in Faults
  /\ record[t] # Absent
  /\ \A p \in Producers : item[p] # t
  /\ \A w \in Workers : hand[w] = t => at[w] \in DequeueSteps
  /\ record' = [record EXCEPT ![t] = Absent]
  /\ aged' = IF record[t].status \in Finished THEN aged \cup {t} ELSE aged
  /\ UNCHANGED <<list, pending, running, counter, backoff, todo, prod, worker, admin, calls, stops>>

\* ex=delay + 60 and setex(delay): the backoff keys go, read by nobody.
BackoffExpires(k, t) ==
  /\ t \in backoff[k]
  /\ k = "retry" => t \notin backoff["scheduled"]
  /\ backoff' = [backoff EXCEPT ![k] = @ \ {t}]
  /\ UNCHANGED <<record, list, pending, running, counter, todo, prod, worker, admin, calls, stops, aged>>

-----------------------------------------------------------------------------
(* The operator: cancel is GET, SET CANCELLED, SREM; clear is SMEMBERS,    *)
(* DEL the records found, DEL pending, DEL each list.                      *)

CancelGet(t) ==
  /\ "cancel" \in AdminOps
  /\ calls < MaxAdmin
  /\ admin = NoCall
  /\ record[t].status = "pending"
  /\ admin' = Call("cset", t, {}, 0)
  /\ calls' = calls + 1
  /\ UNCHANGED <<redis, todo, prod, worker, stops, aged>>

CancelSet ==
  /\ admin.at = "cset"
  /\ record' = [record EXCEPT ![admin.task] = [status |-> "cancelled", retries |-> 0]]
  /\ admin' = Call("csrem", admin.task, {}, 0)
  /\ UNCHANGED <<list, pending, running, counter, backoff, todo, prod, worker, calls, stops, aged>>

CancelSrem ==
  /\ admin.at = "csrem"
  /\ pending' = pending \ {admin.task}
  /\ admin' = NoCall
  /\ UNCHANGED <<record, list, running, counter, backoff, todo, prod, worker, calls, stops, aged>>

ClearMembers ==
  /\ "clear" \in AdminOps
  /\ calls < MaxAdmin
  /\ admin = NoCall
  /\ pending # {}
  /\ admin' = Call("del", NoTask, pending, 0)
  /\ calls' = calls + 1
  /\ UNCHANGED <<redis, todo, prod, worker, stops, aged>>

ClearRecords ==
  /\ admin.at = "del"
  /\ record' = [t \in Tasks |-> IF t \in admin.found THEN Absent ELSE record[t]]
  /\ admin' = Call("delpending", NoTask, {}, 0)
  /\ UNCHANGED <<list, pending, running, counter, backoff, todo, prod, worker, calls, stops, aged>>

ClearPending ==
  /\ admin.at = "delpending"
  /\ pending' = {}
  /\ admin' = Call("dellist", NoTask, {}, 0)
  /\ UNCHANGED <<record, list, running, counter, backoff, todo, prod, worker, calls, stops, aged>>

ClearList ==
  /\ admin.at = "dellist"
  /\ list' = [list EXCEPT ![admin.level] = <<>>]
  /\ admin' = IF admin.level = TopLevel THEN NoCall ELSE Call("dellist", NoTask, {}, admin.level + 1)
  /\ UNCHANGED <<record, pending, running, counter, backoff, todo, prod, worker, calls, stops, aged>>

AdminStep == CancelSet \/ CancelSrem \/ ClearRecords \/ ClearPending \/ ClearList

-----------------------------------------------------------------------------
Next ==
  \/ \E p \in Producers : ProducerStep(p) \/ EnqueueAborts(p)
  \/ \E w \in Workers : WorkerStep(w) \/ Break(w) \/ Drop(w) \/ Stop(w) \/ Restart(w)
  \/ \E t \in Tasks : RecordExpires(t) \/ CancelGet(t)
  \/ \E k \in {"retry", "scheduled"}, t \in Tasks : BackoffExpires(k, t)
  \/ ClearMembers
  \/ AdminStep

Spec == Init /\ [][Next]_vars

(***************************************************************************)
(* A started coroutine runs on: the event loop resumes it when Redis       *)
(* answers, and asyncio.timeout ends an execution that does not return, so *)
(* a worker that is executing either finishes or breaks.  Nobody has to    *)
(* call stop, cancel or clear.                                             *)
(***************************************************************************)
Fairness ==
  /\ \A p \in Producers : WF_vars(ProducerStep(p))
  /\ \A w \in Workers : WF_vars(WorkerStep(w) \/ Break(w))

FairSpec == Spec /\ Fairness

-----------------------------------------------------------------------------
(***************************************************************************)
(* Properties.                                                             *)
(***************************************************************************)

(* No task is ever in the hands of two workers (dequeue hands an id out    *)
(* once), whatever is cancelled, cleared, stopped or lost meanwhile.       *)
NoDoubleExecution ==
  \A v, w \in Workers :
    v # w /\ hand[v] # NoTask => hand[v] # hand[w]

(* Of a task that waits or is being worked on, the scheduler's poll of      *)
(* depth and running_count sees something, but in two gaps: between the    *)
(* LPUSH and the SADD of its producer, and between dequeue's SREM pending  *)
(* and SADD running, where both can be 0 and a cycle end too early.  Once  *)
(* its result is stored a task need not be counted; an operator's call, a  *)
(* cancellation or a command that raises may leave one uncounted.          *)
WorkIsCounted ==
  calls = 0 /\ stops = 0 =>
    \A t \in Queued \cup Held :
      \/ t \in pending \cup running
      \/ \E p \in Producers : item[p] = t /\ step[p] = "track"
      \/ \E w \in Workers :
           /\ hand[w] = t
           /\ \/ at[w] = "sadd"
              \/ record[t].status \in Finished /\ at[w] \in {"cincr", "ack"} \cup FailSteps

(* Whatever times out, while nobody stops a worker, loses a dequeue,       *)
(* cancels or clears, a task that was pushed is still waiting, in          *)
(* somebody's hands, finished, counted as running (that is all that is     *)
(* left of one parked for retry), or its record's day has passed.          *)
NothingVanishes ==
  calls = 0 /\ stops = 0 =>
    \A t \in Pushed :
      \/ t \in Queued \cup Held \cup running
      \/ record[t].status \in Finished
      \/ record[t] = Absent

(* The completed counter is backed by results: until the operator cancels  *)
(* or clears, it never exceeds the tasks that were stored as SUCCESS, or   *)
(* as FAILED when the timeout fell after the INCR of a task on its last    *)
(* retry.  The counter stays when such a record expires after its day.     *)
CompletedIsBacked ==
  calls = 0 =>
    counter["completed"] <= Cardinality({t \in Tasks : record[t].status \in Finished} \cup aged)

(* A task that waits in a list is taken up and its worker gets rid of it:  *)
(* no interleaving of producers and workers leaves an id in a list while   *)
(* the workers idle.                                                       *)
EveryTaskIsTaken == \A t \in Tasks : t \in Queued ~> t \notin Queued \cup Held

(* The commands of enqueue, dequeue, complete and fail together hand each  *)
(* pushed id to one worker at most once: the queue implements WorkQueue.   *)
Promise == INSTANCE WorkQueue WITH
  fresh <- Tasks \ Pushed,
  waiting <- Queued,
  claimed <- hand

AtMostOnce == Promise!Spec

-----------------------------------------------------------------------------
(***************************************************************************)
(* What the repository says of the queue and the code does not do.         *)
(***************************************************************************)

(* queue.py:8 and :201: a failed task is retried.  A task parked for retry *)
(* goes back to a list or is marked failed.                                *)
RetriesHappen ==
  \A t \in Tasks : t \in backoff["retry"] ~> (t \in Queued \/ record[t].status = "failed")
=============================================================================
