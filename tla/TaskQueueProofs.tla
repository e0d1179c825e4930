-------------------------- MODULE TaskQueueProofs --------------------------
(***************************************************************************)
(* Proofs about TaskQueue, for every set of tasks, workers and producers,  *)
(* every priority assignment and every choice of faults.                   *)
(***************************************************************************)
EXTENDS TaskQueue, FiniteSetTheorems, TLAPS

(***************************************************************************)
(* Types, by owner: the Redis keys, the producers, the workers, the rest.  *)
(***************************************************************************)
RedisTyped ==
  /\ record \in [Tasks -> TaskRecord]
  /\ list \in [Levels -> Seq(Tasks)]
  /\ pending \in SUBSET Tasks
  /\ running \in SUBSET Tasks
  /\ counter \in [{"enqueued", "completed", "failed"} -> Nat]
  /\ backoff \in [{"retry", "scheduled"} -> SUBSET Tasks]

\* A producer has a task while it is between two commands of enqueue.
ProducersTyped ==
  /\ todo \in SUBSET Tasks
  /\ step \in [Producers -> {"ready", "push", "track", "count"}]
  /\ item \in [Producers -> Tasks \cup {NoTask}]
  /\ \A p \in Producers : step[p] = "ready" <=> item[p] = NoTask

\* A worker has a task in hand from its pop until it is done with it.
WorkersTyped ==
  /\ at \in [Workers -> WorkerSteps]
  /\ hand \in [Workers -> Tasks \cup {NoTask}]
  /\ copy \in [Workers -> TaskRecord]
  /\ \A w \in Workers : at[w] \in {"idle", "stopped"} <=> hand[w] = NoTask

AdminTyped ==
  /\ admin \in [at : {"none", "cset", "csrem", "del", "delpending", "dellist"},
                task : Tasks \cup {NoTask}, found : SUBSET Tasks, level : Levels]
  /\ calls \in 0 .. MaxAdmin
  /\ stops \in 0 .. MaxStops
  /\ aged \in SUBSET Tasks

Typing == RedisTyped /\ ProducersTyped /\ WorkersTyped /\ AdminTyped

Busy == WorkerSteps \ {"idle", "stopped"}

(* The part of the assumption that the steps depend on.                    *)
LEMMA Shape ==
  /\ NoTask \notin Tasks /\ TopLevel \in Nat /\ Priority \in [Tasks -> Levels]
  /\ MaxAdmin \in Nat /\ MaxStops \in Nat
BY QueueAssumption

LEMMA StepNames ==
  /\ "idle" \in WorkerSteps /\ "stopped" \in WorkerSteps
  /\ "idle" \notin Busy /\ "stopped" \notin Busy
  /\ {"get", "srem", "sadd", "set"} \subseteq Busy
  /\ {"exec", "cget", "cset", "csrem", "cincr", "ack"} \subseteq Busy
  /\ {"fget", "fretry", "fsched", "fset", "fsrem", "fincr"} \subseteq Busy
  BY DEF Busy, WorkerSteps, DequeueSteps, ProcessSteps, FailSteps

LEMMA Records ==
  /\ Absent \in TaskRecord
  /\ \A s \in Status, n \in Nat : [status |-> s, retries |-> n] \in TaskRecord
  /\ \A r \in TaskRecord : r.status \in Status /\ r.retries \in Nat
  /\ {"pending", "running", "success", "failed", "cancelled"} \subseteq Status
  BY DEF Absent, TaskRecord, Status

(* The three ways a worker's position changes keep its types.              *)
LEMMA GotoTyped ==
  ASSUME WorkersTyped, NEW w \in Workers, NEW s \in Busy, at[w] \in Busy, Goto(w, s)
  PROVE  WorkersTyped'
  BY StepNames DEF WorkersTyped, Goto, Busy

LEMMA LetGoTyped ==
  ASSUME WorkersTyped, NEW w \in Workers, NEW s \in {"idle", "stopped"}, LetGo(w, s)
  PROVE  WorkersTyped'
  BY QueueAssumption, StepNames, Records DEF WorkersTyped, LetGo

LEMMA ReadAsTyped ==
  ASSUME WorkersTyped, NEW w \in Workers, NEW s \in Busy, at[w] \in Busy,
         NEW status \in Status, NEW n \in Nat, ReadAs(w, s, status, n)
  PROVE  WorkersTyped'
  BY StepNames, Records DEF WorkersTyped, ReadAs, Busy

LEMMA TypingInit == Init => Typing
  BY QueueAssumption, StepNames, Records
  DEF Init, Typing, RedisTyped, ProducersTyped, WorkersTyped, AdminTyped, NoCall, Call, Levels

(* Every command of queue.py, every fault and operator call keeps types.   *)
LEMMA ProducerTyping ==
  ASSUME Typing, NEW p \in Producers, ProducerStep(p) \/ EnqueueAborts(p)
  PROVE  Typing'
<1> USE Shape, Records
    DEF Typing, RedisTyped, ProducersTyped, WorkersTyped, AdminTyped, redis, worker, Proceed,
        EndEnqueue
<1>1. CASE EnqueueStore(p)
  <2>1. PICK t \in todo : /\ todo' = todo \ {t}
                          /\ item' = [item EXCEPT ![p] = t]
                          /\ record' = [record EXCEPT ![t] = [status |-> "pending", retries |-> 0]]
    BY <1>1 DEF EnqueueStore
  <2>2. record' \in [Tasks -> TaskRecord]
    BY <2>1
  <2> QED
    BY <1>1, <2>1, <2>2 DEF EnqueueStore
<1>2. CASE EnqueuePush(p)
  <2>1. item[p] \in Tasks
    BY <1>2 DEF EnqueuePush
  <2>2. list' \in [Levels -> Seq(Tasks)]
    BY <1>2, <2>1 DEF EnqueuePush
  <2> QED
    BY <1>2, <2>2 DEF EnqueuePush
<1>3. CASE EnqueueTrack(p)
  BY <1>3 DEF EnqueueTrack
<1>4. CASE EnqueueCount(p)
  BY <1>4 DEF EnqueueCount
<1>5. CASE EnqueueAborts(p)
  BY <1>5 DEF EnqueueAborts
<1> QED
  BY <1>1, <1>2, <1>3, <1>4, <1>5 DEF ProducerStep

LEMMA WorkerTyping ==
  ASSUME Typing, NEW w \in Workers, WorkerStep(w)
  PROVE  Typing'
<1> USE Shape, StepNames, Records DEF Typing
<1>0. ASSUME at[w] \in Busy PROVE hand[w] \in Tasks
  BY <1>0 DEF WorkersTyped, Busy
<1>1. CASE DequeuePop(w)
  <2>1. PICK l \in Levels : /\ list[l] # <<>>
                            /\ list' = [list EXCEPT ![l] = Tail(@)]
                            /\ hand' = [hand EXCEPT ![w] = Head(list[l])]
    BY <1>1 DEF DequeuePop
  <2>2. Head(list[l]) \in Tasks /\ Tail(list[l]) \in Seq(Tasks)
    BY <2>1 DEF RedisTyped
  <2>3. WorkersTyped'
    BY <1>1, <2>1, <2>2 DEF DequeuePop, WorkersTyped, Busy
  <2>4. RedisTyped'
    BY <1>1, <2>1, <2>2 DEF DequeuePop, RedisTyped
  <2> QED
    BY <1>1, <2>3, <2>4 DEF DequeuePop, ProducersTyped, AdminTyped, prod
<1>2. ASSUME DequeueGet(w) \/ CompleteGet(w) \/ FailGet(w) PROVE WorkersTyped'
  <2>1. PICK r \in TaskRecord : r = record[hand[w]]
    BY <1>0, <1>2 DEF DequeueGet, CompleteGet, FailGet, RedisTyped
  <2>2. r.retries \in Nat /\ r.retries + 1 \in Nat
    BY <2>1
  <2>3. CASE DequeueGet(w)
    BY <2>1, <2>2, <2>3, LetGoTyped, ReadAsTyped DEF DequeueGet
  <2>4. CASE CompleteGet(w)
    BY <2>1, <2>2, <2>4, GotoTyped, ReadAsTyped DEF CompleteGet
  <2>5. CASE FailGet(w)
    BY <2>1, <2>2, <2>5, LetGoTyped, GotoTyped, ReadAsTyped DEF FailGet
  <2> QED
    BY <1>2, <2>3, <2>4, <2>5
<1>3. ASSUME \/ DequeueSrem(w) \/ DequeueSadd(w) \/ DequeueSet(w) \/ Execute(w)
             \/ CompleteSet(w) \/ CompleteSrem(w) \/ CompleteIncr(w)
             \/ FailRetryKey(w) \/ FailSet(w) \/ FailSrem(w)
      PROVE  WorkersTyped'
  <2>1. at[w] \in Busy /\ \E s \in Busy : Goto(w, s)
    BY <1>3 DEF DequeueSrem, DequeueSadd, DequeueSet, Execute, CompleteSet, CompleteSrem,
                CompleteIncr, FailRetryKey, FailSet, FailSrem
  <2> QED
    BY <2>1, GotoTyped
<1>4. ASSUME Finish(w) \/ FailSchedule(w) \/ FailIncr(w) PROVE WorkersTyped'
  BY <1>4, LetGoTyped DEF Finish, FailSchedule, FailIncr
<1>5. CASE DequeueSrem(w) \/ DequeueSadd(w) \/ CompleteSrem(w) \/ FailSrem(w)
  <2>1. RedisTyped'
    BY <1>0, <1>5 DEF DequeueSrem, DequeueSadd, CompleteSrem, FailSrem, RedisTyped
  <2> QED
    BY <1>3, <1>5, <2>1 DEF DequeueSrem, DequeueSadd, CompleteSrem, FailSrem, ProducersTyped,
                            AdminTyped, prod
<1>6. CASE DequeueSet(w) \/ CompleteSet(w) \/ FailSet(w)
  <2>1. copy[w] \in TaskRecord
    BY DEF WorkersTyped
  <2>2. RedisTyped'
    BY <1>6, <2>1 DEF DequeueSet, CompleteSet, FailSet, RedisTyped
  <2> QED
    BY <1>3, <1>6, <2>2 DEF DequeueSet, CompleteSet, FailSet, ProducersTyped, AdminTyped, prod
<1>7. CASE DequeueGet(w) \/ CompleteGet(w) \/ FailGet(w) \/ Execute(w) \/ Finish(w)
  <2>1. UNCHANGED <<redis, todo, prod, admin, calls, stops, aged>>
    BY <1>7 DEF DequeueGet, CompleteGet, FailGet, Execute, Finish
  <2> QED
    BY <1>2, <1>3, <1>4, <1>7, <2>1 DEF RedisTyped, ProducersTyped, AdminTyped, prod, redis
<1>8. CASE CompleteIncr(w) \/ FailIncr(w)
  <2>1. \E k \in {"completed", "failed"} : counter' = [counter EXCEPT ![k] = @ + 1]
    BY <1>8 DEF CompleteIncr, FailIncr
  <2>2. counter' \in [{"enqueued", "completed", "failed"} -> Nat]
    BY <2>1 DEF RedisTyped
  <2>3. RedisTyped'
    BY <1>8, <2>2 DEF CompleteIncr, FailIncr, RedisTyped
  <2> QED
    BY <1>3, <1>4, <1>8, <2>3 DEF CompleteIncr, FailIncr, ProducersTyped, AdminTyped, prod
<1>9. CASE FailRetryKey(w) \/ FailSchedule(w)
  <2>0. hand[w] \in Tasks
    BY <1>0, <1>9 DEF FailRetryKey, FailSchedule
  <2>2. \E k \in {"retry", "scheduled"} : backoff' = [backoff EXCEPT ![k] = @ \cup {hand[w]}]
    BY <1>9 DEF FailRetryKey, FailSchedule
  <2>3. backoff' \in [{"retry", "scheduled"} -> SUBSET Tasks]
    BY <2>0, <2>2 DEF RedisTyped
  <2>1. RedisTyped'
    BY <1>9, <2>3 DEF FailRetryKey, FailSchedule, RedisTyped
  <2> QED
    BY <1>3, <1>4, <1>9, <2>1 DEF FailRetryKey, FailSchedule, ProducersTyped, AdminTyped, prod
<1> QED
  BY <1>1, <1>5, <1>6, <1>7, <1>8, <1>9 DEF WorkerStep

LEMMA FaultTyping ==
  ASSUME Typing, NEW w \in Workers, Break(w) \/ Drop(w) \/ Stop(w) \/ Restart(w)
  PROVE  Typing'
<1> USE QueueAssumption, StepNames DEF Typing
<1>1. WorkersTyped'
  <2>1. CASE Break(w)
    BY <2>1, GotoTyped DEF Break, ProcessSteps
  <2>2. CASE Drop(w) \/ Stop(w) \/ Restart(w)
    BY <2>2, LetGoTyped DEF Drop, Stop, Restart
  <2> QED
    BY <2>1, <2>2
<1>2. AdminTyped'
  BY DEF Break, Drop, Stop, Restart, AdminTyped
<1> QED
  BY <1>1, <1>2 DEF Break, Drop, Stop, Restart, RedisTyped, ProducersTyped, redis, prod

LEMMA AdminTyping ==
  ASSUME Typing,
         \/ \E t \in Tasks : RecordExpires(t) \/ CancelGet(t)
         \/ \E k \in {"retry", "scheduled"}, t \in Tasks : BackoffExpires(k, t)
         \/ ClearMembers \/ AdminStep
  PROVE  Typing'
<1> USE Shape, Records
    DEF Typing, ProducersTyped, WorkersTyped, prod, worker, redis, NoCall, Call
<1>1. CASE \E t \in Tasks : RecordExpires(t)
  <2>1. PICK t \in Tasks : RecordExpires(t)
    BY <1>1
  <2>2. record' \in [Tasks -> TaskRecord] /\ aged' \in SUBSET Tasks
    <3>1. record' = [record EXCEPT ![t] = Absent] /\ aged' \in {aged, aged \cup {t}}
      BY <2>1 DEF RecordExpires
    <3> QED
      BY <3>1 DEF RedisTyped, AdminTyped
  <2> QED
    BY <2>1, <2>2 DEF RecordExpires, RedisTyped, AdminTyped
<1>2. CASE \E t \in Tasks : CancelGet(t)
  BY <1>2, SMTT(60) DEF CancelGet, RedisTyped, AdminTyped, Levels
<1>3. CASE \E k \in {"retry", "scheduled"}, t \in Tasks : BackoffExpires(k, t)
  BY <1>3 DEF BackoffExpires, RedisTyped, AdminTyped
<1>4. CASE ClearMembers
  BY <1>4, SMTT(60) DEF ClearMembers, RedisTyped, AdminTyped, Levels
<1>5. CASE CancelSet \/ CancelSrem
  <2>0. [status |-> "cancelled", retries |-> 0] \in TaskRecord
    OBVIOUS
  <2>1. RedisTyped'
    <3>1. CASE CancelSet
      <4>1. \A t \in Tasks : record'[t] \in {record[t], [status |-> "cancelled", retries |-> 0]}
        BY <3>1 DEF CancelSet, RedisTyped
      <4>2. record' \in [Tasks -> TaskRecord]
        BY <2>0, <3>1, <4>1 DEF CancelSet, RedisTyped
      <4> QED
        BY <3>1, <4>2 DEF CancelSet, RedisTyped
    <3>2. CASE CancelSrem
      BY <3>2 DEF CancelSrem, RedisTyped
    <3> QED
      BY <1>5, <3>1, <3>2
  <2>2. AdminTyped'
    BY <1>5 DEF CancelSet, CancelSrem, AdminTyped, Levels
  <2> QED
    BY <1>5, <2>1, <2>2 DEF CancelSet, CancelSrem
<1>6. CASE ClearRecords \/ ClearPending
  <2>1. RedisTyped'
    <3>1. CASE ClearRecords
      BY <3>1 DEF ClearRecords, RedisTyped
    <3>2. CASE ClearPending
      BY <3>2 DEF ClearPending, RedisTyped
    <3> QED
      BY <1>6, <3>1, <3>2
  <2>2. AdminTyped'
    BY <1>6 DEF ClearRecords, ClearPending, AdminTyped, Levels
  <2> QED
    BY <1>6, <2>1, <2>2 DEF ClearRecords, ClearPending
<1>7. CASE ClearList
  <2>0. <<>> \in Seq(Tasks)
    OBVIOUS
  <2>3. list' \in [Levels -> Seq(Tasks)]
    BY <1>7, <2>0 DEF ClearList, RedisTyped
  <2>1. RedisTyped'
    BY <1>7, <2>3 DEF ClearList, RedisTyped
  <2>2. AdminTyped'
    BY <1>7 DEF ClearList, AdminTyped, Levels
  <2> QED
    BY <1>7, <2>1, <2>2 DEF ClearList
<1> QED
  BY <1>1, <1>2, <1>3, <1>4, <1>5, <1>6, <1>7 DEF AdminStep

LEMMA TypingNext == Typing /\ [Next]_vars => Typing'
<1> SUFFICES ASSUME Typing, [Next]_vars PROVE Typing'
  OBVIOUS
<1>1. CASE Next
  BY <1>1, ProducerTyping, WorkerTyping, FaultTyping, AdminTyping DEF Next
<1>2. CASE UNCHANGED vars
  BY <1>2 DEF vars, redis, prod, worker, Typing, RedisTyped, ProducersTyped, WorkersTyped, AdminTyped
<1> QED
  BY <1>1, <1>2

(* Type correctness of the queue (queue.py, worker.py) for every instance. *)
THEOREM TypeCorrect == Spec => []TypeOK
<1>1. Typing => TypeOK
  BY DEF Typing, TypeOK, RedisTyped, ProducersTyped, WorkersTyped, AdminTyped
<1> QED
  BY TypingInit, TypingNext, <1>1, PTL DEF Spec

-----------------------------------------------------------------------------
(***************************************************************************)
(* Where an id can be.  Until it is pushed it is in todo or with the       *)
(* producer about to push it; then in one position of the list of its      *)
(* priority; then in one worker's hand; then nowhere.                      *)
(***************************************************************************)
Pushing == {p \in Producers : step[p] = "push"}

Positions(l) == 1 .. Len(list[l])

ListsDisjoint ==
  /\ \A l \in Levels : \A i \in Positions(l) : Priority[list[l][i]] = l
  /\ \A l \in Levels : \A i, j \in Positions(l) : list[l][i] = list[l][j] => i = j

BeforeList ==
  /\ \A p \in Pushing : item[p] \notin todo
  /\ \A p, q \in Pushing : item[p] = item[q] => p = q
  /\ \A l \in Levels : \A i \in Positions(l) :
       list[l][i] \notin todo /\ \A p \in Pushing : list[l][i] # item[p]

AfterList ==
  \A w \in Workers : hand[w] # NoTask =>
    /\ hand[w] \notin todo
    /\ \A p \in Pushing : hand[w] # item[p]
    /\ \A l \in Levels : \A i \in Positions(l) : hand[w] # list[l][i]

Places == ListsDisjoint /\ BeforeList /\ AfterList /\ NoDoubleExecution

(* No command moves an id backwards or copies it.                          *)
LEMMA PlacesInit == Init => Places
  BY DEF Init, Places, ListsDisjoint, BeforeList, AfterList, NoDoubleExecution, Pushing, Positions

(* A step that neither takes from todo, pushes nor pops keeps Places, if   *)
(* all it does to hands is to empty them and to lists is to empty them.    *)
LEMMA PlacesFrame ==
  ASSUME Typing, Places,
         UNCHANGED todo,
         \A p \in Producers : step'[p] = "push" => step[p] = "push" /\ item'[p] = item[p],
         \A l \in Levels : list'[l] = list[l] \/ list'[l] = <<>>,
         \A w \in Workers : hand'[w] = hand[w] \/ hand'[w] = NoTask
  PROVE  Places'
<1> USE DEF Pushing, Positions
<1>1. ListsDisjoint'
  BY DEF Places, ListsDisjoint
<1>2. BeforeList'
  BY DEF Places, BeforeList
<1>3. AfterList'
  BY DEF Places, AfterList
<1>4. NoDoubleExecution'
  BY DEF Places, NoDoubleExecution
<1> QED
  BY <1>1, <1>2, <1>3, <1>4 DEF Places

(* The three steps that move an id: from todo to a producer, from the      *)
(* producer to its list, from the list to a worker.                        *)
LEMMA PlacesStore ==
  ASSUME Typing, Places, NEW p \in Producers, EnqueueStore(p)
  PROVE  Places'
<1> USE DEF Typing, Places, Pushing, Positions, worker
<1>1. PICK t \in todo : todo' = todo \ {t} /\ item' = [item EXCEPT ![p] = t]
  BY DEF EnqueueStore
<1>2. ListsDisjoint'
  BY DEF EnqueueStore, ListsDisjoint
<1>3. BeforeList'
  BY <1>1 DEF EnqueueStore, BeforeList, ProducersTyped
<1>4. AfterList'
  BY <1>1 DEF EnqueueStore, AfterList, ProducersTyped
<1>5. NoDoubleExecution'
  BY DEF EnqueueStore, NoDoubleExecution
<1> QED
  BY <1>2, <1>3, <1>4, <1>5

LEMMA PlacesPush ==
  ASSUME Typing, Places, NEW p \in Producers, EnqueuePush(p)
  PROVE  Places'
<1> USE Shape DEF Typing, Places, Pushing, Positions, worker
<1> DEFINE t == item[p]
           k == Priority[t]
<1>1. t \in Tasks /\ k \in Levels /\ p \in Pushing
  BY DEF EnqueuePush, ProducersTyped
<1>2. /\ list'[k] \in Seq(Tasks)
      /\ Len(list'[k]) = Len(list[k]) + 1
      /\ list'[k][1] = t
      /\ \A i \in 2 .. Len(list[k]) + 1 : list'[k][i] = list[k][i - 1]
  BY <1>1 DEF EnqueuePush, RedisTyped
<1>3. \A l \in Levels : l # k => list'[l] = list[l]
  BY <1>1 DEF EnqueuePush, RedisTyped
<1>4. Len(list[k]) \in Nat
  BY <1>1 DEF RedisTyped
<1>5. \A l \in Levels : \A i \in Positions(l)' :
        \/ l = k /\ i = 1 /\ list'[l][i] = t
        \/ l = k /\ i # 1 /\ i - 1 \in Positions(l) /\ list'[l][i] = list[l][i - 1]
        \/ l # k /\ i \in Positions(l) /\ list'[l][i] = list[l][i]
  <2> SUFFICES ASSUME NEW l \in Levels, NEW i \in Positions(l)'
               PROVE  \/ l = k /\ i = 1 /\ list'[l][i] = t
                      \/ l = k /\ i # 1 /\ i - 1 \in Positions(l) /\ list'[l][i] = list[l][i - 1]
                      \/ l # k /\ i \in Positions(l) /\ list'[l][i] = list[l][i]
    OBVIOUS
  <2>1. CASE l # k
    BY <1>3, <2>1
  <2>2. CASE l = k /\ i = 1
    BY <1>2, <2>2
  <2>3. CASE l = k /\ i # 1
    <3>1. i \in 2 .. Len(list[k]) + 1 /\ i - 1 \in Positions(l)
      BY <1>2, <1>4, <2>3
    <3> QED
      BY <1>2, <2>3, <3>1
  <2> QED
    BY <2>1, <2>2, <2>3
<1>6. \A q \in Producers : step'[q] = "push" => q # p /\ step[q] = "push"
  BY DEF EnqueuePush, Proceed, ProducersTyped
<1>7. UNCHANGED <<item, todo, hand>>
  BY DEF EnqueuePush, Proceed
<1>8. \A l \in Levels : \A i \in Positions(l) : list[l][i] # t
  BY <1>1 DEF BeforeList
<1>9. ListsDisjoint'
  <2>1. \A l \in Levels : \A i \in Positions(l)' : Priority[list'[l][i]] = l
    BY <1>5 DEF ListsDisjoint
  <2>2. ASSUME NEW l \in Levels, NEW i \in Positions(l)', NEW j \in Positions(l)',
               list'[l][i] = list'[l][j]
        PROVE  i = j
    <3>1. CASE l # k
      BY <1>5, <2>2, <3>1 DEF ListsDisjoint
    <3>2. CASE l = k /\ i # 1 /\ j # 1
      <4>1. i - 1 \in Positions(l) /\ j - 1 \in Positions(l) /\ list[l][i - 1] = list[l][j - 1]
        BY <1>5, <2>2, <3>2
      <4>2. i - 1 = j - 1
        BY <4>1 DEF ListsDisjoint
      <4>3. i \in Nat /\ j \in Nat
        OBVIOUS
      <4> QED
        BY <4>2, <4>3
    <3>3. ASSUME l = k, NEW a \in Positions(l)', NEW b \in Positions(l)', a = 1, b # 1,
                 list'[l][a] = list'[l][b]
          PROVE  FALSE
      <4>1. list'[l][a] = t
        BY <1>5, <3>3
      <4>2. b - 1 \in Positions(l) /\ list'[l][b] = list[l][b - 1]
        BY <1>5, <3>3
      <4> QED
        BY <1>8, <3>3, <4>1, <4>2
    <3>4. CASE l = k /\ (i = 1 \/ j = 1)
      BY <2>2, <3>3, <3>4
    <3> QED
      BY <3>1, <3>2, <3>4
  <2> QED
    BY <2>1, <2>2 DEF ListsDisjoint
<1>10. BeforeList'
  <2>1. \A q \in Pushing' : item[q] # t /\ item[q] \notin todo
    BY <1>1, <1>6 DEF BeforeList
  <2>2. \A q, r \in Pushing' : item[q] = item[r] => q = r
    BY <1>6 DEF BeforeList
  <2>3. t \notin todo
    BY <1>1 DEF BeforeList
  <2>4. \A l \in Levels : \A i \in Positions(l)' :
          list'[l][i] \notin todo /\ \A q \in Pushing' : list'[l][i] # item[q]
    <3> SUFFICES ASSUME NEW l \in Levels, NEW i \in Positions(l)'
                 PROVE  list'[l][i] \notin todo /\ \A q \in Pushing' : list'[l][i] # item[q]
      OBVIOUS
    <3>1. CASE list'[l][i] = t
      BY <2>1, <2>3, <3>1
    <3>2. CASE \E j \in Positions(l) : list'[l][i] = list[l][j]
      <4>1. PICK j \in Positions(l) : list'[l][i] = list[l][j]
        BY <3>2
      <4>2. list[l][j] \notin todo /\ \A q \in Pushing : list[l][j] # item[q]
        BY DEF BeforeList
      <4>3. Pushing' \subseteq Pushing
        BY <1>6
      <4> QED
        BY <4>1, <4>2, <4>3
    <3> QED
      BY <1>5, <3>1, <3>2
  <2> QED
    BY <1>7, <2>1, <2>2, <2>4 DEF BeforeList
<1>11. AfterList'
  BY <1>1, <1>5, <1>6, <1>7 DEF AfterList
<1>12. NoDoubleExecution'
  BY <1>7 DEF NoDoubleExecution
<1> QED
  BY <1>9, <1>10, <1>11, <1>12

LEMMA PlacesPop ==
  ASSUME Typing, Places, NEW w \in Workers, DequeuePop(w)
  PROVE  Places'
<1> USE Shape DEF Typing, Places, Pushing, Positions, prod
<1>1. PICK k \in Levels : /\ list[k] # <<>>
                          /\ list' = [list EXCEPT ![k] = Tail(@)]
                          /\ hand' = [hand EXCEPT ![w] = Head(list[k])]
  BY DEF DequeuePop
<1> DEFINE t == list[k][1]
<1>2. /\ list[k] \in Seq(Tasks) /\ Len(list[k]) \in Nat /\ 1 \in Positions(k) /\ t \in Tasks
      /\ Head(list[k]) = t
      /\ Len(Tail(list[k])) = Len(list[k]) - 1
      /\ \A i \in 1 .. Len(list[k]) - 1 : Tail(list[k])[i] = list[k][i + 1]
  BY <1>1 DEF RedisTyped
<1>3. \A l \in Levels : \A i \in Positions(l)' :
        \/ l = k /\ i + 1 \in Positions(l) /\ list'[l][i] = list[l][i + 1]
        \/ l # k /\ i \in Positions(l) /\ list'[l][i] = list[l][i]
  BY <1>1, <1>2 DEF RedisTyped
<1>4. \A l \in Levels : \A i \in Positions(l)' : list'[l][i] # t
  <2> SUFFICES ASSUME NEW l \in Levels, NEW i \in Positions(l)', list'[l][i] = t PROVE FALSE
    OBVIOUS
  <2>1. CASE l = k
    <3>1. i + 1 \in Positions(l) /\ list[l][i + 1] = list[k][1] /\ i \in 1 .. Len(list'[l])
      BY <1>3, <2>1
    <3>2. i + 1 = 1
      BY <1>2, <2>1, <3>1 DEF ListsDisjoint
    <3> QED
      BY <3>1, <3>2
  <2>2. CASE l # k
    <3>1. i \in Positions(l) /\ list[l][i] = t
      BY <1>3, <2>2
    <3>2. Priority[t] = l /\ Priority[t] = k
      BY <1>2, <3>1 DEF ListsDisjoint
    <3> QED
      BY <2>2, <3>2
  <2> QED
    BY <2>1, <2>2
<1>5. UNCHANGED <<step, item, todo>>
  BY DEF DequeuePop
<1>6. \A v \in Workers : hand'[v] = IF v = w THEN t ELSE hand[v]
  BY <1>1, <1>2 DEF WorkersTyped
<1>7. ListsDisjoint'
  <2>1. \A l \in Levels : \A i \in Positions(l)' : Priority[list'[l][i]] = l
    BY <1>3 DEF ListsDisjoint
  <2>2. ASSUME NEW l \in Levels, NEW i \in Positions(l)', NEW j \in Positions(l)',
               list'[l][i] = list'[l][j]
        PROVE  i = j
    <3>1. CASE l # k
      BY <1>3, <2>2, <3>1 DEF ListsDisjoint
    <3>2. CASE l = k
      <4>1. i + 1 \in Positions(l) /\ j + 1 \in Positions(l) /\ list[l][i + 1] = list[l][j + 1]
        BY <1>3, <2>2, <3>2
      <4>2. i + 1 = j + 1
        BY <4>1 DEF ListsDisjoint
      <4>3. i \in Nat /\ j \in Nat
        OBVIOUS
      <4> QED
        BY <4>2, <4>3
    <3> QED
      BY <3>1, <3>2
  <2> QED
    BY <2>1, <2>2 DEF ListsDisjoint
<1>8. BeforeList'
  <2>1. Pushing' = Pushing
    BY <1>5
  <2>2. \A l \in Levels : \A i \in Positions(l)' :
          \E j \in Positions(l) : list'[l][i] = list[l][j]
    BY <1>3
  <2>3. \A l \in Levels : \A i \in Positions(l)' :
          list'[l][i] \notin todo /\ \A q \in Pushing : list'[l][i] # item[q]
    BY <2>2, SMTT(60) DEF BeforeList
  <2>4. todo' = todo /\ item' = item
    BY <1>5
  <2>5. \A l \in Levels : \A i \in Positions(l)' :
          list'[l][i] \notin todo' /\ \A q \in Pushing' : list'[l][i] # item'[q]
    BY <2>1, <2>3, <2>4
  <2>6. \A q \in Pushing' : item'[q] \notin todo' /\ \A r \in Pushing' : item'[q] = item'[r] => q = r
    BY <2>1, <2>4 DEF BeforeList
  <2> QED
    BY <2>5, <2>6 DEF BeforeList
<1>9. AfterList'
  <2>1. ASSUME NEW v \in Workers, hand[v] # NoTask, NEW l \in Levels, NEW i \in Positions(l)'
        PROVE  hand[v] # list'[l][i]
    <3>1. PICK j \in Positions(l) : list'[l][i] = list[l][j]
      BY <1>3
    <3> QED
      BY <2>1, <3>1 DEF AfterList
  <2>2. t \notin todo /\ \A p \in Pushing : t # item[p]
    BY <1>2 DEF BeforeList
  <2> QED
    BY <1>4, <1>5, <1>6, <2>1, <2>2 DEF AfterList
<1>10. NoDoubleExecution'
  <2>1. \A v \in Workers : hand[v] # t
    BY <1>2 DEF AfterList
  <2> QED
    BY <1>6, <2>1 DEF NoDoubleExecution
<1> QED
  BY <1>7, <1>8, <1>9, <1>10

LEMMA PlacesNext == Typing /\ Places /\ [Next]_vars => Places'
<1> SUFFICES ASSUME Typing, Places, [Next]_vars PROVE Places'
  OBVIOUS
<1>1. ASSUME NEW p \in Producers, ProducerStep(p) \/ EnqueueAborts(p) PROVE Places'
  <2>1. CASE EnqueueStore(p)
    BY <2>1, PlacesStore
  <2>2. CASE EnqueuePush(p)
    BY <2>2, PlacesPush
  <2>3. CASE EnqueueTrack(p) \/ EnqueueCount(p) \/ EnqueueAborts(p)
    <3>1. /\ UNCHANGED <<todo, list, hand>>
          /\ \A q \in Producers : step'[q] = "push" => step[q] = "push" /\ item'[q] = item[q]
      BY <2>3 DEF EnqueueTrack, EnqueueCount, EnqueueAborts, EndEnqueue, Proceed, redis, worker,
                  Typing, ProducersTyped
    <3> QED
      BY <3>1, PlacesFrame
  <2> QED
    BY <1>1, <2>1, <2>2, <2>3 DEF ProducerStep
<1>2. ASSUME NEW w \in Workers,
             WorkerStep(w) \/ Break(w) \/ Drop(w) \/ Stop(w) \/ Restart(w)
      PROVE  Places'
  <2>1. CASE DequeuePop(w)
    BY <2>1, PlacesPop
  <2>2. CASE ~ DequeuePop(w)
    <3>1. UNCHANGED <<todo, list, step, item>>
      BY <1>2, <2>2
      DEF WorkerStep, DequeueGet, DequeueSrem, DequeueSadd, DequeueSet, Execute, CompleteGet,
          CompleteSet, CompleteSrem, CompleteIncr, Finish, FailGet, FailRetryKey, FailSchedule,
          FailSet, FailSrem, FailIncr, Break, Drop, Stop, Restart, redis, prod
    <3>2. UNCHANGED hand \/ \E s \in WorkerSteps : LetGo(w, s)
      BY <1>2, <2>2, StepNames
      DEF WorkerStep, DequeueGet, DequeueSrem, DequeueSadd, DequeueSet, Execute, CompleteGet,
          CompleteSet, CompleteSrem, CompleteIncr, Finish, FailGet, FailRetryKey, FailSchedule,
          FailSet, FailSrem, FailIncr, Break, Drop, Stop, Restart, Goto, ReadAs
    <3>3. \A v \in Workers : hand'[v] = hand[v] \/ hand'[v] = NoTask
      BY <3>2 DEF LetGo, Typing, WorkersTyped
    <3> QED
      BY <3>1, <3>3, PlacesFrame
  <2> QED
    BY <2>1, <2>2
<1>3. ASSUME \/ \E t \in Tasks : RecordExpires(t) \/ CancelGet(t)
             \/ \E k \in {"retry", "scheduled"}, t \in Tasks : BackoffExpires(k, t)
             \/ ClearMembers \/ AdminStep
      PROVE  Places'
  <2>1. UNCHANGED <<todo, step, item, hand>>
    BY <1>3 DEF RecordExpires, CancelGet, BackoffExpires, ClearMembers, AdminStep, CancelSet,
                CancelSrem, ClearRecords, ClearPending, ClearList, prod, worker
  <2>2. \A l \in Levels : list'[l] = list[l] \/ list'[l] = <<>>
    BY <1>3 DEF RecordExpires, CancelGet, BackoffExpires, ClearMembers, AdminStep, CancelSet,
                CancelSrem, ClearRecords, ClearPending, ClearList, redis, Typing, RedisTyped
  <2> QED
    BY <2>1, <2>2, PlacesFrame
<1>4. CASE UNCHANGED vars
  BY <1>4, PlacesFrame DEF vars, redis, prod, worker
<1> QED
  BY <1>1, <1>2, <1>3, <1>4 DEF Next

(* No task is in two workers' hands, whatever is cancelled, cleared,       *)
(* stopped, lost or timed out (queue.py dequeue, worker.py _run_loop).     *)
THEOREM NoDoubleExecutionHolds == Spec => []NoDoubleExecution
<1>1. Init => Typing /\ Places
  BY TypingInit, PlacesInit
<1>2. Typing /\ Places /\ [Next]_vars => Typing' /\ Places'
  BY TypingNext, PlacesNext
<1>3. Places => NoDoubleExecution
  BY DEF Places
<1> QED
  BY <1>1, <1>2, <1>3, PTL DEF Spec

-----------------------------------------------------------------------------
(***************************************************************************)
(* A task being executed is in the running set: the SADD of dequeue        *)
(* precedes it and no other worker's SREM takes the id out.                *)
(***************************************************************************)
ExecutingIsCounted ==
  \A w \in Workers : at[w] \in {"set", "exec", "cget", "cset", "csrem"} => hand[w] \in running

LEMMA ExecutingIsCountedNext ==
  Typing /\ Places /\ ExecutingIsCounted /\ [Next]_vars => ExecutingIsCounted'
<1> SUFFICES ASSUME Typing, Places, ExecutingIsCounted, [Next]_vars PROVE ExecutingIsCounted'
  OBVIOUS
<1> DEFINE Counted == {"set", "exec", "cget", "cset", "csrem"}
<1>1. ASSUME UNCHANGED <<at, hand, running>> PROVE ExecutingIsCounted'
  BY <1>1 DEF ExecutingIsCounted
<1>2. ASSUME NEW p \in Producers, ProducerStep(p) \/ EnqueueAborts(p) PROVE ExecutingIsCounted'
  BY <1>1, <1>2 DEF ProducerStep, EnqueueStore, EnqueuePush, EnqueueTrack, EnqueueCount,
                    EnqueueAborts, worker, redis
<1>3. ASSUME NEW w \in Workers,
             WorkerStep(w) \/ Break(w) \/ Drop(w) \/ Stop(w) \/ Restart(w)
      PROVE  ExecutingIsCounted'
  <2>1. \A v \in Workers : v # w => at'[v] = at[v] /\ hand'[v] = hand[v]
    BY <1>3 DEF WorkerStep, DequeuePop, DequeueGet, DequeueSrem, DequeueSadd, DequeueSet, Execute,
          CompleteGet, CompleteSet, CompleteSrem, CompleteIncr, Finish, FailGet, FailRetryKey,
          FailSchedule, FailSet, FailSrem, FailIncr, Break, Drop, Stop, Restart, Goto, ReadAs,
          LetGo, Typing, WorkersTyped
  <2>2. at'[w] \in Counted => hand'[w] \in running'
    <3>1. CASE DequeueSadd(w)
      BY <3>1 DEF DequeueSadd, Goto
    <3>2. CASE DequeueSet(w) \/ Execute(w) \/ CompleteGet(w) \/ CompleteSet(w)
      BY <3>2 DEF DequeueSet, Execute, CompleteGet, CompleteSet, Goto, ReadAs, redis, Typing,
                  WorkersTyped, ExecutingIsCounted
    <3>3. CASE /\ ~ DequeueSadd(w)
               /\ ~ (DequeueSet(w) \/ Execute(w) \/ CompleteGet(w) \/ CompleteSet(w))
      <4>1. at'[w] \notin Counted
        BY <1>3, <3>3 DEF WorkerStep, DequeuePop, DequeueGet, DequeueSrem, CompleteSrem,
             CompleteIncr, Finish, FailGet, FailRetryKey, FailSchedule, FailSet, FailSrem,
             FailIncr, Break, Drop, Stop, Restart, Goto, ReadAs, LetGo, Typing, WorkersTyped
      <4> QED
        BY <4>1
    <3> QED
      BY <3>1, <3>2, <3>3
  <2>3. ASSUME NEW v \in Workers, v # w, at[v] \in Counted PROVE hand[v] \in running'
    <3>1. hand[v] \in running
      BY <2>3 DEF ExecutingIsCounted
    <3>2. hand[v] # NoTask
      BY <2>3 DEF Typing, WorkersTyped
    <3>3. hand[v] # hand[w]
      BY <2>3, <3>2 DEF Places, NoDoubleExecution
    <3>4. running \ {hand[w]} \subseteq running'
      BY <1>3 DEF WorkerStep, DequeuePop, DequeueGet, DequeueSrem, DequeueSadd, DequeueSet,
          Execute, CompleteGet, CompleteSet, CompleteSrem, CompleteIncr, Finish, FailGet,
          FailRetryKey, FailSchedule, FailSet, FailSrem, FailIncr, Break, Drop, Stop, Restart, redis
    <3> QED
      BY <3>1, <3>3, <3>4
  <2> QED
    BY <2>1, <2>2, <2>3 DEF ExecutingIsCounted
<1>4. ASSUME \/ \E t \in Tasks : RecordExpires(t) \/ CancelGet(t)
             \/ \E k \in {"retry", "scheduled"}, t \in Tasks : BackoffExpires(k, t)
             \/ ClearMembers \/ AdminStep
      PROVE  ExecutingIsCounted'
  BY <1>1, <1>4 DEF RecordExpires, CancelGet, BackoffExpires, ClearMembers, AdminStep, CancelSet,
                    CancelSrem, ClearRecords, ClearPending, ClearList, redis, worker
<1>5. CASE UNCHANGED vars
  BY <1>1, <1>5 DEF vars, redis, worker
<1> QED
  BY <1>2, <1>3, <1>4, <1>5 DEF Next

-----------------------------------------------------------------------------
(***************************************************************************)
(* The queue implements WorkQueue.                                         *)
(***************************************************************************)
LEMMA FreshIs == Typing => Tasks \ Pushed = todo \cup {item[p] : p \in Pushing}
<1> SUFFICES ASSUME Typing PROVE Tasks \ Pushed = todo \cup {item[p] : p \in Pushing}
  OBVIOUS
<1>1. todo \subseteq Tasks /\ \A p \in Pushing : item[p] \in Tasks
  BY DEF Typing, ProducersTyped, Pushing
<1> QED
  BY <1>1 DEF Pushed, Pushing

LEMMA FreshIsNext == Typing' => Tasks \ Pushed' = todo' \cup {item'[p] : p \in Pushing'}
<1> SUFFICES ASSUME Typing' PROVE Tasks \ Pushed' = todo' \cup {item'[p] : p \in Pushing'}
  OBVIOUS
<1>1. todo' \subseteq Tasks /\ \A p \in Pushing' : item'[p] \in Tasks
  BY DEF Typing, ProducersTyped, Pushing
<1> QED
  BY <1>1 DEF Pushed, Pushing

(* The two commands that change what waits in the lists.                   *)
LEMMA PushQueues ==
  ASSUME Typing, Typing', NEW p \in Producers, EnqueuePush(p)
  PROVE  item[p] \in Tasks /\ Queued' = Queued \cup {item[p]}
<1>0. item[p] \in Tasks /\ Priority[item[p]] \in Levels
  BY Shape DEF EnqueuePush, Typing, ProducersTyped
<1> SUFFICES Queued' = Queued \cup {item[p]}
  BY <1>0
<1> DEFINE t == item[p]
           k == Priority[t]
<1>1. /\ list[k] \in Seq(Tasks) /\ list'[k] \in Seq(Tasks) /\ Len(list[k]) \in Nat
      /\ Len(list'[k]) = Len(list[k]) + 1
      /\ list'[k][1] = t
      /\ \A i \in 1 .. Len(list[k]) : list'[k][i + 1] = list[k][i]
      /\ \A i \in 2 .. Len(list[k]) + 1 : list'[k][i] = list[k][i - 1]
  BY <1>0 DEF EnqueuePush, Typing, RedisTyped
<1>2. \A l \in Levels : l # k => list'[l] = list[l]
  BY <1>0 DEF EnqueuePush, Typing, RedisTyped
<1>3. Queued \cup {t} \subseteq Queued'
  <2>1. ASSUME NEW l \in Levels, NEW i \in 1 .. Len(list[l]) PROVE list[l][i] \in Queued'
    <3>1. CASE l = k
      <4>1. i + 1 \in 1 .. Len(list'[k]) /\ list'[k][i + 1] = list[l][i] /\ list[l][i] \in Tasks
        BY <1>1, <2>1, <3>1
      <4> QED
        BY <1>0, <4>1 DEF Queued
    <3>2. CASE l # k
      <4>1. list'[l] = list[l] /\ list[l] \in Seq(Tasks)
        BY <1>2, <3>2 DEF Typing, RedisTyped
      <4>2. list[l][i] \in Tasks /\ i \in 1 .. Len(list'[l]) /\ list'[l][i] = list[l][i]
        BY <2>1, <4>1
      <4> QED
        BY <4>2 DEF Queued
    <3> QED
      BY <3>1, <3>2
  <2>2. t \in Queued'
    BY <1>0, <1>1 DEF Queued
  <2>3. ASSUME NEW x \in Queued PROVE x \in Queued'
    <3>1. PICK l \in Levels : \E i \in 1 .. Len(list[l]) : list[l][i] = x
      BY <2>3 DEF Queued
    <3>2. PICK i \in 1 .. Len(list[l]) : list[l][i] = x
      BY <3>1
    <3> QED
      BY <2>1, <3>2
  <2> HIDE DEF Queued
  <2> QED
    BY <2>2, <2>3
<1>4. Queued' \subseteq Queued \cup {t}
  <2>1. ASSUME NEW l \in Levels, NEW i \in 1 .. Len(list'[l]) PROVE list'[l][i] \in Queued \cup {t}
    <3>1. CASE l = k /\ i # 1
      <4>1. i \in 2 .. Len(list[k]) + 1 /\ i - 1 \in 1 .. Len(list[k])
            /\ list'[l][i] = list[k][i - 1] /\ list[k][i - 1] \in Tasks
        BY <1>1, <2>1, <3>1
      <4> QED
        BY <1>0, <4>1 DEF Queued
    <3>2. CASE l = k /\ i = 1
      BY <1>1, <3>2
    <3>3. CASE l # k
      BY <1>2, <2>1, <3>3 DEF Queued, Typing, RedisTyped
    <3> QED
      BY <3>1, <3>2, <3>3
  <2> QED
    BY <2>1 DEF Queued
<1> QED
  BY <1>3, <1>4

LEMMA PopQueues ==
  ASSUME Typing, Places, NEW w \in Workers, DequeuePop(w)
  PROVE  \E t \in Queued : hand' = [hand EXCEPT ![w] = t] /\ Queued' = Queued \ {t}
<1>1. PICK k \in Levels : /\ list[k] # <<>>
                          /\ list' = [list EXCEPT ![k] = Tail(@)]
                          /\ hand' = [hand EXCEPT ![w] = Head(list[k])]
  BY DEF DequeuePop
<1> DEFINE t == list[k][1]
<1>2. /\ list[k] \in Seq(Tasks) /\ Len(list[k]) \in Nat /\ 1 \in 1 .. Len(list[k]) /\ t \in Tasks
      /\ Head(list[k]) = t
      /\ list'[k] = Tail(list[k])
      /\ Len(Tail(list[k])) = Len(list[k]) - 1
      /\ \A i \in 1 .. Len(list[k]) - 1 : Tail(list[k])[i] = list[k][i + 1]
      /\ \A l \in Levels : l # k => list'[l] = list[l]
  BY <1>1 DEF Typing, RedisTyped
<1>3. t \in Queued
  BY <1>2 DEF Queued
<1>4. Queued' = Queued \ {t}
  <2>1. ASSUME NEW l \in Levels, NEW i \in 1 .. Len(list'[l])
        PROVE  list'[l][i] \in Queued /\ list'[l][i] # t
    <3>1. CASE l = k
      <4>0. i \in 1 .. Len(list[k]) - 1 /\ list'[l][i] = Tail(list[k])[i]
        BY <1>2, <2>1, <3>1
      <4>1. i + 1 \in 1 .. Len(list[k]) /\ list'[l][i] = list[k][i + 1] /\ i \in Nat
            /\ list[k][i + 1] \in Tasks
        BY <1>2, <4>0
      <4>2. list[k][i + 1] # t
        <5>1. SUFFICES ASSUME list[k][i + 1] = list[k][1] PROVE FALSE
          OBVIOUS
        <5>2. i + 1 = 1
          BY <1>2, <4>1, <5>1 DEF Places, ListsDisjoint, Positions
        <5>3. i \in 1 .. Len(list'[l])
          BY <2>1
        <5> QED
          BY <5>2, <5>3
      <4> QED
        BY <4>1, <4>2 DEF Queued
    <3>2. CASE l # k
      <4>1. i \in 1 .. Len(list[l]) /\ list'[l][i] = list[l][i] /\ list[l][i] \in Tasks
        BY <1>2, <2>1, <3>2 DEF Typing, RedisTyped
      <4>2. Priority[list[l][i]] = l /\ Priority[t] = k
        BY <1>2, <4>1 DEF Places, ListsDisjoint, Positions
      <4> QED
        BY <3>2, <4>1, <4>2 DEF Queued
    <3> QED
      BY <3>1, <3>2
  <2>2. ASSUME NEW l \in Levels, NEW i \in 1 .. Len(list[l]), list[l][i] # t
        PROVE  list[l][i] \in Queued'
    <3>1. CASE l = k
      <4>1. i # 1
        BY <2>2, <3>1
      <4>2. i - 1 \in 1 .. Len(list[k]) - 1 /\ (i - 1) + 1 = i
        BY <1>2, <2>2, <3>1, <4>1
      <4>3. i - 1 \in 1 .. Len(list'[k]) /\ list'[k][i - 1] = list[l][i] /\ list[l][i] \in Tasks
        BY <1>2, <3>1, <4>2
      <4> QED
        BY <3>1, <4>3 DEF Queued
    <3>2. CASE l # k
      BY <1>2, <2>2, <3>2 DEF Queued, Typing, RedisTyped
    <3> QED
      BY <3>1, <3>2
  <2>3. ASSUME NEW x \in Queued' PROVE x \in Queued /\ x # t
    <3>1. PICK l \in Levels : \E i \in 1 .. Len(list'[l]) : list'[l][i] = x
      BY <2>3 DEF Queued
    <3> QED
      BY <2>1, <3>1
  <2>4. ASSUME NEW x \in Queued, x # t PROVE x \in Queued'
    <3>1. PICK l \in Levels : \E i \in 1 .. Len(list[l]) : list[l][i] = x
      BY <2>4 DEF Queued
    <3> QED
      BY <2>2, <2>4, <3>1
  <2> QED
    BY <2>3, <2>4
<1> QED
  BY <1>1, <1>2, <1>3, <1>4

LEMMA PromiseInit == Init => Promise!Init
  BY DEF Init, Promise!Init, Pushed, Queued

LEMMA PromiseNext ==
  Typing /\ Typing' /\ Places /\ [Next]_vars => [Promise!Next]_(Promise!vars)
<1> SUFFICES ASSUME Typing, Typing', Places, [Next]_vars PROVE [Promise!Next]_(Promise!vars)
  OBVIOUS
<1> DEFINE Fresh == Tasks \ Pushed
<1>0. Fresh = todo \cup {item[p] : p \in Pushing} /\ Fresh' = todo' \cup {item'[p] : p \in Pushing'}
  BY FreshIs, FreshIsNext
<1>a. ASSUME UNCHANGED <<todo, step, item>> PROVE Fresh' = Fresh
  BY <1>a DEF Pushed
<1>b. ASSUME UNCHANGED list PROVE Queued' = Queued
  BY <1>b DEF Queued
<1>1. ASSUME NEW p \in Producers, ProducerStep(p) \/ EnqueueAborts(p)
      PROVE  [Promise!Next]_(Promise!vars)
  <2>1. UNCHANGED hand
    BY <1>1 DEF ProducerStep, EnqueueStore, EnqueuePush, EnqueueTrack, EnqueueCount,
                EnqueueAborts, worker
  <2>2. CASE EnqueueStore(p)
    <3>1. PICK t \in todo : todo' = todo \ {t} /\ item' = [item EXCEPT ![p] = t]
      BY <2>2 DEF EnqueueStore
    <3>2. Pushing' = Pushing \cup {p} /\ p \notin Pushing /\ item'[p] = t
          /\ \A q \in Pushing : item'[q] = item[q]
      BY <2>2, <3>1 DEF EnqueueStore, Pushing, Typing, ProducersTyped
    <3>3. Fresh' = Fresh
      BY <1>0, <3>1, <3>2
    <3> QED
      BY <1>b, <2>1, <2>2, <3>3 DEF EnqueueStore, Promise!vars
  <2>3. CASE EnqueuePush(p)
    <3>1. p \in Pushing /\ Pushing' = Pushing \ {p} /\ UNCHANGED <<todo, item>>
      BY <2>3 DEF EnqueuePush, Pushing, Proceed, Typing, ProducersTyped
    <3>2. \A q \in Pushing' : item[q] # item[p]
      BY <3>1 DEF Places, BeforeList
    <3>3. item[p] \in Fresh /\ Fresh' = Fresh \ {item[p]}
      BY <1>0, <3>1, <3>2 DEF Places, BeforeList
    <3>4. item[p] \in Tasks /\ Priority[item[p]] \in Levels
      BY <3>3, QueueAssumption
    <3>5. Queued' = Queued \cup {item[p]}
      BY <2>3, PushQueues
    <3>6. Promise!Submit(item[p])
      BY <2>1, <3>3, <3>5 DEF Promise!Submit
    <3> QED
      BY <3>4, <3>6 DEF Promise!Next
  <2>4. CASE EnqueueTrack(p) \/ EnqueueCount(p)
    <3>1. Pushing' = Pushing /\ UNCHANGED todo /\ \A q \in Pushing : item'[q] = item[q]
      BY <2>4 DEF EnqueueTrack, EnqueueCount, Proceed, EndEnqueue, Pushing, Typing, ProducersTyped
    <3>2. Fresh' = Fresh
      BY <1>0, <3>1
    <3> QED
      BY <1>b, <2>1, <2>4, <3>2 DEF EnqueueTrack, EnqueueCount, Promise!vars
  <2>5. CASE EnqueueAborts(p)
    <3>1. /\ Pushing' = Pushing \ {p} /\ UNCHANGED <<todo, list>>
          /\ \A q \in Pushing' : item'[q] = item[q]
      BY <2>5 DEF EnqueueAborts, EndEnqueue, Pushing, Typing, ProducersTyped, redis
    <3>2. CASE p \notin Pushing
      <4>1. Fresh' = Fresh
        BY <1>0, <3>1, <3>2
      <4> QED
        BY <1>b, <2>1, <3>1, <4>1 DEF Promise!vars
    <3>3. CASE p \in Pushing
      <4>1. \A q \in Pushing' : item[q] # item[p]
        BY <3>1, <3>3 DEF Places, BeforeList
      <4>2. item[p] \in Fresh /\ Fresh' = Fresh \ {item[p]}
        BY <1>0, <3>1, <3>3, <4>1 DEF Places, BeforeList
      <4>3. Promise!Withdraw(item[p])
        BY <1>b, <2>1, <3>1, <4>2 DEF Promise!Withdraw
      <4> QED
        BY <4>2, <4>3 DEF Promise!Next
    <3> QED
      BY <3>2, <3>3
  <2> QED
    BY <1>1, <2>2, <2>3, <2>4, <2>5 DEF ProducerStep
<1>2. ASSUME NEW w \in Workers, DequeuePop(w) PROVE [Promise!Next]_(Promise!vars)
  <2>1. PICK t \in Queued : hand' = [hand EXCEPT ![w] = t] /\ Queued' = Queued \ {t}
    BY <1>2, PopQueues
  <2>5. UNCHANGED <<todo, step, item>>
    BY <1>2 DEF DequeuePop, prod
  <2>6. hand[w] = NoTask
    BY <1>2 DEF DequeuePop, Typing, WorkersTyped
  <2>7. Fresh' = Fresh
    BY <1>a, <2>5
  <2>8. t \in Tasks
    BY DEF Queued
  <2>9. Promise!Claim(w, t)
    BY <2>1, <2>6, <2>7 DEF Promise!Claim
  <2> QED
    BY <2>8, <2>9 DEF Promise!Next
<1>3. ASSUME NEW w \in Workers, ~ DequeuePop(w),
             WorkerStep(w) \/ Break(w) \/ Drop(w) \/ Stop(w) \/ Restart(w)
      PROVE  [Promise!Next]_(Promise!vars)
  <2>1. UNCHANGED <<todo, list, step, item>>
    BY <1>3
    DEF WorkerStep, DequeueGet, DequeueSrem, DequeueSadd, DequeueSet, Execute, CompleteGet,
        CompleteSet, CompleteSrem, CompleteIncr, Finish, FailGet, FailRetryKey, FailSchedule,
        FailSet, FailSrem, FailIncr, Break, Drop, Stop, Restart, redis, prod
  <2>2. UNCHANGED hand \/ hand' = [hand EXCEPT ![w] = NoTask]
    BY <1>3
    DEF WorkerStep, DequeueGet, DequeueSrem, DequeueSadd, DequeueSet, Execute, CompleteGet,
        CompleteSet, CompleteSrem, CompleteIncr, Finish, FailGet, FailRetryKey, FailSchedule,
        FailSet, FailSrem, FailIncr, Break, Drop, Stop, Restart, Goto, ReadAs, LetGo
  <2>3. Fresh' = Fresh /\ Queued' = Queued
    BY <1>a, <1>b, <2>1
  <2>4. CASE UNCHANGED hand
    BY <2>3, <2>4 DEF Promise!vars
  <2>5. CASE hand' = [hand EXCEPT ![w] = NoTask]
    BY <2>3, <2>5 DEF Promise!Release, Promise!Next
  <2> QED
    BY <2>2, <2>4, <2>5
<1>4. ASSUME \/ \E t \in Tasks : RecordExpires(t) \/ CancelGet(t)
             \/ \E k \in {"retry", "scheduled"}, t \in Tasks : BackoffExpires(k, t)
             \/ ClearMembers \/ AdminStep
      PROVE  [Promise!Next]_(Promise!vars)
  <2>1. UNCHANGED <<todo, step, item, hand>>
    BY <1>4 DEF RecordExpires, CancelGet, BackoffExpires, ClearMembers, AdminStep, CancelSet,
                CancelSrem, ClearRecords, ClearPending, ClearList, prod, worker
  <2>2. \A l \in Levels : list'[l] = list[l] \/ list'[l] = <<>>
    BY <1>4 DEF RecordExpires, CancelGet, BackoffExpires, ClearMembers, AdminStep, CancelSet,
                CancelSrem, ClearRecords, ClearPending, ClearList, redis, Typing, RedisTyped
  <2>3. Queued' \subseteq Queued
    BY <2>2 DEF Queued
  <2>4. Promise!Discard
    BY <1>a, <2>1, <2>3 DEF Promise!Discard
  <2> QED
    BY <2>4 DEF Promise!Next
<1>5. CASE UNCHANGED vars
  BY <1>a, <1>b, <1>5 DEF vars, redis, prod, worker, Promise!vars
<1> QED
  BY <1>1, <1>2, <1>3, <1>4, <1>5 DEF Next

(* Whatever is interleaved, cancelled, cleared or lost, the Redis commands *)
(* of queue.py hand every pushed id to one worker at most once.            *)
THEOREM QueueImplementsWorkQueue == Spec => AtMostOnce
<1>1. Init => Typing /\ Places /\ Promise!Init
  BY TypingInit, PlacesInit, PromiseInit
<1>2. Typing /\ Places /\ [Next]_vars => Typing' /\ Places'
  BY TypingNext, PlacesNext
<1>3. Typing /\ Typing' /\ Places /\ [Next]_vars => [Promise!Next]_(Promise!vars)
  BY PromiseNext
<1> QED
  BY <1>1, <1>2, <1>3, PTL DEF Spec, AtMostOnce, Promise!Spec
-----------------------------------------------------------------------------
(***************************************************************************)
(* The completed counter.  INCR compares nothing: that it follows the SET  *)
(* of the result, and once for a task, is what the places of ids give.  A  *)
(* task whose result was stored is past its lists and past the steps that  *)
(* would store something else (DoneLate), so Done, which keeps a task when *)
(* its record expires, only grows, and a task between the SET of its       *)
(* result and the INCR is one the counter has not counted yet (Owing).     *)
(***************************************************************************)
Stored == {t \in Tasks : record[t].status \in Finished}

Done == Stored \cup aged

\* Steps of a worker that has not stored a result.
EarlySteps == {"get", "srem", "sadd", "set", "exec", "cget", "cset"}

\* What a worker is about to write.
Written ==
  \A w \in Workers :
    /\ at[w] \in {"srem", "sadd", "set"} => copy[w].status = "running"
    /\ at[w] = "cset" => copy[w].status = "success"
    /\ at[w] = "fset" => copy[w].status = "failed"

DoneLate ==
  \A t \in Done :
    /\ t \notin todo
    /\ \A p \in Pushing : item[p] # t
    /\ \A l \in Levels : \A i \in Positions(l) : list[l][i] # t
    /\ \A w \in Workers : hand[w] = t => at[w] \notin EarlySteps

Owing == {hand[w] : w \in {v \in Workers : at[v] \in {"csrem", "cincr"}}}

Backed ==
  calls = 0 =>
    /\ admin = NoCall
    /\ IsFiniteSet(Done)
    /\ Owing \subseteq Done
    /\ counter["completed"] <= Cardinality(Done \ Owing)

\* A step of one worker leaves the others where they are.
LEMMA OneWorker ==
  ASSUME Typing, NEW w \in Workers, WorkerStep(w) \/ Break(w) \/ Drop(w) \/ Stop(w) \/ Restart(w)
  PROVE  /\ UNCHANGED <<todo, step, item>>
         /\ \A v \in Workers \ {w} : at'[v] = at[v] /\ hand'[v] = hand[v] /\ copy'[v] = copy[v]
  BY DEF WorkerStep, DequeuePop, DequeueGet, DequeueSrem, DequeueSadd, DequeueSet, Execute,
         CompleteGet, CompleteSet, CompleteSrem, CompleteIncr, Finish, FailGet, FailRetryKey,
         FailSchedule, FailSet, FailSrem, FailIncr, Break, Drop, Stop, Restart, Goto, ReadAs,
         LetGo, Typing, WorkersTyped, prod

\* Nobody else moves a worker.
LEMMA NoWorker ==
  ASSUME \/ \E p \in Producers : ProducerStep(p) \/ EnqueueAborts(p)
         \/ \E t \in Tasks : RecordExpires(t) \/ CancelGet(t)
         \/ \E k \in {"retry", "scheduled"}, t \in Tasks : BackoffExpires(k, t)
         \/ ClearMembers \/ AdminStep \/ UNCHANGED vars
  PROVE  UNCHANGED <<at, hand, copy>>
  BY DEF ProducerStep, EnqueueStore, EnqueuePush, EnqueueTrack, EnqueueCount, EnqueueAborts,
         RecordExpires, CancelGet, BackoffExpires, ClearMembers, AdminStep, CancelSet, CancelSrem,
         ClearRecords, ClearPending, ClearList, worker, vars

LEMMA WrittenNext == Typing /\ Written /\ [Next]_vars => Written'
<1> SUFFICES ASSUME Typing, Written, [Next]_vars PROVE Written'
  OBVIOUS
<1>1. ASSUME UNCHANGED <<at, hand, copy>> PROVE Written'
  BY <1>1 DEF Written
<1>2. ASSUME NEW w \in Workers, WorkerStep(w) \/ Break(w) \/ Drop(w) \/ Stop(w) \/ Restart(w)
      PROVE  Written'
  <2>1. \A v \in Workers \ {w} : at'[v] = at[v] /\ copy'[v] = copy[v]
    BY <1>2, OneWorker
  <2>2. /\ at'[w] \in {"srem", "sadd", "set"} => copy'[w].status = "running"
        /\ at'[w] = "cset" => copy'[w].status = "success"
        /\ at'[w] = "fset" => copy'[w].status = "failed"
    BY <1>2 DEF WorkerStep, DequeuePop, DequeueGet, DequeueSrem, DequeueSadd, DequeueSet, Execute,
         CompleteGet, CompleteSet, CompleteSrem, CompleteIncr, Finish, FailGet, FailRetryKey,
         FailSchedule, FailSet, FailSrem, FailIncr, Break, Drop, Stop, Restart, Goto, ReadAs,
         LetGo, Typing, WorkersTyped, Written
  <2> QED
    BY <2>1, <2>2 DEF Written
<1> QED
  BY <1>1, <1>2, NoWorker DEF Next


\* The commands that write a record.
LEMMA RecordIs ==
  ASSUME [Next]_vars, record' # record
  PROVE  \/ \E p \in Producers : EnqueueStore(p)
         \/ \E w \in Workers : DequeueSet(w) \/ CompleteSet(w) \/ FailSet(w)
         \/ \E t \in Tasks : RecordExpires(t)
         \/ CancelSet \/ ClearRecords
  BY DEF Next, ProducerStep, EnqueuePush, EnqueueTrack, EnqueueCount, EnqueueAborts,
         WorkerStep, DequeuePop, DequeueGet, DequeueSrem, DequeueSadd, Execute, CompleteGet,
         CompleteSrem, CompleteIncr, Finish, FailGet, FailRetryKey, FailSchedule, FailSrem, FailIncr,
         Break, Drop, Stop, Restart, CancelGet, BackoffExpires, ClearMembers, AdminStep, CancelSrem,
         ClearPending, ClearList, redis, vars

\* Only a stored result ages.
LEMMA AgedIs ==
  ASSUME Typing, [Next]_vars
  PROVE  aged \subseteq aged' /\ aged' \subseteq Done /\ Done \subseteq Tasks
<1>1. CASE \E t \in Tasks : RecordExpires(t)
  BY <1>1 DEF RecordExpires, Stored, Done, Typing, AdminTyped
<1>2. ASSUME ~ \E t \in Tasks : RecordExpires(t) PROVE aged' = aged
  <2>1. ASSUME NEW w \in Workers, WorkerStep(w) \/ Break(w) \/ Drop(w) \/ Stop(w) \/ Restart(w)
        PROVE  aged' = aged
    BY <2>1 DEF WorkerStep, DequeuePop, DequeueGet, DequeueSrem, DequeueSadd, DequeueSet, Execute,
         CompleteGet, CompleteSet, CompleteSrem, CompleteIncr, Finish, FailGet, FailRetryKey,
         FailSchedule, FailSet, FailSrem, FailIncr, Break, Drop, Stop, Restart
  <2>2. ASSUME NEW p \in Producers, ProducerStep(p) \/ EnqueueAborts(p) PROVE aged' = aged
    BY <2>2 DEF ProducerStep, EnqueueStore, EnqueuePush, EnqueueTrack, EnqueueCount, EnqueueAborts
  <2>3. ASSUME \/ \E t \in Tasks : CancelGet(t)
               \/ \E k \in {"retry", "scheduled"}, t \in Tasks : BackoffExpires(k, t)
               \/ ClearMembers \/ AdminStep \/ UNCHANGED vars
        PROVE  aged' = aged
    BY <2>3 DEF CancelGet, BackoffExpires, ClearMembers, AdminStep, CancelSet, CancelSrem,
         ClearRecords, ClearPending, ClearList, vars
  <2> QED
    BY <1>2, <2>1, <2>2, <2>3 DEF Next
<1> QED
  BY <1>1, <1>2 DEF Done, Stored, Typing, AdminTyped

\* A result is stored by the worker that holds the task, and by no other step.
LEMMA DoneGrows ==
  ASSUME Typing, Written, [Next]_vars, NEW t \in Done', t \notin Done
  PROVE  \E w \in Workers : hand[w] = t /\ (CompleteSet(w) \/ FailSet(w))
<1>0. t \in Stored' /\ t \notin Stored
  BY AgedIs DEF Done
<1>1. t \in Tasks /\ record'[t] # record[t] /\ record'[t].status \in Finished
  BY <1>0 DEF Stored
<1>2. CASE \E p \in Producers : EnqueueStore(p)
  BY <1>1, <1>2 DEF EnqueueStore, Typing, RedisTyped, Finished
<1>3. CASE \E w \in Workers : DequeueSet(w) \/ CompleteSet(w) \/ FailSet(w)
  <2>1. PICK w \in Workers : DequeueSet(w) \/ CompleteSet(w) \/ FailSet(w)
    BY <1>3
  <2>2. hand[w] = t /\ record'[t] = copy[w]
    BY <1>1, <2>1 DEF DequeueSet, CompleteSet, FailSet, Typing, RedisTyped
  <2>3. ~ DequeueSet(w)
    BY <1>1, <2>2 DEF DequeueSet, Written, Finished
  <2> QED
    BY <2>1, <2>2, <2>3
<1>4. CASE \E u \in Tasks : RecordExpires(u)
  BY <1>1, <1>4 DEF RecordExpires, Absent, Finished, Typing, RedisTyped
<1>5. CASE CancelSet \/ ClearRecords
  BY <1>1, <1>5 DEF CancelSet, ClearRecords, Absent, Finished, Typing, RedisTyped
<1> QED
  BY <1>1, <1>2, <1>3, <1>4, <1>5, RecordIs

\* It is taken back by the operator or the calendar only.
LEMMA StoredStays ==
  ASSUME Typing, Written, DoneLate, [Next]_vars, admin = NoCall,
         NEW t \in Stored, ~ RecordExpires(t)
  PROVE  t \in Stored'
<1> SUFFICES ASSUME record'[t] # record[t] PROVE record'[t].status \in Finished
  BY DEF Stored
<1>1. t \in Tasks /\ t \in Done
  BY DEF Stored, Done
<1>2. CASE \E p \in Producers : EnqueueStore(p)
  <2>1. PICK u \in todo : \A v \in Tasks : v # u => record'[v] = record[v]
    BY <1>2 DEF EnqueueStore, Typing, RedisTyped
  <2> QED
    BY <1>1, <2>1 DEF DoneLate
<1>3. CASE \E w \in Workers : DequeueSet(w) \/ CompleteSet(w) \/ FailSet(w)
  <2>1. PICK w \in Workers : DequeueSet(w) \/ CompleteSet(w) \/ FailSet(w)
    BY <1>3
  <2>2. hand[w] = t /\ record'[t] = copy[w]
    BY <1>1, <2>1 DEF DequeueSet, CompleteSet, FailSet, Typing, RedisTyped
  <2>3. ~ DequeueSet(w)
    BY <1>1, <2>2 DEF DequeueSet, DoneLate, EarlySteps
  <2> QED
    BY <2>1, <2>2, <2>3 DEF CompleteSet, FailSet, Written, Finished
<1>4. CASE \E u \in Tasks : RecordExpires(u)
  BY <1>1, <1>4 DEF RecordExpires, Typing, RedisTyped
<1>5. CASE CancelSet \/ ClearRecords
  BY <1>5 DEF CancelSet, ClearRecords, NoCall, Call
<1> QED
  BY <1>2, <1>3, <1>4, <1>5, RecordIs

LEMMA DoneStays ==
  ASSUME Typing, Written, DoneLate, [Next]_vars, admin = NoCall
  PROVE  Done \subseteq Done'
<1>1. ASSUME NEW t \in Stored, RecordExpires(t) PROVE t \in aged'
  BY <1>1 DEF RecordExpires, Stored
<1> QED
  BY <1>1, AgedIs, StoredStays DEF Done

LEMMA DoneLateNext ==
  ASSUME Typing, Places, Written, DoneLate, [Next]_vars
  PROVE  DoneLate'
<1> SUFFICES ASSUME NEW t \in Done'
             PROVE  /\ t \notin todo'
                    /\ \A p \in Pushing' : item'[p] # t
                    /\ \A l \in Levels : \A i \in Positions(l)' : list'[l][i] # t
                    /\ \A w \in Workers : hand'[w] = t => at'[w] \notin EarlySteps
  BY DEF DoneLate
<1>1. CASE t \notin Done
  <2>1. PICK w \in Workers : hand[w] = t /\ (CompleteSet(w) \/ FailSet(w))
    BY <1>1, DoneGrows
  <2>2. UNCHANGED <<todo, step, item, list, hand>> /\ at'[w] \in {"csrem", "fsrem"} /\ t # NoTask
    BY <2>1 DEF CompleteSet, FailSet, Goto, prod, Typing, WorkersTyped
  <2>3. \A v \in Workers : hand[v] = t => v = w
    BY <2>1, <2>2 DEF Places, NoDoubleExecution
  <2>4. t \notin todo /\ (\A p \in Pushing : item[p] # t)
        /\ \A l \in Levels : \A i \in Positions(l) : list[l][i] # t
    BY <2>1, <2>2 DEF Places, AfterList
  <2> QED
    BY <2>2, <2>3, <2>4 DEF Pushing, Positions, EarlySteps
<1>2. CASE t \in Done
  <2>0. /\ t \in Tasks /\ t \notin todo /\ t # NoTask
        /\ \A p \in Pushing : item[p] # t
        /\ \A l \in Levels : \A i \in Positions(l) : list[l][i] # t
        /\ \A w \in Workers : hand[w] = t => at[w] \notin EarlySteps
    BY <1>2, Shape, AgedIs DEF DoneLate
  <2>1. ASSUME NEW p \in Producers, ProducerStep(p) \/ EnqueueAborts(p)
        PROVE  /\ t \notin todo'
               /\ \A q \in Pushing' : item'[q] # t
               /\ \A l \in Levels : \A i \in Positions(l)' : list'[l][i] # t
    <3>1. t \notin todo' /\ \A q \in Pushing' : item'[q] # t
      BY <2>0, <2>1 DEF ProducerStep, EnqueueStore, EnqueuePush, EnqueueTrack, EnqueueCount,
         EnqueueAborts, Proceed, EndEnqueue, Pushing, Typing, ProducersTyped
    <3>2. CASE EnqueuePush(p)
      <4>1. item[p] # t /\ item[p] \in Tasks /\ Priority[item[p]] \in Levels
        BY <2>0, <3>2, Shape DEF EnqueuePush, Pushing, Typing, ProducersTyped
      <4>2. ASSUME NEW l \in Levels, NEW i \in Positions(l)' PROVE list'[l][i] # t
        <5>1. CASE l = Priority[item[p]]
          <6>1. list'[l] = <<item[p]>> \o list[l] /\ list[l] \in Seq(Tasks)
            BY <3>2, <5>1 DEF EnqueuePush, Typing, RedisTyped
          <6>2. i \in 1 .. Len(list[l]) + 1
            BY <4>1, <4>2, <6>1 DEF Positions
          <6>3. i = 1 => list'[l][i] = item[p]
            BY <4>1, <6>1
          <6>4. i # 1 => i - 1 \in 1 .. Len(list[l]) /\ list'[l][i] = list[l][i - 1]
            BY <4>1, <6>1, <6>2
          <6> QED
            BY <2>0, <4>1, <6>3, <6>4 DEF Positions
        <5>2. CASE l # Priority[item[p]]
          BY <2>0, <3>2, <4>2, <5>2 DEF EnqueuePush, Typing, RedisTyped, Positions
        <5> QED
          BY <5>1, <5>2
      <4> QED
        BY <3>1, <4>2
    <3>3. CASE ~ EnqueuePush(p)
      <4>1. list' = list
        BY <2>1, <3>3 DEF ProducerStep, EnqueueStore, EnqueueTrack, EnqueueCount, EnqueueAborts, redis
      <4> QED
        BY <2>0, <3>1, <4>1 DEF Positions
    <3> QED
      BY <3>2, <3>3
  <2>2. ASSUME NEW w \in Workers, WorkerStep(w) \/ Break(w) \/ Drop(w) \/ Stop(w) \/ Restart(w)
        PROVE  /\ \A l \in Levels : \A i \in Positions(l)' : list'[l][i] # t
               /\ hand'[w] = t => at'[w] \notin EarlySteps
    <3>1. CASE DequeuePop(w)
      <4>1. PICK k \in Levels : /\ list[k] # <<>>
                                /\ list' = [list EXCEPT ![k] = Tail(@)]
                                /\ hand' = [hand EXCEPT ![w] = Head(list[k])]
        BY <3>1 DEF DequeuePop
      <4>2. list[k] \in Seq(Tasks) /\ Len(list[k]) \in Nat \ {0} /\ Head(list[k]) = list[k][1]
        BY <4>1 DEF Typing, RedisTyped
      <4>3. hand'[w] # t
        BY <2>0, <4>1, <4>2 DEF Positions, Typing, WorkersTyped
      <4>4. ASSUME NEW l \in Levels, NEW i \in Positions(l)' PROVE list'[l][i] # t
        <5>1. CASE l = k
          <6>1. list'[l] = Tail(list[k]) /\ i \in 1 .. Len(list[k]) - 1
            BY <4>1, <4>2, <4>4, <5>1 DEF Positions, Typing, RedisTyped
          <6>2. list'[l][i] = list[k][i + 1] /\ i + 1 \in 1 .. Len(list[k])
            BY <4>2, <6>1
          <6> QED
            BY <2>0, <6>2 DEF Positions
        <5>2. CASE l # k
          BY <2>0, <4>1, <4>4, <5>2 DEF Typing, RedisTyped, Positions
        <5> QED
          BY <5>1, <5>2
      <4> QED
        BY <4>3, <4>4
    <3>2. CASE ~ DequeuePop(w)
      <4>1. list' = list
        BY <2>2, <3>2
        DEF WorkerStep, DequeueGet, DequeueSrem, DequeueSadd, DequeueSet, Execute, CompleteGet,
            CompleteSet, CompleteSrem, CompleteIncr, Finish, FailGet, FailRetryKey, FailSchedule,
            FailSet, FailSrem, FailIncr, Break, Drop, Stop, Restart, redis
      <4>2. hand'[w] = t => hand[w] = t /\ (at'[w] \in EarlySteps => at[w] \in EarlySteps)
        BY <2>0, <2>2, <3>2
        DEF WorkerStep, DequeueGet, DequeueSrem, DequeueSadd, DequeueSet, Execute, CompleteGet,
            CompleteSet, CompleteSrem, CompleteIncr, Finish, FailGet, FailRetryKey, FailSchedule,
            FailSet, FailSrem, FailIncr, Break, Drop, Stop, Restart, Goto, ReadAs, LetGo,
            EarlySteps, Typing, WorkersTyped
      <4> QED
        BY <2>0, <4>1, <4>2 DEF Positions
    <3> QED
      BY <3>1, <3>2
  <2>3. ASSUME \/ \E u \in Tasks : RecordExpires(u) \/ CancelGet(u)
               \/ \E k \in {"retry", "scheduled"}, u \in Tasks : BackoffExpires(k, u)
               \/ ClearMembers \/ AdminStep \/ UNCHANGED vars
        PROVE  UNCHANGED <<todo, step, item>> /\ \A l \in Levels : list'[l] = list[l] \/ list'[l] = <<>>
    BY <2>3 DEF RecordExpires, CancelGet, BackoffExpires, ClearMembers, AdminStep, CancelSet,
                CancelSrem, ClearRecords, ClearPending, ClearList, redis, prod, vars, Typing, RedisTyped
  <2>4. CASE \E p \in Producers : ProducerStep(p) \/ EnqueueAborts(p)
    <3>1. UNCHANGED <<at, hand>>
      BY <2>4, NoWorker
    <3> QED
      BY <2>0, <2>1, <2>4, <3>1
  <2>5. CASE \E w \in Workers : WorkerStep(w) \/ Break(w) \/ Drop(w) \/ Stop(w) \/ Restart(w)
    <3>1. PICK w \in Workers : WorkerStep(w) \/ Break(w) \/ Drop(w) \/ Stop(w) \/ Restart(w)
      BY <2>5
    <3>2. UNCHANGED <<todo, step, item>> /\ \A v \in Workers \ {w} : at'[v] = at[v] /\ hand'[v] = hand[v]
      BY <3>1, OneWorker
    <3> QED
      BY <2>0, <2>2, <3>1, <3>2 DEF Pushing
  <2>6. CASE \/ \E u \in Tasks : RecordExpires(u) \/ CancelGet(u)
             \/ \E k \in {"retry", "scheduled"}, u \in Tasks : BackoffExpires(k, u)
             \/ ClearMembers \/ AdminStep \/ UNCHANGED vars
    <3>1. UNCHANGED <<at, hand>>
      BY <2>6, NoWorker
    <3>2. \A l \in Levels : \A i \in Positions(l)' : list'[l][i] # t
      BY <2>0, <2>3, <2>6 DEF Positions
    <3> QED
      BY <2>0, <2>3, <2>6, <3>1, <3>2 DEF Pushing
  <2> QED
    BY <2>4, <2>5, <2>6 DEF Next
<1> QED
  BY <1>1, <1>2

\* A step that stores no result and counts nothing only takes tasks out of Owing.
LEMMA OwingShrinks ==
  ASSUME Typing, [Next]_vars, admin = NoCall,
         \A w \in Workers : ~ CompleteSet(w) /\ ~ FailSet(w) /\ ~ CompleteIncr(w)
  PROVE  Owing' \subseteq Owing /\ counter'["completed"] = counter["completed"]
<1>1. ASSUME UNCHANGED <<at, hand, copy>> PROVE Owing' = Owing
  BY <1>1 DEF Owing
<1>2. ASSUME NEW w \in Workers, WorkerStep(w) \/ Break(w) \/ Drop(w) \/ Stop(w) \/ Restart(w)
      PROVE  Owing' \subseteq Owing /\ counter'["completed"] = counter["completed"]
  <2>1. \A v \in Workers \ {w} : at'[v] = at[v] /\ hand'[v] = hand[v]
    BY <1>2, OneWorker
  <2>2. at'[w] \in {"csrem", "cincr"} => at[w] \in {"csrem", "cincr"} /\ hand'[w] = hand[w]
    BY <1>2 DEF WorkerStep, DequeuePop, DequeueGet, DequeueSrem, DequeueSadd, DequeueSet, Execute,
         CompleteGet, CompleteSrem, Finish, FailGet, FailRetryKey,
         FailSchedule, FailSrem, FailIncr, Break, Drop, Stop, Restart, Goto, ReadAs,
         LetGo, Typing, WorkersTyped
  <2>3. counter'["completed"] = counter["completed"]
    BY <1>2 DEF WorkerStep, DequeuePop, DequeueGet, DequeueSrem, DequeueSadd, DequeueSet, Execute,
         CompleteGet, CompleteSrem, Finish, FailGet, FailRetryKey,
         FailSchedule, FailSrem, FailIncr, Break, Drop, Stop, Restart, redis, Typing, RedisTyped
  <2> QED
    BY <2>1, <2>2, <2>3 DEF Owing
<1>3. ASSUME \/ \E p \in Producers : ProducerStep(p) \/ EnqueueAborts(p)
             \/ \E t \in Tasks : RecordExpires(t) \/ CancelGet(t)
             \/ \E k \in {"retry", "scheduled"}, t \in Tasks : BackoffExpires(k, t)
             \/ ClearMembers \/ AdminStep \/ UNCHANGED vars
      PROVE  counter'["completed"] = counter["completed"]
  BY <1>3 DEF ProducerStep, EnqueueStore, EnqueuePush, EnqueueTrack, EnqueueCount, EnqueueAborts,
         RecordExpires, CancelGet, BackoffExpires, ClearMembers, AdminStep, CancelSet, CancelSrem,
         ClearRecords, ClearPending, ClearList, redis, vars, Typing, RedisTyped
<1> QED
  BY <1>1, <1>2, <1>3, NoWorker DEF Next

\* Until the first call the operator does nothing.
LEMMA IdleNext ==
  ASSUME Typing, calls = 0 => admin = NoCall, [Next]_vars, calls' = 0
  PROVE  calls = 0 /\ admin = NoCall /\ admin' = NoCall
<1>1. UNCHANGED <<calls, admin>> \/ AdminStep
  <2>1. ASSUME \E t \in Tasks : CancelGet(t) PROVE FALSE
    BY <2>1 DEF CancelGet, Typing, AdminTyped
  <2>2. ~ ClearMembers
    BY DEF ClearMembers, Typing, AdminTyped
  <2>3. ASSUME NEW p \in Producers, ProducerStep(p) \/ EnqueueAborts(p)
        PROVE  UNCHANGED <<calls, admin>>
    BY <2>3 DEF ProducerStep, EnqueueStore, EnqueuePush, EnqueueTrack, EnqueueCount, EnqueueAborts
  <2>4. ASSUME NEW w \in Workers, WorkerStep(w) \/ Break(w) \/ Drop(w) \/ Stop(w) \/ Restart(w)
        PROVE  UNCHANGED <<calls, admin>>
    BY <2>4 DEF WorkerStep, DequeuePop, DequeueGet, DequeueSrem, DequeueSadd, DequeueSet,
       Execute, CompleteGet, CompleteSet, CompleteSrem, CompleteIncr, Finish, FailGet,
       FailRetryKey, FailSchedule, FailSet, FailSrem, FailIncr, Break, Drop, Stop, Restart
  <2>5. ASSUME \/ \E t \in Tasks : RecordExpires(t)
               \/ \E k \in {"retry", "scheduled"}, t \in Tasks : BackoffExpires(k, t)
               \/ UNCHANGED vars
        PROVE  UNCHANGED <<calls, admin>>
    BY <2>5 DEF RecordExpires, BackoffExpires, vars
  <2> QED
    BY <2>1, <2>2, <2>3, <2>4, <2>5 DEF Next
<1>2. AdminStep => UNCHANGED calls /\ admin # NoCall
  BY DEF AdminStep, CancelSet, CancelSrem, ClearRecords, ClearPending, ClearList, NoCall, Call
<1> QED
  BY <1>1, <1>2

LEMMA BackedNext ==
  ASSUME Typing, Places, Written, DoneLate, Backed, [Next]_vars
  PROVE  Backed'
<1> DEFINE Enough == counter["completed"] <= Cardinality(Done \ Owing)
<1> SUFFICES ASSUME calls' = 0
             PROVE  admin' = NoCall /\ IsFiniteSet(Done') /\ Owing' \subseteq Done' /\ Enough'
  BY DEF Backed
<1>1. calls = 0 /\ admin = NoCall /\ admin' = NoCall
  BY IdleNext DEF Backed
<1>2. IsFiniteSet(Done) /\ Owing \subseteq Done /\ Enough
  BY <1>1 DEF Backed
<1>3. IsFiniteSet(Done \ Owing) /\ Cardinality(Done \ Owing) \in Nat /\ counter["completed"] \in Nat
  BY <1>2, FS_Difference, FS_CardinalityType DEF Typing, RedisTyped
<1>4. Done \subseteq Done'
  BY <1>1, DoneStays
<1>5. ASSUME NEW w \in Workers, CompleteSet(w) \/ FailSet(w)
      PROVE  /\ hand[w] \in Tasks /\ Done' = Done \cup {hand[w]}
             /\ counter' = counter
  <2>1. /\ hand[w] \in Tasks /\ copy[w].status \in {"success", "failed"}
        /\ record' = [record EXCEPT ![hand[w]] = copy[w]]
        /\ counter' = counter /\ UNCHANGED hand
    BY <1>5 DEF CompleteSet, FailSet, Goto, Typing, WorkersTyped, Written
  <2>2. \A t \in Tasks : record'[t] = IF t = hand[w] THEN copy[w] ELSE record[t]
    BY <2>1 DEF Typing, RedisTyped
  <2>3. Done' = Done \cup {hand[w]}
    BY <1>5, <2>1, <2>2 DEF Done, Stored, Finished, CompleteSet, FailSet
  <2> QED
    BY <2>1, <2>3
<1>6. ASSUME NEW w \in Workers, CompleteSet(w)
      PROVE  IsFiniteSet(Done') /\ Owing' \subseteq Done' /\ Enough'
  <2>1. hand[w] \notin Done
    BY <1>6 DEF CompleteSet, DoneLate, EarlySteps
  <2>0. Done' = Done \cup {hand[w]} /\ IsFiniteSet(Done \cup {hand[w]})
    BY <1>2, <1>5, <1>6, FS_AddElement
  <2>2. Owing' = Owing \cup {hand[w]}
    <3>1. at' = [at EXCEPT ![w] = "csrem"] /\ at[w] = "cset" /\ UNCHANGED hand
      BY <1>6 DEF CompleteSet, Goto
    <3> QED
      BY <3>1 DEF Owing, Typing, WorkersTyped
  <2>3. Done' \ Owing' = Done \ Owing
    BY <1>5, <1>6, <2>1, <2>2
  <2>4. counter' = counter
    BY <1>5, <1>6
  <2> QED
    BY <1>2, <2>0, <2>2, <2>3, <2>4
<1>7. ASSUME NEW w \in Workers, FailSet(w), ~ CompleteSet(w)
      PROVE  IsFiniteSet(Done') /\ Owing' \subseteq Done' /\ Enough'
  <2>1. Owing' = Owing
    <3>1. at' = [at EXCEPT ![w] = "fsrem"] /\ at[w] = "fset" /\ UNCHANGED hand
      BY <1>7 DEF FailSet, Goto
    <3> QED
      BY <3>1 DEF Owing, Typing, WorkersTyped
  <2>2. Done \ Owing \subseteq Done' \ Owing'
    BY <1>4, <2>1
  <2>3. IsFiniteSet(Done')
    BY <1>2, <1>5, <1>7, FS_AddElement
  <2>4. /\ IsFiniteSet(Done' \ Owing') /\ Cardinality(Done' \ Owing') \in Nat
        /\ Cardinality(Done \ Owing) <= Cardinality(Done' \ Owing')
    BY <2>2, <2>3, FS_Difference, FS_Subset, FS_CardinalityType
  <2> QED
    BY <1>2, <1>3, <1>4, <1>5, <1>7, <2>1, <2>3, <2>4
<1>8. ASSUME NEW w \in Workers, CompleteIncr(w)
      PROVE  IsFiniteSet(Done') /\ Owing' \subseteq Done' /\ Enough'
  <2>1. /\ at[w] = "cincr" /\ at' = [at EXCEPT ![w] = "ack"] /\ UNCHANGED <<record, hand>>
        /\ counter'["completed"] = counter["completed"] + 1
    BY <1>8 DEF CompleteIncr, Goto, Typing, RedisTyped
  <2>2. Done' = Done
    BY <1>8, <2>1 DEF CompleteIncr, Done, Stored
  <2>3. hand[w] \in Owing /\ hand[w] \in Tasks
    BY <2>1 DEF Owing, Typing, WorkersTyped
  <2>4. \A v \in Workers : v # w => hand[v] # hand[w]
    BY <2>3, Shape DEF Places, NoDoubleExecution
  <2>5. Owing' = Owing \ {hand[w]}
    BY <2>1, <2>4 DEF Owing, Typing, WorkersTyped
  <2>6. Done' \ Owing' = (Done \ Owing) \cup {hand[w]} /\ hand[w] \notin Done \ Owing
    BY <1>2, <2>2, <2>3, <2>5
  <2>7. Cardinality(Done' \ Owing') = Cardinality(Done \ Owing) + 1
    BY <1>3, <2>6, FS_AddElement
  <2> QED
    BY <1>2, <1>3, <2>1, <2>2, <2>5, <2>7
<1>9. ASSUME \A w \in Workers : ~ CompleteSet(w) /\ ~ FailSet(w) /\ ~ CompleteIncr(w)
      PROVE  IsFiniteSet(Done') /\ Owing' \subseteq Done' /\ Enough'
  <2>1. Done' = Done
    BY <1>4, <1>9, DoneGrows
  <2>2. Owing' \subseteq Owing /\ counter'["completed"] = counter["completed"]
    BY <1>1, <1>9, OwingShrinks
  <2>3. Done \ Owing \subseteq Done' \ Owing'
    BY <2>1, <2>2
  <2>4. /\ IsFiniteSet(Done' \ Owing') /\ Cardinality(Done' \ Owing') \in Nat
        /\ Cardinality(Done \ Owing) <= Cardinality(Done' \ Owing')
    BY <1>2, <2>1, <2>3, FS_Difference, FS_Subset, FS_CardinalityType
  <2> QED
    BY <1>2, <1>3, <2>1, <2>2, <2>4
<1> QED
  BY <1>1, <1>6, <1>7, <1>8, <1>9

(* The completed counter never runs ahead of the records (queue.py:192):   *)
(* until the operator cancels or clears, each INCR is backed by a SUCCESS  *)
(* or FAILED that was stored, for every number of tasks and workers.       *)
THEOREM CompletedIsBackedHolds == Spec => []CompletedIsBacked
<1> DEFINE IInv == Typing /\ Places /\ Written /\ DoneLate /\ Backed
<1>1. Init => IInv
  <2> SUFFICES ASSUME Init PROVE IInv
    OBVIOUS
  <2>1. Done = {} /\ Owing = {} /\ calls = 0 /\ admin = NoCall /\ counter["completed"] = 0
    BY DEF Init, Done, Stored, Finished, Owing, Absent
  <2>2. Cardinality(Done \ Owing) = 0 /\ IsFiniteSet(Done)
    BY <2>1, FS_EmptySet
  <2>3. Written
    BY DEF Init, Written
  <2> QED
    BY <2>1, <2>2, <2>3, TypingInit, PlacesInit DEF DoneLate, Backed
<1>2. IInv /\ [Next]_vars => IInv'
  BY TypingNext, PlacesNext, WrittenNext, DoneLateNext, BackedNext
<1>3. IInv => CompletedIsBacked
  <2> SUFFICES ASSUME IInv, calls = 0 PROVE counter["completed"] <= Cardinality(Done)
    BY DEF CompletedIsBacked, Done, Stored
  <2>1. /\ IsFiniteSet(Done) /\ Cardinality(Done) \in Nat
        /\ Cardinality(Done \ Owing) \in Nat /\ Cardinality(Done \ Owing) <= Cardinality(Done)
    BY FS_Subset, FS_CardinalityType, FS_Difference DEF Backed
  <2> QED
    BY <2>1 DEF Backed, Typing, RedisTyped
<1> QED
  BY <1>1, <1>2, <1>3, PTL DEF Spec

-----------------------------------------------------------------------------
(***************************************************************************)
(* A quiet queue: nobody calls the operator's methods or stops a worker,   *)
(* and no command raises but in complete; timeouts, retries and the        *)
(* calendar go on.  A task in execution has a record (Recorded), is stored *)
(* as finished from the SET on and in the running set or finished while it *)
(* is being failed (Traced); one that waits or is being taken is in the    *)
(* pending set, or its producer is about to put it there (Tracked).  So    *)
(* whoever lets a task go leaves a trace, and the poll sees what remains.  *)
(***************************************************************************)
Quiet == calls = 0 /\ stops = 0

Recorded ==
  \A w \in Workers : at[w] \in ProcessSteps \cup FailSteps => record[hand[w]] # Absent

Traced ==
  \A w \in Workers :
    /\ at[w] \in {"csrem", "cincr", "ack", "fsrem", "fincr"} => hand[w] \in Stored
    /\ at[w] \in {"fget", "fretry", "fsched", "fset"} => hand[w] \in running \cup Stored

Announced == pending \cup {item[p] : p \in {q \in Producers : step[q] = "track"}}

Tracked ==
  /\ Queued \subseteq Announced
  /\ \A w \in Workers : at[w] \in {"get", "srem"} => hand[w] \in Announced

QuietInv == Recorded /\ Traced /\ Tracked /\ NothingVanishes

\* Only producers, workers, their timeout, their restart and the calendar move then.
LEMMA QuietNext ==
  ASSUME Typing, calls = 0 => admin = NoCall, [Next]_vars, Quiet'
  PROVE  /\ Quiet /\ admin = NoCall /\ admin' = NoCall
         /\ \/ \E p \in Producers : ProducerStep(p)
            \/ \E w \in Workers : WorkerStep(w) \/ Break(w) \/ Restart(w)
            \/ \E t \in Tasks : RecordExpires(t)
            \/ UNCHANGED <<record, list, pending, running, todo, prod, worker>>
<1>1. calls = 0 /\ admin = NoCall /\ admin' = NoCall
  BY IdleNext DEF Quiet
<1>2. ASSUME \E w \in Workers : Drop(w) \/ Stop(w) PROVE FALSE
  BY <1>2 DEF Drop, Stop, Quiet, Typing, AdminTyped
<1>3. ASSUME \E p \in Producers : EnqueueAborts(p) PROVE FALSE
  BY <1>3 DEF EnqueueAborts, Quiet, Typing, AdminTyped
<1>4. ~ AdminStep
  BY <1>1 DEF AdminStep, CancelSet, CancelSrem, ClearRecords, ClearPending, ClearList, NoCall, Call
<1>5. ASSUME ClearMembers \/ \E t \in Tasks : CancelGet(t) PROVE FALSE
  BY <1>5 DEF ClearMembers, CancelGet, Quiet, Typing, AdminTyped
<1>6. CASE \E p \in Producers : ProducerStep(p)
  <2>1. stops' = stops
    BY <1>6 DEF ProducerStep, EnqueueStore, EnqueuePush, EnqueueTrack, EnqueueCount
  <2> QED
    BY <1>1, <1>6, <2>1 DEF Quiet
<1>7. CASE \E w \in Workers : WorkerStep(w) \/ Break(w) \/ Restart(w)
  <2>1. stops' = stops
    BY <1>7 DEF WorkerStep, DequeuePop, DequeueGet, DequeueSrem, DequeueSadd, DequeueSet,
         Execute, CompleteGet, CompleteSet, CompleteSrem, CompleteIncr, Finish, FailGet,
         FailRetryKey, FailSchedule, FailSet, FailSrem, FailIncr, Break, Restart
  <2> QED
    BY <1>1, <1>7, <2>1 DEF Quiet
<1>8. CASE \/ \E t \in Tasks : RecordExpires(t)
           \/ \E k \in {"retry", "scheduled"}, t \in Tasks : BackoffExpires(k, t)
           \/ UNCHANGED vars
  BY <1>1, <1>8 DEF RecordExpires, BackoffExpires, vars, redis, Quiet
<1> QED
  BY <1>2, <1>3, <1>4, <1>5, <1>6, <1>7, <1>8 DEF Next

\* What a worker's step writes is a result or the copy it read, never nothing.
LEMMA WorkerWrites ==
  ASSUME Typing, Written, NEW w \in Workers, WorkerStep(w) \/ Break(w) \/ Restart(w)
  PROVE  \A t \in Tasks : /\ record[t] # Absent => record'[t] # Absent
                          /\ t # hand[w] => record'[t] = record[t]
<1>1. CASE DequeueSet(w) \/ CompleteSet(w) \/ FailSet(w)
  <2>1. copy[w] # Absent /\ record' = [record EXCEPT ![hand[w]] = copy[w]]
    BY <1>1 DEF DequeueSet, CompleteSet, FailSet, Written, Absent
  <2> QED
    BY <2>1 DEF Typing, RedisTyped
<1>2. CASE ~ (DequeueSet(w) \/ CompleteSet(w) \/ FailSet(w))
  <2>1. UNCHANGED record
    BY <1>2 DEF WorkerStep, DequeuePop, DequeueGet, DequeueSrem, DequeueSadd, Execute,
         CompleteGet, CompleteSrem, CompleteIncr, Finish, FailGet, FailRetryKey, FailSchedule,
         FailSrem, FailIncr, Break, Restart, redis
  <2> QED
    BY <2>1
<1> QED
  BY <1>1, <1>2

\* A producer writes the record of a task that is not out yet.
LEMMA ProducerWrites ==
  ASSUME Typing, NEW p \in Producers, ProducerStep(p), NEW t \in Tasks
  PROVE  /\ record[t] # Absent => record'[t] # Absent
         /\ t \notin todo => record'[t] = record[t]
<1>1. CASE EnqueueStore(p)
  BY <1>1 DEF EnqueueStore, Absent, Typing, RedisTyped, ProducersTyped
<1>2. CASE ~ EnqueueStore(p)
  <2>1. UNCHANGED record
    BY <1>2 DEF ProducerStep, EnqueuePush, EnqueueTrack, EnqueueCount
  <2> QED
    BY <2>1
<1> QED
  BY <1>1, <1>2

LEMMA RecordedNext ==
  ASSUME Typing, Places, Written, Recorded, calls = 0 => admin = NoCall, [Next]_vars, Quiet'
  PROVE  Recorded'
<1> DEFINE Late == ProcessSteps \cup FailSteps
<1>0. \A v \in Workers : at[v] \in Late => hand[v] \in Tasks /\ at[v] \in Busy /\ at[v] \notin DequeueSteps
  BY DEF Typing, WorkersTyped, Busy, WorkerSteps, DequeueSteps, ProcessSteps, FailSteps
<1>1. CASE \E p \in Producers : ProducerStep(p)
  <2>1. PICK p \in Producers : ProducerStep(p)
    BY <1>1
  <2>2. UNCHANGED <<at, hand>>
    BY <2>1, NoWorker
  <2> QED
    BY <1>0, <2>1, <2>2, ProducerWrites DEF Recorded
<1>2. CASE \E w \in Workers : WorkerStep(w) \/ Break(w) \/ Restart(w)
  <2>1. PICK w \in Workers : WorkerStep(w) \/ Break(w) \/ Restart(w)
    BY <1>2
  <2>2. \A v \in Workers \ {w} : at'[v] = at[v] /\ hand'[v] = hand[v]
    BY <2>1, OneWorker
  <2>3. ASSUME at'[w] \in Late PROVE record'[hand'[w]] # Absent
    <3>1. CASE DequeueSet(w)
      <4>1. hand[w] \in Tasks /\ hand' = hand /\ record'[hand[w]] = copy[w] /\ copy[w].status = "running"
        BY <3>1 DEF DequeueSet, Goto, Written, Typing, WorkersTyped, RedisTyped
      <4> QED
        BY <4>1 DEF Absent
    <3>2. CASE ~ DequeueSet(w)
      <4>1. at[w] \in Late /\ hand'[w] = hand[w]
        BY <2>1, <2>3, <3>2 DEF WorkerStep, DequeuePop, DequeueGet, DequeueSrem, DequeueSadd,
         Execute, CompleteGet, CompleteSet, CompleteSrem, CompleteIncr, Finish, FailGet,
         FailRetryKey, FailSchedule, FailSet, FailSrem, FailIncr, Break, Restart, Goto, ReadAs,
         LetGo, Typing, WorkersTyped, ProcessSteps, FailSteps
      <4> QED
        BY <1>0, <2>1, <4>1, WorkerWrites DEF Recorded
    <3> QED
      BY <3>1, <3>2
  <2>4. ASSUME NEW v \in Workers \ {w}, at[v] \in Late PROVE record'[hand[v]] # Absent
    BY <1>0, <2>1, <2>4, WorkerWrites DEF Recorded
  <2> QED
    BY <2>2, <2>3, <2>4 DEF Recorded
<1>3. CASE \E t \in Tasks : RecordExpires(t)
  <2>1. PICK t \in Tasks : RecordExpires(t)
    BY <1>3
  <2>2. /\ \A v \in Workers : hand[v] = t => at[v] \in DequeueSteps
        /\ record' = [record EXCEPT ![t] = Absent] /\ UNCHANGED <<at, hand>>
    BY <2>1 DEF RecordExpires, worker
  <2>3. ASSUME NEW v \in Workers, at[v] \in Late PROVE record'[hand[v]] # Absent
    <3>1. hand[v] # t /\ hand[v] \in Tasks /\ record[hand[v]] # Absent
      BY <1>0, <2>2, <2>3 DEF Recorded
    <3> QED
      BY <2>2, <3>1 DEF Typing, RedisTyped
  <2> QED
    BY <2>2, <2>3 DEF Recorded
<1>4. CASE UNCHANGED <<record, list, pending, running, todo, prod, worker>>
  BY <1>4 DEF Recorded, worker
<1> QED
  BY <1>1, <1>2, <1>3, <1>4, QuietNext

\* A worker takes nothing out of the running set but its own task.
LEMMA RunningKept ==
  ASSUME Typing, Places, NEW w \in Workers, WorkerStep(w) \/ Break(w) \/ Restart(w)
  PROVE  /\ running \ {hand[w]} \subseteq running'
         /\ ~ CompleteSrem(w) /\ ~ FailSrem(w) => running \subseteq running'
  BY DEF WorkerStep, DequeuePop, DequeueGet, DequeueSrem, DequeueSadd, DequeueSet,
         Execute, CompleteGet, CompleteSet, CompleteSrem, CompleteIncr, Finish, FailGet,
         FailRetryKey, FailSchedule, FailSet, FailSrem, FailIncr, Break, Restart, redis

\* No worker's step is the calendar's, so a stored result stays.
LEMMA WorkerKeeps ==
  ASSUME Typing, Written, DoneLate, [Next]_vars, admin = NoCall,
         NEW w \in Workers, WorkerStep(w) \/ Break(w) \/ Restart(w)
  PROVE  Stored \subseteq Stored'
<1> SUFFICES ASSUME NEW t \in Stored, RecordExpires(t) PROVE FALSE
  BY StoredStays
<1>1. t \in Tasks /\ record[t] # Absent /\ record'[t] = Absent
  BY DEF RecordExpires, Stored, Typing, RedisTyped
<1> QED
  BY <1>1, WorkerWrites

LEMMA TracedNext ==
  ASSUME Typing, Places, ExecutingIsCounted, Written, DoneLate, Recorded, Traced,
         calls = 0 => admin = NoCall, [Next]_vars, Quiet'
  PROVE  Traced'
<1> DEFINE Over == {"csrem", "cincr", "ack", "fsrem", "fincr"}
           Failing == {"fget", "fretry", "fsched", "fset"}
<1>1. admin = NoCall
  BY QuietNext
<1>2. CASE \E w \in Workers : WorkerStep(w) \/ Break(w) \/ Restart(w)
  <2>1. PICK w \in Workers : WorkerStep(w) \/ Break(w) \/ Restart(w)
    BY <1>2
  <2>0. Stored \subseteq Stored'
    BY <1>1, <2>1, WorkerKeeps
  <2>2. \A v \in Workers \ {w} : at'[v] = at[v] /\ hand'[v] = hand[v]
    BY <2>1, OneWorker
  <2>3. ASSUME NEW v \in Workers \ {w}, at[v] \in Failing PROVE hand[v] \in running' \cup Stored'
    <3>1. hand[v] # hand[w]
      BY <2>3 DEF Typing, WorkersTyped, Places, NoDoubleExecution
    <3> QED
      BY <2>0, <2>1, <2>3, <3>1, RunningKept DEF Traced
  <2>4. at'[w] \in Over => hand'[w] \in Stored'
    <3>1. CASE CompleteSet(w) \/ FailSet(w)
      <4>1. hand'[w] = hand[w] /\ hand[w] \in Tasks /\ record'[hand[w]] = copy[w]
            /\ copy[w].status \in {"success", "failed"}
        BY <3>1 DEF CompleteSet, FailSet, Goto, Typing, WorkersTyped, RedisTyped, Written
      <4> QED
        BY <4>1 DEF Stored, Finished
    <3>2. CASE CompleteGet(w)
      <4>1. record[hand[w]] # Absent
        BY <3>2 DEF CompleteGet, Recorded, ProcessSteps
      <4> QED
        BY <3>2, <4>1 DEF CompleteGet, ReadAs, Typing, WorkersTyped
    <3>3. CASE ~ (CompleteSet(w) \/ FailSet(w) \/ CompleteGet(w))
      <4>1. at'[w] \in Over => at[w] \in Over /\ hand'[w] = hand[w]
        BY <2>1, <3>3 DEF WorkerStep, DequeuePop, DequeueGet, DequeueSrem, DequeueSadd, DequeueSet,
         Execute, CompleteSrem, CompleteIncr, Finish, FailGet, FailRetryKey, FailSchedule,
         FailSrem, FailIncr, Break, Restart, Goto, ReadAs, LetGo, Typing, WorkersTyped
      <4> QED
        BY <2>0, <4>1 DEF Traced
    <3> QED
      BY <3>1, <3>2, <3>3
  <2>5. at'[w] \in Failing => hand'[w] \in running' \cup Stored'
    <3>1. CASE Break(w)
      <4>1. /\ UNCHANGED <<hand, running>>
            /\ at[w] \in {"exec", "cget", "cset", "csrem", "cincr", "ack"}
        BY <3>1 DEF Break, Goto, ProcessSteps, redis
      <4> QED
        BY <2>0, <4>1 DEF ExecutingIsCounted, Traced
    <3>2. CASE ~ Break(w)
      <4>1. at'[w] \in Failing => at[w] \in Failing /\ hand'[w] = hand[w] /\ UNCHANGED running
        BY <2>1, <3>2 DEF WorkerStep, DequeuePop, DequeueGet, DequeueSrem, DequeueSadd, DequeueSet,
         Execute, CompleteGet, CompleteSet, CompleteSrem, CompleteIncr, Finish, FailGet,
         FailRetryKey, FailSchedule, FailSet, FailSrem, FailIncr, Restart, Goto, ReadAs, LetGo,
         Typing, WorkersTyped, redis
      <4> QED
        BY <2>0, <4>1 DEF Traced
    <3> QED
      BY <3>1, <3>2
  <2>6. \A v \in Workers : /\ at'[v] \in Over => hand'[v] \in Stored'
                           /\ at'[v] \in Failing => hand'[v] \in running' \cup Stored'
    BY <2>0, <2>2, <2>3, <2>4, <2>5 DEF Traced
  <2> QED
    BY <2>6 DEF Traced
<1>3. CASE ~ \E w \in Workers : WorkerStep(w) \/ Break(w) \/ Restart(w)
  <2>1. UNCHANGED <<at, hand, running>>
    BY <1>3, QuietNext DEF worker, ProducerStep, EnqueueStore, EnqueuePush, EnqueueTrack,
                           EnqueueCount, RecordExpires
  <2>2. ASSUME NEW v \in Workers, at[v] \in Over \cup Failing, hand[v] \in Stored
        PROVE  hand[v] \in Stored'
    <3>1. at[v] \notin DequeueSteps
      BY <2>2 DEF DequeueSteps
    <3>2. ~ RecordExpires(hand[v])
      BY <3>1 DEF RecordExpires
    <3> QED
      BY <1>1, <2>2, <3>2, StoredStays
  <2>3. \A v \in Workers : /\ at[v] \in Over => hand[v] \in Stored'
                           /\ at[v] \in Failing => hand[v] \in running \cup Stored'
    BY <2>2 DEF Traced
  <2> QED
    BY <2>1, <2>3 DEF Traced
<1> QED
  BY <1>2, <1>3

\* What waits or is being taken stays announced: a worker takes out its own task only.
LEMMA TrackedNext ==
  ASSUME Typing, Typing', Places, Tracked, calls = 0 => admin = NoCall, [Next]_vars, Quiet'
  PROVE  Tracked'
<1>0. ASSUME UNCHANGED list PROVE Queued' = Queued
  BY <1>0 DEF Queued
<1>1. CASE \E p \in Producers : ProducerStep(p)
  <2>1. PICK p \in Producers : ProducerStep(p)
    BY <1>1
  <2>2. UNCHANGED <<at, hand>>
    BY <2>1, NoWorker
  <2>3. Announced \subseteq Announced'
    <3>1. CASE EnqueueTrack(p)
      <4>1. pending' = pending \cup {item[p]} /\ UNCHANGED item
            /\ \A q \in Producers \ {p} : step'[q] = step[q]
        BY <3>1 DEF EnqueueTrack, Proceed, Typing, ProducersTyped
      <4> QED
        BY <4>1 DEF Announced
    <3>2. CASE ~ EnqueueTrack(p)
      <4>1. UNCHANGED pending /\ step[p] # "track"
            /\ \A q \in Producers \ {p} : step'[q] = step[q] /\ item'[q] = item[q]
        BY <2>1, <3>2 DEF ProducerStep, EnqueueStore, EnqueuePush, EnqueueCount, Proceed, EndEnqueue,
                          Typing, ProducersTyped
      <4> QED
        BY <4>1 DEF Announced
    <3> QED
      BY <3>1, <3>2
  <2>4. CASE EnqueuePush(p)
    <3>1. Queued' = Queued \cup {item[p]}
      BY <2>4, PushQueues
    <3>2. step'[p] = "track" /\ item' = item
      BY <2>4 DEF EnqueuePush, Proceed, Typing, ProducersTyped
    <3>3. item[p] \in Announced'
      BY <3>2 DEF Announced
    <3> QED
      BY <2>2, <2>3, <3>1, <3>3 DEF Tracked
  <2>5. CASE ~ EnqueuePush(p)
    <3>1. UNCHANGED list
      BY <2>1, <2>5 DEF ProducerStep, EnqueueStore, EnqueueTrack, EnqueueCount
    <3> QED
      BY <1>0, <2>2, <2>3, <3>1 DEF Tracked
  <2> QED
    BY <2>4, <2>5
<1>2. CASE \E w \in Workers : WorkerStep(w) \/ Break(w) \/ Restart(w)
  <2>1. PICK w \in Workers : WorkerStep(w) \/ Break(w) \/ Restart(w)
    BY <1>2
  <2>2. UNCHANGED <<step, item>> /\ \A v \in Workers \ {w} : at'[v] = at[v] /\ hand'[v] = hand[v]
    BY <2>1, OneWorker
  <2>3. Announced \ {hand[w]} \subseteq Announced' /\ (~ DequeueSrem(w) => Announced \subseteq Announced')
    <3>1. pending \ {hand[w]} \subseteq pending' /\ (~ DequeueSrem(w) => pending \subseteq pending')
      BY <2>1 DEF WorkerStep, DequeuePop, DequeueGet, DequeueSrem, DequeueSadd, DequeueSet, Execute,
         CompleteGet, CompleteSet, CompleteSrem, CompleteIncr, Finish, FailGet, FailRetryKey,
         FailSchedule, FailSet, FailSrem, FailIncr, Break, Restart, redis
    <3> QED
      BY <2>2, <3>1 DEF Announced
  <2>4. CASE DequeuePop(w)
    <3>1. PICK u \in Queued : hand' = [hand EXCEPT ![w] = u] /\ Queued' = Queued \ {u}
      BY <2>4, PopQueues
    <3>2. hand'[w] = u /\ u \in Announced /\ ~ DequeueSrem(w)
      BY <2>4, <3>1 DEF DequeuePop, DequeueSrem, Tracked, Typing, WorkersTyped
    <3> QED
      BY <2>2, <2>3, <3>1, <3>2 DEF Tracked
  <2>5. CASE ~ DequeuePop(w)
    <3>1. Queued' = Queued
      BY <1>0, <2>1, <2>5 DEF WorkerStep, DequeueGet, DequeueSrem, DequeueSadd, DequeueSet, Execute,
         CompleteGet, CompleteSet, CompleteSrem, CompleteIncr, Finish, FailGet, FailRetryKey,
         FailSchedule, FailSet, FailSrem, FailIncr, Break, Restart, redis
    <3>2. at'[w] \in {"get", "srem"} => at[w] = "get" /\ hand'[w] = hand[w]
      BY <2>1, <2>5 DEF WorkerStep, DequeueGet, DequeueSrem, DequeueSadd, DequeueSet, Execute,
         CompleteGet, CompleteSet, CompleteSrem, CompleteIncr, Finish, FailGet, FailRetryKey,
         FailSchedule, FailSet, FailSrem, FailIncr, Break, Restart, Goto, ReadAs, LetGo,
         Typing, WorkersTyped
    <3>3. at[w] = "get" => ~ DequeueSrem(w)
      BY DEF DequeueSrem
    <3>4. CASE DequeueSrem(w)
      <4>1. hand[w] # NoTask
        BY <3>4 DEF DequeueSrem, Typing, WorkersTyped
      <4>2. hand[w] \notin Queued /\ \A v \in Workers \ {w} : hand[v] # hand[w]
        BY <4>1 DEF Places, AfterList, NoDoubleExecution, Queued, Positions
      <4> QED
        BY <2>2, <2>3, <3>1, <3>2, <3>3, <3>4, <4>2 DEF Tracked
    <3>5. CASE ~ DequeueSrem(w)
      BY <2>2, <2>3, <3>1, <3>2, <3>5 DEF Tracked
    <3> QED
      BY <3>4, <3>5
  <2> QED
    BY <2>4, <2>5
<1>3. CASE \/ \E t \in Tasks : RecordExpires(t)
           \/ UNCHANGED <<record, list, pending, running, todo, prod, worker>>
  <2>1. UNCHANGED <<list, pending, step, item, at, hand>>
    BY <1>3 DEF RecordExpires, prod, worker
  <2> QED
    BY <1>0, <2>1 DEF Tracked, Announced
<1> QED
  BY <1>1, <1>2, <1>3, QuietNext

\* A worker lets go of its task only when that is finished, counted or without a record.
LEMMA LetGoTraced ==
  ASSUME Typing, Traced, NEW w \in Workers,
         WorkerStep(w) \/ Break(w) \/ Restart(w), ~ DequeuePop(w)
  PROVE  \/ hand' = hand
         \/ /\ hand' = [hand EXCEPT ![w] = NoTask] /\ UNCHANGED <<running, record>>
            /\ hand[w] = NoTask \/ hand[w] \in running \cup Stored \/ record[hand[w]] = Absent
<1>2. CASE Finish(w) \/ FailSchedule(w) \/ FailIncr(w)
  BY <1>2 DEF Finish, FailSchedule, FailIncr, LetGo, Traced, redis
<1>3. CASE Restart(w)
  BY <1>3 DEF Restart, LetGo, Typing, WorkersTyped, redis
<1>4. CASE ~ (Finish(w) \/ FailSchedule(w) \/ FailIncr(w) \/ Restart(w))
  BY <1>4 DEF WorkerStep, DequeueGet, DequeueSrem, DequeueSadd, DequeueSet, Execute,
         CompleteGet, CompleteSet, CompleteSrem, CompleteIncr, FailGet, FailRetryKey, FailSet,
         FailSrem, Break, Goto, ReadAs, LetGo, redis
<1> QED
  BY <1>2, <1>3, <1>4

LEMMA NothingVanishesNext ==
  ASSUME Typing, Typing', Places, Written, DoneLate, Traced, NothingVanishes,
         calls = 0 => admin = NoCall, [Next]_vars, Quiet'
  PROVE  NothingVanishes'
<1> DEFINE Seen == Queued \cup Held \cup running \cup Stored
<1> SUFFICES ASSUME NEW t \in Pushed' PROVE t \in Seen' \/ record'[t] = Absent
  BY DEF NothingVanishes, Stored, Pushed
<1>0. t \in Tasks /\ t # NoTask /\ Quiet /\ admin = NoCall
  BY Shape, QuietNext DEF Pushed
<1>2. t \in Pushed => t \in Seen \/ record[t] = Absent
  BY <1>0 DEF NothingVanishes, Stored, Pushed, Quiet
<1>3. ASSUME UNCHANGED list PROVE Queued' = Queued
  BY <1>3 DEF Queued
<1>4. CASE \E p \in Producers : ProducerStep(p)
  <2>1. PICK p \in Producers : ProducerStep(p)
    BY <1>4
  <2>2. UNCHANGED <<hand, running>> /\ Held' = Held
    BY <2>1 DEF ProducerStep, EnqueueStore, EnqueuePush, EnqueueTrack, EnqueueCount, worker, Held
  <2>3. CASE EnqueuePush(p)
    <3>1. Queued' = Queued \cup {item[p]} /\ UNCHANGED record
      BY <2>3, PushQueues DEF EnqueuePush
    <3>2. t \in Pushed \/ t = item[p]
      BY <2>3 DEF EnqueuePush, Proceed, Pushed, Typing, ProducersTyped
    <3> QED
      BY <1>2, <2>2, <3>1, <3>2 DEF Stored
  <2>4. CASE ~ EnqueuePush(p)
    <3>1. t \in Pushed /\ t \notin todo
      BY <2>1, <2>4 DEF ProducerStep, EnqueueStore, EnqueueTrack, EnqueueCount, Proceed, EndEnqueue,
                        Pushed, Typing, ProducersTyped
    <3>2. UNCHANGED list
      BY <2>1, <2>4 DEF ProducerStep, EnqueueStore, EnqueueTrack, EnqueueCount
    <3>3. record'[t] = record[t]
      BY <1>0, <2>1, <3>1, ProducerWrites
    <3> QED
      BY <1>2, <1>3, <2>2, <3>1, <3>2, <3>3 DEF Stored
  <2> QED
    BY <2>3, <2>4
<1>5. CASE \E w \in Workers : WorkerStep(w) \/ Break(w) \/ Restart(w)
  <2>1. PICK w \in Workers : WorkerStep(w) \/ Break(w) \/ Restart(w)
    BY <1>5
  <2>2. t \in Pushed /\ Stored \subseteq Stored'
    BY <1>0, <2>1, OneWorker, WorkerKeeps DEF Pushed
  <2>3. CASE DequeuePop(w)
    <3>1. PICK u \in Queued : hand' = [hand EXCEPT ![w] = u] /\ Queued' = Queued \ {u}
      BY <2>3, PopQueues
    <3>2. u # NoTask /\ hand[w] = NoTask /\ UNCHANGED <<running, record>>
      BY <2>3, <3>1, Shape DEF Queued, DequeuePop, Typing, WorkersTyped
    <3>3. Held \cup {u} \subseteq Held'
      BY <3>1, <3>2 DEF Held, Typing, WorkersTyped
    <3> QED
      BY <1>2, <2>2, <3>1, <3>2, <3>3
  <2>4. CASE ~ DequeuePop(w)
    <3>1. Queued' = Queued
      BY <1>3, <2>1, <2>4 DEF WorkerStep, DequeueGet, DequeueSrem, DequeueSadd, DequeueSet, Execute,
         CompleteGet, CompleteSet, CompleteSrem, CompleteIncr, Finish, FailGet, FailRetryKey,
         FailSchedule, FailSet, FailSrem, FailIncr, Break, Restart, redis
    <3>2. CASE hand' = hand
      <4>1. Held' = Held
        BY <3>2 DEF Held
      <4>2. running \subseteq running' \cup Held'
        <5>1. hand[w] \in running => hand[w] \in Held
          BY Shape DEF Held, Typing, RedisTyped
        <5> QED
          BY <2>1, <4>1, <5>1, RunningKept
      <4>3. t = hand[w] \/ record'[t] = record[t]
        BY <1>0, <2>1, WorkerWrites
      <4>4. t = hand[w] => t \in Held'
        BY <1>0, <4>1 DEF Held
      <4> QED
        BY <1>2, <2>2, <3>1, <4>1, <4>2, <4>3, <4>4
    <3>3. CASE /\ hand' = [hand EXCEPT ![w] = NoTask] /\ UNCHANGED <<running, record>>
               /\ hand[w] = NoTask \/ hand[w] \in running \cup Stored \/ record[hand[w]] = Absent
      <4>1. Held \subseteq Held' \cup {hand[w]}
        BY <3>3 DEF Held, Typing, WorkersTyped
      <4> QED
        BY <1>0, <1>2, <2>2, <3>1, <3>3, <4>1
    <3> QED
      BY <2>1, <2>4, <3>2, <3>3, LetGoTraced
  <2> QED
    BY <2>3, <2>4
<1>6. CASE \E u \in Tasks : RecordExpires(u)
  <2>1. PICK u \in Tasks : RecordExpires(u)
    BY <1>6
  <2>2. /\ UNCHANGED <<list, running, todo, step, item, hand>>
        /\ record' = [record EXCEPT ![u] = Absent]
    BY <2>1 DEF RecordExpires, prod, worker
  <2>3. record'[t] = Absent \/ record'[t] = record[t]
    BY <1>0, <2>2 DEF Typing, RedisTyped
  <2>4. Held' = Held /\ t \in Pushed
    BY <2>2 DEF Held, Pushed
  <2> QED
    BY <1>0, <1>2, <1>3, <2>2, <2>3, <2>4 DEF Stored
<1>7. CASE UNCHANGED <<record, list, pending, running, todo, prod, worker>>
  BY <1>2, <1>3, <1>7 DEF Pushed, Held, Stored, prod, worker
<1> QED
  BY <1>4, <1>5, <1>6, <1>7, QuietNext

\* What holds of every queue, and of a quiet one: the inductive invariant.
QueueInv ==
  /\ Typing /\ Places /\ ExecutingIsCounted /\ Written /\ DoneLate
  /\ calls = 0 => admin = NoCall
  /\ Quiet => QuietInv

LEMMA QueueInvInit == Init => QueueInv
<1> SUFFICES ASSUME Init PROVE QueueInv
  OBVIOUS
<1>1. Done = {} /\ Pushed = {} /\ Queued = {}
  BY DEF Init, Done, Stored, Finished, Absent, Pushed, Queued
<1>2. Written /\ Traced /\ Recorded /\ ExecutingIsCounted /\ admin = NoCall
  BY DEF Init, Written, Traced, Recorded, ExecutingIsCounted, ProcessSteps, FailSteps
<1>3. Tracked
  BY <1>1 DEF Init, Tracked
<1> QED
  BY <1>1, <1>2, <1>3, TypingInit, PlacesInit DEF DoneLate, NothingVanishes, QueueInv, QuietInv

LEMMA QueueInvNext == QueueInv /\ [Next]_vars => QueueInv'
<1> SUFFICES ASSUME QueueInv, [Next]_vars PROVE QueueInv'
  OBVIOUS
<1>1. Typing' /\ Places' /\ ExecutingIsCounted' /\ Written' /\ DoneLate'
  BY TypingNext, PlacesNext, ExecutingIsCountedNext, WrittenNext, DoneLateNext DEF QueueInv
<1>2. calls' = 0 => admin' = NoCall
  BY IdleNext DEF QueueInv
<1>3. ASSUME Quiet' PROVE QuietInv'
  <2>1. Quiet /\ QuietInv
    BY <1>3, QuietNext DEF QueueInv
  <2> QED
    BY <1>1, <1>3, <2>1, RecordedNext, TracedNext, TrackedNext, NothingVanishesNext DEF QueueInv, QuietInv
<1> QED
  BY <1>1, <1>2, <1>3 DEF QueueInv

(* Whatever times out, while nobody cancels, clears or stops, a pushed     *)
(* task is waiting, in hand, counted as running, stored as finished, or    *)
(* its record has expired (queue.py:117-239, worker.py:95-140).            *)
THEOREM NothingVanishesHolds == Spec => []NothingVanishes
<1>1. QueueInv => NothingVanishes
  BY DEF QueueInv, QuietInv, Quiet, NothingVanishes
<1> QED
  BY <1>1, QueueInvInit, QueueInvNext, PTL DEF Spec

(* The poll of depth and running_count sees every task that waits or is    *)
(* worked on, but in the two gaps that WorkIsCounted names (queue.py:108,  *)
(* :144, :145, :190): no other order of commands leaves one uncounted.     *)
THEOREM WorkIsCountedHolds == Spec => []WorkIsCounted
<1>1. QueueInv => WorkIsCounted
  <2> SUFFICES ASSUME QueueInv, calls = 0, stops = 0, NEW t \in Queued \cup Held
               PROVE  \/ t \in pending \cup running
                      \/ \E p \in Producers : item[p] = t /\ step[p] = "track"
                      \/ \E w \in Workers :
                           /\ hand[w] = t
                           /\ \/ at[w] = "sadd"
                              \/ /\ record[t].status \in Finished
                                 /\ at[w] \in {"cincr", "ack"} \cup FailSteps
    BY DEF WorkIsCounted
  <2>1. QuietInv
    BY DEF QueueInv, Quiet
  <2>2. CASE t \in Announced
    BY <2>2 DEF Announced
  <2>3. CASE t \in Held
    <3>1. PICK w \in Workers : hand[w] = t /\ t # NoTask
      BY <2>3 DEF Held
    <3>2. at[w] \in WorkerSteps \ {"idle", "stopped"}
      BY <3>1 DEF QueueInv, Typing, WorkersTyped
    <3>3. CASE at[w] \in {"get", "srem"}
      BY <2>1, <2>2, <3>1, <3>3 DEF QuietInv, Tracked
    <3>4. CASE at[w] \in {"set", "exec", "cget", "cset", "csrem"}
      BY <3>1, <3>4 DEF QueueInv, ExecutingIsCounted
    <3>5. CASE at[w] \in {"cincr", "ack", "fsrem", "fincr", "fget", "fretry", "fsched", "fset"}
      <4>1. t \in running \cup Stored
        BY <2>1, <3>1, <3>5 DEF QuietInv, Traced
      <4> QED
        BY <3>1, <3>5, <4>1 DEF Stored, FailSteps
    <3> QED
      BY <3>1, <3>2, <3>3, <3>4, <3>5 DEF WorkerSteps, DequeueSteps, ProcessSteps, FailSteps
  <2>4. CASE t \in Queued
    BY <2>1, <2>2, <2>4 DEF QuietInv, Tracked
  <2> QED
    BY <2>3, <2>4
<1> QED
  BY <1>1, QueueInvInit, QueueInvNext, PTL DEF Spec
=============================================================================
