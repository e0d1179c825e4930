------------------------------ MODULE EventBus ------------------------------
(***************************************************************************)
(* The in-process event bus (InMemoryEventBus of app/events/bus.py) and    *)
(* its dead letter queue (app/events/dlq.py): callers that publish and     *)
(* wait, background workers that drain a priority queue, subscribers that  *)
(* come and go, handlers that fail and are retried, and an operator who    *)
(* replays or purges dead letters and closes the bus.                      *)
(*                                                                         *)
(* The coroutines interleave only where the code awaits: in a handler and  *)
(* in the backoff sleep.  "turn", the choice of the next handler, is a     *)
(* state of its own although no await precedes it; what another coroutine  *)
(* does there it could as well have done during the handler before.        *)
(***************************************************************************)
EXTENDS Naturals, FiniteSets, SequencesExt

CONSTANTS
  Events,     \* the events of this instance, each published once
  Handlers,   \* the HandlerEntry of each subscription
  Callers,    \* coroutines that call publish or replay_dead_letters
  Workers,    \* background workers
  NoEvent,    \* stands for "no event in hand"
  Types,      \* event types
  TypeOf,     \* Event.event_type
  Urgency,    \* Event.priority; lower is more urgent
  On,         \* the type a handler subscribes to
  Accepts,    \* HandlerEntry.priority_filter; None accepts every priority
  MaxRetries, \* HandlerEntry.max_retries
  Early,      \* handlers subscribed before anything is published
  Cap,        \* DeadLetterQueue._cap
  MaxReplays  \* BOUND: calls of replay_dead_letters and purge_dead_letters

Coroutines == Callers \cup Workers

ASSUME BusAssumption ==
  /\ NoEvent \notin Events
  /\ Callers \cap Workers = {}
  /\ TypeOf \in [Events -> Types]
  /\ Urgency \in [Events -> Nat]
  /\ On \in [Handlers -> Types]
  /\ Accepts \in [Handlers -> SUBSET Nat]
  /\ MaxRetries \in [Handlers -> Nat]
  /\ Early \in Seq(Handlers)
  /\ Cap \in Nat
  /\ MaxReplays \in Nat

VARIABLES
  subs,     \* _subscribers, in the order of subscription
  active,   \* handlers whose HandlerEntry.active is set
  todo,     \* events nobody has published yet
  queue,    \* _background_queue
  seq,      \* _next_seq
  started,  \* _background_queue is not None
  closed,   \* _closed
  count,    \* _publish_count
  at,       \* each coroutine: where it is
  event,    \* each coroutine: the event it dispatches
  rest,     \* each coroutine: the handlers it has not finished with
  tries,    \* each coroutine: attempts at Head(rest), the current one included
  batch,    \* each coroutine: letters whose events it publishes after this one
  dlq,      \* DeadLetterQueue._records: the deque is in the order of the letters' ids
  replays,  \* replays and purges made
  born,     \* history: dead letters ever put
  removed,  \* history: dead letters taken by a replay or a purge
  due,      \* history: deliveries a dispatch has set out to make
  settled   \* history: deliveries handled or dead-lettered

dispatch == <<at, event, rest, tries, batch>>
background == <<todo, queue, seq, started>>
letters == <<dlq, born, removed>>
history == <<due, settled>>
vars == <<subs, active, background, closed, count, dispatch, letters, replays, history>>

-----------------------------------------------------------------------------
Letter == [id : Nat, event : Events, handler : Handlers, tries : Nat]

Queued == [urgency : Nat, seq : Nat, event : Events]

TypeOK ==
  /\ subs \in Seq(Handlers)
  /\ active \in SUBSET Handlers
  /\ todo \in SUBSET Events
  /\ queue \in SUBSET Queued
  /\ seq \in Nat
  /\ started \in BOOLEAN
  /\ closed \in BOOLEAN
  /\ count \in Nat
  /\ at \in [Coroutines -> {"idle", "publish", "turn", "handler", "sleep", "stopped"}]
  /\ event \in [Coroutines -> Events \cup {NoEvent}]
  /\ rest \in [Coroutines -> Seq(Handlers)]
  /\ tries \in [Coroutines -> Nat]
  /\ batch \in [Coroutines -> SUBSET Letter]
  /\ dlq \in SUBSET Letter
  /\ replays \in 0 .. MaxReplays
  /\ born \in Nat
  /\ removed \in SUBSET (1 .. born)
  /\ due \in SUBSET (Events \X Handlers)
  /\ settled \in SUBSET (Events \X Handlers)

Init ==
  /\ subs = Early
  /\ active = ToSet(Early)
  /\ todo = Events
  /\ queue = {}
  /\ seq = 0
  /\ started = FALSE
  /\ closed = FALSE
  /\ count = 0
  /\ at = [c \in Coroutines |-> IF c \in Workers THEN "stopped" ELSE "idle"]
  /\ event = [c \in Coroutines |-> NoEvent]
  /\ rest = [c \in Coroutines |-> <<>>]
  /\ tries = [c \in Coroutines |-> 0]
  /\ batch = [c \in Coroutines |-> {}]
  /\ dlq = {}
  /\ replays = 0
  /\ born = 0
  /\ removed = {}
  /\ due = {}
  /\ settled = {}

-----------------------------------------------------------------------------
(* Subscriptions.                                                          *)

Subscribe(h) ==
  /\ ~closed
  /\ h \notin ToSet(subs)
  /\ subs' = Append(subs, h)
  /\ active' = active \cup {h}
  /\ UNCHANGED <<background, closed, count, dispatch, letters, replays, history>>

Unsubscribe(h) ==
  /\ h \in active
  /\ active' = active \ {h}
  /\ UNCHANGED <<subs, background, closed, count, dispatch, letters, replays, history>>

Wants(h, e) == h \in active /\ On[h] = TypeOf[e] /\ Urgency[e] \in Accepts[h]

-----------------------------------------------------------------------------
(* Publishing.                                                             *)

\* _dispatch_local begins: it walks a copy of the subscriber list.
Dispatch(c, e, later) ==
  /\ at' = [at EXCEPT ![c] = "turn"]
  /\ event' = [event EXCEPT ![c] = e]
  /\ rest' = [rest EXCEPT ![c] = subs]
  /\ tries' = [tries EXCEPT ![c] = 0]
  /\ batch' = [batch EXCEPT ![c] = later]
  /\ due' = due \cup {<<e, h>> : h \in {g \in ToSet(subs) : Wants(g, e)}}
  /\ settled' = settled

Leave(c, where) ==
  /\ at' = [at EXCEPT ![c] = where]
  /\ event' = [event EXCEPT ![c] = NoEvent]
  /\ rest' = [rest EXCEPT ![c] = <<>>]
  /\ tries' = [tries EXCEPT ![c] = 0]

Publish(c, e) ==
  /\ c \in Callers
  /\ at[c] = "idle"
  /\ ~closed
  /\ e \in todo
  /\ todo' = todo \ {e}
  /\ Dispatch(c, e, {})
  /\ UNCHANGED <<subs, active, queue, seq, started, closed, count, letters, replays>>

PublishAsync(e) ==
  /\ started
  /\ e \in todo
  /\ todo' = todo \ {e}
  /\ queue' = queue \cup {[urgency |-> Urgency[e], seq |-> seq, event |-> e]}
  /\ seq' = seq + 1
  /\ UNCHANGED <<subs, active, started, closed, count, dispatch, letters, replays, history>>

StartBackground ==
  /\ ~closed
  /\ ~started
  /\ started' = TRUE
  /\ at' = [c \in Coroutines |-> IF c \in Workers THEN "idle" ELSE at[c]]
  /\ UNCHANGED <<subs, active, todo, queue, seq, closed, count, event, rest, tries, batch,
                 letters, replays, history>>

Before(x, y) == x.urgency < y.urgency \/ (x.urgency = y.urgency /\ x.seq < y.seq)

WorkerGet(w) ==
  /\ w \in Workers
  /\ at[w] = "idle"
  /\ \E x \in queue :
       /\ \A y \in queue \ {x} : Before(x, y)
       /\ queue' = queue \ {x}
       /\ Dispatch(w, x.event, {})
  /\ UNCHANGED <<subs, active, todo, seq, started, closed, count, letters, replays>>

-----------------------------------------------------------------------------
(* Delivery: one handler after the other, each with its own retries.       *)

TurnTo(c, hs) ==
  /\ at' = [at EXCEPT ![c] = "turn"]
  /\ rest' = [rest EXCEPT ![c] = hs]
  /\ tries' = [tries EXCEPT ![c] = 0]
  /\ UNCHANGED <<event, batch>>

\* The first handler left that still wants the event is called.
Call(c) ==
  /\ at[c] = "turn"
  /\ \E i \in 1 .. Len(rest[c]) :
       /\ Wants(rest[c][i], event[c])
       /\ \A j \in 1 .. i - 1 : ~Wants(rest[c][j], event[c])
       /\ rest' = [rest EXCEPT ![c] = SubSeq(@, i, Len(@))]
  /\ at' = [at EXCEPT ![c] = "handler"]
  /\ tries' = [tries EXCEPT ![c] = 1]
  /\ UNCHANGED <<subs, active, background, closed, count, event, batch, letters, replays, history>>

\* Mutant of Return: the worker's loop is left after one event.
ReturnLeavesLoop(c) ==
  /\ at[c] = "turn"
  /\ \A i \in 1 .. Len(rest[c]) : ~Wants(rest[c][i], event[c])
  /\ Leave(c, IF c \in Workers THEN "stopped" ELSE IF batch[c] = {} THEN "idle" ELSE "publish")
  /\ count' = count + 1
  /\ UNCHANGED <<subs, active, background, closed, batch, letters, replays, history>>

\* No handler is left: the dispatch returns, a replay goes on with its next event.
Return(c) ==
  /\ at[c] = "turn"
  /\ \A i \in 1 .. Len(rest[c]) : ~Wants(rest[c][i], event[c])
  /\ Leave(c, IF batch[c] = {} THEN "idle" ELSE "publish")
  /\ count' = count + 1
  /\ UNCHANGED <<subs, active, background, closed, batch, letters, replays, history>>

Succeed(c) ==
  /\ at[c] = "handler"
  /\ settled' = settled \cup {<<event[c], Head(rest[c])>>}
  /\ TurnTo(c, Tail(rest[c]))
  /\ UNCHANGED <<subs, active, background, closed, count, letters, replays, due>>

\* put drops the oldest record while there are more than the capacity.
Kept(S) == IF Cardinality(S) > Cap THEN {r \in S : \E q \in S : q.id < r.id} ELSE S

\* Mutants of DeadLetter: the record does not hold the event; the dispatch ends with the
\* first handler that fails for good.
DeadLetterForgets(c) ==
  /\ dlq' = Kept(dlq \cup {[id |-> born + 1, event |-> NoEvent, handler |-> Head(rest[c]),
                            tries |-> tries[c]]})
  /\ born' = born + 1
  /\ settled' = settled \cup {<<event[c], Head(rest[c])>>}
  /\ TurnTo(c, Tail(rest[c]))
  /\ UNCHANGED <<subs, active, background, closed, count, removed, replays, due>>

DeadLetterStops(c) ==
  /\ dlq' = Kept(dlq \cup {[id |-> born + 1, event |-> event[c], handler |-> Head(rest[c]),
                            tries |-> tries[c]]})
  /\ born' = born + 1
  /\ settled' = settled \cup {<<event[c], Head(rest[c])>>}
  /\ TurnTo(c, <<>>)
  /\ UNCHANGED <<subs, active, background, closed, count, removed, replays, due>>

DeadLetter(c) ==
  /\ dlq' = Kept(dlq \cup {[id |-> born + 1, event |-> event[c], handler |-> Head(rest[c]),
                            tries |-> tries[c]]})
  /\ born' = born + 1
  /\ settled' = settled \cup {<<event[c], Head(rest[c])>>}
  /\ TurnTo(c, Tail(rest[c]))
  /\ UNCHANGED <<subs, active, background, closed, count, removed, replays, due>>

\* EventHandlerError: no retry.
FailForGood(c) ==
  /\ at[c] = "handler"
  /\ DeadLetter(c)

\* Mutant of Fail: the comparison lets one attempt too many through.
FailOnceMore(c) ==
  /\ at[c] = "handler"
  /\ IF tries[c] > MaxRetries[Head(rest[c])] + 1
     THEN DeadLetter(c)
     ELSE /\ at' = [at EXCEPT ![c] = "sleep"]
          /\ UNCHANGED <<subs, active, background, closed, count, event, rest, tries, batch,
                         letters, replays, history>>

\* Mutant of Fail: the attempts of the handler are never counted up to the limit.
FailForever(c) ==
  /\ at[c] = "handler"
  /\ at' = [at EXCEPT ![c] = "sleep"]
  /\ tries' = [tries EXCEPT ![c] = 0]
  /\ UNCHANGED <<subs, active, background, closed, count, event, rest, batch, letters,
                 replays, history>>

\* Any other exception: sleep and try again, or give up.
Fail(c) ==
  /\ at[c] = "handler"
  /\ IF tries[c] > MaxRetries[Head(rest[c])]
     THEN DeadLetter(c)
     ELSE /\ at' = [at EXCEPT ![c] = "sleep"]
          /\ UNCHANGED <<subs, active, background, closed, count, event, rest, tries, batch,
                         letters, replays, history>>

Retry(c) ==
  /\ at[c] = "sleep"
  /\ at' = [at EXCEPT ![c] = "handler"]
  /\ tries' = [tries EXCEPT ![c] = @ + 1]
  /\ UNCHANGED <<subs, active, background, closed, count, event, rest, batch, letters,
                 replays, history>>

-----------------------------------------------------------------------------
(* Dead letters.                                                           *)

IdsOf(S) == {r.id : r \in S}

OfType(S, K) == {r \in S : TypeOf[r.event] \in K}
NotOfType(S, K) == {r \in S : TypeOf[r.event] \notin K}

\* event_type is one type, or None for all.
Selections == {{k} : k \in Types} \cup {Types}

\* Mutant of Purge: the queue is emptied whatever the type.
PurgeEverything(K) ==
  /\ dlq' = {}
  /\ removed' = removed \cup IdsOf(OfType(dlq, K))
  /\ replays' = replays + 1

\* list and purge with no await between them.
Purge(K) ==
  /\ dlq' = NotOfType(dlq, K)
  /\ removed' = removed \cup IdsOf(OfType(dlq, K))
  /\ replays' = replays + 1

\* replay_dead_letters(event_type): newest first, one publish after the other.
Replay(c, K) ==
  /\ c \in Callers
  /\ at[c] = "idle"
  /\ replays < MaxReplays
  /\ OfType(dlq, K) # {}
  /\ Purge(K)
  /\ at' = [at EXCEPT ![c] = "publish"]
  /\ batch' = [batch EXCEPT ![c] = OfType(dlq, K)]
  /\ UNCHANGED <<subs, active, background, closed, count, event, rest, tries, born, history>>

PurgeDeadLetters(K) ==
  /\ replays < MaxReplays
  /\ OfType(dlq, K) # {}
  /\ Purge(K)
  /\ UNCHANGED <<subs, active, background, closed, count, dispatch, born, history>>

\* The next event of a replay; on a closed bus publish raises and the rest is gone.
PublishNext(c) ==
  /\ at[c] = "publish"
  /\ IF closed
     THEN /\ Leave(c, "idle")
          /\ batch' = [batch EXCEPT ![c] = {}]
          /\ UNCHANGED history
     ELSE \E r \in batch[c] :
            /\ \A q \in batch[c] \ {r} : q.id < r.id
            /\ Dispatch(c, r.event, batch[c] \ {r})
  /\ UNCHANGED <<subs, active, background, closed, count, letters, replays>>

-----------------------------------------------------------------------------
\* aclose cancels the workers wherever they are; callers go on.
Close ==
  /\ ~closed
  /\ closed' = TRUE
  /\ at' = [c \in Coroutines |-> IF c \in Workers THEN "stopped" ELSE at[c]]
  /\ event' = [c \in Coroutines |-> IF c \in Workers THEN NoEvent ELSE event[c]]
  /\ rest' = [c \in Coroutines |-> IF c \in Workers THEN <<>> ELSE rest[c]]
  /\ tries' = [c \in Coroutines |-> IF c \in Workers THEN 0 ELSE tries[c]]
  /\ UNCHANGED <<subs, active, background, count, batch, letters, replays, history>>

Deliver(c) ==
  \/ Call(c) \/ Return(c) \/ Succeed(c) \/ FailForGood(c) \/ Fail(c) \/ Retry(c)
  \/ PublishNext(c)

Next ==
  \/ \E h \in Handlers : Subscribe(h) \/ Unsubscribe(h)
  \/ \E c \in Coroutines : Deliver(c) \/ WorkerGet(c)
  \/ \E c \in Coroutines, e \in Events : Publish(c, e)
  \/ \E e \in Events : PublishAsync(e)
  \/ \E c \in Coroutines, K \in Selections : Replay(c, K)
  \/ \E K \in Selections : PurgeDeadLetters(K)
  \/ StartBackground
  \/ Close

Spec == Init /\ [][Next]_vars

(***************************************************************************)
(* A handler that was called returns or raises (the handlers are outside   *)
(* this module; one that hangs holds its publisher for ever), a sleep      *)
(* ends, and a worker that waits on a queue with an event is woken.        *)
(***************************************************************************)
Fairness == \A c \in Coroutines : WF_vars(Deliver(c)) /\ WF_vars(WorkerGet(c))

FairSpec == Spec /\ Fairness

-----------------------------------------------------------------------------
(***************************************************************************)
(* Properties.                                                             *)
(***************************************************************************)

(* A delivery a dispatch set out to make is handled, dead-lettered, still  *)
(* ahead of some coroutine, or its handler has unsubscribed: a handler     *)
(* that fails takes nothing away from the handlers after it.  Closing the  *)
(* bus cancels its workers with what they had ahead, and is excepted.      *)
NothingSkipped ==
  \A d \in due :
    \/ d \in settled
    \/ d[2] \notin active
    \/ closed
    \/ \E c \in Coroutines : event[c] = d[1] /\ d[2] \in ToSet(rest[c])

(* No handler is tried more than max_retries times after its first try,    *)
(* in a delivery that runs and in one that was dead-lettered.              *)
WithinPolicy ==
  /\ \A c \in Coroutines : rest[c] # <<>> => tries[c] <= MaxRetries[Head(rest[c])] + 1
  /\ \A r \in dlq : r.tries <= MaxRetries[r.handler] + 1

(* A dead letter is there until a replay or a purge of its type takes it   *)
(* or Cap newer ones have pushed it out, and there is one letter for each  *)
(* failure; so whatever failures land during a replay are kept.            *)
LettersKept ==
  /\ \A id \in 1 .. born :
       id \in IdsOf(dlq) \/ id \in removed \/ born - id >= Cap
  /\ \A q, r \in dlq : q.id = r.id => q = r
  /\ Cardinality(dlq) <= Cap

(* Every publish and every replay comes to an end, however its handlers    *)
(* fail and whoever closes the bus meanwhile.                              *)
EveryDispatchEnds ==
  \A c \in Coroutines : at[c] # "idle" /\ at[c] # "stopped" ~> at[c] \in {"idle", "stopped"}

(* An event in the background queue is taken up unless the bus is closed.  *)
QueuedIsTaken ==
  \A e \in Events : (\E x \in queue : x.event = e) ~> (closed \/ \A x \in queue : x.event # e)
=============================================================================
