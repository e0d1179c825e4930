--------------------------- MODULE EventBusProofs ---------------------------
(***************************************************************************)
(* Proofs about EventBus, for any number of events, handlers, publishers   *)
(* and workers, every retry policy and every capacity.                     *)
(***************************************************************************)
EXTENDS EventBus, FiniteSetTheorems, WellFoundedInduction, TLAPS

(***************************************************************************)
(* Facts about the data.                                                   *)
(***************************************************************************)
LEMMA Parameters ==
  /\ NoEvent \notin Events /\ Urgency \in [Events -> Nat] /\ MaxRetries \in [Handlers -> Nat]
  /\ Early \in Seq(Handlers) /\ Cap \in Nat /\ MaxReplays \in Nat
  BY BusAssumption

\* What a list of handlers holds when one is added, done with, or passed over.
LEMMA Members ==
  ASSUME NEW S, NEW s \in Seq(S)
  PROVE  /\ ToSet(s) \subseteq S
         /\ \A h \in S : Append(s, h) \in Seq(S) /\ ToSet(Append(s, h)) = ToSet(s) \cup {h}
         /\ s # <<>> => /\ Head(s) \in S /\ Tail(s) \in Seq(S)
                        /\ ToSet(s) = ToSet(Tail(s)) \cup {Head(s)}
<1>1. ToSet(s) \subseteq S
  BY DEF ToSet
<1>2. ASSUME NEW h \in S PROVE Append(s, h) \in Seq(S) /\ ToSet(Append(s, h)) = ToSet(s) \cup {h}
  <2> DEFINE t == Append(s, h)
  <2>1. t \in Seq(S) /\ Len(s) \in Nat /\ Len(t) = Len(s) + 1 /\ t[Len(s) + 1] = h
        /\ DOMAIN t = 1 .. Len(t) /\ DOMAIN s = 1 .. Len(s)
        /\ \A i \in 1 .. Len(s) : t[i] = s[i]
    OBVIOUS
  <2> HIDE DEF t
  <2>2. ToSet(t) \subseteq ToSet(s) \cup {h}
    BY <2>1 DEF ToSet
  <2>3. \A i \in 1 .. Len(s) : s[i] \in ToSet(t)
    BY <2>1 DEF ToSet
  <2>4. h \in ToSet(t)
    BY <2>1 DEF ToSet
  <2>5. ToSet(s) \subseteq ToSet(t)
    BY <2>1, <2>3 DEF ToSet
  <2> QED
    BY <2>1, <2>2, <2>4, <2>5 DEF t
<1>3. ASSUME s # <<>>
      PROVE  /\ Head(s) \in S /\ Tail(s) \in Seq(S)
             /\ ToSet(s) = ToSet(Tail(s)) \cup {Head(s)}
  <2> DEFINE t == Tail(s)
  <2>1. t \in Seq(S) /\ Len(s) \in Nat \ {0} /\ Len(t) = Len(s) - 1 /\ s[1] = Head(s)
        /\ DOMAIN t = 1 .. Len(t) /\ DOMAIN s = 1 .. Len(s) /\ Head(s) \in S
        /\ \A i \in 1 .. Len(s) - 1 : t[i] = s[i + 1]
    BY <1>3
  <2> HIDE DEF t
  <2>a. Head(s) \in ToSet(s)
    <3>1. 1 \in 1 .. Len(s) /\ s[1] = Head(s)
      BY <2>1
    <3> QED
      BY <2>1, <3>1 DEF ToSet
  <2>b. ASSUME NEW x \in ToSet(t) PROVE x \in ToSet(s)
    <3>1. PICK i \in 1 .. Len(t) : x = t[i]
      BY <2>1, <2>b DEF ToSet
    <3>2. i + 1 \in 1 .. Len(s) /\ i \in 1 .. Len(s) - 1
      BY <2>1, <3>1
    <3>3. s[i + 1] = x
      BY <2>1, <3>1, <3>2
    <3> QED
      BY <2>1, <3>2, <3>3 DEF ToSet
  <2>2. ToSet(t) \cup {Head(s)} \subseteq ToSet(s)
    BY <2>a, <2>b
  <2>3. ASSUME NEW i \in 1 .. Len(s), i # 1 PROVE s[i] \in ToSet(t)
    <3>1. i - 1 \in 1 .. Len(t) /\ t[i - 1] = s[i]
      BY <2>1, <2>3
    <3> QED
      BY <2>1, <3>1 DEF ToSet
  <2>4. ToSet(s) \subseteq ToSet(t) \cup {Head(s)}
    BY <2>1, <2>3 DEF ToSet
  <2> QED
    BY <2>1, <2>2, <2>4 DEF t
<1> QED
  BY <1>1, <1>2, <1>3

LEMMA From ==
  ASSUME NEW S, NEW s \in Seq(S), NEW i \in 1 .. Len(s)
  PROVE  /\ SubSeq(s, i, Len(s)) \in Seq(S) /\ SubSeq(s, i, Len(s)) # <<>>
         /\ \A h \in ToSet(s) : h \in ToSet(SubSeq(s, i, Len(s))) \/ \E j \in 1 .. i - 1 : h = s[j]
<1> DEFINE t == SubSeq(s, i, Len(s))
<1>1. t \in Seq(S) /\ Len(t) = Len(s) - i + 1 /\ Len(s) \in Nat /\ i \in Nat
  OBVIOUS
<1>2. \A k \in 1 .. Len(s) - i + 1 : t[k] = s[i + k - 1]
  OBVIOUS
<1> HIDE DEF t
<1>3. ASSUME NEW k \in 1 .. Len(s) PROVE s[k] \in ToSet(t) \/ k \in 1 .. i - 1
  <2>1. CASE k < i
    BY <1>1, <2>1
  <2>2. CASE k >= i
    <3>1. k - i + 1 \in 1 .. Len(t) /\ t[k - i + 1] = s[k]
      BY <1>1, <1>2, <2>2
    <3> QED
      BY <1>1, <3>1 DEF ToSet
  <2> QED
    BY <1>1, <2>1, <2>2
<1>4. ASSUME NEW h \in ToSet(s) PROVE h \in ToSet(t) \/ \E j \in 1 .. i - 1 : h = s[j]
  BY <1>3 DEF ToSet
<1>5. t # <<>>
  BY <1>1
<1> QED
  BY <1>1, <1>4, <1>5 DEF t

LEMMA Least ==
  ASSUME NEW T, T \subseteq Nat, T # {}
  PROVE  \E x \in T : \A y \in T : x <= y
<1> DEFINE R == {ss \in Nat \X Nat : ss[1] < ss[2]}
<1>1. IsWellFoundedOn(R, Nat)
  BY NatLessThanWellFounded, Zenon DEF OpToRel
<1> HIDE DEF R
<1>2. PICK x \in T : \A y \in T : ~ (<<y, x>> \in R)
  BY <1>1, WFMin
<1>3. \A a, b \in Nat : b < a => <<b, a>> \in R
  BY DEF R
<1>4. \A y \in T : ~ (y < x)
  BY <1>2, <1>3
<1> QED
  BY <1>4

-----------------------------------------------------------------------------
(***************************************************************************)
(* Types, by owner: the bus, the coroutines, the dead letters, the         *)
(* history.  A coroutine has an event while it dispatches, and a handler   *)
(* while it waits for one or for its next attempt.                         *)
(***************************************************************************)
Dispatching == {"turn", "handler", "sleep"}

BusTyped ==
  /\ subs \in Seq(Handlers)
  /\ active \in SUBSET Handlers
  /\ todo \in SUBSET Events
  /\ queue \in SUBSET Queued
  /\ seq \in Nat
  /\ started \in BOOLEAN
  /\ closed \in BOOLEAN
  /\ count \in Nat
  /\ replays \in 0 .. MaxReplays

CoroutinesTyped ==
  /\ at \in [Coroutines -> {"idle", "publish", "turn", "handler", "sleep", "stopped"}]
  /\ event \in [Coroutines -> Events \cup {NoEvent}]
  /\ rest \in [Coroutines -> Seq(Handlers)]
  /\ tries \in [Coroutines -> Nat]
  /\ batch \in [Coroutines -> SUBSET Letter]
  /\ \A c \in Coroutines :
       /\ at[c] \in Dispatching => event[c] \in Events
       /\ at[c] \notin Dispatching => rest[c] = <<>>
       /\ at[c] \in {"handler", "sleep"} => rest[c] # <<>>

LettersTyped ==
  /\ dlq \in SUBSET Letter
  /\ born \in Nat
  /\ \A r \in dlq : r.id \in 1 .. born
  /\ removed \in SUBSET (1 .. born)

HistoryTyped ==
  /\ due \in SUBSET (Events \X Handlers)
  /\ settled \in SUBSET (Events \X Handlers)

Typing == BusTyped /\ CoroutinesTyped /\ LettersTyped /\ HistoryTyped

LEMMA TypingInit == Init => Typing
<1> SUFFICES ASSUME Init PROVE Typing
  OBVIOUS
<1>1. BusTyped
  <2>1. ToSet(Early) \in SUBSET Handlers /\ 0 \in 0 .. MaxReplays
    BY Parameters, Members
  <2> QED
    BY <2>1, Parameters DEF Init, BusTyped
<1>2. CoroutinesTyped
  BY DEF Init, CoroutinesTyped, Dispatching
<1>3. LettersTyped /\ HistoryTyped
  BY DEF Init, LettersTyped, HistoryTyped
<1> QED
  BY <1>1, <1>2, <1>3 DEF Typing

(* The ways a coroutine moves.                                             *)
LEMMA DispatchTyped ==
  ASSUME Typing, NEW c \in Coroutines, NEW e \in Events, NEW later \in SUBSET Letter,
         Dispatch(c, e, later)
  PROVE  CoroutinesTyped' /\ HistoryTyped'
<1>1. CoroutinesTyped'
  BY DEF Typing, BusTyped, CoroutinesTyped, Dispatch, Dispatching
<1>2. \A h \in ToSet(subs) : <<e, h>> \in Events \X Handlers
  BY Members DEF Typing, BusTyped
<1>3. HistoryTyped'
  BY <1>2 DEF Typing, HistoryTyped, Dispatch
<1> QED
  BY <1>1, <1>3

LEMMA LeaveTyped ==
  ASSUME Typing, NEW c \in Coroutines, NEW where \in {"idle", "publish", "stopped"}, Leave(c, where),
         batch' \in [Coroutines -> SUBSET Letter]
  PROVE  CoroutinesTyped'
<1>1. <<>> \in Seq(Handlers)
  OBVIOUS
<1> QED
  BY <1>1 DEF Typing, CoroutinesTyped, Leave, Dispatching

LEMMA TurnToTyped ==
  ASSUME Typing, NEW c \in Coroutines, at[c] \in Dispatching, NEW hs \in Seq(Handlers), TurnTo(c, hs)
  PROVE  CoroutinesTyped'
  BY DEF Typing, CoroutinesTyped, TurnTo, Dispatching

LEMMA DeadLetterTyped ==
  ASSUME Typing, NEW c \in Coroutines, at[c] = "handler", DeadLetter(c)
  PROVE  Typing'
<1>1. Head(rest[c]) \in Handlers /\ Tail(rest[c]) \in Seq(Handlers) /\ event[c] \in Events
      /\ tries[c] \in Nat /\ born + 1 \in Nat
  BY Members DEF Typing, CoroutinesTyped, LettersTyped, Dispatching
<1>2. CoroutinesTyped'
  BY <1>1, TurnToTyped DEF DeadLetter, Dispatching
<1>3. LettersTyped'
  <2> DEFINE new == [id |-> born + 1, event |-> event[c], handler |-> Head(rest[c]), tries |-> tries[c]]
  <2>1. new \in Letter /\ new.id = born + 1
    BY <1>1 DEF Letter
  <2>2. dlq' \subseteq dlq \cup {new} /\ born' = born + 1 /\ removed' = removed
    BY DEF DeadLetter, Kept
  <2> HIDE DEF new
  <2> QED
    BY <2>1, <2>2 DEF Typing, LettersTyped
<1>4. HistoryTyped'
  BY <1>1 DEF DeadLetter, Typing, HistoryTyped
<1> QED
  BY <1>2, <1>3, <1>4 DEF DeadLetter, Typing, BusTyped, background

LEMMA DeliverTyped ==
  ASSUME Typing, NEW c \in Coroutines, Deliver(c)
  PROVE  Typing'
<1> USE DEF Typing
<1>1. CASE Call(c)
  <2>1. PICK i \in 1 .. Len(rest[c]) : rest' = [rest EXCEPT ![c] = SubSeq(@, i, Len(@))]
    BY <1>1 DEF Call
  <2>2. rest[c] \in Seq(Handlers) /\ event[c] \in Events
    BY <1>1 DEF CoroutinesTyped, Call, Dispatching
  <2>3. SubSeq(rest[c], i, Len(rest[c])) \in Seq(Handlers) /\ SubSeq(rest[c], i, Len(rest[c])) # <<>>
    BY <2>2, From
  <2>4. CoroutinesTyped'
    BY <1>1, <2>1, <2>2, <2>3 DEF CoroutinesTyped, Call, Dispatching
  <2> QED
    BY <1>1, <2>4 DEF Call, BusTyped, LettersTyped, HistoryTyped, background, letters, history
<1>2. CASE Return(c)
  <2>1. CoroutinesTyped'
    BY <1>2, LeaveTyped DEF Return, CoroutinesTyped
  <2> QED
    BY <1>2, <2>1 DEF Return, BusTyped, LettersTyped, HistoryTyped, background, letters, history
<1>3. CASE Succeed(c)
  <2>1. Head(rest[c]) \in Handlers /\ Tail(rest[c]) \in Seq(Handlers) /\ event[c] \in Events
    BY <1>3, Members DEF CoroutinesTyped, Succeed, Dispatching
  <2>2. CoroutinesTyped'
    BY <1>3, <2>1, TurnToTyped DEF Succeed, Dispatching
  <2>3. HistoryTyped'
    BY <1>3, <2>1 DEF Succeed, HistoryTyped
  <2> QED
    BY <1>3, <2>2, <2>3 DEF Succeed, BusTyped, LettersTyped, background, letters
<1>4. CASE FailForGood(c)
  BY <1>4, DeadLetterTyped DEF FailForGood
<1>5. CASE Fail(c)
  <2>1. CASE DeadLetter(c)
    BY <1>5, <2>1, DeadLetterTyped DEF Fail
  <2>2. CASE ~ DeadLetter(c)
    BY <1>5, <2>2 DEF Fail, BusTyped, CoroutinesTyped, LettersTyped, HistoryTyped, background,
                      letters, history, Dispatching
  <2> QED
    BY <2>1, <2>2
<1>6. CASE Retry(c)
  BY <1>6 DEF Retry, BusTyped, CoroutinesTyped, LettersTyped, HistoryTyped, background, letters,
              history, Dispatching
<1>7. CASE PublishNext(c)
  <2>1. UNCHANGED <<subs, active, background, closed, count, letters, replays>>
    BY <1>7 DEF PublishNext
  <2>2. BusTyped' /\ LettersTyped'
    BY <2>1 DEF BusTyped, LettersTyped, background, letters
  <2>3. CASE closed
    <3>1. CoroutinesTyped'
      BY <1>7, <2>3, LeaveTyped DEF PublishNext, CoroutinesTyped
    <3> QED
      BY <1>7, <2>2, <2>3, <3>1 DEF PublishNext, HistoryTyped, history
  <2>4. CASE ~ closed
    <3>1. PICK r \in batch[c] : Dispatch(c, r.event, batch[c] \ {r})
      BY <1>7, <2>4 DEF PublishNext
    <3>2. r.event \in Events /\ batch[c] \ {r} \in SUBSET Letter
      BY <3>1 DEF CoroutinesTyped, Letter
    <3> QED
      BY <2>2, <3>1, <3>2, DispatchTyped
  <2> QED
    BY <2>3, <2>4
<1> QED
  BY <1>1, <1>2, <1>3, <1>4, <1>5, <1>6, <1>7 DEF Deliver

LEMMA PurgeTyped ==
  ASSUME Typing, NEW K, Purge(K), replays < MaxReplays, UNCHANGED born
  PROVE  LettersTyped' /\ replays' \in 0 .. MaxReplays
<1>1. dlq' \subseteq dlq /\ removed' \subseteq removed \cup IdsOf(dlq)
  BY DEF Purge, NotOfType, OfType, IdsOf
<1>2. IdsOf(dlq) \subseteq 1 .. born
  BY DEF IdsOf, Typing, LettersTyped
<1>3. LettersTyped'
  BY <1>1, <1>2 DEF Typing, LettersTyped
<1>4. replays' = replays + 1
  BY DEF Purge
<1>5. replays' \in 0 .. MaxReplays
  BY <1>4, Parameters DEF Typing, BusTyped
<1> QED
  BY <1>3, <1>5

(* Workers run once the background queue is there.                         *)
WorkersWait == ~ started => \A w \in Workers : at[w] = "stopped"

LEMMA WorkersWaitNext ==
  ASSUME Typing, WorkersWait, [Next]_vars
  PROVE  WorkersWait'
<1> SUFFICES ASSUME ~ started', NEW w \in Workers, at'[w] # "stopped" PROVE FALSE
  BY DEF WorkersWait
<1>1. ~ started /\ ~ StartBackground
  <2>1. ASSUME NEW c \in Coroutines, Deliver(c) PROVE started' = started
    BY <2>1 DEF Deliver, Call, Return, Succeed, FailForGood, Fail, DeadLetter, Retry, PublishNext,
                background
  <2>2. StartBackground => started'
    BY DEF StartBackground
  <2>3. StartBackground \/ started' = started
    BY <2>1 DEF Next, Subscribe, Unsubscribe, WorkerGet, Publish, PublishAsync, Replay,
                PurgeDeadLetters, Close, background, vars
  <2> QED
    BY <2>2, <2>3
<1>2. at[w] = "stopped" /\ w \in Coroutines /\ w \notin Callers
  BY <1>1, BusAssumption DEF WorkersWait, Coroutines
<1>3. ASSUME NEW c \in Coroutines, Deliver(c) \/ WorkerGet(c)
      PROVE  at'[w] = at[w]
  BY <1>2, <1>3 DEF Deliver, Call, Return, Succeed, FailForGood, Fail, DeadLetter, Retry,
         PublishNext, WorkerGet, Leave, TurnTo, Dispatch, Typing, CoroutinesTyped
<1>4. ASSUME NEW c \in Coroutines, (\E e \in Events : Publish(c, e)) \/ \E K \in Selections : Replay(c, K)
      PROVE  at'[w] = at[w]
  BY <1>2, <1>4 DEF Publish, Replay, Dispatch, Typing, CoroutinesTyped
<1>5. at'[w] = at[w] \/ Close
  BY <1>1, <1>3, <1>4 DEF Next, Subscribe, Unsubscribe, PublishAsync, PurgeDeadLetters, dispatch, vars
<1> QED
  BY <1>2, <1>5 DEF Close

LEMMA TypingNext ==
  ASSUME Typing, WorkersWait, [Next]_vars
  PROVE  Typing'
<1> USE DEF Typing
<1>1. ASSUME NEW h \in Handlers, Subscribe(h) \/ Unsubscribe(h) PROVE Typing'
  <2>1. CASE Subscribe(h)
    BY <2>1, Members
    DEF Subscribe, BusTyped, CoroutinesTyped, LettersTyped, HistoryTyped, background, dispatch,
        letters, history
  <2>2. CASE Unsubscribe(h)
    BY <2>2
    DEF Unsubscribe, BusTyped, CoroutinesTyped, LettersTyped, HistoryTyped, background, dispatch,
        letters, history
  <2> QED
    BY <1>1, <2>1, <2>2
<1>2. ASSUME NEW c \in Coroutines, WorkerGet(c) PROVE Typing'
  <2>1. PICK x \in queue : queue' = queue \ {x} /\ Dispatch(c, x.event, {})
    BY <1>2 DEF WorkerGet
  <2>2. x.event \in Events
    BY <2>1 DEF BusTyped, Queued
  <2>3. CoroutinesTyped' /\ HistoryTyped'
    BY <2>1, <2>2, DispatchTyped
  <2> QED
    BY <1>2, <2>1, <2>3 DEF WorkerGet, BusTyped, LettersTyped, letters
<1>3. ASSUME NEW c \in Coroutines, NEW e \in Events, Publish(c, e) PROVE Typing'
  <2>1. CoroutinesTyped' /\ HistoryTyped'
    BY <1>3, DispatchTyped DEF Publish
  <2> QED
    BY <1>3, <2>1 DEF Publish, BusTyped, LettersTyped, letters
<1>4. ASSUME NEW e \in Events, PublishAsync(e) PROVE Typing'
  <2>1. [urgency |-> Urgency[e], seq |-> seq, event |-> e] \in Queued
    BY Parameters DEF BusTyped, Queued
  <2>2. BusTyped'
    BY <1>4, <2>1 DEF PublishAsync, BusTyped
  <2> QED
    BY <1>4, <2>2 DEF PublishAsync, CoroutinesTyped, LettersTyped, HistoryTyped, dispatch, letters,
                      history
<1>5. ASSUME NEW c \in Coroutines, NEW K \in Selections, Replay(c, K) PROVE Typing'
  <2>1. LettersTyped' /\ replays' \in 0 .. MaxReplays
    BY <1>5, PurgeTyped DEF Replay
  <2>2. OfType(dlq, K) \in SUBSET Letter
    BY DEF OfType, LettersTyped
  <2>3. CoroutinesTyped'
    BY <1>5, <2>2 DEF Replay, CoroutinesTyped, Dispatching
  <2> QED
    BY <1>5, <2>1, <2>3 DEF Replay, BusTyped, HistoryTyped, background, history
<1>6. ASSUME NEW K \in Selections, PurgeDeadLetters(K) PROVE Typing'
  <2>1. LettersTyped' /\ replays' \in 0 .. MaxReplays
    BY <1>6, PurgeTyped DEF PurgeDeadLetters
  <2> QED
    BY <1>6, <2>1 DEF PurgeDeadLetters, BusTyped, CoroutinesTyped, HistoryTyped, background,
                      dispatch, history
<1>7. CASE StartBackground
  <2>1. \A c \in Coroutines :
          at'[c] = at[c] \/ (at'[c] = "idle" /\ at[c] = "stopped")
    BY <1>7 DEF StartBackground, WorkersWait
  <2> QED
    BY <1>7, <2>1 DEF StartBackground, BusTyped, CoroutinesTyped, LettersTyped, HistoryTyped,
                      letters, history, Dispatching
<1>8. CASE Close
  BY <1>8 DEF Close, BusTyped, CoroutinesTyped, LettersTyped, HistoryTyped, background, letters,
              history, Dispatching
<1>9. CASE UNCHANGED vars
  BY <1>9 DEF vars, BusTyped, CoroutinesTyped, LettersTyped, HistoryTyped, background, dispatch,
              letters, history
<1> QED
  BY <1>1, <1>2, <1>3, <1>4, <1>5, <1>6, <1>7, <1>8, <1>9, DeliverTyped DEF Next

(* Type correctness of the bus and its dead letter queue (bus.py, dlq.py). *)
THEOREM TypeCorrect == Spec => []TypeOK
<1>1. Init => Typing /\ WorkersWait
  BY TypingInit DEF Init, WorkersWait, Coroutines
<1>2. Typing /\ WorkersWait /\ [Next]_vars => Typing' /\ WorkersWait'
  BY TypingNext, WorkersWaitNext
<1>3. Typing => TypeOK
  BY DEF Typing, TypeOK, BusTyped, CoroutinesTyped, LettersTyped, HistoryTyped
<1> QED
  BY <1>1, <1>2, <1>3, PTL DEF Spec

-----------------------------------------------------------------------------
(***************************************************************************)
(* The attempts of a handler.  The counter is zero between two handlers;   *)
(* a handler that waits for its next attempt has one left.                 *)
(***************************************************************************)
AttemptsCounted ==
  \A c \in Coroutines :
    /\ at[c] = "turn" => tries[c] = 0
    /\ at[c] = "handler" => tries[c] <= MaxRetries[Head(rest[c])] + 1
    /\ at[c] = "sleep" => tries[c] <= MaxRetries[Head(rest[c])]

LettersWithinPolicy == \A r \in dlq : r.tries <= MaxRetries[r.handler] + 1

\* A step of one coroutine leaves the others where they are.
LEMMA OneCoroutine ==
  ASSUME Typing, NEW c \in Coroutines,
         \/ Deliver(c) \/ WorkerGet(c)
         \/ \E e \in Events : Publish(c, e)
         \/ \E K \in Selections : Replay(c, K)
  PROVE  \A b \in Coroutines \ {c} :
           at'[b] = at[b] /\ event'[b] = event[b] /\ rest'[b] = rest[b] /\ tries'[b] = tries[b]
<1> USE DEF Typing, CoroutinesTyped, Dispatch, TurnTo, Leave
<1>1. CASE Deliver(c)
  BY <1>1, SMTT(60) DEF Deliver, Call, Return, Succeed, FailForGood, Fail, DeadLetter, Retry, PublishNext
<1>2. CASE ~ Deliver(c)
  BY <1>2 DEF WorkerGet, Publish, Replay
<1> QED
  BY <1>1, <1>2

LEMMA AttemptsDeliver ==
  ASSUME Typing, AttemptsCounted, NEW c \in Coroutines, Deliver(c)
  PROVE  AttemptsCounted'
<1>0. ASSUME /\ at'[c] = "turn" => tries'[c] = 0
             /\ at'[c] = "handler" => tries'[c] <= MaxRetries[Head(rest'[c])] + 1
             /\ at'[c] = "sleep" => tries'[c] <= MaxRetries[Head(rest'[c])]
      PROVE  AttemptsCounted'
  BY <1>0, OneCoroutine DEF AttemptsCounted
<1> USE <1>0 DEF Typing, CoroutinesTyped
<1>1. CASE Call(c)
  <2>1. PICK i \in 1 .. Len(rest[c]) : rest' = [rest EXCEPT ![c] = SubSeq(@, i, Len(@))]
    BY <1>1 DEF Call
  <2>2. Head(rest'[c]) \in Handlers
    <3>1. SubSeq(rest[c], i, Len(rest[c])) \in Seq(Handlers) /\ SubSeq(rest[c], i, Len(rest[c])) # <<>>
      <4>1. rest[c] \in Seq(Handlers)
        BY <1>1
      <4> QED
        BY <4>1, From, SMTT(60)
    <3>2. rest'[c] = SubSeq(rest[c], i, Len(rest[c]))
      BY <2>1
    <3> QED
      BY <3>1, <3>2, Members
  <2>3. MaxRetries[Head(rest'[c])] \in Nat
    BY <2>2, Parameters
  <2> QED
    BY <1>1, <2>3 DEF Call
<1>2. CASE Return(c)
  BY <1>2 DEF Return, Leave
<1>3. CASE Succeed(c) \/ DeadLetter(c)
  BY <1>3 DEF Succeed, DeadLetter, TurnTo
<1>4. CASE Fail(c) /\ ~ DeadLetter(c)
  <2>1. at[c] = "handler" /\ tries[c] <= MaxRetries[Head(rest[c])] /\ UNCHANGED <<rest, tries>>
        /\ at' = [at EXCEPT ![c] = "sleep"]
    <3>1. Head(rest[c]) \in Handlers
      BY <1>4, Members DEF Fail
    <3>2. MaxRetries[Head(rest[c])] \in Nat /\ tries[c] \in Nat
      BY <3>1, Parameters
    <3> QED
      BY <1>4, <3>2 DEF Fail
  <2> QED
    BY <2>1
<1>5. CASE Retry(c)
  <2>1. Head(rest[c]) \in Handlers
    BY <1>5, Members DEF Retry
  <2>2. MaxRetries[Head(rest[c])] \in Nat /\ tries[c] \in Nat
    BY <2>1, Parameters
  <2> QED
    BY <1>5, <2>2 DEF Retry, AttemptsCounted
<1>6. CASE PublishNext(c)
  <2>1. Leave(c, "idle") \/ \E e, later : Dispatch(c, e, later)
    BY <1>6 DEF PublishNext
  <2> QED
    BY <2>1 DEF Leave, Dispatch
<1> QED
  BY <1>1, <1>2, <1>3, <1>4, <1>5, <1>6 DEF Deliver, FailForGood

LEMMA AttemptsNext ==
  ASSUME Typing, AttemptsCounted, [Next]_vars
  PROVE  AttemptsCounted'
<1>1. ASSUME NEW c \in Coroutines,
             WorkerGet(c) \/ (\E e \in Events : Publish(c, e)) \/ \E K \in Selections : Replay(c, K)
      PROVE  AttemptsCounted'
  <2>1. /\ at'[c] \in {"turn", "publish"}
        /\ at'[c] = "turn" => tries'[c] = 0
    BY <1>1 DEF WorkerGet, Publish, Replay, Dispatch, Typing, CoroutinesTyped
  <2> QED
    BY <1>1, <2>1, OneCoroutine DEF AttemptsCounted
<1>2. CASE StartBackground
  BY <1>2 DEF StartBackground, AttemptsCounted
<1>3. CASE Close
  <2>1. \A c \in Coroutines : at'[c] = "stopped" \/ UNCHANGED <<at[c], tries[c], rest[c]>>
    BY <1>3 DEF Close, Typing, CoroutinesTyped
  <2> QED
    BY <2>1 DEF AttemptsCounted
<1>4. CASE UNCHANGED dispatch
  BY <1>4 DEF dispatch, AttemptsCounted
<1> QED
  BY <1>1, <1>2, <1>3, <1>4, AttemptsDeliver
  DEF Next, Subscribe, Unsubscribe, PublishAsync, PurgeDeadLetters, vars

LEMMA LettersPolicyNext ==
  ASSUME Typing, AttemptsCounted, LettersWithinPolicy, [Next]_vars
  PROVE  LettersWithinPolicy'
<1>1. ASSUME NEW c \in Coroutines, DeadLetter(c), at[c] = "handler" PROVE LettersWithinPolicy'
  <2> DEFINE new == [id |-> born + 1, event |-> event[c], handler |-> Head(rest[c]), tries |-> tries[c]]
  <2>1. dlq' \subseteq dlq \cup {new}
    BY <1>1 DEF DeadLetter, Kept
  <2>2. new.tries <= MaxRetries[new.handler] + 1
    BY <1>1 DEF AttemptsCounted
  <2> QED
    BY <2>1, <2>2 DEF LettersWithinPolicy
<1>2. ASSUME NEW c \in Coroutines, Deliver(c) PROVE LettersWithinPolicy'
  <2>1. CASE DeadLetter(c) /\ at[c] = "handler"
    BY <1>1, <2>1
  <2>2. CASE ~ (DeadLetter(c) /\ at[c] = "handler")
    BY <1>2, <2>2 DEF Deliver, Call, Return, Succeed, FailForGood, Fail, Retry, PublishNext, letters,
                      LettersWithinPolicy
  <2> QED
    BY <2>1, <2>2
<1>3. CASE dlq' \subseteq dlq
  BY <1>3 DEF LettersWithinPolicy
<1> QED
  BY <1>2, <1>3
  DEF Next, Subscribe, Unsubscribe, WorkerGet, Publish, PublishAsync, Replay, PurgeDeadLetters,
      StartBackground, Close, Purge, NotOfType, letters, vars

(* No handler is tried more than max_retries times after its first try:    *)
(* the comparison of bus.py:261 and the reset between two handlers hold    *)
(* for every policy, every order of deliveries and every replay.           *)
THEOREM WithinPolicyHolds == Spec => []WithinPolicy
<1> DEFINE IInv == Typing /\ WorkersWait /\ AttemptsCounted /\ LettersWithinPolicy
<1>1. Init => IInv
  BY TypingInit DEF Init, WorkersWait, AttemptsCounted, LettersWithinPolicy, Coroutines
<1>2. IInv /\ [Next]_vars => IInv'
  BY TypingNext, WorkersWaitNext, AttemptsNext, LettersPolicyNext
<1>3. IInv => WithinPolicy
  <2> SUFFICES ASSUME IInv, NEW c \in Coroutines, rest[c] # <<>>
               PROVE  tries[c] <= MaxRetries[Head(rest[c])] + 1
    BY DEF WithinPolicy, LettersWithinPolicy
  <2>1. at[c] \in Dispatching /\ tries[c] \in Nat /\ rest[c] \in Seq(Handlers)
    BY DEF Typing, CoroutinesTyped
  <2>2. MaxRetries[Head(rest[c])] \in Nat
    BY <2>1, Parameters, Members
  <2> QED
    BY <2>1, <2>2 DEF Dispatching, AttemptsCounted
<1> QED
  BY <1>1, <1>2, <1>3, PTL DEF Spec

-----------------------------------------------------------------------------
(***************************************************************************)
(* No delivery is skipped.  A dispatch sets out with the subscribers there *)
(* are; a handler that has unsubscribed never comes back, since a handle   *)
(* is new for every subscription (Known).  So a coroutine that passes over *)
(* a handler it owed an event does so because the handler is gone.         *)
(***************************************************************************)
Known ==
  /\ active \subseteq ToSet(subs)
  /\ \A d \in due :
       d[2] \in ToSet(subs) /\ On[d[2]] = TypeOf[d[1]] /\ Urgency[d[1]] \in Accepts[d[2]]

\* Coroutine c still has delivery d before it.
Ahead(c, d) == event[c] = d[1] /\ d[2] \in ToSet(rest[c])

\* What a delivery that was due became, in the state after the step.
Accounted(c, d) == d \in settled \/ d[2] \notin active \/ closed \/ Ahead(c, d)

LEMMA KnownNext ==
  ASSUME Typing, Known, [Next]_vars
  PROVE  Known'
<1>1. ASSUME NEW h \in Handlers, Subscribe(h) PROVE Known'
  <2>1. ToSet(subs') = ToSet(subs) \cup {h}
    BY <1>1, Members DEF Subscribe, Typing, BusTyped
  <2> QED
    BY <1>1, <2>1 DEF Subscribe, Known, history
<1>2. ASSUME UNCHANGED <<subs, active>>,
             UNCHANGED due \/ \E c \in Coroutines, e \in Events : \E later : Dispatch(c, e, later)
      PROVE  Known'
  <2>1. CASE UNCHANGED due
    BY <1>2, <2>1 DEF Known
  <2>2. CASE \E c \in Coroutines, e \in Events : \E later : Dispatch(c, e, later)
    <3>1. PICK e \in Events : due' = due \cup {<<e, h>> : h \in {g \in ToSet(subs) : Wants(g, e)}}
      BY <2>2 DEF Dispatch
    <3> QED
      BY <1>2, <3>1 DEF Known, Wants
  <2> QED
    BY <1>2, <2>1, <2>2
<1>3. ASSUME NEW c \in Coroutines, Deliver(c) PROVE Known'
  <2>1. CASE PublishNext(c) /\ ~ closed
    <3>1. PICK r \in batch[c] : Dispatch(c, r.event, batch[c] \ {r})
      BY <2>1 DEF PublishNext
    <3>2. r.event \in Events
      BY <3>1 DEF Typing, CoroutinesTyped, Letter
    <3> QED
      BY <1>2, <2>1, <3>1, <3>2 DEF PublishNext
  <2>2. CASE ~ (PublishNext(c) /\ ~ closed)
    BY <1>2, <1>3, <2>2 DEF Deliver, Call, Return, Succeed, FailForGood, Fail, DeadLetter, Retry,
                            PublishNext, history
  <2> QED
    BY <2>1, <2>2
<1>4. ASSUME NEW c \in Coroutines, WorkerGet(c) PROVE Known'
  <2>1. PICK x \in queue : Dispatch(c, x.event, {})
    BY <1>4 DEF WorkerGet
  <2>2. x.event \in Events
    BY <2>1 DEF Typing, BusTyped, Queued
  <2> QED
    BY <1>2, <1>4, <2>1, <2>2 DEF WorkerGet
<1>5. ASSUME NEW h \in Handlers, Unsubscribe(h) PROVE Known'
  BY <1>5 DEF Unsubscribe, Known, history
<1>6. CASE \E c \in Coroutines, e \in Events : Publish(c, e)
  BY <1>2, <1>6 DEF Publish
<1>7. CASE UNCHANGED <<subs, active, due>>
  BY <1>2, <1>7
<1> QED
  BY <1>1, <1>3, <1>4, <1>5, <1>6, <1>7
  DEF Next, PublishAsync, Replay, PurgeDeadLetters, StartBackground, Close, history, vars

\* The coroutine itself: it passes over a handler only when it is gone.
LEMMA AheadDeliver ==
  ASSUME Typing, Known, NEW c \in Coroutines, Deliver(c), NEW d \in due, Ahead(c, d)
  PROVE  Accounted(c, d)'
<1>1. /\ rest[c] \in Seq(Handlers) /\ rest[c] # <<>> /\ d[2] \in Handlers /\ d = <<d[1], d[2]>>
      /\ at[c] \in Dispatching
  <2>1. rest[c] \in Seq(Handlers) /\ d \in Events \X Handlers
    BY DEF Typing, CoroutinesTyped, HistoryTyped
  <2>2. rest[c] # <<>>
    BY DEF Ahead, ToSet
  <2> QED
    BY <2>1, <2>2 DEF Typing, CoroutinesTyped
<1>2. ASSUME ~ Wants(d[2], event[c]) PROVE d[2] \notin active
  BY <1>2 DEF Wants, Known, Ahead
<1>3. CASE Call(c)
  <2>1. PICK i \in 1 .. Len(rest[c]) :
          /\ \A j \in 1 .. i - 1 : ~Wants(rest[c][j], event[c])
          /\ rest' = [rest EXCEPT ![c] = SubSeq(@, i, Len(@))]
    BY <1>3 DEF Call
  <2>2. rest'[c] = SubSeq(rest[c], i, Len(rest[c])) /\ UNCHANGED <<event, active>>
    BY <1>3, <2>1 DEF Call, Typing, CoroutinesTyped
  <2>3. d[2] \in ToSet(rest'[c]) \/ \E j \in 1 .. i - 1 : d[2] = rest[c][j]
    BY <1>1, <2>2, From DEF Ahead
  <2> QED
    BY <1>2, <2>1, <2>2, <2>3 DEF Ahead, Accounted
<1>4. CASE Return(c)
  <2>1. \E i \in 1 .. Len(rest[c]) : d[2] = rest[c][i]
    BY <1>1 DEF Ahead, ToSet
  <2> QED
    BY <1>2, <1>4, <2>1 DEF Return, Accounted
<1>5. CASE Succeed(c) \/ DeadLetter(c)
  <2>1. /\ settled' = settled \cup {<<event[c], Head(rest[c])>>}
        /\ rest'[c] = Tail(rest[c]) /\ UNCHANGED event
    BY <1>5 DEF Succeed, DeadLetter, TurnTo, Typing, CoroutinesTyped
  <2>2. d[2] = Head(rest[c]) \/ d[2] \in ToSet(Tail(rest[c]))
    BY <1>1, Members DEF Ahead
  <2> QED
    BY <1>1, <2>1, <2>2 DEF Ahead, Accounted
<1>6. CASE (Fail(c) /\ ~ DeadLetter(c)) \/ Retry(c)
  BY <1>6 DEF Fail, Retry, Ahead, Accounted
<1>7. ~ PublishNext(c)
  BY <1>1 DEF PublishNext, Dispatching
<1> QED
  BY <1>3, <1>4, <1>5, <1>6, <1>7 DEF Deliver, FailForGood

LEMMA AheadNext ==
  ASSUME Typing, WorkersWait, Known, [Next]_vars, NEW c \in Coroutines, NEW d \in due, Ahead(c, d)
  PROVE  Accounted(c, d)'
<1>1. at[c] \in Dispatching
  <2>1. rest[c] # <<>>
    BY DEF Ahead, ToSet
  <2> QED
    BY <2>1 DEF Typing, CoroutinesTyped
<1>2. ASSUME UNCHANGED <<event, rest>> PROVE Accounted(c, d)'
  BY <1>2 DEF Accounted, Ahead
<1>3. ASSUME NEW b \in Coroutines,
             \/ Deliver(b) \/ WorkerGet(b)
             \/ \E e \in Events : Publish(b, e)
             \/ \E K \in Selections : Replay(b, K)
      PROVE  Accounted(c, d)'
  <2>1. CASE b # c
    BY <1>3, <2>1, OneCoroutine DEF Ahead, Accounted
  <2>2. CASE b = c
    BY <1>1, <1>3, <2>2, AheadDeliver DEF WorkerGet, Publish, Replay, Dispatching
  <2> QED
    BY <2>1, <2>2
<1>4. CASE Close
  BY <1>4 DEF Close, Accounted
<1> QED
  BY <1>2, <1>3, <1>4
  DEF Next, Subscribe, Unsubscribe, PublishAsync, PurgeDeadLetters, StartBackground, dispatch, vars

\* What has been settled, unsubscribed or closed stays so; what is newly due is ahead.
LEMMA SettledStays ==
  ASSUME Typing, Known, [Next]_vars
  PROVE  /\ settled \subseteq settled' /\ (closed => closed')
         /\ \A h \in ToSet(subs) : h \notin active => h \notin active'
         /\ \A d \in due' \ due : \E c \in Coroutines : Ahead(c, d)'
<1>1. ASSUME NEW c \in Coroutines, NEW e, NEW later, Dispatch(c, e, later), UNCHANGED <<active, closed>>
      PROVE  /\ settled' = settled /\ UNCHANGED <<active, closed>>
             /\ \A d \in due' \ due : \E b \in Coroutines : Ahead(b, d)'
  <2>1. event'[c] = e /\ rest'[c] = subs
    BY <1>1 DEF Dispatch, Typing, CoroutinesTyped
  <2>2. \A d \in due' \ due : d[1] = e /\ d[2] \in ToSet(subs)
    BY <1>1 DEF Dispatch
  <2> QED
    BY <1>1, <2>1, <2>2 DEF Dispatch, Ahead
<1>2. ASSUME NEW c \in Coroutines, Deliver(c)
      PROVE  /\ settled \subseteq settled' /\ UNCHANGED <<active, closed>>
             /\ \A d \in due' \ due : \E b \in Coroutines : Ahead(b, d)'
  <2>1. CASE PublishNext(c)
    <3>1. CASE closed
      BY <2>1, <3>1 DEF PublishNext, history
    <3>2. CASE ~ closed
      BY <1>1, <2>1, <3>2 DEF PublishNext
    <3> QED
      BY <3>1, <3>2
  <2>2. CASE ~ PublishNext(c)
    BY <1>2, <2>2 DEF Deliver, Call, Return, Succeed, FailForGood, Fail, DeadLetter, Retry, history
  <2> QED
    BY <2>1, <2>2
<1>3. ASSUME NEW c \in Coroutines, WorkerGet(c) \/ \E e \in Events : Publish(c, e)
      PROVE  /\ settled = settled' /\ UNCHANGED <<active, closed>>
             /\ \A d \in due' \ due : \E b \in Coroutines : Ahead(b, d)'
  BY <1>1, <1>3 DEF WorkerGet, Publish
<1> QED
  BY <1>2, <1>3 DEF Next, Subscribe, Unsubscribe, PublishAsync, Replay, PurgeDeadLetters,
                    StartBackground, Close, history, vars

(* A handler that fails takes nothing away from the handlers behind it     *)
(* (bus.py:237-264): whatever is interleaved, a delivery that was due is   *)
(* handled, dead-lettered or still ahead, or its handler has unsubscribed. *)
THEOREM NothingSkippedHolds == Spec => []NothingSkipped
<1> DEFINE IInv == Typing /\ WorkersWait /\ Known /\ NothingSkipped
<1>1. Init => IInv
  BY TypingInit DEF Init, WorkersWait, Known, NothingSkipped, Coroutines
<1>2. IInv /\ [Next]_vars => IInv'
  <2> SUFFICES ASSUME IInv, [Next]_vars PROVE IInv'
    OBVIOUS
  <2>1. Typing' /\ WorkersWait' /\ Known'
    BY TypingNext, WorkersWaitNext, KnownNext
  <2>2. ASSUME NEW d \in due, d \notin settled', d[2] \in active', ~ closed'
        PROVE  \E c \in Coroutines : Ahead(c, d)'
    <3>1. d \notin settled /\ d[2] \in active /\ ~ closed
      BY <2>2, SettledStays DEF Known
    <3>2. PICK c \in Coroutines : Ahead(c, d)
      BY <3>1 DEF NothingSkipped, Ahead
    <3> QED
      BY <2>2, <3>2, AheadNext DEF Accounted
  <2>3. NothingSkipped'
    BY <2>2, SettledStays DEF NothingSkipped, Ahead
  <2> QED
    BY <2>1, <2>3
<1> QED
  BY <1>1, <1>2, PTL DEF Spec

-----------------------------------------------------------------------------
(***************************************************************************)
(* Dead letters.  A letter is pushed out only when the store holds one     *)
(* more than its capacity, and then only the oldest: its id has as many    *)
(* younger ones as the capacity, for ids are given once.                   *)
(***************************************************************************)
OneEach(S) == \A q, r \in S : q.id = r.id => q = r

LEMMA KeptOldest ==
  ASSUME NEW n \in Nat, NEW S \in SUBSET Letter, IsFiniteSet(S), OneEach(S),
         \A r \in S : r.id \in 1 .. n,
         Cardinality(S) <= Cap + 1
  PROVE  /\ Kept(S) \subseteq S /\ IsFiniteSet(Kept(S)) /\ Cardinality(Kept(S)) <= Cap
         /\ \A r \in S \ Kept(S) : n - r.id >= Cap
<1>1. CASE Cardinality(S) <= Cap
  <2>1. Kept(S) = S
    BY <1>1, FS_CardinalityType, Parameters DEF Kept
  <2> QED
    BY <1>1, <2>1
<1>2. CASE ~ (Cardinality(S) <= Cap)
  <2>1. Cardinality(S) = Cap + 1 /\ Cardinality(S) > Cap /\ Cap \in Nat
    BY <1>2, FS_CardinalityType, Parameters
  <2>2. IdsOf(S) \subseteq Nat /\ IdsOf(S) # {}
    <3>1. S # {}
      BY <2>1, FS_EmptySet
    <3> QED
      BY <3>1 DEF IdsOf, Letter
  <2>3. PICK m \in IdsOf(S) : \A i \in IdsOf(S) : m <= i
    BY <2>2, Least
  <2>4. PICK o \in S : o.id = m
    BY <2>3 DEF IdsOf
  <2>5. m \in 1 .. n /\ m \in Nat /\ \A r \in S : r.id \in Nat /\ m <= r.id
    BY <2>3, <2>4 DEF IdsOf
  <2>6. Kept(S) = {r \in S : \E q \in S : q.id < r.id}
    BY <2>1 DEF Kept
  <2>7. Kept(S) = S \ {o}
    <3>1. ASSUME NEW r \in S, r # o PROVE o.id < r.id
      BY <2>4, <2>5, <3>1 DEF OneEach
    <3>2. \A q \in S : ~ (q.id < o.id)
      BY <2>4, <2>5
    <3> QED
      BY <2>6, <3>1, <3>2
  <2>8. IsFiniteSet(S \ {o}) /\ Cardinality(S \ {o}) = Cap
    <3>1. IsFiniteSet(S \ {o}) /\ Cardinality(S \ {o}) = Cardinality(S) - 1
      BY <2>4, FS_RemoveElement
    <3> QED
      BY <2>1, <3>1
  <2>9. n - m >= Cap
    <3> DEFINE f == [r \in S |-> r.id]
    <3>0. \A r \in S : r.id \in m .. n
      BY <2>5
    <3>1. f \in Injection(S, m .. n)
      <4>1. f \in [S -> m .. n]
        BY <3>0
      <4>2. \A q, r \in S : f[q] = f[r] => q = r
        BY DEF OneEach
      <4> QED
        BY <4>1, <4>2 DEF Injection, IsInjective
    <3>2. IsFiniteSet(m .. n) /\ Cardinality(m .. n) = n - m + 1
      BY <2>5, FS_Interval
    <3>3. Cardinality(S) <= Cardinality(m .. n)
      BY <3>1, <3>2, FS_Injection
    <3> QED
      BY <2>1, <2>5, <3>2, <3>3
  <2>10. \A r \in S \ Kept(S) : r = o
    BY <2>7
  <2>11. Cardinality(Kept(S)) = Cap
    BY <2>7, <2>8
  <2> QED
    BY <2>1, <2>4, <2>7, <2>8, <2>9, <2>10, <2>11
<1> QED
  BY <1>1, <1>2

LEMMA DeadLetterKeeps ==
  ASSUME Typing, LettersKept, IsFiniteSet(dlq), NEW c \in Coroutines, DeadLetter(c), at[c] = "handler"
  PROVE  LettersKept' /\ IsFiniteSet(dlq')
<1> DEFINE new == [id |-> born + 1, event |-> event[c], handler |-> Head(rest[c]), tries |-> tries[c]]
           S == dlq \cup {new}
<1>1. born \in Nat /\ born' = born + 1 /\ removed' = removed /\ dlq' = Kept(S)
  BY DEF DeadLetter, Typing, LettersTyped
<1>2. new \in Letter /\ new.id = born + 1
  BY Members DEF Letter, Typing, CoroutinesTyped, LettersTyped, Dispatching
<1> HIDE DEF new
<1>3. /\ S \in SUBSET Letter /\ \A r \in S : r.id \in 1 .. born + 1
      /\ \A r \in dlq : r.id \in 1 .. born
  BY <1>1, <1>2 DEF Typing, LettersTyped
<1>4. OneEach(S)
  BY <1>1, <1>2, <1>3 DEF OneEach, LettersKept
<1>5. IsFiniteSet(S) /\ Cardinality(S) <= Cap + 1
  <2>1. new \notin dlq
    BY <1>1, <1>2, <1>3
  <2>2. IsFiniteSet(S) /\ Cardinality(S) = Cardinality(dlq) + 1
    BY <2>1, FS_AddElement
  <2> QED
    BY <2>2, FS_CardinalityType, Parameters DEF LettersKept
<1> HIDE DEF S
<1>6. /\ Kept(S) \subseteq S /\ IsFiniteSet(Kept(S)) /\ Cardinality(Kept(S)) <= Cap
      /\ \A r \in S \ Kept(S) : (born + 1) - r.id >= Cap
  <2>1. born + 1 \in Nat
    BY <1>1
  <2> QED
    BY <1>3, <1>4, <1>5, <2>1, KeptOldest
<1>7. ASSUME NEW i \in 1 .. born + 1
      PROVE  i \in IdsOf(Kept(S)) \/ i \in removed \/ (born + 1) - i >= Cap
  <2>1. CASE i \in IdsOf(S)
    <3>1. PICK r \in S : r.id = i
      BY <2>1 DEF IdsOf
    <3> QED
      BY <1>6, <3>1 DEF IdsOf
  <2>2. CASE i \notin IdsOf(S)
    <3>1. i # born + 1 /\ i \notin IdsOf(dlq)
      BY <1>2, <2>2 DEF IdsOf, S
    <3>2. i \in removed \/ born - i >= Cap
      BY <1>1, <3>1 DEF LettersKept
    <3> QED
      BY <1>1, <3>2, Parameters
  <2> QED
    BY <2>1, <2>2
<1>8. OneEach(Kept(S))
  BY <1>4, <1>6 DEF OneEach
<1> QED
  BY <1>1, <1>6, <1>7, <1>8 DEF LettersKept, OneEach

LEMMA PurgeKeeps ==
  ASSUME Typing, LettersKept, IsFiniteSet(dlq), NEW K, Purge(K), UNCHANGED born
  PROVE  LettersKept' /\ IsFiniteSet(dlq')
<1>1. dlq' = NotOfType(dlq, K) /\ removed' = removed \cup IdsOf(OfType(dlq, K))
  BY DEF Purge
<1>2. dlq' \subseteq dlq
  BY <1>1 DEF NotOfType
<1>3. /\ IsFiniteSet(dlq') /\ Cardinality(dlq') \in Nat /\ Cardinality(dlq) \in Nat
      /\ Cardinality(dlq') <= Cardinality(dlq)
  BY <1>2, FS_Subset, FS_CardinalityType
<1>4. IdsOf(dlq) = IdsOf(dlq') \cup IdsOf(OfType(dlq, K))
  BY <1>1 DEF IdsOf, OfType, NotOfType
<1> QED
  BY <1>1, <1>2, <1>3, <1>4, Parameters DEF LettersKept

LEMMA LettersKeptNext ==
  ASSUME Typing, LettersKept, IsFiniteSet(dlq), [Next]_vars
  PROVE  LettersKept' /\ IsFiniteSet(dlq')
<1>1. CASE UNCHANGED letters
  BY <1>1 DEF letters, LettersKept, IdsOf
<1>2. ASSUME NEW c \in Coroutines, Deliver(c) PROVE (DeadLetter(c) /\ at[c] = "handler") \/ UNCHANGED letters
  BY <1>2 DEF Deliver, Call, Return, Succeed, FailForGood, Fail, Retry, PublishNext
<1>3. ASSUME NEW K, Purge(K), UNCHANGED born PROVE LettersKept' /\ IsFiniteSet(dlq')
  BY <1>3, PurgeKeeps
<1> QED
  BY <1>1, <1>2, <1>3, DeadLetterKeeps
  DEF Next, Subscribe, Unsubscribe, WorkerGet, Publish, PublishAsync, Replay, PurgeDeadLetters,
      StartBackground, Close, vars

(* A dead letter leaves the store only with a replay or a purge of its     *)
(* type, or when Cap younger ones have pushed it out (dlq.py:37-60), for   *)
(* every capacity and every order of failures, replays and purges.         *)
THEOREM LettersKeptHolds == Spec => []LettersKept
<1> DEFINE IInv == Typing /\ WorkersWait /\ LettersKept /\ IsFiniteSet(dlq)
<1>1. Init => IInv
  <2> SUFFICES ASSUME Init PROVE IInv
    OBVIOUS
  <2>1. dlq = {} /\ born = 0 /\ Cardinality({}) = 0 /\ IsFiniteSet({})
    BY FS_EmptySet DEF Init
  <2>2. LettersKept
    BY <2>1, Parameters DEF LettersKept
  <2> QED
    BY <2>1, <2>2, TypingInit DEF Init, WorkersWait, Coroutines
<1>2. IInv /\ [Next]_vars => IInv'
  BY TypingNext, WorkersWaitNext, LettersKeptNext
<1> QED
  BY <1>1, <1>2, PTL DEF Spec
=============================================================================
