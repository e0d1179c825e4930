----------------------------- MODULE EventStream -----------------------------
(***************************************************************************)
(* One topic of the distributed bus: BrokeredEventBus (app/events/bus.py)  *)
(* on RedisStreamsBroker (app/events/broker.py).  Every process runs one   *)
(* consumer coroutine for the topic; all of them read the same stream with *)
(* the same consumer group and the same consumer name.  Redis itself is    *)
(* external: XADD, XREADGROUP with ">", XACK.                              *)
(***************************************************************************)
EXTENDS Naturals, SequencesExt

CONSTANTS
  Events,    \* the events published to the topic, each once
  Instances, \* processes with a BrokeredEventBus
  Batch,     \* count=batch_size of XREADGROUP
  Corrupt,   \* events whose bytes deserialize_event rejects
  Faults,    \* "crash" a process ends, "error" a Redis command raises
  MaxFaults  \* BOUND: faults

ASSUME StreamAssumption ==
  /\ Batch \in Nat \ {0}
  /\ Corrupt \subseteq Events
  /\ Faults \subseteq {"crash", "error"}
  /\ MaxFaults \in Nat

VARIABLES
  todo,      \* events not published yet
  stream,    \* the Redis stream
  next,      \* how many entries the group has handed out (last-delivered-id)
  pel,       \* the group's pending entries
  at,        \* each process: where its consumer coroutine is
  started,   \* each process: BrokeredEventBus._started
  batch,     \* each process: entries read and not yet yielded, the current one first
  delivered, \* history, each process: what its local bus was handed, in order
  faults     \* faults so far

consumer == <<at, started, batch>>
vars == <<todo, stream, next, pel, consumer, delivered, faults>>

-----------------------------------------------------------------------------
TypeOK ==
  /\ todo \in SUBSET Events
  /\ stream \in Seq(Events)
  /\ next \in 0 .. Len(stream)
  /\ pel \in SUBSET Events
  /\ at \in [Instances -> {"down", "read", "yield", "ack", "dead"}]
  /\ started \in [Instances -> BOOLEAN]
  /\ batch \in [Instances -> Seq(Events)]
  /\ delivered \in [Instances -> Seq(Events)]
  /\ faults \in 0 .. MaxFaults

Init ==
  /\ todo = Events
  /\ stream = <<>>
  /\ next = 0
  /\ pel = {}
  /\ at = [i \in Instances |-> "down"]
  /\ started = [i \in Instances |-> FALSE]
  /\ batch = [i \in Instances |-> <<>>]
  /\ delivered = [i \in Instances |-> <<>>]
  /\ faults = 0

Goto(i, where) == at' = [at EXCEPT ![i] = where]

\* publish: XADD.
Publish(e) ==
  /\ e \in todo
  /\ todo' = todo \ {e}
  /\ stream' = Append(stream, e)
  /\ UNCHANGED <<next, pel, consumer, delivered, faults>>

\* start, once per bus; the group is created at id 0 or is there already.
Start(i) ==
  /\ ~started[i]
  /\ started' = [started EXCEPT ![i] = TRUE]
  /\ Goto(i, "read")
  /\ UNCHANGED <<todo, stream, next, pel, batch, delivered, faults>>

\* Mutants of Read: entries handed out and not acknowledged are handed out again; the
\* position moves one entry too far.
ReadPendingAgain(i) ==
  /\ at[i] = "read"
  /\ \E n \in 1 .. Batch :
       /\ next + n <= Len(stream)
       /\ batch' = [batch EXCEPT ![i] = SubSeq(stream, next + 1, next + n)]
       /\ pel' = pel \cup ToSet(SubSeq(stream, next + 1, next + n))
  /\ Goto(i, "yield")
  /\ UNCHANGED <<todo, stream, next, started, delivered, faults>>

ReadSkips(i) ==
  /\ at[i] = "read"
  /\ \E n \in 1 .. Batch :
       /\ next + n <= Len(stream)
       /\ next' = next + n + 1
       /\ batch' = [batch EXCEPT ![i] = SubSeq(stream, next + 1, next + n)]
       /\ pel' = pel \cup ToSet(SubSeq(stream, next + 1, next + n))
  /\ Goto(i, "yield")
  /\ UNCHANGED <<todo, stream, started, delivered, faults>>

\* XREADGROUP ">": entries the group has not handed out, at most Batch of them.
Read(i) ==
  /\ at[i] = "read"
  /\ \E n \in 1 .. Batch :
       /\ next + n <= Len(stream)
       /\ n < Batch => next + n = Len(stream)
       /\ next' = next + n
       /\ batch' = [batch EXCEPT ![i] = SubSeq(stream, next + 1, next + n)]
       /\ pel' = pel \cup ToSet(SubSeq(stream, next + 1, next + n))
  /\ Goto(i, "yield")
  /\ UNCHANGED <<todo, stream, started, delivered, faults>>

\* Mutants of Yield: an undecodable entry ends the consumer; the entry is acknowledged
\* and not handed on.
YieldBreaks(i) ==
  /\ at[i] = "yield"
  /\ IF Head(batch[i]) \in Corrupt
     THEN Goto(i, "dead") /\ UNCHANGED delivered
     ELSE Goto(i, "ack") /\ delivered' = [delivered EXCEPT ![i] = Append(@, Head(batch[i]))]
  /\ UNCHANGED <<todo, stream, next, pel, started, batch, faults>>

YieldOnlyAcks(i) ==
  /\ at[i] = "yield"
  /\ pel' = pel \ {Head(batch[i])}
  /\ Goto(i, "ack")
  /\ UNCHANGED <<todo, stream, next, started, batch, delivered, faults>>

\* The consumer gets the bytes: local.publish, or a log line if they do not decode.
Yield(i) ==
  /\ at[i] = "yield"
  /\ delivered' = IF Head(batch[i]) \in Corrupt THEN delivered
                  ELSE [delivered EXCEPT ![i] = Append(@, Head(batch[i]))]
  /\ Goto(i, "ack")
  /\ UNCHANGED <<todo, stream, next, pel, started, batch, faults>>

\* The generator is resumed: XACK, then the next entry or the next read.
Ack(i) ==
  /\ at[i] = "ack"
  /\ pel' = pel \ {Head(batch[i])}
  /\ batch' = [batch EXCEPT ![i] = Tail(@)]
  /\ Goto(i, IF Len(batch[i]) = 1 THEN "read" ELSE "yield")
  /\ UNCHANGED <<todo, stream, next, started, delivered, faults>>

Consume(i) == Read(i) \/ Yield(i) \/ Ack(i)

\* The process ends, or aclose cancels the consumer; a new process may follow.
Crash(i) ==
  /\ "crash" \in Faults
  /\ faults < MaxFaults
  /\ started[i]
  /\ faults' = faults + 1
  /\ started' = [started EXCEPT ![i] = FALSE]
  /\ batch' = [batch EXCEPT ![i] = <<>>]
  /\ Goto(i, "down")
  /\ UNCHANGED <<todo, stream, next, pel, delivered>>

\* A Redis error in XREADGROUP or XACK ends the consumer task; _started stays set.  In
\* "yield" it is the reply of an XREADGROUP that got lost.
RedisError(i) ==
  /\ "error" \in Faults
  /\ faults < MaxFaults
  /\ at[i] \in {"read", "yield", "ack"}
  /\ pel' = pel \/ (at[i] = "ack" /\ pel' = pel \ {Head(batch[i])})
  /\ faults' = faults + 1
  /\ batch' = [batch EXCEPT ![i] = <<>>]
  /\ Goto(i, "dead")
  /\ UNCHANGED <<todo, stream, next, started, delivered>>

Next ==
  \/ \E e \in Events : Publish(e)
  \/ \E i \in Instances : Start(i) \/ Consume(i) \/ Crash(i) \/ RedisError(i)

Spec == Init /\ [][Next]_vars

(***************************************************************************)
(* Consumers are tasks that await Redis, which answers; a process that is  *)
(* down is started again, as the deployment's restart policy does.         *)
(***************************************************************************)
Fairness == \A i \in Instances : WF_vars(Consume(i)) /\ WF_vars(Start(i))

FairSpec == Spec /\ Fairness

-----------------------------------------------------------------------------
(***************************************************************************)
(* Properties.                                                             *)
(***************************************************************************)

Delivered == UNION {ToSet(delivered[i]) : i \in Instances}

Precedes(s, d, e) == \E k, l \in 1 .. Len(s) : k < l /\ s[k] = d /\ s[l] = e

(* Each process hands events on in the order of the stream and none twice, *)
(* whoever reads between its reads, and across its crashes and restarts.   *)
InStreamOrder ==
  \A i \in Instances : \A m, n \in 1 .. Len(delivered[i]) :
    m < n => Precedes(stream, delivered[i][m], delivered[i][n])

(* An entry the group has handed out and nobody owes an acknowledgement    *)
(* was passed to a local bus (or does not decode): XACK follows delivery.  *)
AckedIsDelivered ==
  \A k \in 1 .. next : stream[k] \in pel \cup Delivered \cup Corrupt

(* An event that decodes reaches a local bus.  Faults can keep only those  *)
(* from it that the group had handed out to a consumer that failed, or all *)
(* when every consumer has ended: one corrupt entry, one crash, one Redis  *)
(* error take nothing else away.                                           *)
EveryEventArrives ==
  \A e \in Events \ Corrupt :
    e \in ToSet(stream) ~>
      \/ e \in Delivered
      \/ e \in pel /\ \A i \in Instances : e \notin ToSet(batch[i])
      \/ \A i \in Instances : at[i] = "dead"

-----------------------------------------------------------------------------
(* broker.py:88, at-least-once: an event arrives also when the process it  *)
(* was handed to crashes and is started again.                             *)
AtLeastOnce == \A e \in Events \ Corrupt : e \in ToSet(stream) ~> e \in Delivered

(* broker.py:86, docs/EVENTS.md:243: each instance gets a copy of every    *)
(* event.  All of them read with the one group of the topic, which hands   *)
(* an entry to one of them.                                                *)
FanOut ==
  \A e \in Events \ Corrupt, i \in Instances : e \in ToSet(stream) ~> e \in ToSet(delivered[i])
=============================================================================
