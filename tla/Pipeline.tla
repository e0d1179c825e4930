------------------------------ MODULE Pipeline ------------------------------
(***************************************************************************)
(* What the agent's workers do with a task (app/agent: worker.py,          *)
(* pipeline.py, logger.py, notifier.py, wired in api/v1/agent.py): they    *)
(* scan a supplier, decide on each product, write the decision to the log  *)
(* in Redis, remember what it taught and tell whoever wants to know.  A    *)
(* client of Sessions is a worker.  All workers share the database session *)
(* of the request that made the agent, which nobody commits or rolls back  *)
(* any more: `mem.open' is what it holds, and an error in it stays.        *)
(***************************************************************************)
EXTENDS Sessions

MaxProducts == 2  \* max_products_per_supplier_per_cycle
KeptIds == 2      \* 10 000 in the code
Pages == {<<>>, <<"a">>, SetToSeq(Ids)}
MaxDecisions == MaxCalls - 1  \* bound: how often the workers decide

DecisionAction == {"BUY", "WATCH", "AVOID", "SKIP", "ERROR"}
TaskType == {"supplier_cycle", "full_pipeline", "retrieve_amazon"}
LogSteps == {"set", "lpush", "ltrim", "incr"}

Lesson == {"purchase", "favorite_supplier", "category", "false_positive"} \X Ids

TypeOK ==
  /\ DOMAIN db.records \subseteq 1 .. MaxCalls
  /\ \A id \in DOMAIN db.records : db.records[id] \in [sku : Ids, action : DecisionAction]
  /\ ToSet(db.index) \subseteq 1 .. MaxCalls /\ db.counter \in Nat
  /\ mem \in [sound : BOOLEAN, open : SUBSET Lesson, notified : SUBSET Ids, reported : Nat]
  /\ \A c \in Clients : req[c].op \in {"idle", "scan", "find", "retrieve", "remember", "notify"} \cup LogSteps

Init ==
  /\ db = [records |-> <<>>, index |-> <<>>, counter |-> 0]
  /\ mem = [sound |-> TRUE, open |-> {}, notified |-> {}, reported |-> 0]
  /\ NoRequests

-----------------------------------------------------------------------------
To(c, new) == req' = [req EXCEPT ![c] = new]
Sku(c) == Head(req[c].todo)

\* _execute_task; a scan of its own changes nothing.
ExecuteTask(c, type) ==
  /\ req[c].op = "idle" /\ calls < MaxDecisions
  /\ To(c, [type |-> type, todo |-> <<"a">>, done |-> 0, id |-> 0, action |-> "SKIP", failing |-> FALSE,
            op |-> CASE type = "full_pipeline" -> "find" [] type = "retrieve_amazon" -> "retrieve" [] OTHER -> "scan"])
  /\ UNCHANGED <<db, mem, calls>>

\* An error in the shared session ends its transaction; what it held is gone.
Broken == [mem EXCEPT !.sound = FALSE, !.open = {}]

\* scan_supplier: an error is the task's.
ScanSupplier(c) ==
  /\ req[c].op = "scan"
  /\ \E page \in Pages :
       To(c, IF page = <<>> THEN Idle ELSE [req[c] EXCEPT !.op = "find", !.todo = page])
  /\ UNCHANGED <<db, mem, calls>>
ScanFails(c) == req[c].op = "scan" /\ To(c, Idle) /\ UNCHANGED <<db, mem, calls>>

\* retrieve_amazon_data: an error is no data, and the session keeps it.
RetrieveAmazonData(c) ==
  /\ req[c].op = "retrieve"
  /\ To(c, Idle) /\ mem' \in {mem, Broken} /\ UNCHANGED <<db, calls>>

\* run_full_pipeline up to the log: a product that is unknown is skipped; one that cannot be
\* evaluated is an error.  The engine swallows the last queries of an evaluation that fail, so
\* that a decision may break the session it is made in; in one that is broken a product is an
\* error, or skipped if it has nothing to look it up by.  `failing' says that the error is
\* handled already.
Decide(c) ==
  /\ req[c].op = "find" /\ calls < MaxDecisions
  /\ \E action \in DecisionAction, failing \in BOOLEAN :
       /\ failing => action = "ERROR"
       /\ mem.sound \/ failing \/ action = "SKIP"
       /\ To(c, [req[c] EXCEPT !.op = "set", !.id = calls + 1, !.action = action, !.failing = failing])
       /\ mem' \in {mem} \cup (IF action = "SKIP" THEN {} ELSE {Broken})
  /\ calls' = calls + 1 /\ UNCHANGED db

\* The commands of DecisionLogger.log, each at its step.
Logged(c) ==
  LET id == req[c].id
  IN CASE req[c].op = "set" -> [db EXCEPT !.records = With(@, id, [sku |-> Sku(c), action |-> req[c].action])]
       [] req[c].op = "lpush" -> [db EXCEPT !.index = <<id>> \o @]
       [] req[c].op = "ltrim" -> [db EXCEPT !.index = SubSeq(@, 1, Least(Len(@), KeptIds))]
       [] req[c].op = "incr" -> [db EXCEPT !.counter = @ + 1]

\* _run_supplier_cycle after a decision: the next product, the next page or the result.
NextProduct(c) ==
  LET done == req[c].done + 1
  IN IF req[c].type = "full_pipeline" \/ done = MaxProducts THEN Idle
     ELSE IF Len(req[c].todo) = 1 THEN [req[c] EXCEPT !.op = "scan", !.done = done]
     ELSE [req[c] EXCEPT !.op = "find", !.done = done, !.todo = Tail(@)]

Returns(c, memory) == To(c, NextProduct(c)) /\ mem' = [memory EXCEPT !.reported = @ + 1]

\* A command that is answered: after the last one the decision is there to learn from.
LogCommand(c) ==
  /\ req[c].op \in LogSteps
  /\ db' = Logged(c)
  /\ CASE req[c].op = "set" -> To(c, [req[c] EXCEPT !.op = "lpush"]) /\ UNCHANGED mem
       [] req[c].op = "lpush" -> To(c, [req[c] EXCEPT !.op = "ltrim"]) /\ UNCHANGED mem
       [] req[c].op = "ltrim" -> To(c, [req[c] EXCEPT !.op = "incr"]) /\ UNCHANGED mem
       [] req[c].op = "incr" /\ req[c].action \in {"SKIP", "ERROR"} -> Returns(c, mem)
       [] OTHER -> To(c, [req[c] EXCEPT !.op = "remember"]) /\ UNCHANGED mem
  /\ UNCHANGED calls

\* One that is not answered, carried out or not: run_full_pipeline turns the decision into an
\* error and logs that, once; a second error is the task's.
LogFails(c) ==
  /\ req[c].op \in LogSteps
  /\ db' \in {db, Logged(c)}
  /\ To(c, IF req[c].failing THEN Idle ELSE [req[c] EXCEPT !.op = "set", !.action = "ERROR", !.failing = TRUE])
  /\ UNCHANGED <<mem, calls>>

\* _record_decision_memory: nothing it does fails the decision.
Lessons(c) ==
  CASE req[c].action = "BUY" -> <<<<"purchase", Sku(c)>>, <<"favorite_supplier", Sku(c)>>, <<"category", Sku(c)>>>>
    [] req[c].action = "AVOID" -> <<<<"false_positive", Sku(c)>>>>
    [] OTHER -> <<>>

RecordDecisionMemory(c) ==
  /\ req[c].op = "remember"
  /\ \/ mem.sound /\ \E n \in 0 .. Len(Lessons(c)) : mem' = [mem EXCEPT !.open = @ \cup ToSet(SubSeq(Lessons(c), 1, n))]
     \/ Lessons(c) # <<>> /\ mem' = Broken
     \/ ~mem.sound /\ UNCHANGED mem
  /\ To(c, [req[c] EXCEPT !.op = "notify"]) /\ UNCHANGED <<db, calls>>

\* notify_opportunity, at most once an hour for a product, and notify_watch.
Notify(c) ==
  /\ req[c].op = "notify"
  /\ Returns(c, IF req[c].action = "BUY" THEN [mem EXCEPT !.notified = @ \cup {Sku(c)}] ELSE mem)
  /\ UNCHANGED <<db, calls>>

HourPasses == mem.notified # {} /\ mem' = [mem EXCEPT !.notified = {}] /\ UNCHANGED <<db, req, calls>>

\* _process_task and Worker.stop: the task is cancelled wherever it waits, which breaks the
\* session if that is a query.
Cancelled(c) ==
  /\ req[c].op # "idle" /\ To(c, Idle)
  /\ db' \in {db} \cup (IF req[c].op \in LogSteps THEN {Logged(c)} ELSE {})
  /\ mem' \in {mem} \cup (IF req[c].op \in {"find", "retrieve", "remember"} THEN {Broken} ELSE {})
  /\ UNCHANGED calls

Next ==
  \/ \E c \in Clients :
       \/ \E type \in TaskType : ExecuteTask(c, type)
       \/ ScanSupplier(c) \/ ScanFails(c) \/ RetrieveAmazonData(c) \/ Decide(c) \/ LogCommand(c) \/ LogFails(c)
       \/ RecordDecisionMemory(c) \/ Notify(c) \/ Cancelled(c)
  \/ HourPasses

Spec == Init /\ [][Next]_sessionVars

-----------------------------------------------------------------------------
\* get_recent and stats of the log, as the monitor shows them.
Recent(limit) == [i \in 1 .. Least(limit, Len(db.index)) |-> db.records[db.index[i]].action]
Stats == [total |-> db.counter, errors |-> Cardinality({i \in DOMAIN Recent(100) : Recent(100)[i] = "ERROR"})]

RecordedAs(sku, action) == \E id \in DOMAIN db.records : db.records[id] = [sku |-> sku, action |-> action]

\* What the log lists can be read; what it lists twice is the error of a decision that could
\* not be written at once; every decision a worker reported is counted; and whatever was
\* learnt or told rests on a decision in the log.
Integrity ==
  /\ ToSet(db.index) \subseteq DOMAIN db.records
  /\ \A i, j \in DOMAIN Recent(100) : i # j /\ db.index[i] = db.index[j] => Recent(100)[i] = "ERROR" /\ Stats.errors >= 2
  /\ mem.reported <= Stats.total
  /\ \A lesson \in mem.open : RecordedAs(lesson[2], IF lesson[1] = "false_positive" THEN "AVOID" ELSE "BUY")
  /\ \A sku \in mem.notified : RecordedAs(sku, "BUY")

\* A decision in the log may turn into an error and changes in nothing else; what was learnt
\* is lost with the whole session and never piece by piece.
LegalStep ==
  /\ \A id \in DOMAIN db.records :
       id \in DOMAIN db'.records /\ db'.records[id] \in {db.records[id], [db.records[id] EXCEPT !.action = "ERROR"]}
  /\ db'.counter >= db.counter
  /\ mem.open \subseteq mem'.open \/ (mem'.open = {} /\ ~mem'.sound)
=============================================================================
