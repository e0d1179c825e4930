----------------------------- MODULE Research -----------------------------
(***************************************************************************)
(* Lookups of retailers' products through SerpApi and the job that         *)
(* refreshes the monitored ones (app/integrations/retailers: client.py,    *)
(* service.py, scheduler.py, lifecycle.py).  The commands of the budget    *)
(* are in RetailerBudget; here a unit of it is taken or given back in one  *)
(* step, and what it was spent on is counted.                              *)
(***************************************************************************)
EXTENDS RateLimits

MonthlyBudget == 2
DailyAllowance(left) == IF left = 0 THEN 0 ELSE 1

\* `spent': units for answers, `lost': units of cancelled requests; `answers': what the
\* month paid for.
TypeOK ==
  /\ mem \in Limiter(Ids) /\ RequestsTyped
  /\ db \in [left : 0 .. MonthlyBudget, spent : 0 .. MonthlyBudget, lost : 0 .. MonthlyBudget]

Init == db = [left |-> MonthlyBudget, spent |-> 0, lost |-> 0] /\ mem = Ready /\ NoRequests

-----------------------------------------------------------------------------
\* A lookup of the API, and the cycle of the job: the allowance is read once at its start.
Lookup(c) == \E k \in Ids : Begin(c, <<k>>, FALSE, 1)
RefreshCycle(c) ==
  /\ mem.running /\ Refreshing = {} /\ DailyAllowance(db.left) > 0
  /\ Begin(c, SetToSeq(Ids), TRUE, DailyAllowance(db.left))

\* _refresh_cycle after a product that was refreshed, from the cache too, or failed.
Refreshed(c, ok) ==
  LET left == req[c].allowance - (IF ok THEN 1 ELSE 0)
  IN IF left = 0 \/ Len(req[c].todo) = 1 THEN Idle ELSE [Following(c) EXCEPT !.allowance = left]

\* _request: what is cached costs nothing, and without budget the whole cycle ends.
Cached(c) == req[c].op = "look" /\ Head(req[c].todo) \in mem.cache /\ To(c, Refreshed(c, TRUE), mem)
TryAcquire(c) ==
  /\ req[c].op = "look" /\ Head(req[c].todo) \notin mem.cache
  /\ db' = IF db.left = 0 THEN db ELSE [db EXCEPT !.left = @ - 1]
  /\ req' = [req EXCEPT ![c] = IF db.left = 0 THEN Idle ELSE Go(c, "acquire")]
  /\ UNCHANGED <<mem, calls>>

Answered(c) ==
  /\ req[c].op = "sent"
  /\ db' = [db EXCEPT !.spent = @ + 1] /\ mem' = [mem EXCEPT !.cache = @ \cup {Head(req[c].todo)}]
  /\ req' = [req EXCEPT ![c] = Refreshed(c, TRUE)] /\ UNCHANGED calls

\* release, on any error but a cancellation.
Released(c) ==
  /\ req[c].op = "failed" /\ req[c].wait = 0
  /\ db' = [db EXCEPT !.left = @ + 1]
  /\ req' = [req EXCEPT ![c] = Refreshed(c, FALSE)] /\ UNCHANGED <<mem, calls>>

Holding == {"acquire", "wait", "sent", "failed"}

\* RetailerRefreshJob.stop, at shutdown: CancelledError is no Exception, so the unit that
\* the cancelled request holds is not released.
StopRefresh ==
  /\ CancelJob
  /\ db' = [db EXCEPT !.lost = @ + Cardinality({c \in Refreshing : req[c].op \in Holding})]

\* The cache forgets after cache_ttl_seconds.
CacheExpires == \E k \in mem.cache : mem' = [mem EXCEPT !.cache = @ \ {k}] /\ UNCHANGED <<db, req, calls>>

Next ==
  \/ \E c \in Clients :
       \/ Lookup(c) \/ RefreshCycle(c) \/ Cached(c) \/ TryAcquire(c) \/ Acquire(c) \/ Send(c) \/ Answered(c) \/ Released(c)
       \/ \E status \in {401, 429, 500} : Refused(c, status)
  \/ Tick \/ StartJob \/ StopRefresh \/ CacheExpires

Spec == Init /\ [][Next]_sessionVars

-----------------------------------------------------------------------------
\* Every unit of the month is left, held by a lookup that is on its way, spent on an answer,
\* or lost to a cancellation: no lookup that failed costs one.
Integrity ==
  /\ LimiterSound
  /\ db.left + db.spent + db.lost + Cardinality({c \in Clients : req[c].op \in Holding}) = MonthlyBudget

\* Nothing is searched for without a unit; what was spent or lost stays so.
LegalStep == Paced /\ db'.spent >= db.spent /\ db'.lost >= db.lost /\ (db'.lost > db.lost => mem.running /\ ~mem'.running)
=============================================================================
