---------------------------- MODULE RateLimits ----------------------------
(***************************************************************************)
(* The limiter and the retries that the Keepa client and the SerpApi       *)
(* client each have (KeepaRateLimiter and RetailerRateLimiter are the same *)
(* code).  Times count down: `since' is the time since the last request    *)
(* went out, up to the limiter's interval, `wait' what is left of a sleep. *)
(***************************************************************************)
EXTENDS Sessions

MinInterval == 2     \* 60 / requests_per_minute
MaxRetries == 2      \* 3 in the code
RetryMaxDelay == 2
RetryAfter == 3

Limiter(cached) == [since : 0 .. MinInterval, lock : Clients \cup {Nobody}, cache : SUBSET cached, running : BOOLEAN]

Ready == [since |-> MinInterval, lock |-> Nobody, cache |-> {}, running |-> FALSE]

To(c, new, memory) == req' = [req EXCEPT ![c] = new] /\ mem' = memory /\ UNCHANGED <<db, calls>>
Go(c, op) == [req[c] EXCEPT !.op = op]

\* A request for the products of `todo', of the job or not, no more than the allowance.
Begin(c, todo, job, allowance) ==
  /\ req[c].op = "idle" /\ calls < MaxCalls
  /\ req' = [req EXCEPT ![c] = [op |-> "look", todo |-> todo, job |-> job, allowance |-> allowance, attempt |-> 0, wait |-> 0]]
  /\ calls' = calls + 1
  /\ UNCHANGED <<db, mem>>

\* The next product of the request, or its end.
Following(c) ==
  IF Len(req[c].todo) = 1 THEN Idle ELSE [req[c] EXCEPT !.op = "look", !.todo = Tail(@), !.attempt = 0, !.wait = 0]

\* acquire: the lock is held for the rest of the interval.
Acquire(c) ==
  /\ req[c].op = "acquire" /\ req[c].wait = 0 /\ mem.lock = Nobody
  /\ To(c, [Go(c, "wait") EXCEPT !.wait = MinInterval - mem.since], [mem EXCEPT !.lock = c])

Send(c) == req[c].op = "wait" /\ req[c].wait = 0 /\ To(c, Go(c, "sent"), [mem EXCEPT !.since = 0, !.lock = Nobody])

\* _get_retry_delay without its jitter; the delays before the cap are the powers of two.
RetryDelay(attempt) == Least(<<1, 2, 4>>[attempt + 1], RetryMaxDelay)

\* What follows an answer that is not good: 429 is retried as long as there are attempts
\* and slept on even after the last; a server's error or no answer in time is retried after
\* a growing delay; anything else is given up at once.
Refused(c, status) ==
  LET again == [Go(c, "acquire") EXCEPT !.attempt = @ + 1, !.wait = IF status = 429 THEN RetryAfter ELSE RetryDelay(req[c].attempt)]
      left == req[c].attempt < MaxRetries
  IN /\ req[c].op = "sent"
     /\ To(c, CASE status \in {429, 500} /\ left -> again
                [] status = 429 /\ ~left -> [Go(c, "failed") EXCEPT !.wait = RetryAfter]
                [] OTHER -> Go(c, "failed"), mem)

\* Time passes for whoever sleeps.
Tick ==
  /\ \E c \in Clients : req[c].op # "idle" /\ req[c].wait > 0
  /\ mem' = [mem EXCEPT !.since = Least(@ + 1, MinInterval)]
  /\ req' = [c \in Clients |-> IF req[c].op = "idle" THEN Idle ELSE [req[c] EXCEPT !.wait = Greatest(0, @ - 1)]]
  /\ UNCHANGED <<db, calls>>

\* start and stop of a refresh job: stop cancels its task wherever that waits, and the
\* limiter's lock is released on the way out.
StartJob == ~mem.running /\ calls < MaxCalls /\ mem' = [mem EXCEPT !.running = TRUE] /\ calls' = calls + 1 /\ UNCHANGED <<db, req>>

Refreshing == {c \in Clients : req[c].op # "idle" /\ req[c].job}

CancelJob ==
  /\ mem.running
  /\ mem' = [mem EXCEPT !.running = FALSE, !.lock = IF @ \in Refreshing THEN Nobody ELSE @]
  /\ req' = [c \in Clients |-> IF c \in Refreshing THEN Idle ELSE req[c]]
  /\ UNCHANGED calls

-----------------------------------------------------------------------------
Steps == {"idle", "look", "acquire", "wait", "sent", "failed"}

RequestsTyped ==
  \A c \in Clients : req[c].op \in Steps /\ (req[c].op # "idle" => req[c].attempt \in 0 .. MaxRetries /\ req[c].wait \in 0 .. RetryAfter)

\* The lock is held by the one that waits for the interval, and that long enough.
LimiterSound ==
  \A c \in Clients :
    /\ req[c].op = "wait" <=> mem.lock = c
    /\ req[c].op = "wait" => mem.since + req[c].wait >= MinInterval

\* Two requests are at least the limiter's interval apart, whatever is cancelled, and one
\* product is asked for no more often than the retries allow.
Paced ==
  /\ mem'.since < mem.since => mem.since = MinInterval
  /\ \A c \in Clients :
       req[c].op = "sent" /\ req'[c].op = "acquire" => req'[c].attempt = req[c].attempt + 1 /\ req'[c].todo = req[c].todo
=============================================================================
