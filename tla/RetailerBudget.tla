--------------------------- MODULE RetailerBudget ---------------------------
(***************************************************************************)
(* The monthly search budget of the retailer integration                   *)
(* (app/integrations/retailers/budget.py) and the lookups that spend it    *)
(* (SerpApiClient._request in client.py).  The counter of a month is one   *)
(* Redis key shared by every process; try_acquire is INCR, EXPIRE and DECR *)
(* with awaits between them.  Without Redis it is a dictionary under a     *)
(* lock nobody awaits in, so each method is one step.                      *)
(*                                                                         *)
(* The key is given int(seconds until the next month) to live, at least    *)
(* one: when EXPIRE is sent before the last second of a month, the key     *)
(* goes somewhere in that second, and the count of the month starts again. *)
(* The clock therefore tells the last second of a month from the time      *)
(* before it.                                                              *)
(***************************************************************************)
EXTENDS Integers, FiniteSets

CONSTANTS
  Callers,   \* coroutines that look products up, in any process
  Limit,     \* monthly_limit
  LastMonth, \* BOUND: the months are 1 .. LastMonth
  Faults,    \* "redis": a command raises; "cancel": a lookup is cancelled
  MaxLookups \* BOUND: lookups made

Months == 1 .. LastMonth

ASSUME BudgetAssumption ==
  /\ IsFiniteSet(Callers)
  /\ Limit \in Nat
  /\ LastMonth \in Nat \ {0}
  /\ Faults \subseteq {"redis", "cancel"}
  /\ MaxLookups \in Nat

VARIABLES
  shared,   \* whether there is a Redis client (get_redis): set once
  used,     \* retailer:budget:<month>, or _local[<month>]
  keys,     \* the months that have a key in Redis
  due,      \* of each key: the moment from which it may be gone, 0 if it has no time to live
  month,    \* the month of datetime.now
  last,     \* whether less than a second of it is left
  at,       \* each caller: the command it issues next, "search" in the request
  key,      \* each caller: the month whose key its try_acquire has counted in
  lookups,  \* lookups made
  spent,    \* history: searches that succeeded, by the month they were counted in
  strays,   \* history: tokens released into a month they were not taken from
  opens,    \* history: lookups of each month let through by a Redis error
  cut,      \* history: months whose first INCR was cancelled before its EXPIRE
  lost      \* history: what a month's counter was when its key went before the month's end

vars == <<shared, used, keys, due, month, last, at, key, lookups, spent, strays, opens, cut, lost>>

\* The moments: month m before its last second is 2m - 1, its last second 2m.
Now == 2 * month - (IF last THEN 0 ELSE 1)

-----------------------------------------------------------------------------
TypeOK ==
  /\ shared \in BOOLEAN
  /\ used \in [Months -> Int]
  /\ keys \in SUBSET Months
  /\ due \in [Months -> 0 .. 2 * LastMonth + 1]
  /\ month \in Months
  /\ last \in BOOLEAN
  /\ at \in [Callers -> {"idle", "expire", "undo", "search", "release"}]
  /\ key \in [Callers -> Months]
  /\ lookups \in 0 .. MaxLookups
  /\ spent \in [Months -> Nat]
  /\ strays \in [Months -> Nat]
  /\ opens \in [Months -> Nat]
  /\ cut \in SUBSET Months
  /\ lost \in [Months -> Int]

Init ==
  /\ shared \in BOOLEAN
  /\ used = [m \in Months |-> 0]
  /\ keys = {}
  /\ due = [m \in Months |-> 0]
  /\ month = 1
  /\ last = FALSE
  /\ at = [c \in Callers |-> "idle"]
  /\ key = [c \in Callers |-> 1]
  /\ lookups = 0
  /\ spent = [m \in Months |-> 0]
  /\ strays = [m \in Months |-> 0]
  /\ opens = [m \in Months |-> 0]
  /\ cut = {}
  /\ lost = [m \in Months |-> 0]

Goto(c, s) == at' = [at EXCEPT ![c] = s]

Begin(c) ==
  /\ at[c] = "idle"
  /\ lookups < MaxLookups
  /\ lookups' = lookups + 1

\* INCR and DECR make a key that is not there, without a time to live.
Count(m, d) ==
  /\ used' = [used EXCEPT ![m] = @ + d]
  /\ keys' = keys \cup {m}

\* EXPIRE does nothing to a key that is not there.
SetExpiry(m) == due' = IF m \in keys THEN [due EXCEPT ![m] = Now + 1] ELSE due

-----------------------------------------------------------------------------
(* try_acquire.                                                            *)

\* Mutants of Incr: the month is taken one too far; the limit is compared with the value
\* before the INCR; the expiry is set by whoever leaves the counter at zero.
IncrMonthAhead(c) ==
  /\ shared
  /\ Begin(c)
  /\ Count(month + 1, 1)
  /\ key' = [key EXCEPT ![c] = month + 1]
  /\ Goto(c, "search")
  /\ UNCHANGED <<shared, due, month, last, spent, strays, opens, cut, lost>>

IncrComparesOld(c) ==
  /\ shared
  /\ Begin(c)
  /\ Count(month, 1)
  /\ key' = [key EXCEPT ![c] = month]
  /\ Goto(c, IF used[month] + 1 = 1 THEN "expire"
             ELSE IF used[month] > Limit THEN "undo" ELSE "search")
  /\ UNCHANGED <<shared, due, month, last, spent, strays, opens, cut, lost>>

IncrExpiresLate(c) ==
  /\ shared
  /\ Begin(c)
  /\ Count(month, 1)
  /\ key' = [key EXCEPT ![c] = month]
  /\ Goto(c, IF used[month] + 1 = 0 THEN "expire"
             ELSE IF used[month] + 1 > Limit THEN "undo" ELSE "search")
  /\ UNCHANGED <<shared, due, month, last, spent, strays, opens, cut, lost>>

Incr(c) ==
  /\ shared
  /\ Begin(c)
  /\ Count(month, 1)
  /\ LET n == used[month] + 1
     IN Goto(c, IF n = 1 THEN "expire" ELSE IF n > Limit THEN "undo" ELSE "search")
  /\ key' = [key EXCEPT ![c] = month]
  /\ UNCHANGED <<shared, due, month, last, spent, strays, opens, cut, lost>>

\* The INCR that returned 1: EXPIRE, then the comparison of that 1.
Expire(c) ==
  /\ at[c] = "expire"
  /\ SetExpiry(key[c])
  /\ Goto(c, IF 1 > Limit THEN "undo" ELSE "search")
  /\ UNCHANGED <<shared, used, keys, month, last, key, lookups, spent, strays, opens, cut, lost>>

\* Mutant of Undo: the DECR goes to the key of the current month.
UndoToday(c) ==
  /\ at[c] = "undo"
  /\ Count(month, 0 - 1)
  /\ Goto(c, "idle")
  /\ UNCHANGED <<shared, due, month, last, key, lookups, spent, strays, opens, cut, lost>>

Undo(c) ==
  /\ at[c] = "undo"
  /\ Count(key[c], 0 - 1)
  /\ Goto(c, "idle")
  /\ UNCHANGED <<shared, due, month, last, key, lookups, spent, strays, opens, cut, lost>>

\* Without Redis.
LocalAcquire(c) ==
  /\ ~shared
  /\ Begin(c)
  /\ IF used[month] >= Limit
     THEN UNCHANGED <<used, at, key>>
     ELSE /\ used' = [used EXCEPT ![month] = @ + 1]
          /\ key' = [key EXCEPT ![c] = month]
          /\ Goto(c, "search")
  /\ UNCHANGED <<shared, keys, due, month, last, spent, strays, opens, cut, lost>>

-----------------------------------------------------------------------------
(* The request, and release when it fails.                                 *)

Succeed(c) ==
  /\ at[c] = "search"
  /\ spent' = [spent EXCEPT ![key[c]] = @ + 1]
  /\ Goto(c, "idle")
  /\ UNCHANGED <<shared, used, keys, due, month, last, key, lookups, strays, opens, cut, lost>>

Fail(c) ==
  /\ at[c] = "search"
  /\ Goto(c, "release")
  /\ UNCHANGED <<shared, used, keys, due, month, last, key, lookups, spent, strays, opens, cut, lost>>

\* A token of an earlier month comes back in this one.
Stray(c) == strays' = IF key[c] = month THEN strays ELSE [strays EXCEPT ![month] = @ + 1]

\* release takes the key of the month it runs in; the dictionary's entry stops at zero.
Release(c) ==
  /\ at[c] = "release"
  /\ IF shared
     THEN Count(month, 0 - 1)
     ELSE used' = [used EXCEPT ![month] = IF @ > 0 THEN @ - 1 ELSE 0] /\ UNCHANGED keys
  /\ Stray(c)
  /\ Goto(c, "idle")
  /\ UNCHANGED <<shared, due, month, last, key, lookups, spent, opens, cut, lost>>

-----------------------------------------------------------------------------
(* Faults.                                                                 *)

\* except Exception leaves CancelledError alone: the token is not returned.
Cancel(c) ==
  /\ "cancel" \in Faults
  /\ at[c] # "idle"
  /\ cut' = IF at[c] = "expire" THEN cut \cup {key[c]} ELSE cut
  /\ Goto(c, "idle")
  /\ UNCHANGED <<shared, used, keys, due, month, last, key, lookups, spent, strays, opens, lost>>

\* A command that raises lets the lookup through; its effect may be there or not.
AcquireFailsOpen(c) ==
  /\ "redis" \in Faults
  /\ shared
  /\ \/ /\ Begin(c)
        /\ key' = [key EXCEPT ![c] = month]
        /\ Count(month, 1) \/ UNCHANGED <<used, keys>>
        /\ UNCHANGED due
     \/ /\ at[c] = "expire"
        /\ SetExpiry(key[c]) \/ UNCHANGED due
        /\ UNCHANGED <<used, keys, key, lookups>>
     \/ /\ at[c] = "undo"
        /\ Count(key[c], 0 - 1) \/ UNCHANGED <<used, keys>>
        /\ UNCHANGED <<due, key, lookups>>
  /\ Goto(c, "search")
  /\ opens' = [opens EXCEPT ![key'[c]] = @ + 1]
  /\ UNCHANGED <<shared, month, last, spent, strays, cut, lost>>

\* The DECR is not applied; one whose reply is lost is Release.
ReleaseFails(c) ==
  /\ "redis" \in Faults
  /\ shared
  /\ at[c] = "release"
  /\ Goto(c, "idle")
  /\ UNCHANGED <<shared, used, keys, due, month, last, key, lookups, spent, strays, opens, cut, lost>>

-----------------------------------------------------------------------------
(* The calendar.                                                           *)

LastSecond ==
  /\ ~last
  /\ last' = TRUE
  /\ UNCHANGED <<shared, used, keys, due, month, at, key, lookups, spent, strays, opens, cut, lost>>

NextMonth ==
  /\ last
  /\ month < LastMonth
  /\ month' = month + 1
  /\ last' = FALSE
  /\ UNCHANGED <<shared, used, keys, due, at, key, lookups, spent, strays, opens, cut, lost>>

\* A key whose time has come goes, and with it what it had counted.
KeyGoes(m) ==
  /\ m \in keys
  /\ due[m] # 0
  /\ Now >= due[m]
  /\ used' = [used EXCEPT ![m] = 0]
  /\ keys' = keys \ {m}
  /\ due' = [due EXCEPT ![m] = 0]
  /\ lost' = IF m = month THEN [lost EXCEPT ![m] = @ + used[m]] ELSE lost
  /\ UNCHANGED <<shared, month, last, at, key, lookups, spent, strays, opens, cut>>

Step(c) ==
  \/ Expire(c) \/ Undo(c) \/ Succeed(c) \/ Fail(c) \/ Release(c)

Next ==
  \/ \E c \in Callers :
       \/ Incr(c) \/ LocalAcquire(c) \/ Step(c)
       \/ Cancel(c) \/ AcquireFailsOpen(c) \/ ReleaseFails(c)
  \/ LastSecond \/ NextMonth
  \/ \E m \in Months : KeyGoes(m)

Spec == Init /\ [][Next]_vars

-----------------------------------------------------------------------------
(***************************************************************************)
(* Properties.                                                             *)
(***************************************************************************)

\* Callers whose lookup has been let through, counted in month m.
Granted(m) ==
  {c \in Callers : key[c] = m /\ (at[c] = "search" \/ (at[c] = "expire" /\ Limit > 0))}

\* Callers that stand for one unit of the counter of month m.
Holding(m) == {c \in Callers : key[c] = m /\ at[c] # "idle"}

\* What the counter of a month no longer shows because its key went in the last second.
Restarted(m) == IF Now >= 2 * m THEN lost[m] ELSE 0

(* Searches that succeeded and searches under way never exceed the limit   *)
(* of their month by more than the tokens of other months released into it *)
(* and the Redis errors on which try_acquire failed open: the INCR that    *)
(* overshoots and its later DECR let nobody else slip through.  In the     *)
(* last second of the month its key may go and the count start again: then *)
(* as many more get through as it had counted, and before it none.         *)
WithinLimit ==
  \A m \in Months :
    spent[m] + Cardinality(Granted(m)) <= Limit + strays[m] + opens[m] + Restarted(m)

(* The counter of the month that runs never claims less than what was      *)
(* spent and what is held, but for the same three.                         *)
NothingUncounted ==
  \A m \in Months : m >= month =>
    spent[m] + Cardinality(Holding(m)) <= used[m] + strays[m] + opens[m] + Restarted(m)

(* A month whose counter is above zero has a time to live or a caller about *)
(* to set it, whoever else decrements the counter to zero, raises it again *)
(* or lets the key go meanwhile; the exceptions are an EXPIRE that raised  *)
(* and one that a cancelled lookup never sent.  A key at zero or below may *)
(* stay without one: a DECR that comes after the key has gone, or in the   *)
(* month after its INCR, makes such a key.                                 *)
KeysExpire ==
  \A m \in Months :
    shared /\ used[m] >= 1 =>
      \/ due[m] # 0
      \/ m \in cut
      \/ opens[m] > 0
      \/ \E c \in Callers : at[c] = "expire" /\ key[c] = m
=============================================================================
