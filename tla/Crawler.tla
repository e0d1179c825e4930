------------------------------ MODULE Crawler ------------------------------
(***************************************************************************)
(* Crawler.fetch (app/browser/crawler.py) over a PagePool (pool.py), with  *)
(* BrowserManager.launch (manager.py) and retry_async (retry.py).          *)
(*                                                                         *)
(* A fetch is a coroutine; `at' names the await it stands at.  checkout    *)
(* holds the lock of the pool's Condition over the awaits that close an    *)
(* old page and open a new one.  checkin, discard and clear do not await   *)
(* while they hold it, so each is one step taken when the lock is free.    *)
(***************************************************************************)
EXTENDS Integers, Sequences, FiniteSets

CONSTANTS
  Fetches,    \* coroutines in Crawler.fetch
  NoFetch,    \* the lock is free
  Pages,      \* BOUND: names of pages; a closed page's name is used again
  NoPage,     \* no page of the pool
  MaxSize,    \* max_size
  MaxRetries, \* max_retries
  MaxClears   \* BOUND: times the pool is cleared (by shutdown)

\* With a session, a cookie jar or use_pool = False a fetch opens a context of its own.
Kinds == {"pooled", "own"}

\* The awaits of a fetch; "lock" is the first wait for the lock, "relock" one after a wait.
Places == {"idle", "start", "chromium", "polite", "lock", "relock", "recycle", "recycling",
           "create", "wait", "context", "page", "checkin", "discard", "close"}

ASSUME CrawlerAssumption ==
  /\ IsFiniteSet(Fetches)
  /\ NoFetch \notin Fetches
  /\ IsFiniteSet(Pages)
  /\ NoPage \notin Pages
  /\ MaxSize \in Nat \ {0}
  /\ MaxRetries \in Nat
  /\ MaxClears \in Nat

VARIABLES
  \* the fetches
  at,        \* the await each fetch stands at
  kind,      \* what each was called with
  tries,     \* the retries each has made
  again,     \* whether the exception each is handling is retryable
  mine,      \* the page of the pool each holds
  \* the browser
  launched,  \* BrowserManager._launched
  alive,     \* whether the Playwright server behind _browser still runs
  \* the pool
  late,      \* the fetches whose checkout is past its deadline
  lock,      \* the holder of the lock of _condition
  idle,      \* _idle, oldest first
  old,       \* the pages of _idle idle for more than max_idle_seconds
  inUse,     \* _in_use
  clears,    \* how often it was cleared
  doomed,    \* pages a clear has taken out and not closed yet
  open,      \* pages that are open
  abandoned  \* history: pages whose fetch was cancelled before it gave them back

fetchVars == <<at, kind, tries, again, mine>>
browserVars == <<launched, alive>>
poolVars == <<late, lock, idle, old, inUse, clears, doomed, open, abandoned>>
vars == <<fetchVars, browserVars, poolVars>>

-----------------------------------------------------------------------------
TypeOK ==
  /\ at \in [Fetches -> Places]
  /\ kind \in [Fetches -> Kinds]
  /\ tries \in [Fetches -> 0 .. MaxRetries]
  /\ again \in [Fetches -> BOOLEAN]
  /\ mine \in [Fetches -> Pages \cup {NoPage}]
  /\ launched \in BOOLEAN /\ alive \in BOOLEAN
  /\ late \in SUBSET Fetches
  /\ lock \in Fetches \cup {NoFetch}
  /\ idle \in Seq(Pages)
  /\ old \in SUBSET Pages
  /\ inUse \in SUBSET Pages
  /\ clears \in 0 .. MaxClears
  /\ doomed \in SUBSET Pages
  /\ open \in SUBSET Pages
  /\ abandoned \in SUBSET Pages

Init ==
  /\ at = [f \in Fetches |-> "idle"]
  /\ kind = [f \in Fetches |-> "pooled"]
  /\ tries = [f \in Fetches |-> 0]
  /\ again = [f \in Fetches |-> FALSE]
  /\ mine = [f \in Fetches |-> NoPage]
  /\ launched = FALSE /\ alive = FALSE
  /\ late = {} /\ lock = NoFetch /\ clears = 0
  /\ idle = <<>>
  /\ old = {} /\ inUse = {} /\ doomed = {} /\ open = {} /\ abandoned = {}

\* The arguments and the retry counter end with the call.
Ended(f, s) ==
  /\ kind' = IF s = "idle" THEN [kind EXCEPT ![f] = "pooled"] ELSE kind
  /\ tries' = IF s = "idle" THEN [tries EXCEPT ![f] = 0] ELSE tries

Goto(f, s) == at' = [at EXCEPT ![f] = s] /\ Ended(f, s)

\* notify_all: the waiting checkouts queue for the lock again, f goes on at s.
NotifyAll(f, s) ==
  /\ at' = [g \in Fetches |-> IF g = f THEN s ELSE IF at[g] = "wait" THEN "relock" ELSE at[g]]
  /\ Ended(f, s)

\* Mutant of Retry: one attempt too many.
RetryOnceMore(f) ==
  IF tries[f] > MaxRetries
  THEN Goto(f, "idle")
  ELSE /\ at' = [at EXCEPT ![f] = "polite"]
       /\ tries' = [tries EXCEPT ![f] = @ + 1]
       /\ UNCHANGED kind

\* Mutant of Retry: the attempt is not counted.
RetryUncounted(f) ==
  IF tries[f] >= MaxRetries
  THEN Goto(f, "idle")
  ELSE at' = [at EXCEPT ![f] = "polite"] /\ UNCHANGED <<tries, kind>>

\* A retryable exception reaches retry_async; its sleep and the limiter's are one.
Retry(f) ==
  IF tries[f] >= MaxRetries
  THEN Goto(f, "idle")
  ELSE /\ at' = [at EXCEPT ![f] = "polite"]
       /\ tries' = [tries EXCEPT ![f] = @ + 1]
       /\ UNCHANGED kind

Size == Len(idle) + Cardinality(inUse)

-----------------------------------------------------------------------------
(* BrowserManager.launch: is_available is read before two awaits.          *)

Begin(f, k) ==
  /\ at[f] = "idle"
  /\ at' = [at EXCEPT ![f] = IF launched THEN "polite" ELSE "start"]
  /\ kind' = [kind EXCEPT ![f] = k]
  /\ UNCHANGED <<tries, again, mine, browserVars, poolVars>>

StartPlaywright(f) ==
  /\ at[f] = "start"
  /\ Goto(f, "chromium") \/ Goto(f, "idle")
  /\ UNCHANGED <<again, mine, browserVars, poolVars>>

\* A launch that fails stops self._playwright, whoever started the one that is there.
StartChromium(f) ==
  /\ at[f] = "chromium"
  /\ \/ Goto(f, "polite") /\ launched' = TRUE /\ alive' = TRUE
     \/ Goto(f, "idle") /\ alive' = FALSE /\ UNCHANGED launched
  /\ UNCHANGED <<again, mine, poolVars>>

\* The delay of the rate limiter, then _acquire_page.
Polite(f) ==
  /\ at[f] = "polite"
  /\ Goto(f, IF kind[f] = "pooled" THEN "lock" ELSE "context")
  /\ UNCHANGED <<again, mine, browserVars, poolVars>>

-----------------------------------------------------------------------------
(* checkout.                                                               *)

Lock(f) ==
  /\ at[f] \in {"lock", "relock"} /\ lock = NoFetch
  /\ lock' = f
  /\ Goto(f, "recycle")
  /\ UNCHANGED <<again, mine, browserVars, late, idle, old, inUse, clears, doomed, open, abandoned>>

\* _idle is in order of age, so the pages to recycle are in front.
RecyclePop(f) ==
  /\ at[f] = "recycle" /\ idle # <<>> /\ Head(idle) \in old
  /\ mine' = [mine EXCEPT ![f] = Head(idle)]
  /\ idle' = Tail(idle)
  /\ old' = old \ {Head(idle)}
  /\ Goto(f, "recycling")
  /\ UNCHANGED <<again, browserVars, late, lock, inUse, clears, doomed, open, abandoned>>

Recycled(f) ==
  /\ at[f] = "recycling"
  /\ open' = open \ {mine[f]}
  /\ mine' = [mine EXCEPT ![f] = NoPage]
  /\ Goto(f, "recycle")
  /\ UNCHANGED <<again, browserVars, late, lock, idle, old, inUse, clears, doomed, abandoned>>

Take(f) ==
  /\ at[f] = "recycle" /\ idle # <<>> /\ Head(idle) \notin old
  /\ mine' = [mine EXCEPT ![f] = Head(idle)]
  /\ idle' = Tail(idle)
  /\ inUse' = inUse \cup {Head(idle)}
  /\ lock' = NoFetch
  /\ Goto(f, "page")
  /\ late' = late \ {f}
  /\ UNCHANGED <<again, browserVars, old, clears, doomed, open, abandoned>>

\* Mutant of Create: the comparison of is_full lets one page more in.
CreateOneMore(f) ==
  /\ at[f] = "recycle" /\ idle = <<>> /\ Size <= MaxSize
  /\ Goto(f, "create")
  /\ UNCHANGED <<again, mine, browserVars, poolVars>>

Create(f) ==
  /\ at[f] = "recycle" /\ idle = <<>> /\ Size < MaxSize
  /\ Goto(f, "create")
  /\ UNCHANGED <<again, mine, browserVars, poolVars>>

\* Names that stand for no page.
Unused == {p \in Pages : p \notin open \cup doomed \cup inUse /\ \A f \in Fetches : mine[f] # p}

Created(f) ==
  /\ at[f] = "create" /\ alive
  /\ \E p \in Unused :
       /\ p = CHOOSE q \in Unused : TRUE
       /\ mine' = [mine EXCEPT ![f] = p]
       /\ inUse' = inUse \cup {p}
       /\ open' = open \cup {p}
  /\ lock' = NoFetch
  /\ Goto(f, "page")
  /\ late' = late \ {f}
  /\ UNCHANGED <<again, browserVars, idle, old, clears, doomed, abandoned>>

\* new_context or new_page raised: not a retryable exception.
CreateFails(f) ==
  /\ at[f] = "create"
  /\ lock' = NoFetch
  /\ Goto(f, "idle")
  /\ late' = late \ {f}
  /\ UNCHANGED <<again, mine, browserVars, idle, old, inUse, clears, doomed, open, abandoned>>

\* At capacity: wait for a notification, or raise if the deadline has passed.
Wait(f) ==
  /\ at[f] = "recycle" /\ idle = <<>> /\ Size >= MaxSize
  /\ lock' = NoFetch
  /\ IF f \in late THEN Retry(f) ELSE Goto(f, "wait")
  /\ late' = late \ {f}
  /\ UNCHANGED <<again, mine, browserVars, idle, old, inUse, clears, doomed, open, abandoned>>

\* wait_for cancels the wait, which takes the lock again before it raises.
TimeOut(f) ==
  /\ at[f] = "wait" /\ f \in late /\ lock = NoFetch
  /\ Retry(f)
  /\ late' = late \ {f}
  /\ UNCHANGED <<again, mine, browserVars, lock, idle, old, inUse, clears, doomed, open, abandoned>>

-----------------------------------------------------------------------------
(* The attempt: the page, and what becomes of it.                          *)

\* A context of its own, seeded from the session and the cookie jar.
OpenContext(f) ==
  /\ at[f] = "context"
  /\ Goto(f, "page") \/ Goto(f, "idle")
  /\ UNCHANGED <<again, mine, browserVars, poolVars>>

\* A pooled page is checked in; a context of its own is left open.
Succeed(f) ==
  /\ at[f] = "page"
  /\ Goto(f, IF kind[f] = "pooled" THEN "checkin" ELSE "idle")
  /\ UNCHANGED <<again, mine, browserVars, poolVars>>

Abort(f, retryable) ==
  /\ at[f] = "page"
  /\ again' = [again EXCEPT ![f] = retryable]
  /\ Goto(f, IF kind[f] = "pooled" THEN "discard" ELSE "close")
  /\ UNCHANGED <<mine, browserVars, poolVars>>

\* goto raised, whatever it raised.
NavigationFails(f) == Abort(f, TRUE)

\* A CAPTCHA, or any other exception, such as a session that cannot be stored.
ExtractFails(f) == Abort(f, FALSE)

\* Mutant of Checkin: the page is appended whether the pool still knows it or not.
CheckinAlways(f) ==
  /\ at[f] = "checkin" /\ lock = NoFetch
  /\ inUse' = inUse \ {mine[f]}
  /\ idle' = Append(idle, mine[f])
  /\ mine' = [mine EXCEPT ![f] = NoPage]
  /\ NotifyAll(f, "idle")
  /\ UNCHANGED <<again, browserVars, late, lock, old, clears, doomed, open, abandoned>>

Checkin(f) ==
  /\ at[f] = "checkin" /\ lock = NoFetch
  /\ inUse' = inUse \ {mine[f]}
  /\ idle' = IF mine[f] \in inUse THEN Append(idle, mine[f]) ELSE idle
  /\ mine' = [mine EXCEPT ![f] = NoPage]
  /\ NotifyAll(f, "idle")
  /\ UNCHANGED <<again, browserVars, late, lock, old, clears, doomed, open, abandoned>>

\* Mutant of Discard: nobody is notified.
DiscardSilently(f) ==
  /\ at[f] = "discard" /\ lock = NoFetch
  /\ inUse' = inUse \ {mine[f]}
  /\ Goto(f, "close")
  /\ UNCHANGED <<again, mine, browserVars, late, lock, idle, old, clears, doomed, open, abandoned>>

Discard(f) ==
  /\ at[f] = "discard" /\ lock = NoFetch
  /\ inUse' = inUse \ {mine[f]}
  /\ NotifyAll(f, "close")
  /\ UNCHANGED <<again, mine, browserVars, late, lock, idle, old, clears, doomed, open, abandoned>>

\* page.close() of the discarded page, or context.close(); then retry_async decides.
Close(f) ==
  /\ at[f] = "close"
  /\ open' = open \ {mine[f]}
  /\ mine' = [mine EXCEPT ![f] = NoPage]
  /\ again' = [again EXCEPT ![f] = FALSE]
  /\ IF again[f] THEN Retry(f) ELSE Goto(f, "idle")
  /\ UNCHANGED <<browserVars, late, lock, idle, old, inUse, clears, doomed, abandoned>>

Step(f) ==
  \/ StartPlaywright(f) \/ StartChromium(f) \/ Polite(f)
  \/ Lock(f) \/ RecyclePop(f) \/ Recycled(f) \/ Take(f)
  \/ Create(f) \/ Created(f) \/ CreateFails(f) \/ Wait(f) \/ TimeOut(f)
  \/ OpenContext(f) \/ Succeed(f)
  \/ NavigationFails(f) \/ ExtractFails(f)
  \/ Checkin(f) \/ Discard(f) \/ Close(f)

-----------------------------------------------------------------------------
(* The rest of the program.                                                *)

\* No handler of fetch catches CancelledError; the lock is released.  A page being opened
\* or closed is nobody's any more.
Cancel(f) ==
  /\ at[f] # "idle"
  /\ Goto(f, "idle")
  /\ again' = [again EXCEPT ![f] = FALSE]
  /\ lock' = IF lock = f THEN NoFetch ELSE lock
  /\ abandoned' = abandoned \cup ({mine[f]} \cap inUse)
  /\ open' = IF at[f] \in {"recycling", "close"} THEN open \ {mine[f]} ELSE open
  /\ mine' = [mine EXCEPT ![f] = NoPage]
  /\ late' = late \ {f}
  /\ UNCHANGED <<browserVars, idle, old, inUse, clears, doomed>>

\* wait_timeout_seconds pass since a checkout first had the lock.
Expire(f) ==
  /\ at[f] \in {"relock", "recycle", "recycling", "create", "wait"} /\ f \notin late
  /\ late' = late \cup {f}
  /\ UNCHANGED <<fetchVars, browserVars, lock, idle, old, inUse, clears, doomed, open, abandoned>>

\* max_idle_seconds pass for the next page; _recycle_idle reads the clock once.
Age ==
  /\ lock = NoFetch
  /\ \E i \in 1 .. Len(idle) :
       /\ idle[i] \notin old /\ \A j \in 1 .. i - 1 : idle[j] \in old
       /\ old' = old \cup {idle[i]}
  /\ UNCHANGED <<fetchVars, browserVars, late, lock, idle, inUse, clears, doomed, open, abandoned>>

Clear ==
  /\ clears < MaxClears /\ lock = NoFetch
  /\ clears' = clears + 1
  /\ doomed' = doomed \cup {idle[i] : i \in 1 .. Len(idle)} \cup inUse
  /\ idle' = <<>> /\ old' = {} /\ inUse' = {} /\ abandoned' = {}
  /\ at' = [f \in Fetches |-> IF at[f] = "wait" THEN "relock" ELSE at[f]]
  /\ UNCHANGED <<kind, tries, again, mine, browserVars, late, lock, open>>

ClosePage(p) ==
  /\ p \in doomed
  /\ doomed' = doomed \ {p}
  /\ open' = open \ {p}
  /\ UNCHANGED <<fetchVars, browserVars, late, lock, idle, old, inUse, clears, abandoned>>

Next ==
  \/ \E f \in Fetches : \/ \E k \in Kinds : Begin(f, k)
                        \/ Step(f)
                        \/ Expire(f)
                        \/ Cancel(f)
  \/ Age
  \/ Clear
  \/ \E p \in Pages : ClosePage(p)

Spec == Init /\ [][Next]_vars

\* Awaited calls return or raise, and asyncio.Lock wakes those who queue for it in order;
\* time passes.
FairSpec == Spec /\ \A f \in Fetches : SF_vars(Step(f)) /\ WF_vars(Expire(f))

-----------------------------------------------------------------------------
(***************************************************************************)
(* Properties.                                                             *)
(***************************************************************************)

(* Idle pages, pages in use and the page being opened never exceed         *)
(* max_size, though the check of is_full is two awaits before the page is  *)
(* added (pool.py:95-108).                                                 *)
PoolBounded ==
  Size + Cardinality({f \in Fetches : at[f] = "create"}) <= MaxSize

(* Every page the pool knows has one owner: an idle page is open, in the   *)
(* queue once and with no fetch; a page in use is with exactly one fetch,  *)
(* or its fetch was cancelled.  A page that was cleared or discarded never *)
(* comes back.                                                             *)
OneOwner ==
  /\ \A i, j \in 1 .. Len(idle) : idle[i] = idle[j] => i = j
  /\ \A i \in 1 .. Len(idle) :
       /\ idle[i] \in open \ (inUse \cup doomed)
       /\ \A f \in Fetches : mine[f] # idle[i]
  /\ \A p \in inUse :
       LET owners == {f \in Fetches : mine[f] = p}
       IN IF p \in abandoned THEN owners = {} ELSE Cardinality(owners) = 1

(* A checkout waits only while there is nothing to take and no room for a  *)
(* new page: no notification is lost.                                      *)
NobodyWaitsInVain ==
  (\E f \in Fetches : at[f] = "wait") => idle = <<>> /\ Size = MaxSize

(* Every fetch ends, with a result or an exception, also when cancelled    *)
(* fetches have kept every page of the pool.                               *)
EveryFetchEnds == \A f \in Fetches : at[f] # "idle" ~> at[f] = "idle"
=============================================================================
