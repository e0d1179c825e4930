------------------------------ MODULE Sessions ------------------------------
(***************************************************************************)
(* Requests and the database session each of them has (core/database.py).  *)
(* A request reads when it begins and writes when it ends, in one          *)
(* transaction: what it decided on may have changed in between, and its    *)
(* writes are committed together or not at all.  `db' is what is           *)
(* committed, `mem' what the process holds, `req' the requests in flight   *)
(* with what they saw.                                                     *)
(***************************************************************************)
EXTENDS Numbers

CONSTANTS
  Clients,
  Ids,      \* the names of the subjects, products, keys that requests are about, "a" among them
  MaxCalls  \* bound: how many requests are made

ASSUME SessionsAssumption == MaxCalls \in Nat /\ IsFiniteSet(Clients) /\ IsFiniteSet(Ids)

\* What stands for no name, and for no client.
NoName == ""
Nobody == "free"

ASSUME NamesAssumption == "a" \in Ids /\ NoName \notin Ids /\ Nobody \notin Clients

VARIABLES db, mem, req, calls
sessionVars == <<db, mem, req, calls>>

\* A mapping with an entry more, or with another one in its place.
With(f, key, value) == [k \in DOMAIN f \cup {key} |-> IF k = key THEN value ELSE f[k]]

Idle == [op |-> "idle"]

NoRequests == req = [c \in Clients |-> Idle] /\ calls = 0

\* A request begins: `at' is its now(), the start of its transaction.
Ask(c, op, arg) ==
  /\ req[c].op = "idle" /\ calls < MaxCalls
  /\ req' = [req EXCEPT ![c] = [op |-> op, arg |-> arg, saw |-> db, at |-> calls + 1]]
  /\ calls' = calls + 1
  /\ UNCHANGED <<db, mem>>

\* session.commit() with the new contents.
Commit(c, new) ==
  /\ db' = new
  /\ req' = [req EXCEPT ![c] = Idle]
  /\ UNCHANGED <<mem, calls>>

\* session.rollback(): the handler raises, because it refuses the request, because a
\* constraint does, or because anything else fails.
Rollback(c) == req[c].op # "idle" /\ Commit(c, db)
=============================================================================
