------------------------------ MODULE WorkQueue ------------------------------
(***************************************************************************)
(* What the agent's queue promises, whatever fails: a task id that has     *)
(* been pushed waits until one worker claims it or it is discarded, and an *)
(* id that was claimed or discarded never comes back, so that no task is   *)
(* executed twice.  TaskQueue implements this (TaskQueue.tla, Promise).    *)
(***************************************************************************)
CONSTANTS Tasks, Workers, NoTask

VARIABLES
  fresh,    \* ids not pushed yet
  waiting,  \* ids in a list
  claimed   \* what each worker has in hand

vars == <<fresh, waiting, claimed>>

Init ==
  /\ fresh = Tasks
  /\ waiting = {}
  /\ claimed = [w \in Workers |-> NoTask]

Submit(t) ==
  /\ t \in fresh
  /\ fresh' = fresh \ {t}
  /\ waiting' = waiting \cup {t}
  /\ UNCHANGED claimed

\* The enqueue of an id may be given up before the id is pushed.
Withdraw(t) ==
  /\ t \in fresh
  /\ fresh' = fresh \ {t}
  /\ UNCHANGED <<waiting, claimed>>

Claim(w, t) ==
  /\ claimed[w] = NoTask
  /\ t \in waiting
  /\ waiting' = waiting \ {t}
  /\ claimed' = [claimed EXCEPT ![w] = t]
  /\ UNCHANGED fresh

Release(w) ==
  /\ claimed' = [claimed EXCEPT ![w] = NoTask]
  /\ UNCHANGED <<fresh, waiting>>

Discard ==
  /\ waiting' \in SUBSET waiting
  /\ UNCHANGED <<fresh, claimed>>

Next ==
  \/ \E t \in Tasks : Submit(t) \/ Withdraw(t)
  \/ \E w \in Workers, t \in Tasks : Claim(w, t)
  \/ \E w \in Workers : Release(w)
  \/ Discard

Spec == Init /\ [][Next]_vars
=============================================================================
