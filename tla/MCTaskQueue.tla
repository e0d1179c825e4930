---------------------------- MODULE MCTaskQueue ----------------------------
(* Instances of TaskQueue for TLC: two tasks on two levels, one of them on *)
(* its last retry.                                                         *)
EXTENDS TaskQueue, TLC

CONSTANTS t1, t2, w1, w2

MCPriority == (t1 :> 0) @@ (t2 :> 1)
MCMaxRetries == (t1 :> 1) @@ (t2 :> 3)

\* Nothing tells the two workers apart.
MCWorkersAlike == Permutations({w1, w2})
============================================================================
