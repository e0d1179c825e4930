------------------------------- MODULE Memory -------------------------------
(***************************************************************************)
(* What the platform remembers (app/memory: manager.py, repository.py,     *)
(* models.py): memories are stored, recalled and deleted, and a            *)
(* consolidation drops the expired ones, keeps the important ones and lets *)
(* the others fade.  Importance is in hundredths; a memory is known by the *)
(* request that stored it, and an hour is a request long.                  *)
(***************************************************************************)
EXTENDS Sessions

PromotionThreshold == 70  \* consolidation_importance_threshold
DecayFactor == 5
MinImportance == 10
ShortTermTtl == 24

MemorySystem == {"short_term", "long_term", "episodic", "semantic"}

\* Some of MemoryType, each with its DEFAULT_IMPORTANCE and its default_system_for.
DefaultImportance == [purchase |-> 80, conversation |-> 50, favorite |-> 85, general |-> 50]
DefaultSystem == [purchase |-> "episodic", conversation |-> "episodic", favorite |-> "semantic", general |-> "short_term"]

MemoryRow ==
  [user : Ids \cup {""}, type : DOMAIN DefaultSystem, system : MemorySystem, importance : 0 .. 100,
   count : Nat, expires : {None} \cup Nat, embedded : BOOLEAN]

TypeOK ==
  /\ DOMAIN db.memories \subseteq -1 .. MaxCalls
  /\ \A id \in DOMAIN db.memories : db.memories[id] \in MemoryRow

\* remember: a time to live makes the memory short-term whatever it was to be.
Remembered(at, type, system, user, importance, ttl, embedded) ==
  LET kept == IF Given(ttl) THEN "short_term" ELSE system
  IN [user |-> user, type |-> type, system |-> kept, importance |-> importance, count |-> 0, embedded |-> embedded,
      expires |-> IF Given(ttl) THEN at + ttl ELSE IF kept = "short_term" THEN at + ShortTermTtl ELSE None]

Init ==
  /\ \E importance \in {12, 72}, ttl \in {None, 1} :
       db = [memories |-> [id \in {-1, 0} |->
              IF id = 0 THEN Remembered(0, "favorite", "semantic", "", 85, None, TRUE)
              ELSE Remembered(0, "conversation", "episodic", "a", importance, ttl, TRUE)]]
  /\ mem = <<>> /\ NoRequests

-----------------------------------------------------------------------------
\* _apply_user: the memories of a user and those of nobody.
Visible(rows, user) == {id \in DOMAIN rows : rows[id].user \in {user, ""}}

\* A row with the columns that an UPDATE sets.
Updated(row, columns) == [f \in DOMAIN row |-> IF f \in DOMAIN columns THEN columns[f] ELSE row[f]]

\* The result of a flush: a row to update that another request has deleted meanwhile is a
\* StaleDataError; one to delete that is gone is not.
Flush(c, updates, deletes) ==
  IF DOMAIN updates \subseteq DOMAIN db.memories
    THEN Commit(c, [db EXCEPT !.memories = [id \in DOMAIN @ \ deletes |-> IF id \in DOMAIN updates THEN Updated(@[id], updates[id]) ELSE @[id]]])
    ELSE Rollback(c)

\* remember_from and the record_ methods; the API gives 50 where nothing is said.
Remember(c) ==
  /\ req[c].op = "remember"
  /\ \E type \in {"purchase", "general"}, ttl \in {None, 1} : \E importance \in {DefaultImportance[type], 50} :
       Commit(c, [db EXCEPT !.memories = With(@, req[c].at, Remembered(req[c].at, type, DefaultSystem[type], "", importance, ttl, type = "purchase"))])

\* _recall_vector: whatever is similar enough is touched, expired or not, with the count
\* that was read.
Recall(c) ==
  /\ req[c].op = "recall"
  /\ LET saw == req[c].saw.memories
     IN \E hits \in SUBSET {id \in Visible(saw, req[c].arg) : saw[id].embedded} :
          Flush(c, [id \in hits |-> [count |-> saw[id].count + 1]], {})

Delete(c) ==
  /\ req[c].op = "delete"
  /\ IF req[c].arg \in DOMAIN req[c].saw.memories THEN Flush(c, <<>>, {req[c].arg}) ELSE Rollback(c)

\* What a consolidation finds: the expired go first, the important ones among them too.
Expired(saw, at) == {id \in DOMAIN saw : Given(saw[id].expires) /\ saw[id].expires < at}
Promotable(saw, at) ==
  {id \in DOMAIN saw \ Expired(saw, at) : saw[id].system \in {"episodic", "short_term"} /\ saw[id].importance >= PromotionThreshold}
Decayable(saw, at) == {id \in DOMAIN saw \ (Expired(saw, at) \cup Promotable(saw, at)) : saw[id].system = "episodic"}
Purged(saw, at) == {id \in Decayable(saw, at) : saw[id].importance - DecayFactor < MinImportance}

Consolidate(c) ==
  /\ req[c].op = "consolidate"
  /\ LET saw == req[c].saw.memories
         at == req[c].at
     IN Flush(c, [id \in Promotable(saw, at) \cup (Decayable(saw, at) \ Purged(saw, at)) |->
                   IF id \in Promotable(saw, at) THEN [system |-> "long_term", expires |-> None]
                   ELSE [importance |-> saw[id].importance - DecayFactor]],
              Expired(saw, at) \cup Purged(saw, at))

Requests(c) ==
  \/ Ask(c, "remember", <<>>)
  \/ Ask(c, "consolidate", <<>>)
  \/ \E user \in {"", "a"} : Ask(c, "recall", user)
  \/ \E id \in {-1, 1} : Ask(c, "delete", id)

Next == \E c \in Clients : Requests(c) \/ Remember(c) \/ Recall(c) \/ Delete(c) \/ Consolidate(c) \/ Rollback(c)

Spec == Init /\ [][Next]_sessionVars

-----------------------------------------------------------------------------
\* A memory expires as long as it is short-term, promoted or not by whichever consolidation;
\* no more recalls are counted than were made.
Integrity ==
  \A id \in DOMAIN db.memories :
    /\ Given(db.memories[id].expires) <=> db.memories[id].system = "short_term"
    /\ db.memories[id].count <= calls

\* What is gone stays gone, and goes because it was asked to or was seen expired or faded; a
\* memory is promoted and never demoted; a consolidation leaves nothing episodic that it
\* should have promoted or purged, and nothing it saw fades faster than it says.
LegalStep ==
  LET old == db.memories
      new == db'.memories
      done(op) == {c \in Clients : req[c].op = op /\ req'[c].op = "idle"}
  IN /\ \A id \in DOMAIN new : id \in DOMAIN old \/ \E c \in done("remember") : id = req[c].at
     /\ \A id \in DOMAIN old \ DOMAIN new :
          \/ \E c \in done("delete") : req[c].arg = id
          \/ \E c \in done("consolidate") :
               LET seen == req[c].saw.memories[id]
               IN (seen.system = "short_term" /\ seen.expires < req[c].at) \/ (seen.system = "episodic" /\ seen.importance < MinImportance + DecayFactor)
     /\ \A id \in DOMAIN old \cap DOMAIN new :
          /\ new[id].system \in {old[id].system, "long_term"} /\ new[id].type = old[id].type /\ new[id].user = old[id].user
          /\ old[id].system \in {"semantic", "long_term"} => new[id] \in {[old[id] EXCEPT !.count = n] : n \in 0 .. MaxCalls} \cup {[old[id] EXCEPT !.system = "long_term"]}
     /\ \A c \in done("consolidate") :
          db' # db => \A id \in DOMAIN new \cap DOMAIN req[c].saw.memories :
                        new[id].system = "episodic" => new[id].importance \in MinImportance .. PromotionThreshold - 1
=============================================================================
