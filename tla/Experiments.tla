----------------------------- MODULE Experiments -----------------------------
(***************************************************************************)
(* One experiment from its creation on (app/experiments: manager.py,       *)
(* repository.py and the constraints of models.py).  The statistics it is  *)
(* judged by are in Statistics.                                            *)
(***************************************************************************)
EXTENDS Sessions

E == INSTANCE Statistics

MaxVariants == 2

NoVariant == [key |-> NoName, at |-> 0]

\* ExperimentStatus.  No code archives an experiment; a deleted one has no row.
ExperimentStatus == {"draft", "running", "stopped", "deleted"}

\* A row is known by its key and its transaction: the key alone is not unique.
Variant == [key : Ids, at : 0 .. MaxCalls]

Experiment ==
  [status : ExperimentStatus, control : Ids \cup {NoName}, variants : SUBSET Variant, snapshot : SUBSET Variant,
   assigned : [Ids -> Variant \cup {NoVariant}], observed : [Ids -> Variant \cup {NoVariant}], reports : Seq(Nat)]

TypeOK == db \in Experiment /\ mem = <<>>

\* create_experiment: a control that is named but not given is made, beyond the maximum too.
CreateExperiment(given, marked, named) ==
  LET control == IF named # NoName THEN named ELSE marked
  IN [status |-> "draft", control |-> control,
      variants |-> {[key |-> k, at |-> 0] : k \in given \cup ({control} \ {NoName})},
      snapshot |-> {}, assigned |-> [s \in Ids |-> NoVariant], observed |-> [s \in Ids |-> NoVariant], reports |-> <<>>]

Init ==
  /\ \E given \in SUBSET Ids, marked, named \in Ids \cup {NoName} :
       /\ Cardinality(given) <= MaxVariants /\ marked \in given \cup {NoName}
       /\ db = CreateExperiment(given, marked, named)
  /\ mem = <<>> /\ NoRequests

Keys(x) == {v.key : v \in x.variants}
Count(x) == Cardinality({s \in Ids : x.observed[s] # NoVariant})

\* The row a write needs is gone, or what it read was never there.
Exists(c) == db.status # "deleted" /\ req[c].saw.status # "deleted"

Serve(c, op) == req[c].op = op /\ Exists(c)

-----------------------------------------------------------------------------
\* add_variant: nothing but the read of the key keeps it unique.
AddVariant(c) ==
  LET saw == req[c].saw
      key == req[c].arg
  IN /\ Serve(c, "add variant") /\ saw.status = "draft"
     /\ Cardinality(saw.variants) < MaxVariants /\ key \notin Keys(saw)
     /\ \E isControl \in BOOLEAN :
          /\ isControl => saw.control = NoName
          /\ Commit(c, [db EXCEPT !.variants = @ \cup {[key |-> key, at |-> req[c].at]},
                                  !.control = IF isControl THEN key ELSE @])

\* update_experiment: the control may name a variant that does not exist.
UpdateExperiment(c) ==
  /\ Serve(c, "update") /\ req[c].saw.status = "draft"
  /\ Commit(c, [db EXCEPT !.control = req[c].arg])

\* start: the status is written only where it differs from what was read.
Start(c) ==
  LET saw == req[c].saw
  IN /\ Serve(c, "start") /\ saw.status \in {"draft", "running"} /\ saw.variants # {}
     /\ Commit(c, [db EXCEPT !.status = IF saw.status = "draft" THEN "running" ELSE @, !.snapshot = saw.variants])

\* generate_report counts what is there at some moment of the request.
GenerateReport(c, x) == \E n \in Count(req[c].saw) .. Count(x) : Commit(c, [x EXCEPT !.reports = Append(@, n)])

Stop(c) == Serve(c, "stop") /\ req[c].saw.status = "running" /\ GenerateReport(c, [db EXCEPT !.status = "stopped"])
Report(c) == Serve(c, "report") /\ GenerateReport(c, db)

\* assign_variant over the rows by created_at: those of one transaction in any order.
Drawn(variants, subject) ==
  LET index == E!AssignVariant(IF subject = "a" THEN 3 ELSE 4, Cardinality(variants))
      Before(v, S(_, _)) == Cardinality({u \in variants : S(u.at, v.at)})
  IN {v \in variants : Before(v, <) <= index /\ index < Before(v, <=)}

\* Mutant of Assignments: a subject may be assigned a second time.
AssignmentsRepeated(saw, s) == IF saw.assigned[s] # NoVariant THEN {saw.assigned[s]} ELSE Drawn(saw.variants, s)

\* The assignment of a subject, that of an earlier request or a new one.  The unique key
\* refuses a second one.
Assignments(saw, s) ==
  IF saw.assigned[s] # NoVariant THEN {saw.assigned[s]}
  ELSE IF db.assigned[s] # NoVariant THEN {} ELSE Drawn(saw.variants, s)

Assign(c) ==
  LET s == req[c].arg
  IN /\ Serve(c, "assign")
     /\ \E v \in Assignments(req[c].saw, s) : Commit(c, [db EXCEPT !.assigned[s] = v])

\* record_many: each subject once, all of them or none.  An observation is written over.
Record(c) ==
  LET saw == req[c].saw
      subjects == req[c].arg
  IN /\ Serve(c, "record") /\ saw.status \in {"running", "stopped"}
     /\ \A s \in subjects : saw.observed[s] = NoVariant => db.observed[s] = NoVariant
     /\ \E chosen \in [subjects -> Variant] :
          /\ \A s \in subjects : chosen[s] \in Assignments(saw, s)
          /\ Commit(c, [db EXCEPT
                  !.assigned = [s \in Ids |-> IF s \in subjects THEN chosen[s] ELSE @[s]],
                  !.observed = [s \in Ids |-> IF s \in subjects /\ @[s] = NoVariant THEN chosen[s] ELSE @[s]]])

\* delete_experiment: the rows of the experiment go with it.
Delete(c) ==
  /\ Serve(c, "delete")
  /\ Commit(c, [CreateExperiment({}, NoName, NoName) EXCEPT !.status = "deleted"])

\* The routes that write (api/v1/experiments.py).
Requests(c) ==
  \/ \E key \in Ids : Ask(c, "add variant", key) \/ Ask(c, "update", key) \/ Ask(c, "assign", key)
  \/ \E op \in {"start", "stop", "report", "delete"} : Ask(c, op, NoName)
  \/ \E subjects \in SUBSET Ids \ {{}} : Ask(c, "record", subjects)

Next ==
  \E c \in Clients :
    \/ Requests(c) \/ AddVariant(c) \/ UpdateExperiment(c) \/ Start(c) \/ Stop(c) \/ Report(c)
    \/ Assign(c) \/ Record(c) \/ Delete(c) \/ Rollback(c)

Spec == Init /\ [][Next]_sessionVars

-----------------------------------------------------------------------------
\* Assignments and observations are of variants that exist, an observation of the variant
\* its subject was given, none from before the start; a report counts no more than there is.
Integrity ==
  /\ \A s \in Ids : db.assigned[s] \in db.variants \cup {NoVariant} /\ db.observed[s] \in {NoVariant, db.assigned[s]}
  /\ db.status = "draft" => Count(db) = 0 /\ db.snapshot = {}
  /\ db.snapshot \subseteq db.variants
  /\ \A i \in DOMAIN db.reports : db.reports[i] <= Count(db)

\* A subject keeps its variant and its observation as long as the experiment exists, which
\* is never a draft again; only a start that read a draft revives a stopped one.
LegalStep ==
  db'.status # "deleted" =>
    /\ \A s \in Ids : db.assigned[s] # NoVariant => db'.assigned[s] = db.assigned[s]
    /\ \A s \in Ids : db.observed[s] # NoVariant => db'.observed[s] = db.observed[s]
    /\ db.status = "deleted" => FALSE
    /\ db'.status = "draft" => db.status = "draft"
    /\ db.status = "stopped" /\ db'.status # "stopped" =>
         \E c \in Clients : req[c].op = "start" /\ req[c].saw.status = "draft"
=============================================================================
