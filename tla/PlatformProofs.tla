--------------------------- MODULE PlatformProofs ---------------------------
(***************************************************************************)
(* What is proved of the components of Platform that serve requests on     *)
(* tables, the agent's memories among them, or pass them on to adapters,   *)
(* each by itself, for any clients, any names and any number of requests.  *)
(* A behaviour of Platform is a behaviour of one of them.                  *)
(***************************************************************************)
EXTENDS Sessions, TLAPS, FiniteSetTheorems

X == INSTANCE Experiments

-----------------------------------------------------------------------------
(***************************************************************************)
(* Experiments.  What a request saw is sound, and as long as the           *)
(* experiment exists all that the request saw of it is still so: a write   *)
(* that rests on what was read is as good as one on what is there.         *)
(***************************************************************************)
ExperimentSound(x) ==
  /\ \A s \in Ids : x.assigned[s] \in x.variants \cup {X!NoVariant} /\ x.observed[s] \in {X!NoVariant, x.assigned[s]}
  /\ x.status = "draft" => (\A s \in Ids : x.observed[s] = X!NoVariant) /\ x.snapshot = {}
  /\ x.snapshot \subseteq x.variants

ReportsCounted(x) == \A i \in DOMAIN x.reports : x.reports[i] <= X!Count(x)

\* What is kept between one state of an experiment and a later one.
Since(old, new) ==
  /\ old.status # "deleted" /\ old.variants \subseteq new.variants
  /\ \A s \in Ids : old.assigned[s] # X!NoVariant => new.assigned[s] = old.assigned[s]
  /\ \A s \in Ids : old.observed[s] # X!NoVariant => new.observed[s] = old.observed[s]
  /\ new.status = "draft" => old.status = "draft"

ExperimentRequest(r) ==
  /\ r.saw \in X!Experiment /\ ExperimentSound(r.saw) /\ r.at \in 0 .. MaxCalls
  /\ r.op \in {"add variant", "update", "assign"} => r.arg \in Ids
  /\ r.op = "record" => r.arg \subseteq Ids
  /\ db.status # "deleted" => Since(r.saw, db)

RequestsNamed == req = [c \in Clients |-> req[c]] /\ calls \in 0 .. MaxCalls

ExperimentInv ==
  /\ RequestsNamed
  /\ X!TypeOK /\ ExperimentSound(db) /\ ReportsCounted(db)
  /\ \A c \in Clients : req[c].op # "idle" => ExperimentRequest(req[c])

\* A transaction of the request that keeps what was there.
ExperimentWrite(c, new) ==
  /\ req[c].op # "idle" /\ X!Commit(c, new)
  /\ new \in X!Experiment /\ ExperimentSound(new) /\ ReportsCounted(new)
  /\ new.status # "deleted" => Since(db, new)
  /\ db.status = "stopped" /\ new.status \notin {"stopped", "deleted"} =>
       req[c].op = "start" /\ req[c].saw.status = "draft"

LEMMA SinceKept ==
  ASSUME NEW x, NEW y, NEW z, Since(x, y), Since(y, z)
  PROVE  Since(x, z)
BY DEF Since

LEMMA XCardinality == \A S : X!Cardinality(S) = Cardinality(S)
BY DEF X!Cardinality, Cardinality

\* More that is observed, a greater count.
LEMMA CountGrows ==
  ASSUME NEW old, NEW new,
         \A s \in Ids : old.observed[s] # X!NoVariant => new.observed[s] = old.observed[s]
  PROVE  /\ X!Count(old) \in Nat /\ X!Count(new) \in Nat
         /\ X!Count(old) <= X!Count(new)
<1> DEFINE A == {s \in Ids : old.observed[s] # X!NoVariant}
           B == {s \in Ids : new.observed[s] # X!NoVariant}
<1>1. A \subseteq B /\ B \subseteq Ids
  OBVIOUS
<1>2. IsFiniteSet(B) /\ IsFiniteSet(A)
  BY <1>1, FS_Subset, SessionsAssumption
<1>3. Cardinality(A) <= Cardinality(B)
  BY <1>1, <1>2, FS_Subset
<1>4. Cardinality(A) \in Nat /\ Cardinality(B) \in Nat
  BY <1>2, FS_CardinalityType
<1> QED
  BY <1>3, <1>4, XCardinality DEF X!Count

LEMMA CountOfNone ==
  ASSUME NEW x, \A s \in Ids : x.observed[s] = X!NoVariant
  PROVE  X!Count(x) = 0
<1>1. {s \in Ids : x.observed[s] # X!NoVariant} = {}
  OBVIOUS
<1> QED
  BY <1>1, XCardinality, FS_EmptySet DEF X!Count

LEMMA NoVariantIsNone == X!NoVariant \notin X!Variant
BY NamesAssumption DEF X!NoVariant, X!Variant, X!NoName, NoName

LEMMA ExperimentWritten ==
  ASSUME ExperimentInv, NEW c \in Clients, NEW new, ExperimentWrite(c, new)
  PROVE  ExperimentInv' /\ X!LegalStep
<1>1. db' = new /\ req' = [req EXCEPT ![c] = X!Idle] /\ mem' = mem /\ calls' = calls
  BY DEF ExperimentWrite, X!Commit
<1>2. \A d \in Clients : req'[d] = IF d = c THEN X!Idle ELSE req[d]
  BY <1>1 DEF ExperimentInv, RequestsNamed
<1>3. RequestsNamed'
  BY <1>1 DEF ExperimentInv, RequestsNamed
<1>4. X!TypeOK' /\ ExperimentSound(db)' /\ ReportsCounted(db)'
  BY <1>1 DEF ExperimentInv, ExperimentWrite, X!TypeOK, ExperimentSound, ReportsCounted, X!Count
<1>5. ASSUME NEW d \in Clients, req'[d].op # "idle"
      PROVE  ExperimentRequest(req[d])'
  <2>1. d # c /\ req'[d] = req[d] /\ ExperimentRequest(req[d])
    BY <1>2, <1>5 DEF X!Idle, ExperimentInv
  <2>2. CASE new.status = "deleted"
    BY <1>1, <2>1, <2>2 DEF ExperimentRequest, ExperimentSound
  <2>3. CASE new.status # "deleted"
    <3>1. Since(db, new)
      BY <2>3 DEF ExperimentWrite
    <3>2. Since(req[d].saw, new)
      BY <2>1, <3>1, SinceKept DEF ExperimentRequest, Since
    <3> QED
      BY <1>1, <2>1, <3>2 DEF ExperimentRequest
  <2> QED
    BY <2>2, <2>3
<1>6. X!LegalStep
  BY <1>1 DEF X!LegalStep, ExperimentWrite, Since
<1> QED
  BY <1>3, <1>4, <1>5, <1>6 DEF ExperimentInv

\* What a request that is served has read, and what has become of it.
LEMMA ExperimentServed ==
  ASSUME ExperimentInv, NEW c \in Clients, NEW op, X!Serve(c, op), op # "idle"
  PROVE  /\ req[c].op = op /\ ExperimentRequest(req[c]) /\ Since(req[c].saw, db) /\ db.status # "deleted"
         /\ db \in X!Experiment /\ ExperimentSound(db) /\ ReportsCounted(db)
BY DEF ExperimentInv, X!Serve, X!Exists, X!TypeOK, ExperimentRequest

LEMMA AddVariantWrites ==
  ASSUME ExperimentInv, NEW c \in Clients, X!AddVariant(c)
  PROVE  \E new : ExperimentWrite(c, new)
<1>1. X!Serve(c, "add variant") /\ req[c].saw.status = "draft"
  BY DEF X!AddVariant
<1>2. PICK isControl \in BOOLEAN :
        X!Commit(c, [db EXCEPT !.variants = @ \cup {[key |-> req[c].arg, at |-> req[c].at]},
                               !.control = IF isControl THEN req[c].arg ELSE @])
  BY DEF X!AddVariant
<1> DEFINE new == [db EXCEPT !.variants = @ \cup {[key |-> req[c].arg, at |-> req[c].at]},
                             !.control = IF isControl THEN req[c].arg ELSE @]
<1>3. /\ req[c].op = "add variant" /\ ExperimentRequest(req[c]) /\ db.status # "deleted"
      /\ db \in X!Experiment /\ ExperimentSound(db) /\ ReportsCounted(db)
  BY <1>1, ExperimentServed
<1>4. req[c].arg \in Ids /\ [key |-> req[c].arg, at |-> req[c].at] \in X!Variant
  BY <1>3 DEF ExperimentRequest, X!Variant
<1>5. new \in X!Experiment
  BY <1>3, <1>4 DEF X!Experiment
<1>6. ExperimentSound(new) /\ ReportsCounted(new) /\ Since(db, new) /\ new.status = db.status
  BY <1>3 DEF ExperimentSound, ReportsCounted, Since, X!Count, X!Experiment
<1> QED
  BY <1>2, <1>3, <1>5, <1>6 DEF ExperimentWrite

LEMMA UpdateExperimentWrites ==
  ASSUME ExperimentInv, NEW c \in Clients, X!UpdateExperiment(c)
  PROVE  \E new : ExperimentWrite(c, new)
<1> DEFINE new == [db EXCEPT !.control = req[c].arg]
<1>1. X!Serve(c, "update") /\ X!Commit(c, new)
  BY DEF X!UpdateExperiment
<1>2. /\ req[c].op = "update" /\ ExperimentRequest(req[c]) /\ db.status # "deleted"
      /\ db \in X!Experiment /\ ExperimentSound(db) /\ ReportsCounted(db)
  BY <1>1, ExperimentServed
<1>3. new \in X!Experiment
  BY <1>2 DEF ExperimentRequest, X!Experiment
<1>4. ExperimentSound(new) /\ ReportsCounted(new) /\ Since(db, new) /\ new.status = db.status
  BY <1>2 DEF ExperimentSound, ReportsCounted, Since, X!Count, X!Experiment
<1> QED
  BY <1>1, <1>2, <1>3, <1>4 DEF ExperimentWrite

LEMMA StartWrites ==
  ASSUME ExperimentInv, NEW c \in Clients, X!Start(c)
  PROVE  \E new : ExperimentWrite(c, new)
<1> DEFINE saw == req[c].saw
           new == [db EXCEPT !.status = IF saw.status = "draft" THEN "running" ELSE @, !.snapshot = saw.variants]
<1>1. X!Serve(c, "start") /\ saw.status \in {"draft", "running"} /\ X!Commit(c, new)
  BY DEF X!Start
<1>2. /\ req[c].op = "start" /\ ExperimentRequest(req[c]) /\ Since(saw, db) /\ db.status # "deleted"
      /\ db \in X!Experiment /\ ExperimentSound(db) /\ ReportsCounted(db)
  BY <1>1, ExperimentServed
<1>3. saw.variants \subseteq db.variants /\ (db.status = "draft" => saw.status = "draft")
  BY <1>2 DEF Since
<1>4. new \in X!Experiment
  BY <1>2, <1>3 DEF X!Experiment, X!ExperimentStatus
<1>5. ExperimentSound(new) /\ ReportsCounted(new) /\ Since(db, new)
  BY <1>1, <1>2, <1>3 DEF ExperimentSound, ReportsCounted, Since, X!Count, X!Experiment
<1>6. saw.status # "draft" => new.status = db.status
  BY <1>2 DEF X!Experiment
<1> QED
  BY <1>1, <1>2, <1>4, <1>5, <1>6 DEF ExperimentWrite

\* A report of an experiment x that differs from what is there in its status at most.
LEMMA ReportWrites ==
  ASSUME ExperimentInv, NEW c \in Clients, NEW op, X!Serve(c, op), op # "idle",
         NEW status \in {db.status, "stopped"}, NEW x, x = [db EXCEPT !.status = status],
         X!GenerateReport(c, x)
  PROVE  \E new : ExperimentWrite(c, new)
<1>1. PICK n \in X!Count(req[c].saw) .. X!Count(x) : X!Commit(c, [x EXCEPT !.reports = Append(@, n)])
  BY DEF X!GenerateReport
<1> DEFINE new == [x EXCEPT !.reports = Append(@, n)]
<1>2. /\ req[c].op = op /\ ExperimentRequest(req[c]) /\ Since(req[c].saw, db) /\ db.status # "deleted"
      /\ db \in X!Experiment /\ ExperimentSound(db) /\ ReportsCounted(db)
  BY ExperimentServed
<1>3. x \in X!Experiment /\ ExperimentSound(x) /\ X!Count(x) = X!Count(db) /\ x.reports = db.reports /\ Since(db, x)
  BY <1>2 DEF X!Experiment, X!ExperimentStatus, ExperimentSound, X!Count, Since
<1>4. n \in Nat /\ n <= X!Count(x)
  BY <1>1, <1>2, CountGrows DEF Since
<1>5. x.reports \in Seq(Nat) /\ Append(x.reports, n) \in Seq(Nat) /\ new \in X!Experiment
  <2>1. x.reports \in Seq(Nat)
    BY <1>3 DEF X!Experiment
  <2>2. Append(x.reports, n) \in Seq(Nat)
    BY <1>4, <2>1
  <2> QED
    BY <1>3, <2>1, <2>2 DEF X!Experiment
<1>6. X!Count(new) = X!Count(x) /\ new.reports = Append(x.reports, n)
  BY <1>3 DEF X!Experiment, X!Count
<1>7. ReportsCounted(new)
  BY <1>2, <1>3, <1>4, <1>5, <1>6 DEF ReportsCounted
<1>8. ExperimentSound(new) /\ Since(db, new) /\ new.status = status
  BY <1>2, <1>3 DEF ExperimentSound, Since, X!Experiment
<1> QED
  BY <1>1, <1>2, <1>5, <1>7, <1>8 DEF ExperimentWrite

LEMMA StopWrites ==
  ASSUME ExperimentInv, NEW c \in Clients, X!Stop(c)
  PROVE  \E new : ExperimentWrite(c, new)
BY ReportWrites DEF X!Stop

LEMMA ReportingWrites ==
  ASSUME ExperimentInv, NEW c \in Clients, X!Report(c)
  PROVE  \E new : ExperimentWrite(c, new)
<1>1. X!Serve(c, "report") /\ X!GenerateReport(c, db)
  BY DEF X!Report
<1>2. db = [db EXCEPT !.status = db.status]
  BY DEF ExperimentInv, X!TypeOK, X!Experiment
<1> QED
  BY <1>1, <1>2, ReportWrites

\* Whoever is assigned what a request may assign, on what is there, gets a variant that is
\* there, the one he has if he has one.
LEMMA AssignmentsKeep ==
  ASSUME ExperimentInv, NEW c \in Clients, ExperimentRequest(req[c]), Since(req[c].saw, db),
         NEW s \in Ids, NEW v \in X!Assignments(req[c].saw, s)
  PROVE  /\ v \in db.variants /\ v # X!NoVariant /\ v \in X!Variant
         /\ db.assigned[s] # X!NoVariant => v = db.assigned[s]
         /\ req[c].saw.assigned[s] # X!NoVariant => v = req[c].saw.assigned[s]
<1> DEFINE saw == req[c].saw
<1>1. saw \in X!Experiment /\ ExperimentSound(saw) /\ db \in X!Experiment /\ ExperimentSound(db)
  BY DEF ExperimentInv, X!TypeOK, ExperimentRequest
<1>2. CASE saw.assigned[s] # X!NoVariant
  <2>1. v = saw.assigned[s] /\ db.assigned[s] = v
    BY <1>2 DEF X!Assignments, Since
  <2>2. v \in saw.variants /\ saw.variants \subseteq db.variants /\ db.variants \subseteq X!Variant
    BY <1>1, <1>2, <2>1 DEF ExperimentSound, Since, X!Experiment
  <2> QED
    BY <1>2, <2>1, <2>2
<1>3. CASE saw.assigned[s] = X!NoVariant
  <2>1. db.assigned[s] = X!NoVariant /\ v \in X!Drawn(saw.variants, s)
    BY <1>3 DEF X!Assignments
  <2>2. v \in saw.variants
    BY <2>1 DEF X!Drawn
  <2>3. v \in db.variants /\ v \in X!Variant
    BY <1>1, <2>2 DEF Since, X!Experiment
  <2> QED
    BY <1>3, <2>1, <2>3, NoVariantIsNone
<1> QED
  BY <1>2, <1>3

LEMMA AssignWrites ==
  ASSUME ExperimentInv, NEW c \in Clients, X!Assign(c)
  PROVE  \E new : ExperimentWrite(c, new)
<1> DEFINE s == req[c].arg
<1>1. X!Serve(c, "assign")
  BY DEF X!Assign
<1>2. PICK v \in X!Assignments(req[c].saw, s) : X!Commit(c, [db EXCEPT !.assigned[s] = v])
  BY DEF X!Assign
<1> DEFINE new == [db EXCEPT !.assigned[s] = v]
<1>3. /\ req[c].op = "assign" /\ ExperimentRequest(req[c]) /\ Since(req[c].saw, db) /\ db.status # "deleted"
      /\ db \in X!Experiment /\ ExperimentSound(db) /\ ReportsCounted(db)
  BY <1>1, ExperimentServed
<1>4. s \in Ids
  BY <1>3 DEF ExperimentRequest
<1>5. /\ v \in db.variants /\ v # X!NoVariant /\ v \in X!Variant
      /\ db.assigned[s] # X!NoVariant => v = db.assigned[s]
  BY <1>2, <1>3, <1>4, AssignmentsKeep
<1>6. new \in X!Experiment
  BY <1>3, <1>4, <1>5 DEF X!Experiment
<1>7. /\ new.status = db.status /\ new.variants = db.variants /\ new.snapshot = db.snapshot
      /\ new.observed = db.observed /\ new.reports = db.reports
      /\ \A t \in Ids : new.assigned[t] = IF t = s THEN v ELSE db.assigned[t]
  BY <1>3, <1>4 DEF X!Experiment
<1>8. ExperimentSound(new)
  BY <1>3, <1>5, <1>7 DEF ExperimentSound
<1>9. ReportsCounted(new) /\ Since(db, new)
  BY <1>3, <1>5, <1>7 DEF ReportsCounted, Since, X!Count
<1> QED
  BY <1>2, <1>3, <1>6, <1>7, <1>8, <1>9 DEF ExperimentWrite

LEMMA RecordWrites ==
  ASSUME ExperimentInv, NEW c \in Clients, X!Record(c)
  PROVE  \E new : ExperimentWrite(c, new)
<1> DEFINE saw == req[c].saw
           subjects == req[c].arg
           Written(chosen) ==
             [db EXCEPT !.assigned = [s \in Ids |-> IF s \in subjects THEN chosen[s] ELSE @[s]],
                        !.observed = [s \in Ids |-> IF s \in subjects /\ @[s] = X!NoVariant THEN chosen[s] ELSE @[s]]]
<1>1. /\ X!Serve(c, "record") /\ saw.status \in {"running", "stopped"}
      /\ \A s \in subjects : saw.observed[s] = X!NoVariant => db.observed[s] = X!NoVariant
  BY DEF X!Record
<1>2. PICK chosen \in [subjects -> X!Variant] :
        /\ \A s \in subjects : chosen[s] \in X!Assignments(saw, s)
        /\ X!Commit(c, Written(chosen))
  BY DEF X!Record
<1> DEFINE new == Written(chosen)
<1>3. /\ req[c].op = "record" /\ ExperimentRequest(req[c]) /\ Since(saw, db) /\ db.status # "deleted"
      /\ db \in X!Experiment /\ ExperimentSound(db) /\ ReportsCounted(db)
  BY <1>1, ExperimentServed
<1>4. subjects \subseteq Ids /\ ExperimentSound(saw) /\ db.status # "draft"
  BY <1>1, <1>3 DEF ExperimentRequest, Since
<1>5. \A s \in subjects :
        /\ chosen[s] \in db.variants /\ chosen[s] # X!NoVariant /\ chosen[s] \in X!Variant
        /\ db.assigned[s] # X!NoVariant => chosen[s] = db.assigned[s]
  BY <1>2, <1>3, <1>4, AssignmentsKeep
<1>6. new \in X!Experiment
  BY <1>3, <1>4, <1>5 DEF X!Experiment
<1>7. /\ new.status = db.status /\ new.variants = db.variants /\ new.snapshot = db.snapshot /\ new.reports = db.reports
      /\ \A t \in Ids : new.assigned[t] = IF t \in subjects THEN chosen[t] ELSE db.assigned[t]
      /\ \A t \in Ids : new.observed[t] = IF t \in subjects /\ db.observed[t] = X!NoVariant THEN chosen[t] ELSE db.observed[t]
  BY <1>3 DEF X!Experiment
<1>8. \A t \in Ids : new.observed[t] \in {X!NoVariant, new.assigned[t]}
  BY <1>3, <1>5, <1>7 DEF ExperimentSound
<1>9. ExperimentSound(new)
  BY <1>3, <1>4, <1>5, <1>7, <1>8 DEF ExperimentSound
<1>10. Since(db, new)
  BY <1>3, <1>4, <1>5, <1>7 DEF Since
<1>11. X!Count(db) \in Nat /\ X!Count(new) \in Nat /\ X!Count(db) <= X!Count(new)
  BY <1>10, CountGrows DEF Since
<1>12. ReportsCounted(new)
  <2> SUFFICES ASSUME NEW i \in DOMAIN db.reports
               PROVE  db.reports[i] <= X!Count(new)
    BY <1>7 DEF ReportsCounted
  <2>1. db.reports \in Seq(Nat)
    BY <1>3 DEF X!Experiment
  <2>2. db.reports[i] \in Nat
    BY <2>1
  <2>3. db.reports[i] <= X!Count(db)
    BY <1>3 DEF ReportsCounted
  <2> QED
    BY <1>11, <2>2, <2>3
<1> QED
  BY <1>2, <1>3, <1>6, <1>7, <1>9, <1>10, <1>12 DEF ExperimentWrite

\* An experiment that has nothing yet.
LEMMA Created ==
  ASSUME NEW given \in SUBSET Ids, NEW marked \in Ids \cup {X!NoName}, NEW named \in Ids \cup {X!NoName},
         NEW new, new = X!CreateExperiment(given, marked, named)
  PROVE  new \in X!Experiment /\ ExperimentSound(new) /\ ReportsCounted(new)
<1>1. 0 \in 0 .. MaxCalls
  BY SessionsAssumption
<1>2. new \in X!Experiment
  BY <1>1 DEF X!CreateExperiment, X!Experiment, X!ExperimentStatus, X!Variant
<1> QED
  BY <1>2 DEF X!CreateExperiment, ExperimentSound, ReportsCounted

LEMMA DeleteWrites ==
  ASSUME ExperimentInv, NEW c \in Clients, X!Delete(c)
  PROVE  \E new : ExperimentWrite(c, new)
<1> DEFINE none == X!CreateExperiment({}, X!NoName, X!NoName)
           new == [none EXCEPT !.status = "deleted"]
<1>1. X!Serve(c, "delete") /\ X!Commit(c, new)
  BY DEF X!Delete
<1>2. none \in X!Experiment /\ ExperimentSound(none) /\ ReportsCounted(none)
  BY Created
<1>3. new \in X!Experiment /\ new.status = "deleted"
  BY <1>2 DEF X!Experiment, X!ExperimentStatus
<1>4. ExperimentSound(new) /\ ReportsCounted(new)
  BY <1>2 DEF ExperimentSound, ReportsCounted, X!Count, X!Experiment
<1> QED
  BY <1>1, <1>3, <1>4, ExperimentServed DEF ExperimentWrite

LEMMA ExperimentNext ==
  ASSUME ExperimentInv, X!Next
  PROVE  ExperimentInv' /\ X!LegalStep
<1>1. PICK c \in Clients :
        \/ X!Requests(c) \/ X!AddVariant(c) \/ X!UpdateExperiment(c) \/ X!Start(c) \/ X!Stop(c) \/ X!Report(c)
        \/ X!Assign(c) \/ X!Record(c) \/ X!Delete(c) \/ X!Rollback(c)
  BY DEF X!Next
<1>2. CASE \E new : ExperimentWrite(c, new)
  BY <1>2, ExperimentWritten
<1>3. ASSUME NEW op, NEW arg, X!Ask(c, op, arg),
             op \in {"add variant", "update", "assign"} => arg \in Ids, op = "record" => arg \subseteq Ids
      PROVE  ExperimentInv' /\ X!LegalStep
  <2>1. /\ req[c].op = "idle" /\ calls < MaxCalls
        /\ req' = [req EXCEPT ![c] = [op |-> op, arg |-> arg, saw |-> db, at |-> calls + 1]]
        /\ calls' = calls + 1 /\ db' = db /\ mem' = mem
    BY <1>3 DEF X!Ask
  <2>2. \A d \in Clients :
          req'[d] = IF d = c THEN [op |-> op, arg |-> arg, saw |-> db, at |-> calls + 1] ELSE req[d]
    BY <2>1 DEF ExperimentInv, RequestsNamed
  <2>3. calls + 1 \in 0 .. MaxCalls /\ RequestsNamed'
    BY <2>1, SessionsAssumption DEF ExperimentInv, RequestsNamed
  <2>4. X!TypeOK' /\ ExperimentSound(db)' /\ ReportsCounted(db)'
    BY <2>1 DEF ExperimentInv, X!TypeOK, ExperimentSound, ReportsCounted, X!Count
  <2>5. db \in X!Experiment /\ ExperimentSound(db) /\ (db.status # "deleted" => Since(db, db))
    BY DEF ExperimentInv, X!TypeOK, Since
  <2>6. ASSUME NEW d \in Clients, req'[d].op # "idle"
        PROVE  ExperimentRequest(req[d])'
    <3>1. CASE d = c
      <4>1. req'[d].op = op /\ req'[d].arg = arg /\ req'[d].saw = db /\ req'[d].at = calls + 1
        BY <2>2, <3>1
      <4>2. calls + 1 \in 0 .. MaxCalls
        BY <2>1, <2>3
      <4> QED
        BY <1>3, <2>1, <2>5, <4>1, <4>2 DEF ExperimentRequest
    <3>2. CASE d # c
      BY <2>1, <2>2, <2>6, <3>2 DEF ExperimentInv, ExperimentRequest
    <3> QED
      BY <3>1, <3>2
  <2>7. X!LegalStep
    BY <2>1 DEF X!LegalStep
  <2> QED
    BY <2>3, <2>4, <2>6, <2>7 DEF ExperimentInv
<1>4. CASE X!Requests(c)
  BY <1>3, <1>4 DEF X!Requests
<1>5. CASE X!Rollback(c)
  <2>1. X!Commit(c, db) /\ req[c].op # "idle" /\ db \in X!Experiment /\ ExperimentSound(db) /\ ReportsCounted(db)
    BY <1>5 DEF X!Rollback, ExperimentInv, X!TypeOK
  <2> QED
    BY <1>2, <2>1 DEF ExperimentWrite, Since
<1> QED
  BY <1>1, <1>2, <1>4, <1>5, AddVariantWrites, UpdateExperimentWrites, StartWrites, StopWrites, ReportingWrites,
     AssignWrites, RecordWrites, DeleteWrites

LEMMA ExperimentInit == X!Init => ExperimentInv
<1> SUFFICES ASSUME X!Init PROVE ExperimentInv
  OBVIOUS
<1>1. db \in X!Experiment /\ ExperimentSound(db) /\ ReportsCounted(db)
  BY Created DEF X!Init
<1> QED
  BY <1>1, SessionsAssumption DEF X!Init, X!NoRequests, X!Idle, ExperimentInv, RequestsNamed, X!TypeOK

LEMMA ExperimentStep ==
  ASSUME ExperimentInv, [X!Next]_X!sessionVars
  PROVE  ExperimentInv' /\ (X!LegalStep \/ UNCHANGED X!sessionVars)
<1>1. CASE X!Next
  BY <1>1, ExperimentNext
<1>2. CASE UNCHANGED X!sessionVars
  <2>1. db' = db /\ mem' = mem /\ req' = req /\ calls' = calls
    BY <1>2 DEF X!sessionVars
  <2> QED
    BY <1>2, <2>1
       DEF ExperimentInv, RequestsNamed, X!TypeOK, ExperimentSound, ReportsCounted, ExperimentRequest, X!Count
<1> QED
  BY <1>1, <1>2

\* Assignments and observations are of variants that exist and agree, none precedes the
\* start, and no report counts more than there is: whichever requests of however many
\* clients overlap (app/experiments).
THEOREM ExperimentsIntegrity == X!Spec => [](X!TypeOK /\ X!Integrity)
<1>1. X!Init => ExperimentInv
  BY ExperimentInit
<1>2. ExperimentInv /\ [X!Next]_X!sessionVars => ExperimentInv'
  BY ExperimentStep
<1>3. ExperimentInv => X!TypeOK /\ X!Integrity
  <2>1. ExperimentInv => X!TypeOK /\ ExperimentSound(db) /\ ReportsCounted(db)
    BY DEF ExperimentInv
  <2> QED
    BY <2>1, CountOfNone DEF ExperimentSound, ReportsCounted, X!Integrity
<1> QED
  BY <1>1, <1>2, <1>3, PTL DEF X!Spec

\* A subject keeps its variant and its observation as long as the experiment exists, which
\* is never a draft again and comes back from a stop only by a start that had read a draft.
THEOREM ExperimentsLegal == X!Spec => [][X!LegalStep]_X!sessionVars
<1>1. X!Init => ExperimentInv
  BY ExperimentInit
<1>2. ExperimentInv /\ [X!Next]_X!sessionVars => ExperimentInv'
  BY ExperimentStep
<1>3. ExperimentInv /\ [X!Next]_X!sessionVars => [X!LegalStep]_X!sessionVars
  BY ExperimentStep
<1> QED
  BY <1>1, <1>2, <1>3, PTL DEF X!Spec

-----------------------------------------------------------------------------
(***************************************************************************)
(* Products and orders.  A row that is gone is NoProduct, and nothing that *)
(* an order holds goes; orders are never fewer than a request saw.  What   *)
(* an order's total is a sum of matters nowhere, so TotalOf stays closed.  *)
(***************************************************************************)
C == INSTANCE Catalog

ProductRow == [at : Nat, price : {0} \cup C!Prices, active : BOOLEAN, history : Nat]
ItemRow == [product : Ids, row : Nat, quantity : 1 .. 2, unitPrice : {0} \cup C!Prices]
OrderRow == [status : C!OrderStatus, items : SUBSET ItemRow, total : {C!TotalOf(x) : x \in SUBSET ItemRow}]
CatalogRows == [product : [Ids -> ProductRow], orders : Seq(OrderRow)]

CatalogSound(x) ==
  /\ \A k \in Ids : x.product[k].at = 0 => x.product[k] = C!NoProduct
  /\ \A i \in DOMAIN x.orders :
       /\ x.orders[i].items # {} /\ x.orders[i].total = C!TotalOf(x.orders[i].items)
       /\ \A item \in x.orders[i].items : x.product[item.product].at = item.row /\ item.row # 0

\* What the requests of each operation are about.
CatalogArgument(op, arg) ==
  /\ op \in {"create product", "update product"} => arg.asin \in Ids /\ arg.price \in {0} \cup C!Prices
  /\ op \in {"delete product", "search"} => arg \in Ids
  /\ op = "refresh" => arg \subseteq Ids
  /\ op = "create order" => arg \in [DOMAIN arg -> 1 .. 2] /\ DOMAIN arg \subseteq Ids /\ DOMAIN arg # {}
  /\ op = "order status" => arg.status \in C!OrderStatus

CatalogRequest(r) ==
  /\ r.saw \in CatalogRows /\ r.at \in 1 .. MaxCalls
  /\ Len(r.saw.orders) <= Len(db.orders) /\ CatalogArgument(r.op, r.arg)

CatalogInv ==
  /\ RequestsNamed
  /\ db \in CatalogRows /\ CatalogSound(db)
  /\ \A c \in Clients : req[c].op # "idle" => CatalogRequest(req[c])

\* What LegalStep asks of the transaction of one request.
CatalogKept(c, new) ==
  /\ \A i \in DOMAIN db.orders :
       /\ i \in DOMAIN new.orders /\ new.orders[i].items = db.orders[i].items
       /\ new.orders[i].status # db.orders[i].status =>
            /\ req[c].op = "order status" /\ i \in DOMAIN req[c].saw.orders
            /\ new.orders[i].status \in C!AllowedTransitions[req[c].saw.orders[i].status]
  /\ \A k \in Ids :
       new.product[k].history < db.product[k].history =>
         new.product[k] = C!NoProduct /\ req[c].op = "delete product" /\ req[c].saw.product[k].history = 0

CatalogWrite(c, new) ==
  /\ req[c].op # "idle" /\ C!Commit(c, new)
  /\ new \in CatalogRows /\ CatalogSound(new) /\ CatalogKept(c, new)
  /\ Len(db.orders) <= Len(new.orders)

LEMMA CatalogFields ==
  ASSUME NEW x \in CatalogRows
  PROVE  /\ x.product \in [Ids -> ProductRow] /\ x.orders \in Seq(OrderRow) /\ Len(x.orders) \in Nat
         /\ DOMAIN x.orders = 1 .. Len(x.orders) /\ \A i \in DOMAIN x.orders : x.orders[i] \in OrderRow
<1>1. x.product \in [Ids -> ProductRow] /\ x.orders \in Seq(OrderRow)
  BY DEF CatalogRows
<1> QED
  BY <1>1

LEMMA CatalogLength ==
  ASSUME NEW x \in CatalogRows
  PROVE  Len(x.orders) <= Len(x.orders)
<1>1. Len(x.orders) \in Nat
  BY CatalogFields
<1> QED
  BY <1>1

LEMMA CatalogWritten ==
  ASSUME CatalogInv, NEW c \in Clients, NEW new, CatalogWrite(c, new)
  PROVE  CatalogInv' /\ C!LegalStep
<1>1. db' = new /\ req' = [req EXCEPT ![c] = C!Idle] /\ mem' = mem /\ calls' = calls
  BY DEF CatalogWrite, C!Commit
<1>2. \A d \in Clients : req'[d] = IF d = c THEN C!Idle ELSE req[d]
  BY <1>1 DEF CatalogInv, RequestsNamed
<1>3. RequestsNamed'
  BY <1>1 DEF CatalogInv, RequestsNamed
<1>4. (db \in CatalogRows)' /\ CatalogSound(db)'
  <2>1. new \in CatalogRows /\ CatalogSound(new)
    BY DEF CatalogWrite
  <2> QED
    BY <1>1, <2>1 DEF CatalogSound
<1>5. ASSUME NEW d \in Clients, req'[d].op # "idle"
      PROVE  CatalogRequest(req[d])'
  <2>1. d # c /\ req'[d] = req[d] /\ CatalogRequest(req[d])
    BY <1>2, <1>5 DEF C!Idle, CatalogInv
  <2>2. Len(db.orders) <= Len(new.orders) /\ Len(req[d].saw.orders) <= Len(db.orders)
    BY <2>1 DEF CatalogWrite, CatalogRequest
  <2>3. Len(req[d].saw.orders) \in Nat /\ Len(db.orders) \in Nat /\ Len(new.orders) \in Nat
    BY <2>1, CatalogFields DEF CatalogRequest, CatalogInv, CatalogWrite
  <2>4. Len(req[d].saw.orders) <= Len(new.orders)
    BY <2>2, <2>3
  <2> QED
    BY <1>1, <2>1, <2>4 DEF CatalogRequest
<1>6. C!LegalStep
  BY <1>1 DEF C!LegalStep, CatalogWrite, CatalogKept
<1> QED
  BY <1>3, <1>4, <1>5, <1>6 DEF CatalogInv

LEMMA CatalogAsked ==
  ASSUME CatalogInv, NEW c \in Clients, req[c].op # "idle"
  PROVE  CatalogRequest(req[c]) /\ db \in CatalogRows /\ CatalogSound(db)
BY DEF CatalogInv

LEMMA CatalogProducts ==
  ASSUME CatalogInv
  PROVE  /\ db.product \in [Ids -> ProductRow]
         /\ \A k \in Ids :
              /\ db.product[k].at = 0 => db.product[k] = C!NoProduct
              /\ db.product[k].at \in Nat /\ db.product[k].history \in Nat
<1>1. db.product \in [Ids -> ProductRow]
  BY CatalogFields DEF CatalogInv
<1>2. \A k \in Ids : db.product[k].at = 0 => db.product[k] = C!NoProduct
  BY DEF CatalogInv, CatalogSound
<1> QED
  BY <1>1, <1>2 DEF ProductRow

\* A transaction that leaves the orders alone, keeps the rows that orders hold and history.
LEMMA ProductsWritten ==
  ASSUME CatalogInv, NEW c \in Clients, req[c].op # "idle", NEW rows \in [Ids -> ProductRow],
         C!Commit(c, [db EXCEPT !.product = rows]),
         \A k \in Ids :
           /\ rows[k].at = 0 => rows[k] = C!NoProduct
           /\ db.product[k].at # 0 => rows[k].at = db.product[k].at \/ ~ \E item \in C!OrderedItems : item.product = k
           /\ rows[k].history < db.product[k].history =>
                rows[k] = C!NoProduct /\ req[c].op = "delete product" /\ req[c].saw.product[k].history = 0
  PROVE  \E new : CatalogWrite(c, new)
<1> DEFINE new == [db EXCEPT !.product = rows]
<1>1. db \in CatalogRows /\ CatalogSound(db)
  BY CatalogAsked
<1>2. new \in CatalogRows /\ new.product = rows /\ new.orders = db.orders
  BY <1>1 DEF CatalogRows
<1>3. CatalogSound(new)
  <2>1. ASSUME NEW i \in DOMAIN db.orders, NEW item \in db.orders[i].items
        PROVE  rows[item.product].at = item.row
    <3>1. item \in C!OrderedItems
      BY <2>1 DEF C!OrderedItems
    <3>2. db.product[item.product].at = item.row /\ item.row # 0
      BY <1>1, <2>1 DEF CatalogSound
    <3>3. db.orders[i] \in OrderRow
      BY <1>1, <2>1, CatalogFields
    <3>4. item.product \in Ids
      BY <2>1, <3>3 DEF OrderRow, ItemRow
    <3> QED
      BY <3>1, <3>2, <3>4
  <2> QED
    BY <1>1, <1>2, <2>1 DEF CatalogSound
<1>4. CatalogKept(c, new)
  BY <1>2 DEF CatalogKept
<1>5. Len(db.orders) <= Len(new.orders)
  <2>1. Len(db.orders) <= Len(db.orders)
    BY <1>1, CatalogLength
  <2>2. new.orders = db.orders
    BY <1>2
  <2> HIDE DEF new
  <2> QED
    BY <2>1, <2>2
<1> QED
  BY <1>2, <1>3, <1>4, <1>5 DEF CatalogWrite

LEMMA CreateProductWrites ==
  ASSUME CatalogInv, NEW c \in Clients, C!CreateProduct(c)
  PROVE  \E new : CatalogWrite(c, new)
<1> DEFINE k == req[c].arg.asin
           row == [at |-> req[c].at, price |-> req[c].arg.price, active |-> TRUE, history |-> 0]
           rows == [db.product EXCEPT ![k] = row]
<1>1. /\ req[c].op = "create product" /\ db.product[k] = C!NoProduct
      /\ C!Commit(c, [db EXCEPT !.product[k] = row])
  BY DEF C!CreateProduct
<1>2. CatalogRequest(req[c]) /\ db \in CatalogRows
  BY <1>1, CatalogAsked
<1>3. k \in Ids /\ req[c].at \in 1 .. MaxCalls /\ req[c].arg.price \in {0} \cup C!Prices
  BY <1>1, <1>2 DEF CatalogRequest, CatalogArgument
<1>4. db.product \in [Ids -> ProductRow]
  BY CatalogProducts
<1>0. row \in ProductRow /\ row.at # 0 /\ row.history = 0
  BY <1>3 DEF ProductRow
<1>5. rows \in [Ids -> ProductRow] /\ \A j \in Ids : rows[j] = IF j = k THEN row ELSE db.product[j]
  BY <1>0, <1>3, <1>4
<1>6. C!Commit(c, [db EXCEPT !.product = rows])
  BY <1>1
<1>7. db.product[k].at = 0 /\ db.product[k].history = 0
  <2>1. db.product[k] = C!NoProduct
    BY <1>1
  <2>2. C!NoProduct.at = 0 /\ C!NoProduct.history = 0
    BY DEF C!NoProduct
  <2> QED
    BY <2>1, <2>2
<1> HIDE DEF rows, row
<1>9. \A j \in Ids :
        /\ rows[j].at = 0 => rows[j] = C!NoProduct
        /\ db.product[j].at # 0 => rows[j].at = db.product[j].at
        /\ ~ rows[j].history < db.product[j].history
  BY <1>0, <1>5, <1>7, CatalogProducts
<1> QED
  BY <1>1, <1>5, <1>6, <1>9, ProductsWritten

LEMMA UpdateProductWrites ==
  ASSUME CatalogInv, NEW c \in Clients, C!UpdateProduct(c)
  PROVE  \E new : CatalogWrite(c, new)
<1> DEFINE k == req[c].arg.asin
           row == IF req[c].arg.price = 0 THEN [db.product[k] EXCEPT !.active = ~@]
                  ELSE [db.product[k] EXCEPT !.price = req[c].arg.price]
           rows == [db.product EXCEPT ![k] = row]
<1>1. /\ req[c].op = "update product" /\ C!SameRow(c, k)
      /\ C!Commit(c, IF req[c].arg.price = 0 THEN [db EXCEPT !.product[k].active = ~@]
                     ELSE [db EXCEPT !.product[k].price = req[c].arg.price])
  BY DEF C!UpdateProduct
<1>2. CatalogRequest(req[c]) /\ db \in CatalogRows /\ CatalogSound(db)
  BY <1>1, CatalogAsked
<1>3. k \in Ids /\ db.product \in [Ids -> ProductRow]
  BY <1>1, <1>2, CatalogFields DEF CatalogRequest, CatalogArgument
<1>4. row \in ProductRow /\ row.at = db.product[k].at /\ row.history = db.product[k].history
  BY <1>1, <1>2, <1>3 DEF CatalogRequest, CatalogArgument, ProductRow
<1>5. rows \in [Ids -> ProductRow] /\ \A j \in Ids : rows[j] = IF j = k THEN row ELSE db.product[j]
  BY <1>3, <1>4
<1>6. C!Commit(c, [db EXCEPT !.product = rows])
  BY <1>1
<1>7. db.product[k].at # 0
  BY <1>1 DEF C!SameRow
<1> HIDE DEF rows, row
<1>8. \A j \in Ids :
        /\ rows[j].at = 0 => rows[j] = C!NoProduct
        /\ rows[j].at = db.product[j].at
        /\ ~ rows[j].history < db.product[j].history
  BY <1>4, <1>5, <1>7, CatalogProducts
<1> QED
  BY <1>1, <1>5, <1>6, <1>8, ProductsWritten

LEMMA DeleteProductWrites ==
  ASSUME CatalogInv, NEW c \in Clients, C!DeleteProduct(c)
  PROVE  \E new : CatalogWrite(c, new)
<1> DEFINE k == req[c].arg
           rows == [db.product EXCEPT ![k] = C!NoProduct]
<1>1. /\ req[c].op = "delete product" /\ req[c].saw.product[k].history = 0
      /\ ~ \E item \in C!OrderedItems : item.product = k
      /\ C!Commit(c, [db EXCEPT !.product[k] = C!NoProduct])
  BY DEF C!DeleteProduct
<1>2. CatalogRequest(req[c]) /\ db \in CatalogRows /\ CatalogSound(db)
  BY <1>1, CatalogAsked
<1>3. k \in Ids /\ db.product \in [Ids -> ProductRow]
  BY <1>1, <1>2, CatalogFields DEF CatalogRequest, CatalogArgument
<1>4. C!NoProduct \in ProductRow
  BY SessionsAssumption DEF C!NoProduct, ProductRow
<1>5. rows \in [Ids -> ProductRow] /\ \A j \in Ids : rows[j] = IF j = k THEN C!NoProduct ELSE db.product[j]
  BY <1>3, <1>4
<1>6. C!Commit(c, [db EXCEPT !.product = rows])
  BY <1>1
<1> HIDE DEF rows
<1>8. ASSUME NEW j \in Ids
      PROVE  /\ rows[j].at = 0 => rows[j] = C!NoProduct
             /\ db.product[j].at # 0 => rows[j].at = db.product[j].at \/ ~ \E item \in C!OrderedItems : item.product = j
             /\ rows[j].history < db.product[j].history =>
                  rows[j] = C!NoProduct /\ req[c].op = "delete product" /\ req[c].saw.product[j].history = 0
  <2>1. CASE j = k
    BY <1>1, <1>5, <2>1
  <2>2. CASE j # k
    <3>1. rows[j] = db.product[j] /\ db.product[j].history \in Nat
      BY <1>5, <2>2, CatalogProducts
    <3>2. ~ rows[j].history < db.product[j].history
      BY <3>1
    <3> QED
      BY <3>1, <3>2, CatalogProducts
  <2> QED
    BY <2>1, <2>2
<1> QED
  BY <1>1, <1>5, <1>6, <1>8, ProductsWritten

\* A refresh and a search: a row that is new has the request's time, one that is there keeps
\* its own, and history only grows.
LEMMA StoredWrites ==
  ASSUME CatalogInv, NEW c \in Clients, req[c].op # "idle", NEW asins \in SUBSET Ids, C!Stored(c, asins)
  PROVE  \E new : CatalogWrite(c, new)
<1>1. PICK keepa \in [asins -> [price : {0, 2}, points : {1}]] :
        C!Commit(c, [db EXCEPT !.product =
                       [k \in Ids |-> IF k \in asins THEN C!StoreFullProductData(c, @[k], keepa[k]) ELSE @[k]]])
  BY DEF C!Stored
<1> DEFINE rows == [k \in Ids |-> IF k \in asins THEN C!StoreFullProductData(c, db.product[k], keepa[k]) ELSE db.product[k]]
<1>2. CatalogRequest(req[c]) /\ db \in CatalogRows /\ CatalogSound(db)
  BY CatalogAsked
<1>3. db.product \in [Ids -> ProductRow] /\ req[c].at \in 1 .. MaxCalls
  BY <1>2, CatalogFields DEF CatalogRequest, CatalogArgument
<1>4. ASSUME NEW k \in asins
      PROVE  /\ rows[k] \in ProductRow /\ rows[k].at # 0 /\ rows[k].history >= db.product[k].history
             /\ db.product[k].at # 0 => rows[k].at = db.product[k].at
  <2>1. keepa[k].price \in {0, 2} /\ keepa[k].points = 1 /\ db.product[k] \in ProductRow
    BY <1>1, <1>3, <1>4
  <2>2. db.product[k] = C!NoProduct \/ db.product[k].at # 0
    BY <1>2 DEF CatalogSound
  <2>3. rows[k] = C!StoreFullProductData(c, db.product[k], keepa[k])
    OBVIOUS
  <2>4. /\ rows[k].at = IF db.product[k] = C!NoProduct THEN req[c].at ELSE db.product[k].at
        /\ rows[k].history = db.product[k].history + keepa[k].points + (IF keepa[k].price > 0 THEN 1 ELSE 0)
    BY <2>3 DEF C!StoreFullProductData
  <2>5. db.product[k].history \in Nat /\ db.product[k].at \in Nat
    BY <2>1 DEF ProductRow
  <2>6. rows[k].history \in Nat /\ rows[k].history >= db.product[k].history
    BY <2>1, <2>4, <2>5
  <2>7. rows[k].at \in Nat /\ rows[k].at # 0
    BY <1>3, <2>2, <2>4, <2>5
  <2>8. rows[k] \in ProductRow
    BY <2>1, <2>3, <2>6, <2>7 DEF C!StoreFullProductData, ProductRow, C!Prices
  <2>9. db.product[k].at # 0 => rows[k].at = db.product[k].at
    BY <2>4 DEF C!NoProduct
  <2> QED
    BY <2>6, <2>7, <2>8, <2>9
<1>5. rows \in [Ids -> ProductRow]
  BY <1>3, <1>4
<1>6. \A k \in Ids : rows[k].history \in Nat /\ (k \notin asins => rows[k] = db.product[k])
  BY <1>3, <1>5 DEF ProductRow
<1>7. C!Commit(c, [db EXCEPT !.product = rows])
  BY <1>1
<1> HIDE DEF rows
<1>8. \A k \in Ids :
        /\ rows[k].at = 0 => rows[k] = C!NoProduct
        /\ db.product[k].at # 0 => rows[k].at = db.product[k].at
        /\ ~ rows[k].history < db.product[k].history
  BY <1>4, <1>6, CatalogProducts
<1> QED
  BY <1>5, <1>7, <1>8, ProductsWritten

LEMMA RefreshWrites ==
  ASSUME CatalogInv, NEW c \in Clients, C!RefreshProduct(c) \/ C!SearchByAsin(c)
  PROVE  \E new : CatalogWrite(c, new)
<1>1. CASE C!RefreshProduct(c)
  <2>1. req[c].op = "refresh"
    BY <1>1 DEF C!RefreshProduct
  <2>2. CatalogRequest(req[c])
    BY <2>1, CatalogAsked
  <2>3. PICK asins \in SUBSET req[c].arg : C!Stored(c, asins)
    BY <1>1 DEF C!RefreshProduct
  <2>4. asins \in SUBSET Ids
    BY <2>1, <2>2, <2>3 DEF CatalogRequest, CatalogArgument
  <2> QED
    BY <2>1, <2>3, <2>4, StoredWrites
<1>2. CASE C!SearchByAsin(c)
  <2>1. req[c].op = "search" /\ C!Stored(c, {req[c].arg})
    BY <1>2 DEF C!SearchByAsin
  <2>2. CatalogRequest(req[c])
    BY <2>1, CatalogAsked
  <2>3. {req[c].arg} \in SUBSET Ids
    BY <2>1, <2>2 DEF CatalogRequest, CatalogArgument
  <2> QED
    BY <2>1, <2>3, StoredWrites
<1> QED
  BY <1>1, <1>2

LEMMA CreateOrderWrites ==
  ASSUME CatalogInv, NEW c \in Clients, C!CreateOrder(c)
  PROVE  \E new : CatalogWrite(c, new)
<1> DEFINE data == req[c].arg
           Items(price) ==
             {[product |-> k, row |-> db.product[k].at, quantity |-> data[k], unitPrice |-> price[k]] : k \in DOMAIN data}
           Placed(price) == [status |-> "pending", items |-> Items(price), total |-> C!TotalOf(Items(price))]
<1>1. req[c].op = "create order" /\ \A k \in DOMAIN data : C!SameRow(c, k)
  BY DEF C!CreateOrder
<1>2. PICK price \in [DOMAIN data -> {0} \cup C!Prices] :
        C!Commit(c, [db EXCEPT !.orders = Append(@, Placed(price))])
  BY DEF C!CreateOrder
<1> DEFINE order == Placed(price)
           new == [db EXCEPT !.orders = Append(@, order)]
<1>3. CatalogRequest(req[c]) /\ db \in CatalogRows /\ CatalogSound(db)
  BY <1>1, CatalogAsked
<1>4. data \in [DOMAIN data -> 1 .. 2] /\ DOMAIN data \subseteq Ids /\ DOMAIN data # {}
  BY <1>1, <1>3 DEF CatalogRequest, CatalogArgument
<1>5. \A k \in DOMAIN data : db.product[k].at # 0 /\ db.product[k].at \in Nat
  <2>1. \A k \in DOMAIN data : db.product[k].at # 0
    BY <1>1 DEF C!SameRow
  <2> QED
    BY <1>4, <2>1, CatalogProducts
<1>6. /\ order.items \subseteq ItemRow /\ order.items # {}
      /\ \A item \in order.items : db.product[item.product].at = item.row /\ item.row # 0
  <2>1. order.items = Items(price)
    OBVIOUS
  <2>2. ASSUME NEW k \in DOMAIN data
        PROVE  [product |-> k, row |-> db.product[k].at, quantity |-> data[k], unitPrice |-> price[k]] \in ItemRow
    BY <1>2, <1>4, <1>5 DEF ItemRow
  <2>3. Items(price) \subseteq ItemRow /\ Items(price) # {}
    BY <1>4, <2>2
  <2>4. \A item \in Items(price) : db.product[item.product].at = item.row /\ item.row # 0
    BY <1>5
  <2> QED
    BY <2>1, <2>3, <2>4
<1>7. order.status = "pending" /\ order.total = C!TotalOf(order.items)
  OBVIOUS
<1>8. order \in OrderRow
  <2>1. order = [status |-> order.status, items |-> order.items, total |-> order.total]
    OBVIOUS
  <2>2. "pending" \in C!OrderStatus
    BY DEF C!OrderStatus
  <2> HIDE DEF order
  <2>3. order.total \in {C!TotalOf(x) : x \in SUBSET ItemRow}
    BY <1>6, <1>7
  <2> QED
    BY <1>6, <1>7, <2>1, <2>2, <2>3 DEF OrderRow
<1> HIDE DEF order
<1>9. /\ db.orders \in Seq(OrderRow) /\ Len(db.orders) \in Nat
      /\ DOMAIN db.orders = 1 .. Len(db.orders) /\ \A i \in DOMAIN db.orders : db.orders[i] \in OrderRow
  BY <1>3, CatalogFields
<1>10. /\ Append(db.orders, order) \in Seq(OrderRow)
       /\ Len(Append(db.orders, order)) = Len(db.orders) + 1
       /\ \A i \in DOMAIN db.orders : Append(db.orders, order)[i] = db.orders[i]
       /\ Append(db.orders, order)[Len(db.orders) + 1] = order
       /\ DOMAIN Append(db.orders, order) = DOMAIN db.orders \cup {Len(db.orders) + 1}
  BY <1>8, <1>9
<1>11. new \in CatalogRows /\ new.product = db.product /\ new.orders = Append(db.orders, order)
  BY <1>3, <1>10 DEF CatalogRows
<1> HIDE DEF new
<1>12. CatalogSound(new)
  <2>1. \A k \in Ids : new.product[k].at = 0 => new.product[k] = C!NoProduct
    BY <1>11, CatalogProducts
  <2>2. ASSUME NEW i \in DOMAIN new.orders
        PROVE  /\ new.orders[i].items # {} /\ new.orders[i].total = C!TotalOf(new.orders[i].items)
               /\ \A item \in new.orders[i].items : new.product[item.product].at = item.row /\ item.row # 0
    <3>1. CASE i \in DOMAIN db.orders
      <4>1. new.orders[i] = db.orders[i]
        BY <1>10, <1>11, <3>1
      <4>2. /\ db.orders[i].items # {} /\ db.orders[i].total = C!TotalOf(db.orders[i].items)
            /\ \A item \in db.orders[i].items : db.product[item.product].at = item.row /\ item.row # 0
        BY <1>3, <3>1 DEF CatalogSound
      <4> QED
        BY <1>11, <4>1, <4>2
    <3>2. CASE i = Len(db.orders) + 1
      <4>1. new.orders[i] = order
        BY <1>10, <1>11, <3>2
      <4> QED
        BY <1>6, <1>7, <1>11, <4>1
    <3> QED
      BY <1>10, <1>11, <3>1, <3>2
  <2> QED
    BY <2>1, <2>2 DEF CatalogSound
<1>13. CatalogKept(c, new)
  <2>1. \A i \in DOMAIN db.orders : i \in DOMAIN new.orders /\ new.orders[i] = db.orders[i]
    BY <1>10, <1>11
  <2>2. \A k \in Ids : ~ db.product[k].history < db.product[k].history
    BY CatalogProducts
  <2> QED
    BY <1>11, <2>1, <2>2 DEF CatalogKept
<1>14. Len(db.orders) <= Len(new.orders)
  BY <1>9, <1>10, <1>11
<1>15. C!Commit(c, new)
  BY <1>2 DEF new, order
<1> QED
  BY <1>1, <1>11, <1>12, <1>13, <1>14, <1>15 DEF CatalogWrite

LEMMA UpdateOrderStatusWrites ==
  ASSUME CatalogInv, NEW c \in Clients, C!UpdateOrderStatus(c)
  PROVE  \E new : CatalogWrite(c, new)
<1> DEFINE order == req[c].arg.order
           status == req[c].arg.status
           new == [db EXCEPT !.orders[order].status = status]
<1>1. /\ req[c].op = "order status" /\ order \in DOMAIN req[c].saw.orders
      /\ status \in C!AllowedTransitions[req[c].saw.orders[order].status]
      /\ C!Commit(c, new)
  BY DEF C!UpdateOrderStatus
<1>2. CatalogRequest(req[c]) /\ db \in CatalogRows /\ CatalogSound(db)
  BY <1>1, CatalogAsked
<1>3. /\ db.orders \in Seq(OrderRow) /\ Len(db.orders) \in Nat
      /\ DOMAIN db.orders = 1 .. Len(db.orders) /\ \A i \in DOMAIN db.orders : db.orders[i] \in OrderRow
  BY <1>2, CatalogFields
<1>4. order \in DOMAIN db.orders
  <2>1. req[c].saw \in CatalogRows /\ Len(req[c].saw.orders) <= Len(db.orders)
    BY <1>2 DEF CatalogRequest, CatalogArgument
  <2>2. DOMAIN req[c].saw.orders = 1 .. Len(req[c].saw.orders) /\ Len(req[c].saw.orders) \in Nat
    BY <2>1, CatalogFields
  <2>3. \A m, n \in Nat : m <= n => 1 .. m \subseteq 1 .. n
    OBVIOUS
  <2>4. DOMAIN req[c].saw.orders \subseteq DOMAIN db.orders
    BY <1>3, <2>1, <2>2, <2>3
  <2> QED
    BY <1>1, <2>4
<1>5. status \in C!OrderStatus
  BY <1>1, <1>2 DEF CatalogRequest, CatalogArgument
<1> DEFINE row == [db.orders[order] EXCEPT !.status = status]
           rows == [db.orders EXCEPT ![order] = row]
<1>6. /\ row \in OrderRow /\ row.items = db.orders[order].items /\ row.total = db.orders[order].total
      /\ row.status = status
  <2>1. db.orders[order] \in OrderRow
    BY <1>3, <1>4
  <2> QED
    BY <1>5, <2>1 DEF OrderRow
<1> HIDE DEF row
<1>7. /\ rows \in Seq(OrderRow) /\ Len(rows) = Len(db.orders) /\ DOMAIN rows = DOMAIN db.orders
      /\ \A i \in DOMAIN db.orders : rows[i] = IF i = order THEN row ELSE db.orders[i]
  BY <1>3, <1>4, <1>6
<1>8. new.product = db.product /\ new.orders = rows /\ new \in CatalogRows
  <2>1. new = [db EXCEPT !.orders = rows]
    BY <1>2 DEF row, CatalogRows
  <2> HIDE DEF new, rows
  <2> QED
    BY <1>2, <1>7, <2>1 DEF CatalogRows
<1> HIDE DEF new, rows
<1>9. \A i \in DOMAIN db.orders : new.orders[i].items = db.orders[i].items /\ new.orders[i].total = db.orders[i].total
  BY <1>6, <1>7, <1>8
<1>10. CatalogSound(new)
  BY <1>2, <1>7, <1>8, <1>9 DEF CatalogSound
<1>11. CatalogKept(c, new)
  <2>1. ASSUME NEW i \in DOMAIN db.orders
        PROVE  /\ i \in DOMAIN new.orders /\ new.orders[i].items = db.orders[i].items
               /\ new.orders[i].status # db.orders[i].status =>
                    /\ req[c].op = "order status" /\ i \in DOMAIN req[c].saw.orders
                    /\ new.orders[i].status \in C!AllowedTransitions[req[c].saw.orders[i].status]
    BY <1>1, <1>6, <1>7, <1>8, <1>9
  <2>2. \A k \in Ids : ~ db.product[k].history < db.product[k].history
    BY CatalogProducts
  <2> QED
    BY <1>8, <2>1, <2>2 DEF CatalogKept
<1>12. Len(db.orders) <= Len(new.orders)
  BY <1>3, <1>7, <1>8
<1>13. C!Commit(c, new)
  BY <1>1 DEF new
<1> QED
  BY <1>1, <1>8, <1>10, <1>11, <1>12, <1>13 DEF CatalogWrite

\* The beginning of a request, of any kind that Next offers.
LEMMA CatalogAsks ==
  ASSUME CatalogInv, NEW c \in Clients, NEW op, NEW arg, C!Ask(c, op, arg), CatalogArgument(op, arg)
  PROVE  CatalogInv' /\ C!LegalStep
<1>1. /\ req[c].op = "idle" /\ calls < MaxCalls
      /\ req' = [req EXCEPT ![c] = [op |-> op, arg |-> arg, saw |-> db, at |-> calls + 1]]
      /\ calls' = calls + 1 /\ db' = db /\ mem' = mem
  BY DEF C!Ask
<1>2. \A d \in Clients :
        req'[d] = IF d = c THEN [op |-> op, arg |-> arg, saw |-> db, at |-> calls + 1] ELSE req[d]
  BY <1>1 DEF CatalogInv, RequestsNamed
<1>3. calls + 1 \in 1 .. MaxCalls /\ RequestsNamed'
  BY <1>1, SessionsAssumption DEF CatalogInv, RequestsNamed
<1>4. (db \in CatalogRows)' /\ CatalogSound(db)'
  BY <1>1 DEF CatalogInv, CatalogSound
<1>5. ASSUME NEW d \in Clients, req'[d].op # "idle"
      PROVE  CatalogRequest(req[d])'
  <2>1. CASE d = c
    <3>1. req'[d].op = op /\ req'[d].arg = arg /\ req'[d].saw = db /\ req'[d].at = calls + 1
      BY <1>2, <2>1
    <3>2. db \in CatalogRows /\ Len(db.orders) \in Nat
      BY CatalogFields DEF CatalogInv
    <3>3. Len(db.orders) <= Len(db.orders)
      BY <3>2
    <3> QED
      BY <1>1, <1>3, <3>1, <3>2, <3>3 DEF CatalogRequest
  <2>2. CASE d # c
    BY <1>1, <1>2, <1>5, <2>2 DEF CatalogInv, CatalogRequest
  <2> QED
    BY <2>1, <2>2
<1>6. C!LegalStep
  <2>1. \A k \in Ids : ~ db.product[k].history < db.product[k].history
    BY CatalogProducts
  <2> QED
    BY <1>1, <2>1 DEF C!LegalStep
<1> QED
  BY <1>3, <1>4, <1>5, <1>6 DEF CatalogInv

LEMMA CatalogNext ==
  ASSUME CatalogInv, C!Next
  PROVE  CatalogInv' /\ C!LegalStep
<1>1. PICK c \in Clients :
        \/ C!ProductRequests(c) \/ C!SourcingRequests(c) \/ C!OrderRequests(c)
        \/ C!CreateProduct(c) \/ C!UpdateProduct(c) \/ C!DeleteProduct(c) \/ C!RefreshProduct(c) \/ C!SearchByAsin(c)
        \/ C!CreateOrder(c) \/ C!UpdateOrderStatus(c) \/ C!Rollback(c)
  BY DEF C!Next
<1>2. CASE \E new : CatalogWrite(c, new)
  BY <1>2, CatalogWritten
<1>3. CASE C!ProductRequests(c)
  <2>1. PICK k \in Ids :
          \/ C!Ask(c, "create product", [asin |-> k, price |-> 1])
          \/ \E price \in {0, 2} : C!Ask(c, "update product", [asin |-> k, price |-> price])
          \/ C!Ask(c, "delete product", k)
    BY <1>3 DEF C!ProductRequests
  <2>2. 1 \in C!Prices /\ 2 \in C!Prices
    BY DEF C!Prices
  <2>3. CASE C!Ask(c, "create product", [asin |-> k, price |-> 1])
    BY <2>2, <2>3, CatalogAsks DEF CatalogArgument
  <2>4. ASSUME NEW price \in {0, 2}, C!Ask(c, "update product", [asin |-> k, price |-> price])
        PROVE  CatalogInv' /\ C!LegalStep
    BY <2>2, <2>4, CatalogAsks DEF CatalogArgument
  <2>5. CASE C!Ask(c, "delete product", k)
    BY <2>5, CatalogAsks DEF CatalogArgument
  <2> QED
    BY <2>1, <2>3, <2>4, <2>5
<1>4. CASE C!SourcingRequests(c)
  <2>1. ASSUME NEW asins \in {{"a"}, Ids}, C!Ask(c, "refresh", asins)
        PROVE  CatalogInv' /\ C!LegalStep
    BY <2>1, CatalogAsks, NamesAssumption DEF CatalogArgument
  <2>2. ASSUME NEW k \in Ids, C!Ask(c, "search", k)
        PROVE  CatalogInv' /\ C!LegalStep
    BY <2>2, CatalogAsks DEF CatalogArgument
  <2> QED
    BY <1>4, <2>1, <2>2 DEF C!SourcingRequests
<1>5. CASE C!OrderRequests(c)
  <2>1. ASSUME NEW products \in {{"a"}, Ids},
               C!Ask(c, "create order", [k \in products |-> IF k = "a" THEN 1 ELSE 2])
        PROVE  CatalogInv' /\ C!LegalStep
    <3> DEFINE data == [k \in products |-> IF k = "a" THEN 1 ELSE 2]
    <3>1. data \in [DOMAIN data -> 1 .. 2] /\ DOMAIN data \subseteq Ids /\ DOMAIN data # {}
      BY NamesAssumption
    <3>2. C!Ask(c, "create order", data)
      BY <2>1
    <3> HIDE DEF data
    <3> QED
      BY <3>1, <3>2, CatalogAsks DEF CatalogArgument
  <2>2. ASSUME NEW status \in {"confirmed", "cancelled", "delivered", "refunded"},
               C!Ask(c, "order status", [order |-> 1, status |-> status])
        PROVE  CatalogInv' /\ C!LegalStep
    <3>1. status \in C!OrderStatus
      BY DEF C!OrderStatus
    <3> QED
      BY <2>2, <3>1, CatalogAsks DEF CatalogArgument
  <2> QED
    BY <1>5, <2>1, <2>2 DEF C!OrderRequests
<1>6. CASE C!Rollback(c)
  <2>1. C!Commit(c, db) /\ req[c].op # "idle" /\ db \in CatalogRows /\ CatalogSound(db)
    BY <1>6 DEF C!Rollback, CatalogInv
  <2>2. Len(db.orders) \in Nat
    BY <2>1, CatalogFields
  <2>3. Len(db.orders) <= Len(db.orders)
    BY <2>2
  <2>4. CatalogKept(c, db)
    <3>1. \A k \in Ids : ~ db.product[k].history < db.product[k].history
      BY CatalogProducts
    <3> QED
      BY <3>1 DEF CatalogKept
  <2> QED
    BY <1>2, <2>1, <2>3, <2>4 DEF CatalogWrite
<1> QED
  BY <1>1, <1>2, <1>3, <1>4, <1>5, <1>6, CreateProductWrites, UpdateProductWrites, DeleteProductWrites, RefreshWrites,
     CreateOrderWrites, UpdateOrderStatusWrites

LEMMA CatalogInit == C!Init => CatalogInv
<1> SUFFICES ASSUME C!Init PROVE CatalogInv
  OBVIOUS
<1> DEFINE Items == {[product |-> "a", row |-> 1, quantity |-> 1, unitPrice |-> 1]}
           Imported == [at |-> 1, price |-> 1, active |-> TRUE, history |-> 0]
<1>1. PICK known \in SUBSET Ids, status \in {"pending", "shipped"} :
        db = [product |-> [k \in Ids |-> IF k \in known THEN Imported ELSE C!NoProduct],
              orders |-> IF "a" \in known THEN << [status |-> status, items |-> Items, total |-> C!TotalOf(Items)] >> ELSE <<>>]
  BY DEF C!Init
<1> DEFINE order == [status |-> status, items |-> Items, total |-> C!TotalOf(Items)]
<1>2. Items # {} /\ Items \subseteq ItemRow /\ \A item \in Items : item.product = "a" /\ item.row = 1
  BY NamesAssumption DEF ItemRow, C!Prices
<1>3. C!NoProduct \in ProductRow /\ Imported \in ProductRow /\ C!NoProduct.at = 0 /\ Imported.at = 1
  BY DEF C!NoProduct, ProductRow, C!Prices
<1>4. order \in OrderRow /\ order.items = Items /\ order.total = C!TotalOf(Items)
  BY <1>2 DEF OrderRow, C!OrderStatus
<1> HIDE DEF Items, Imported, order
<1>5. /\ db.product = [k \in Ids |-> IF k \in known THEN Imported ELSE C!NoProduct]
      /\ db.orders = IF "a" \in known THEN <<order>> ELSE <<>>
      /\ db = [product |-> db.product, orders |-> db.orders]
  BY <1>1 DEF order
<1>6. db.product \in [Ids -> ProductRow]
  BY <1>3, <1>5
<1>7. /\ db.orders \in Seq(OrderRow)
      /\ \A i \in DOMAIN db.orders : db.orders[i] = order /\ "a" \in known
  BY <1>4, <1>5
<1>8. db \in CatalogRows
  BY <1>5, <1>6, <1>7 DEF CatalogRows
<1>9. CatalogSound(db)
  <2>1. \A k \in Ids : db.product[k].at = 0 => db.product[k] = C!NoProduct
    BY <1>3, <1>5
  <2>2. "a" \in known => db.product["a"].at = 1
    BY <1>3, <1>5, NamesAssumption
  <2> QED
    BY <1>2, <1>4, <1>7, <2>1, <2>2 DEF CatalogSound
<1>10. RequestsNamed /\ \A c \in Clients : req[c].op = "idle"
  BY SessionsAssumption DEF C!Init, C!NoRequests, C!Idle, RequestsNamed
<1> QED
  BY <1>8, <1>9, <1>10 DEF CatalogInv

LEMMA CatalogStep ==
  ASSUME CatalogInv, [C!Next]_C!sessionVars
  PROVE  CatalogInv' /\ (C!LegalStep \/ UNCHANGED C!sessionVars)
<1>1. CASE C!Next
  BY <1>1, CatalogNext
<1>2. CASE UNCHANGED C!sessionVars
  <2>1. db' = db /\ mem' = mem /\ req' = req /\ calls' = calls
    BY <1>2 DEF C!sessionVars
  <2> QED
    BY <1>2, <2>1 DEF CatalogInv, RequestsNamed, CatalogSound, CatalogRequest
<1> QED
  BY <1>1, <1>2

\* Every item of an order is of the product row it was ordered from and no other, whatever
\* was deleted, made again or refreshed meanwhile, an order's total is the total of its
\* items, and a row that is gone has no history: for requests of any number of clients that
\* overlap in any order (app/domain/services and the constraints of app/domain/models).
THEOREM CatalogIntegrity == C!Spec => []C!Integrity
<1>1. C!Init => CatalogInv
  BY CatalogInit
<1>2. CatalogInv /\ [C!Next]_C!sessionVars => CatalogInv'
  BY CatalogStep
<1>3. CatalogInv => C!Integrity
  <2> SUFFICES ASSUME CatalogInv PROVE C!Integrity
    OBVIOUS
  <2>1. CatalogSound(db)
    BY DEF CatalogInv
  <2>2. \A item \in C!OrderedItems : db.product[item.product].at = item.row /\ item.row # 0
    BY <2>1 DEF CatalogSound, C!OrderedItems
  <2>3. \A k \in Ids : db.product[k].at = 0 => db.product[k].history = 0
    BY <2>1 DEF CatalogSound, C!NoProduct
  <2> QED
    BY <2>1, <2>2, <2>3 DEF CatalogSound, C!Integrity
<1> QED
  BY <1>1, <1>2, <1>3, PTL DEF C!Spec

\* An order's items never change and its status moves only as the service allows it from the
\* status that its request read; history goes only with a product that had none when the
\* request that deletes it read it (OrderService.update_order_status, delete_product).
THEOREM CatalogLegal == C!Spec => [][C!LegalStep]_C!sessionVars
<1>1. C!Init => CatalogInv
  BY CatalogInit
<1>2. CatalogInv /\ [C!Next]_C!sessionVars => CatalogInv'
  BY CatalogStep
<1>3. CatalogInv /\ [C!Next]_C!sessionVars => [C!LegalStep]_C!sessionVars
  BY CatalogStep
<1> QED
  BY <1>1, <1>2, <1>3, PTL DEF C!Spec

-----------------------------------------------------------------------------
(***************************************************************************)
(* Adapters.  The call in flight has in hand the adapter that the registry *)
(* has under the name, and the one whose client is closed is in use by a   *)
(* shutdown that goes on to forget it.                                     *)
(***************************************************************************)
L == INSTANCE Adapters
P == INSTANCE Plugins
K == INSTANCE Marketplaces

AdapterCall(codes, r) ==
  /\ r = [op |-> "call", all |-> r.all, todo |-> r.todo, uses |-> r.uses, answers |-> r.answers]
  /\ r.all \in BOOLEAN /\ r.todo \in Seq(codes) \ {<<>>}
  /\ r.todo[1] \in DOMAIN mem.instances /\ r.uses = mem.instances[r.todo[1]]
  /\ DOMAIN r.answers \subseteq codes
  /\ r.all /\ mem.asked = "search" => r.todo \in Seq(mem.enabled) /\ DOMAIN r.answers \subseteq mem.enabled

AdaptersInv(codes, operations) ==
  /\ req = [c \in Clients |-> req[c]]
  /\ mem = [initialized |-> mem.initialized, client |-> mem.client, opened |-> mem.opened, closed |-> mem.closed,
            instances |-> mem.instances, enabled |-> mem.enabled, asked |-> mem.asked]
  /\ mem.initialized \in BOOLEAN /\ mem.opened \in Nat /\ mem.enabled \in SUBSET codes /\ mem.asked \in operations
  /\ IsFiniteSet(mem.enabled)
  /\ L!InstancesTyped(codes) /\ L!LifeCycleSound
  /\ \A c \in Clients : req[c].op = "call" => AdapterCall(codes, req[c])

\* What every step keeps: which adapters are enabled, what is asked, the adapters made.
Going == mem'.enabled = mem.enabled /\ mem'.asked = mem.asked /\ L!InstancesKept

LEMMA TailOf ==
  ASSUME NEW S, NEW s \in Seq(S), s # <<>>
  PROVE  Tail(s) \in Seq(S) /\ (Tail(s) # <<>> => Tail(s)[1] \in S)
<1>1. Tail(s) \in Seq(S)
  OBVIOUS
<1> QED
  BY <1>1

LEMMA InitializeKeeps ==
  ASSUME NEW codes, NEW operations, AdaptersInv(codes, operations), L!Initialize
  PROVE  AdaptersInv(codes, operations)' /\ Going /\ req' = req /\ db' = db
<1>1. /\ mem.client = 0 /\ mem'.client = mem.opened + 1 /\ mem'.opened = mem.opened + 1 /\ mem'.initialized = TRUE
      /\ mem'.closed = mem.closed /\ mem'.enabled = mem.enabled /\ mem'.asked = mem.asked
  BY DEF AdaptersInv, L!Initialize, L!LifeCycleSound
<1>11. mem' = [initialized |-> mem'.initialized, client |-> mem'.client, opened |-> mem'.opened, closed |-> mem'.closed,
              instances |-> mem'.instances, enabled |-> mem'.enabled, asked |-> mem'.asked]
  BY DEF AdaptersInv, L!Initialize
<1>2. /\ DOMAIN mem'.instances = DOMAIN mem.instances \cup mem.enabled
      /\ \A code \in DOMAIN mem.instances : mem'.instances[code] = mem.instances[code]
      /\ \A code \in mem.enabled \ DOMAIN mem.instances :
           mem'.instances[code] = [client |-> mem.opened + 1, configured |-> TRUE]
  BY DEF AdaptersInv, L!Initialize
<1>3. req' = req /\ db' = db
  BY DEF L!Initialize
<1>4. L!InstancesTyped(codes)'
  <2>1. mem.opened \in Nat /\ mem.enabled \subseteq codes /\ L!InstancesTyped(codes)
    BY DEF AdaptersInv
  <2>2. DOMAIN mem'.instances \subseteq codes /\ mem'.closed \subseteq 1 .. mem'.opened /\ mem'.client \in 0 .. mem'.opened
    BY <1>1, <1>2, <2>1 DEF L!InstancesTyped
  <2>3. \A code \in DOMAIN mem'.instances : mem'.instances[code] \in [client : 0 .. mem'.opened, configured : BOOLEAN]
    <3>1. \A code \in DOMAIN mem.instances : mem.instances[code] \in [client : 0 .. mem.opened + 1, configured : BOOLEAN]
      BY <2>1 DEF L!InstancesTyped
    <3>2. [client |-> mem.opened + 1, configured |-> TRUE] \in [client : 0 .. mem.opened + 1, configured : BOOLEAN]
      BY <2>1
    <3> QED
      BY <1>1, <1>2, <3>1, <3>2
  <2> QED
    BY <2>2, <2>3 DEF L!InstancesTyped
<1>5. L!LifeCycleSound'
  BY <1>1, <1>2, <1>3 DEF AdaptersInv, L!LifeCycleSound, L!InstancesTyped
<1>6. L!InstancesKept
  BY <1>2 DEF L!InstancesKept
<1>7. \A c \in Clients : req'[c].op = "call" => AdapterCall(codes, req[c])'
  BY <1>1, <1>2, <1>3 DEF AdaptersInv, AdapterCall
<1>8. mem'.initialized \in BOOLEAN /\ mem'.opened \in Nat /\ mem'.enabled \in SUBSET codes /\ mem'.asked \in operations
  <2>1. mem.initialized \in BOOLEAN /\ mem.opened \in Nat /\ mem.enabled \in SUBSET codes /\ mem.asked \in operations
    BY DEF AdaptersInv
  <2>2. mem'.opened = mem.opened + 1 /\ mem'.enabled = mem.enabled /\ mem'.asked = mem.asked
    BY <1>1
  <2>3. mem'.initialized \in BOOLEAN
    BY <1>1
  <2> QED
    BY <2>1, <2>2, <2>3
<1>10. req' = [c \in Clients |-> req'[c]]
  BY <1>3 DEF AdaptersInv
<1>9. AdaptersInv(codes, operations)'
  BY <1>1, <1>4, <1>5, <1>7, <1>8, <1>10, <1>11 DEF AdaptersInv
<1> QED
  BY <1>1, <1>3, <1>6, <1>9 DEF Going

LEMMA ShutdownKeeps ==
  ASSUME NEW codes, NEW operations, AdaptersInv(codes, operations), NEW c \in Clients, L!Shutdown(c)
  PROVE  /\ AdaptersInv(codes, operations)' /\ Going /\ db' = db
         /\ \A d \in Clients : req'[d].op = "call" => req'[d] = req[d]
<1>1. /\ req' = [req EXCEPT ![c] = [op |-> "closing"]] /\ mem' = [mem EXCEPT !.closed = @ \cup {mem.client}]
      /\ mem.client # 0 /\ db' = db
  BY DEF L!Shutdown
<1>2. /\ mem'.client = mem.client /\ mem'.opened = mem.opened /\ mem'.initialized = mem.initialized
      /\ mem'.closed = mem.closed \cup {mem.client} /\ mem'.enabled = mem.enabled /\ mem'.asked = mem.asked
      /\ mem'.instances = mem.instances
      /\ mem' = [initialized |-> mem'.initialized, client |-> mem'.client, opened |-> mem'.opened, closed |-> mem'.closed,
                 instances |-> mem'.instances, enabled |-> mem'.enabled, asked |-> mem'.asked]
  BY <1>1 DEF AdaptersInv
<1>3. /\ req' = [d \in Clients |-> req'[d]] /\ req'[c] = [op |-> "closing"]
      /\ \A d \in Clients \ {c} : req'[d] = req[d]
  BY <1>1 DEF AdaptersInv
<1>4. L!InstancesTyped(codes)' /\ L!InstancesKept
  BY <1>1, <1>2 DEF AdaptersInv, L!InstancesTyped, L!InstancesKept
<1>5. L!LifeCycleSound'
  BY <1>2, <1>3 DEF AdaptersInv, L!LifeCycleSound
<1>6. \A d \in Clients : req'[d].op = "call" => req'[d] = req[d] /\ AdapterCall(codes, req[d])'
  BY <1>2, <1>3 DEF AdaptersInv, AdapterCall
<1> QED
  BY <1>1, <1>2, <1>3, <1>4, <1>5, <1>6 DEF AdaptersInv, Going, AdapterCall

LEMMA ClosedKeeps ==
  ASSUME NEW codes, NEW operations, AdaptersInv(codes, operations), NEW c \in Clients, L!Closed(c)
  PROVE  /\ AdaptersInv(codes, operations)' /\ Going /\ db' = db
         /\ \A d \in Clients : req'[d].op = "call" => req'[d] = req[d]
<1>1. /\ req' = [req EXCEPT ![c] = Idle] /\ mem' = [mem EXCEPT !.client = 0, !.initialized = FALSE] /\ db' = db
  BY DEF L!Closed, L!Idle, Idle
<1>2. /\ mem'.client = 0 /\ mem'.opened = mem.opened /\ mem'.initialized = FALSE
      /\ mem'.closed = mem.closed /\ mem'.enabled = mem.enabled /\ mem'.asked = mem.asked
      /\ mem'.instances = mem.instances
      /\ mem' = [initialized |-> mem'.initialized, client |-> mem'.client, opened |-> mem'.opened, closed |-> mem'.closed,
                 instances |-> mem'.instances, enabled |-> mem'.enabled, asked |-> mem'.asked]
  BY <1>1 DEF AdaptersInv
<1>3. /\ req' = [d \in Clients |-> req'[d]] /\ req'[c] = Idle
      /\ \A d \in Clients \ {c} : req'[d] = req[d]
  BY <1>1 DEF AdaptersInv
<1>4. L!InstancesTyped(codes)' /\ L!InstancesKept
  BY <1>1, <1>2 DEF AdaptersInv, L!InstancesTyped, L!InstancesKept
<1>5. L!LifeCycleSound'
  BY <1>2, <1>3 DEF AdaptersInv, L!LifeCycleSound, L!InstancesTyped
<1>6. \A d \in Clients : req'[d].op = "call" => req'[d] = req[d] /\ AdapterCall(codes, req[d])'
  BY <1>2, <1>3 DEF AdaptersInv, AdapterCall, Idle
<1> QED
  BY <1>1, <1>2, <1>3, <1>4, <1>5, <1>6 DEF AdaptersInv, Going, AdapterCall

LEMMA CallKeeps ==
  ASSUME NEW codes, NEW operations, AdaptersInv(codes, operations), NEW c \in Clients,
         NEW todo \in Seq(codes), NEW all \in BOOLEAN, all /\ mem.asked = "search" => todo \in Seq(mem.enabled),
         L!Call(c, todo, all)
  PROVE  /\ AdaptersInv(codes, operations)' /\ Going /\ db' = db
         /\ \A d \in Clients : req'[d].op = "call" => req'[d] = req[d] \/ (req'[d].answers = <<>> /\ req'[d].all = all)
<1> DEFINE new == [op |-> "call", all |-> all, todo |-> todo, uses |-> L!Get(todo[1]), answers |-> <<>>]
           made == L!With(mem.instances, todo[1], L!Get(todo[1]))
<1>1. req' = [req EXCEPT ![c] = new] /\ mem' = [mem EXCEPT !.instances = made] /\ todo # <<>> /\ db' = db
  BY DEF L!Call
<1>2. todo[1] \in codes
  BY <1>1
<1>3. /\ DOMAIN made = DOMAIN mem.instances \cup {todo[1]} /\ made[todo[1]] = L!Get(todo[1])
      /\ \A code \in DOMAIN mem.instances : made[code] = mem.instances[code]
  BY DEF L!With, L!Get
<1>4. L!Get(todo[1]) \in [client : 0 .. mem.opened, configured : BOOLEAN] /\
      (todo[1] \notin DOMAIN mem.instances => L!Get(todo[1]).configured = FALSE)
  BY DEF L!Get, AdaptersInv, L!InstancesTyped
<1> HIDE DEF made
<1>5. /\ mem'.client = mem.client /\ mem'.opened = mem.opened /\ mem'.initialized = mem.initialized
      /\ mem'.closed = mem.closed /\ mem'.enabled = mem.enabled /\ mem'.asked = mem.asked /\ mem'.instances = made
      /\ mem' = [initialized |-> mem'.initialized, client |-> mem'.client, opened |-> mem'.opened, closed |-> mem'.closed,
                 instances |-> mem'.instances, enabled |-> mem'.enabled, asked |-> mem'.asked]
  BY <1>1 DEF AdaptersInv
<1>6. /\ req' = [d \in Clients |-> req'[d]] /\ req'[c] = new /\ req[c].op = "idle"
      /\ \A d \in Clients \ {c} : req'[d] = req[d]
  BY <1>1 DEF AdaptersInv, L!Call
<1>7. L!InstancesTyped(codes)'
  <2>1. DOMAIN made \subseteq codes
    BY <1>2, <1>3 DEF AdaptersInv, L!InstancesTyped
  <2>2. \A code \in DOMAIN made : made[code] \in [client : 0 .. mem.opened, configured : BOOLEAN]
    BY <1>3, <1>4 DEF AdaptersInv, L!InstancesTyped
  <2> QED
    BY <1>5, <2>1, <2>2 DEF AdaptersInv, L!InstancesTyped
<1>8. L!LifeCycleSound'
  <2>1. mem'.client \in mem'.closed => \E d \in Clients : req'[d].op = "closing"
    BY <1>5, <1>6 DEF AdaptersInv, L!LifeCycleSound
  <2>2. \A code \in DOMAIN made : made[code].configured => code \in mem.enabled
    BY <1>3, <1>4 DEF AdaptersInv, L!LifeCycleSound
  <2> QED
    BY <1>5, <2>1, <2>2 DEF AdaptersInv, L!LifeCycleSound
<1>9. \A d \in Clients : req'[d].op = "call" => AdapterCall(codes, req[d])'
  <2>1. AdapterCall(codes, req[c])'
    BY <1>1, <1>3, <1>5, <1>6 DEF AdapterCall
  <2>2. \A d \in Clients \ {c} : req'[d].op = "call" => AdapterCall(codes, req[d])'
    BY <1>3, <1>5, <1>6 DEF AdaptersInv, AdapterCall
  <2> QED
    BY <2>1, <2>2
<1>10. AdaptersInv(codes, operations)'
  BY <1>5, <1>6, <1>7, <1>8, <1>9 DEF AdaptersInv
<1>11. L!InstancesKept
  BY <1>3, <1>5 DEF L!InstancesKept
<1> QED
  BY <1>1, <1>5, <1>6, <1>10, <1>11 DEF Going

LEMMA AnsweredKeeps ==
  ASSUME NEW codes, NEW operations, AdaptersInv(codes, operations), NEW c \in Clients, NEW answers,
         DOMAIN answers \subseteq codes, req[c].all /\ mem.asked = "search" => DOMAIN answers \subseteq mem.enabled,
         L!Answered(c, answers)
  PROVE  /\ AdaptersInv(codes, operations)' /\ Going
         /\ \A d \in Clients : req'[d].op = "call" =>
              req'[d] = req[d] \/ (d = c /\ req'[d].answers = answers /\ req'[d].all = req[d].all)
         /\ db' = db \/ db' = [all |-> req[c].all, answers |-> answers]
<1> DEFINE rest == Tail(req[c].todo)
           new == [req[c] EXCEPT !.todo = rest, !.uses = L!Get(rest[1]), !.answers = answers]
           made == L!With(mem.instances, rest[1], L!Get(rest[1]))
<1>1. req[c].op = "call" /\ AdapterCall(codes, req[c])
  BY DEF L!Answered, AdaptersInv
<1>2. CASE rest = <<>>
  <2>1. db' = [all |-> req[c].all, answers |-> answers] /\ req' = [req EXCEPT ![c] = Idle] /\ mem' = mem
    BY <1>2 DEF L!Answered, L!Idle, Idle
  <2>2. /\ req' = [d \in Clients |-> req'[d]] /\ req'[c] = Idle
        /\ \A d \in Clients \ {c} : req'[d] = req[d]
    BY <2>1 DEF AdaptersInv
  <2>3. L!InstancesTyped(codes)' /\ L!InstancesKept
    BY <2>1 DEF AdaptersInv, L!InstancesTyped, L!InstancesKept
  <2>4. L!LifeCycleSound'
    BY <1>1, <2>1, <2>2 DEF AdaptersInv, L!LifeCycleSound
  <2>5. \A d \in Clients : req'[d].op = "call" => req'[d] = req[d] /\ AdapterCall(codes, req[d])'
    BY <2>1, <2>2 DEF AdaptersInv, AdapterCall, Idle
  <2>6. AdaptersInv(codes, operations)'
    BY <2>1, <2>2, <2>3, <2>4, <2>5 DEF AdaptersInv
  <2> QED
    BY <2>1, <2>3, <2>5, <2>6 DEF Going
<1>3. CASE rest # <<>>
  <2>1. req' = [req EXCEPT ![c] = new] /\ mem' = [mem EXCEPT !.instances = made] /\ db' = db
    BY <1>3 DEF L!Answered
  <2>2. rest \in Seq(codes) /\ rest[1] \in codes /\ (req[c].all /\ mem.asked = "search" => rest \in Seq(mem.enabled))
    <3>1. req[c].todo \in Seq(codes) /\ req[c].todo # <<>>
      BY <1>1 DEF AdapterCall
    <3>2. rest \in Seq(codes)
      BY <3>1
    <3>3. rest[1] \in codes
      BY <1>3, <3>2
    <3>4. req[c].all /\ mem.asked = "search" => rest \in Seq(mem.enabled)
      <4>1. SUFFICES ASSUME req[c].todo \in Seq(mem.enabled)
                     PROVE  rest \in Seq(mem.enabled)
        BY <1>1 DEF AdapterCall
      <4> QED
        BY <3>1, <4>1, TailOf
    <3> QED
      BY <3>2, <3>3, <3>4
  <2>3. new = [op |-> "call", all |-> req[c].all, todo |-> rest, uses |-> L!Get(rest[1]), answers |-> answers]
    <3> HIDE DEF rest
    <3>1. PICK all, todo, uses, before :
            req[c] = [op |-> "call", all |-> all, todo |-> todo, uses |-> uses, answers |-> before]
      BY <1>1 DEF AdapterCall
    <3>2. new = [op |-> "call", all |-> all, todo |-> rest, uses |-> L!Get(rest[1]), answers |-> answers]
      <4> DEFINE had == [op |-> "call", all |-> all, todo |-> todo, uses |-> uses, answers |-> before]
                 got == L!Get(rest[1])
      <4>1. new = [[[had EXCEPT !.todo = rest] EXCEPT !.uses = got] EXCEPT !.answers = answers]
        BY <3>1
      <4> HIDE DEF got
      <4>2. [had EXCEPT !.todo = rest] = [op |-> "call", all |-> all, todo |-> rest, uses |-> uses, answers |-> before]
        OBVIOUS
      <4>3. [[op |-> "call", all |-> all, todo |-> rest, uses |-> uses, answers |-> before] EXCEPT !.uses = got]
              = [op |-> "call", all |-> all, todo |-> rest, uses |-> got, answers |-> before]
        OBVIOUS
      <4>4. [[op |-> "call", all |-> all, todo |-> rest, uses |-> got, answers |-> before] EXCEPT !.answers = answers]
              = [op |-> "call", all |-> all, todo |-> rest, uses |-> got, answers |-> answers]
        OBVIOUS
      <4> QED
        BY <4>1, <4>2, <4>3, <4>4 DEF got
    <3>3. req[c].all = all
      BY <3>1
    <3> QED
      BY <3>2, <3>3
  <2>4. /\ DOMAIN made = DOMAIN mem.instances \cup {rest[1]} /\ made[rest[1]] = L!Get(rest[1])
        /\ \A code \in DOMAIN mem.instances : made[code] = mem.instances[code]
    BY DEF L!With, L!Get
  <2>5. L!Get(rest[1]) \in [client : 0 .. mem.opened, configured : BOOLEAN] /\
        (rest[1] \notin DOMAIN mem.instances => L!Get(rest[1]).configured = FALSE)
    BY DEF L!Get, AdaptersInv, L!InstancesTyped
  <2> HIDE DEF made, new, rest
  <2>6. /\ mem'.client = mem.client /\ mem'.opened = mem.opened /\ mem'.initialized = mem.initialized
        /\ mem'.closed = mem.closed /\ mem'.enabled = mem.enabled /\ mem'.asked = mem.asked /\ mem'.instances = made
        /\ mem' = [initialized |-> mem'.initialized, client |-> mem'.client, opened |-> mem'.opened, closed |-> mem'.closed,
                   instances |-> mem'.instances, enabled |-> mem'.enabled, asked |-> mem'.asked]
    BY <2>1 DEF AdaptersInv
  <2>7. /\ req' = [d \in Clients |-> req'[d]] /\ req'[c] = new
        /\ \A d \in Clients \ {c} : req'[d] = req[d]
    BY <2>1 DEF AdaptersInv
  <2>8. L!InstancesTyped(codes)'
    <3>1. DOMAIN made \subseteq codes
      BY <2>2, <2>4 DEF AdaptersInv, L!InstancesTyped
    <3>2. \A code \in DOMAIN made : made[code] \in [client : 0 .. mem.opened, configured : BOOLEAN]
      BY <2>4, <2>5 DEF AdaptersInv, L!InstancesTyped
    <3> QED
      BY <2>6, <3>1, <3>2 DEF AdaptersInv, L!InstancesTyped
  <2>9. L!LifeCycleSound'
    <3>1. mem'.client \in mem'.closed => \E d \in Clients : req'[d].op = "closing"
      BY <1>1, <2>6, <2>7 DEF AdaptersInv, L!LifeCycleSound
    <3>2. \A code \in DOMAIN made : made[code].configured => code \in mem.enabled
      BY <2>4, <2>5 DEF AdaptersInv, L!LifeCycleSound
    <3> QED
      BY <2>6, <3>1, <3>2 DEF AdaptersInv, L!LifeCycleSound
  <2>10. \A d \in Clients : req'[d].op = "call" => AdapterCall(codes, req[d])'
    <3>1. AdapterCall(codes, req[c])'
      BY <1>1, <1>3, <2>2, <2>3, <2>4, <2>6, <2>7 DEF AdapterCall
    <3>2. \A d \in Clients \ {c} : req'[d].op = "call" => AdapterCall(codes, req[d])'
      BY <2>4, <2>6, <2>7 DEF AdaptersInv, AdapterCall
    <3> QED
      BY <3>1, <3>2
  <2>11. AdaptersInv(codes, operations)'
    BY <2>6, <2>7, <2>8, <2>9, <2>10 DEF AdaptersInv
  <2>12. L!InstancesKept
    BY <2>4, <2>6 DEF L!InstancesKept
  <2> QED
    BY <2>1, <2>3, <2>6, <2>7, <2>11, <2>12 DEF Going
<1> QED
  BY <1>2, <1>3

-----------------------------------------------------------------------------
PluginSound(answer) == P!AnswerSound(answer) /\ answer.outcome \in {"ok", "none", "failed", "invalid"}

LEMMA PlainSound ==
  ASSUME NEW result, DOMAIN result \cap {"unit", "tiers", "available"} = {}
  PROVE  PluginSound(P!Ok(result)) /\ P!Ok(result).outcome = "ok"
<1> DEFINE answer == P!Ok(result)
<1>1. DOMAIN answer = DOMAIN result \cup {"outcome"} /\ answer.outcome = "ok"
  BY DEF P!Ok, P!With
<1> HIDE DEF answer
<1>2. "unit" \notin DOMAIN answer /\ "tiers" \notin DOMAIN answer /\ "available" \notin DOMAIN answer
  BY <1>1
<1>3. PluginSound(answer)
  BY <1>1, <1>2 DEF PluginSound, P!AnswerSound
<1> QED
  BY <1>1, <1>3 DEF answer

LEMMA NothingSound == PluginSound(P!Missing) /\ PluginSound(P!Failed) /\ PluginSound(P!Invalid)
BY DEF PluginSound, P!AnswerSound, P!Missing, P!Failed, P!Invalid

Tiered == {P!WalmartPlugin, P!BestBuyPlugin, P!TargetPlugin, P!HomeDepotPlugin, P!CostcoPlugin, P!Plain}

LEMMA PricingSound ==
  ASSUME NEW supplier \in Tiered, NEW price \in {0, 1000, 1100}
  PROVE  PluginSound(P!Pricing(supplier, price))
<1> DEFINE tiers == [i \in DOMAIN supplier.tiers |-> <<supplier.tiers[i][1], (price * supplier.tiers[i][2]) \div 100>>]
           result == [unit |-> price, tiers |-> tiers, map |-> (price * supplier.map) \div 100,
                      suggested |-> (price * supplier.suggested) \div 100]
           answer == P!Ok(result)
<1>1. CASE price = 0
  BY <1>1, NothingSound DEF P!Pricing, P!Priced
<1>2. CASE price # 0
  <2>1. P!Pricing(supplier, price) = answer
    BY <1>2 DEF P!Pricing, P!Priced
  <2>2. /\ answer.unit = price /\ answer.tiers = tiers /\ answer.map = (price * supplier.map) \div 100
        /\ answer.suggested = (price * supplier.suggested) \div 100 /\ answer.outcome = "ok"
        /\ DOMAIN answer = {"unit", "tiers", "map", "suggested", "outcome"}
    BY DEF P!Ok, P!With
  <2> HIDE DEF answer
  <2>3. /\ \A i, j \in DOMAIN tiers : i < j => tiers[i][1] < tiers[j][1] /\ tiers[i][2] > tiers[j][2]
        /\ \A i \in DOMAIN tiers : tiers[i][2] < price
    <3>1. CASE supplier.tiers = <<>>
      BY <3>1
    <3>2. CASE supplier = P!BestBuyPlugin
      <4>1. DOMAIN supplier.tiers = {1, 2, 3} /\ supplier.tiers[1] = <<5, 98>> /\ supplier.tiers[2] = <<25, 95>> /\ supplier.tiers[3] = <<100, 90>>
        BY <3>2 DEF P!BestBuyPlugin
      <4>2. DOMAIN tiers = {1, 2, 3}
        BY <4>1
      <4>3. tiers[1] = <<5, (price * 98) \div 100>> /\ tiers[2] = <<25, (price * 95) \div 100>> /\ tiers[3] = <<100, (price * 90) \div 100>>
        BY <4>1
      <4> HIDE DEF tiers
      <4> QED
        BY <1>2, <4>2, <4>3
    <3>3. CASE supplier = P!HomeDepotPlugin
      <4>1. DOMAIN supplier.tiers = {1, 2, 3} /\ supplier.tiers[1] = <<10, 95>> /\ supplier.tiers[2] = <<50, 90>> /\ supplier.tiers[3] = <<100, 85>>
        BY <3>3 DEF P!HomeDepotPlugin
      <4>2. DOMAIN tiers = {1, 2, 3}
        BY <4>1
      <4>3. tiers[1] = <<10, (price * 95) \div 100>> /\ tiers[2] = <<50, (price * 90) \div 100>> /\ tiers[3] = <<100, (price * 85) \div 100>>
        BY <4>1
      <4> HIDE DEF tiers
      <4> QED
        BY <1>2, <4>2, <4>3
    <3>4. CASE supplier = P!CostcoPlugin
      <4>1. DOMAIN supplier.tiers = {1, 2} /\ supplier.tiers[1] = <<50, 97>> /\ supplier.tiers[2] = <<200, 93>>
        BY <3>4 DEF P!CostcoPlugin
      <4>2. DOMAIN tiers = {1, 2}
        BY <4>1
      <4>3. tiers[1] = <<50, (price * 97) \div 100>> /\ tiers[2] = <<200, (price * 93) \div 100>>
        BY <4>1
      <4> HIDE DEF tiers
      <4> QED
        BY <1>2, <4>2, <4>3
    <3>5. CASE supplier \in {P!WalmartPlugin, P!TargetPlugin, P!Plain}
      <4>1. supplier.tiers = <<>>
        BY <3>5 DEF P!WalmartPlugin, P!TargetPlugin, P!Plain
      <4> QED
        BY <3>1, <4>1
    <3>6. supplier \in {P!BestBuyPlugin, P!HomeDepotPlugin, P!CostcoPlugin} \cup {P!WalmartPlugin, P!TargetPlugin, P!Plain}
      BY DEF Tiered
    <3> HIDE DEF tiers
    <3> QED
      BY <3>2, <3>3, <3>4, <3>5, <3>6
  <2>4. answer.map <= answer.unit /\ (answer.suggested > 0 => answer.suggested > answer.unit)
    BY <1>2, <2>2 DEF Tiered, P!WalmartPlugin, P!BestBuyPlugin, P!TargetPlugin, P!HomeDepotPlugin, P!CostcoPlugin, P!Plain
  <2> HIDE DEF tiers
  <2>5. \A tier \in P!ToSet(tiers) : tier[2] < price
    BY <2>3 DEF P!ToSet
  <2>6. P!AnswerSound(answer)
    BY <1>2, <2>2, <2>3, <2>4, <2>5 DEF P!AnswerSound
  <2> QED
    BY <2>1, <2>2, <2>6 DEF PluginSound
<1> QED
  BY <1>1, <1>2

LEMMA AvailabilitySound ==
  ASSUME NEW inventory, PluginSound(inventory)
  PROVE  PluginSound(P!Availability(inventory))
<1> DEFINE stock == IF inventory.quantity > 0 THEN "in" ELSE "out"
           result == [available |-> inventory.quantity > 0 \/ inventory.backorder, backorder |-> inventory.backorder, stock |-> stock]
           answer == P!Ok(result)
<1>1. CASE inventory.outcome # "ok"
  BY <1>1 DEF P!Availability
<1>2. CASE inventory.outcome = "ok"
  <2>1. P!Availability(inventory) = answer
    BY <1>2 DEF P!Availability
  <2>2. /\ DOMAIN answer = {"available", "backorder", "stock", "outcome"}
        /\ answer.available = (inventory.quantity > 0 \/ inventory.backorder) /\ answer.backorder = inventory.backorder
        /\ answer.stock = stock /\ answer.outcome = "ok"
    BY DEF P!Ok, P!With
  <2>3. answer.available <=> answer.stock = "in" \/ answer.backorder
    BY <2>2
  <2> HIDE DEF answer
  <2> QED
    BY <2>1, <2>2, <2>3 DEF PluginSound, P!AnswerSound
<1> QED
  BY <1>1, <1>2

\* Every answer of a supplier is one that its model accepts.
LEMMA PluginAnswerSound ==
  ASSUME NEW supplier \in P!Suppliers, NEW operation \in P!Operations, NEW answer \in P!Answers, NEW closed
  PROVE  PluginSound(P!Answer(supplier, operation, answer, closed))
<1> DEFINE out == P!Answer(supplier, operation, answer, closed)
<1>1. \A n : PluginSound(P!Ok([count |-> n]))
  BY PlainSound
<1>2. \A n : PluginSound(P!Ok([methods |-> n]))
  BY PlainSound
<1>3. \A n : PluginSound(P!Ok([discounts |-> n]))
  BY PlainSound
<1>4. \A n, b : PluginSound(P!Ok([quantity |-> n, backorder |-> b]))
  BY PlainSound
<1>5. \A s \in Tiered : PluginSound(P!Coupon(s)) /\ PluginSound(P!Shipping(s))
  BY <1>2, <1>3, NothingSound DEF P!Coupon, P!Shipping
<1>6. answer.status \in {200, 404, 500} /\ answer.price \in {0, 1000}
  BY DEF P!Answers
<1>7. CASE supplier = "demo"
  <2>1. out = P!DemoPlugin(operation, answer)
    BY <1>7 DEF P!Answer
  <2>2. P!Plain \in Tiered
    BY DEF Tiered
  <2>3. CASE operation \in {"search", "coupon"}
    BY <1>1, <1>5, <2>1, <2>2, <2>3 DEF P!DemoPlugin
  <2>4. CASE operation \notin {"search", "coupon"} /\ answer.status # 200
    BY <2>1, <2>4, NothingSound DEF P!DemoPlugin
  <2>5. CASE operation \in {"lookup", "pricing"} /\ answer.status = 200
    BY <2>1, <2>2, <2>5, PricingSound DEF P!DemoPlugin
  <2>6. CASE operation = "inventory" /\ answer.status = 200
    BY <1>4, <2>1, <2>6 DEF P!DemoPlugin
  <2>7. CASE operation = "shipping" /\ answer.status = 200
    BY <1>5, <2>1, <2>2, <2>7 DEF P!DemoPlugin
  <2>8. CASE operation = "availability" /\ answer.status = 200
    <3> DEFINE inventory == [outcome |-> "ok", quantity |-> P!Greatest(0, answer.quantity), backorder |-> FALSE]
    <3>1. PluginSound(inventory)
      BY DEF PluginSound, P!AnswerSound
    <3> QED
      BY <2>1, <2>8, <3>1, AvailabilitySound DEF P!DemoPlugin
  <2> QED
    BY <2>3, <2>4, <2>5, <2>6, <2>7, <2>8 DEF P!Operations
<1>8. CASE supplier = "scrape"
  <2> DEFINE lookup == P!Pricing(P!Plain, answer.price)
             one == P!Ok([quantity |-> 1, backorder |-> FALSE])
  <2>1. out = P!ScrapePlugin(operation, answer)
    BY <1>8 DEF P!Answer
  <2>2. PluginSound(lookup) /\ PluginSound(one)
    BY <1>4, <1>6, PricingSound DEF Tiered
  <2>3. PluginSound(P!Availability(IF lookup.outcome = "ok" THEN one ELSE lookup))
    BY <2>2, AvailabilitySound
  <2> HIDE DEF lookup, one
  <2>4. CASE operation \in {"coupon", "shipping"}
    BY <1>2, <1>3, <2>1, <2>4 DEF P!ScrapePlugin
  <2>5. CASE operation \notin {"coupon", "shipping"} /\ answer.status # 200
    BY <1>1, <1>6, <2>1, <2>5, NothingSound DEF P!ScrapePlugin
  <2>6. CASE operation \notin {"coupon", "shipping"} /\ answer.status = 200
    BY <2>1, <2>2, <2>3, <2>6, NothingSound DEF P!ScrapePlugin, P!Operations, lookup, one
  <2> QED
    BY <1>6, <2>4, <2>5, <2>6
<1>9. CASE supplier \notin {"demo", "scrape"}
  <2> DEFINE s == P!Http[supplier]
  <2>1. s \in Tiered
    BY <1>9 DEF P!Suppliers, P!Http, Tiered
  <2>2. out \in {P!Failed, P!HttpPlugin(s, operation, answer)}
    BY <1>9 DEF P!Answer
  <2> HIDE DEF s
  <2>3. PluginSound(P!Pricing(s, answer.price))
    BY <1>6, <2>1, PricingSound
  <2>4. PluginSound(P!Inventory(answer)) /\ PluginSound(P!Availability(P!Inventory(answer)))
    BY <1>4, NothingSound, AvailabilitySound DEF P!Inventory
  <2>5. PluginSound(P!Priced(answer.price, [count |-> 1]))
    BY <1>1, NothingSound DEF P!Priced
  <2>6. PluginSound(P!Priced(answer.price, [unit |-> answer.price]))
    <3>1. CASE answer.price > 0
      <4> DEFINE result == P!Ok([unit |-> answer.price])
      <4>1. DOMAIN result = {"unit", "outcome"} /\ result.unit = answer.price /\ result.outcome = "ok"
        BY DEF P!Ok, P!With
      <4> HIDE DEF result
      <4>2. PluginSound(result)
        BY <3>1, <4>1 DEF PluginSound, P!AnswerSound
      <4> QED
        BY <3>1, <4>2 DEF P!Priced, result
    <3>2. CASE ~(answer.price > 0)
      BY <3>2, NothingSound DEF P!Priced
    <3> QED
      BY <3>1, <3>2
  <2>7. CASE operation \in {"coupon", "shipping"}
    BY <1>5, <2>1, <2>2, <2>7, NothingSound DEF P!HttpPlugin
  <2>8. CASE operation \notin {"coupon", "shipping"} /\ answer.status # 200
    BY <1>6, <2>2, <2>8, NothingSound DEF P!HttpPlugin
  <2>9. CASE operation \notin {"coupon", "shipping"} /\ answer.status = 200
    BY <2>2, <2>3, <2>4, <2>5, <2>6, <2>9, NothingSound DEF P!HttpPlugin, P!Operations
  <2> QED
    BY <1>6, <2>7, <2>8, <2>9
<1> QED
  BY <1>7, <1>8, <1>9

\* The suppliers that a call of several may answer of, and what a call has answered so far.
Scope == IF mem.asked = "search" THEN mem.enabled ELSE P!Suppliers

Told(scope, all, answers) ==
  /\ DOMAIN answers \subseteq P!Suppliers
  /\ \A s \in DOMAIN answers : P!AnswerSound(answers[s]) /\ (all => answers[s].outcome \in {"ok", "none"})
  /\ all => DOMAIN answers \subseteq scope

PluginsInv ==
  /\ AdaptersInv(P!Suppliers, P!Operations)
  /\ Told(Scope, db.all, db.answers)
  /\ \A c \in Clients : req[c].op = "call" => Told(Scope, req[c].all, req[c].answers)

LEMMA SetAsSequence ==
  ASSUME NEW S, IsFiniteSet(S)
  PROVE  P!SetToSeq(S) \in Seq(S)
<1>1. Cardinality(S) \in Nat /\ ExistsBijection(1 .. Cardinality(S), S)
  BY FS_CardinalityType
<1>2. PICK f \in [1 .. Cardinality(S) -> S] : IsInjective(f)
  BY <1>1 DEF ExistsBijection, Bijection, Injection, Surjection
<1>3. P!SetToSeq(S) = CHOOSE g \in [1 .. Cardinality(S) -> S] : P!IsInjective(g)
  BY DEF P!SetToSeq, P!Cardinality, Cardinality
<1>4. P!IsInjective(f)
  BY <1>2 DEF P!IsInjective, IsInjective
<1>5. P!SetToSeq(S) \in [1 .. Cardinality(S) -> S]
  BY <1>2, <1>3, <1>4
<1> QED
  BY <1>1, <1>5

LEMMA ScopeKept == Going => Scope' = Scope
BY DEF Scope, Going

LEMMA ToldNothing == \A scope, all : Told(scope, all, <<>>)
BY DEF Told

LEMMA PluginSteps ==
  /\ P!Initialize => L!Initialize
  /\ \A c \in Clients : (P!Shutdown(c) => L!Shutdown(c)) /\ (P!Closed(c) => L!Closed(c))
  /\ \A c \in Clients : \A todo, all : P!Call(c, todo, all) => L!Call(c, todo, all)
  /\ \A c \in Clients : \A answers : P!Answered(c, answers) => L!Answered(c, answers)
<1>1. \A code : P!Get(code) = L!Get(code)
  BY DEF P!Get, L!Get
<1>2. \A f, key, value : P!With(f, key, value) = L!With(f, key, value)
  BY DEF P!With, L!With
<1>3. P!Initialize => L!Initialize
  BY DEF P!Initialize, L!Initialize
<1>4. \A c \in Clients : P!Shutdown(c) => L!Shutdown(c)
  BY DEF P!Shutdown, L!Shutdown
<1>5. \A c \in Clients : P!Closed(c) => L!Closed(c)
  BY DEF P!Closed, L!Closed, P!Idle, L!Idle
<1>6. \A c \in Clients : \A todo, all : P!Call(c, todo, all) => L!Call(c, todo, all)
  BY <1>1, <1>2 DEF P!Call, L!Call
<1>7. \A c \in Clients : \A answers : P!Answered(c, answers) => L!Answered(c, answers)
  BY <1>1, <1>2 DEF P!Answered, L!Answered, P!Idle, L!Idle
<1> QED
  BY <1>3, <1>4, <1>5, <1>6, <1>7

LEMMA PluginsInit == P!Init => PluginsInv
<1> SUFFICES ASSUME P!Init PROVE PluginsInv
  OBVIOUS
<1>1. /\ mem \in [initialized : {FALSE}, client : {0}, opened : {0}, closed : {{}}, instances : {<<>>},
                   enabled : {{}, {"costco", "scrape"}}, asked : P!Operations]
      /\ db = [all |-> FALSE, answers |-> <<>>] /\ req = [c \in Clients |-> Idle]
  BY DEF P!Init, P!Started, P!NoRequests, P!Idle, Idle
<1>2. PICK enabled \in {{}, {"costco", "scrape"}}, asked \in P!Operations :
        mem = [initialized |-> FALSE, client |-> 0, opened |-> 0, closed |-> {}, instances |-> <<>>,
               enabled |-> enabled, asked |-> asked]
  BY <1>1
<1>3. AdaptersInv(P!Suppliers, P!Operations)
  <2>1. IsFiniteSet({"costco"}) /\ {"costco", "scrape"} = {"costco"} \cup {"scrape"}
    BY FS_Singleton
  <2>2. IsFiniteSet({"costco", "scrape"})
    BY <2>1, FS_AddElement
  <2>3. IsFiniteSet(enabled) /\ enabled \in SUBSET P!Suppliers
    BY <2>2, FS_EmptySet DEF P!Suppliers
  <2>4. L!InstancesTyped(P!Suppliers)
    BY <1>2 DEF L!InstancesTyped
  <2>5. L!LifeCycleSound
    BY <1>2 DEF L!LifeCycleSound
  <2>6. \A c \in Clients : req[c].op # "call"
    BY <1>1 DEF Idle
  <2> QED
    BY <1>1, <1>2, <2>3, <2>4, <2>5, <2>6 DEF AdaptersInv
<1>4. Told(Scope, FALSE, <<>>)
  BY ToldNothing
<1> QED
  BY <1>1, <1>3, <1>4 DEF PluginsInv, Idle

LEMMA PluginsNext == PluginsInv /\ [P!Next]_P!sessionVars => PluginsInv' /\ L!InstancesKept
<1> SUFFICES ASSUME PluginsInv, [P!Next]_P!sessionVars PROVE PluginsInv' /\ L!InstancesKept
  OBVIOUS
<1>1. AdaptersInv(P!Suppliers, P!Operations)
  BY DEF PluginsInv
<1>2. ASSUME P!Initialize PROVE PluginsInv' /\ L!InstancesKept
  <2>1. AdaptersInv(P!Suppliers, P!Operations)' /\ Going /\ req' = req /\ db' = db
    BY <1>1, <1>2, PluginSteps, InitializeKeeps
  <2> QED
    BY <2>1, ScopeKept DEF PluginsInv, Going
<1>3. ASSUME NEW c \in Clients, P!Shutdown(c) \/ P!Closed(c) PROVE PluginsInv' /\ L!InstancesKept
  <2>1. /\ AdaptersInv(P!Suppliers, P!Operations)' /\ Going /\ db' = db
        /\ \A d \in Clients : req'[d].op = "call" => req'[d] = req[d]
    BY <1>1, <1>3, PluginSteps, ShutdownKeeps, ClosedKeeps
  <2> QED
    BY <2>1, ScopeKept DEF PluginsInv, Going
<1>4. ASSUME NEW c \in Clients, NEW todo \in Seq(P!Suppliers), NEW all \in BOOLEAN,
             all /\ mem.asked = "search" => todo \in Seq(mem.enabled), P!Call(c, todo, all)
      PROVE  PluginsInv' /\ L!InstancesKept
  <2>1. /\ AdaptersInv(P!Suppliers, P!Operations)' /\ Going /\ db' = db
        /\ \A d \in Clients : req'[d].op = "call" => req'[d] = req[d] \/ (req'[d].answers = <<>> /\ req'[d].all = all)
    BY <1>1, <1>4, PluginSteps, CallKeeps
  <2>2. \A d \in Clients : req'[d].op = "call" => Told(Scope, req'[d].all, req'[d].answers)
    BY <2>1, ToldNothing DEF PluginsInv
  <2> QED
    BY <2>1, <2>2, ScopeKept DEF PluginsInv, Going
<1>5. ASSUME NEW c \in Clients, P!CallOne(c) PROVE PluginsInv' /\ L!InstancesKept
  <2>1. PICK supplier \in P!Suppliers : P!Call(c, <<supplier>>, FALSE)
    BY <1>5 DEF P!CallOne
  <2>2. <<supplier>> \in Seq(P!Suppliers)
    OBVIOUS
  <2> QED
    BY <1>4, <2>1, <2>2
<1>6. ASSUME NEW c \in Clients, P!CallAll(c) PROVE PluginsInv' /\ L!InstancesKept
  <2>1. CASE mem.asked = "search"
    <3>1. P!Call(c, P!SetToSeq(mem.enabled), TRUE)
      BY <1>6, <2>1 DEF P!CallAll
    <3>2. IsFiniteSet(mem.enabled) /\ mem.enabled \subseteq P!Suppliers
      BY <1>1 DEF AdaptersInv
    <3>3. P!SetToSeq(mem.enabled) \in Seq(mem.enabled)
      BY <3>2, SetAsSequence
    <3>4. P!SetToSeq(mem.enabled) \in Seq(P!Suppliers)
      BY <3>2, <3>3
    <3> QED
      BY <1>4, <3>1, <3>3, <3>4
  <2>2. CASE mem.asked # "search"
    <3>1. P!Call(c, <<"bestbuy", "demo">>, TRUE)
      BY <1>6, <2>2 DEF P!CallAll
    <3>2. <<"bestbuy", "demo">> \in Seq(P!Suppliers)
      BY DEF P!Suppliers
    <3> QED
      BY <1>4, <2>2, <3>1, <3>2
  <2> QED
    BY <2>1, <2>2
<1>7. ASSUME NEW c \in Clients, P!Ends(c) PROVE PluginsInv' /\ L!InstancesKept
  <2> DEFINE supplier == req[c].todo[1]
  <2>1. AdapterCall(P!Suppliers, req[c]) /\ Told(Scope, req[c].all, req[c].answers) /\ req[c].op = "call"
    BY <1>1, <1>7 DEF AdaptersInv, PluginsInv, P!Ends
  <2>2. supplier \in P!Suppliers /\ mem.asked \in P!Operations
    BY <1>1, <2>1 DEF AdaptersInv, AdapterCall
  <2>3. PICK answer \in P!Answers :
          LET out == P!Answer(supplier, mem.asked, answer, P!IsClosed(c))
          IN P!Answered(c, IF ~req[c].all THEN [s \in {supplier} |-> out]
                           ELSE IF P!Kept(mem.asked, out) THEN P!With(req[c].answers, supplier, P!Swallowed(out))
                           ELSE req[c].answers)
    BY <1>7 DEF P!Ends
  <2> DEFINE out == P!Answer(supplier, mem.asked, answer, P!IsClosed(c))
             answers == IF ~req[c].all THEN [s \in {supplier} |-> out]
                        ELSE IF P!Kept(mem.asked, out) THEN P!With(req[c].answers, supplier, P!Swallowed(out))
                        ELSE req[c].answers
  <2>4. P!Answered(c, answers)
    BY <2>3
  <2>5. PluginSound(out)
    BY <2>2, PluginAnswerSound
  <2> HIDE DEF out
  <2>6. Told(Scope, req[c].all, answers)
    <3>1. CASE ~req[c].all
      BY <2>2, <2>5, <3>1 DEF Told, PluginSound
    <3>2. CASE req[c].all
      <4>1. P!AnswerSound(P!Swallowed(out)) /\ P!Swallowed(out).outcome \in {"ok", "none"}
        BY <2>5, NothingSound DEF P!Swallowed, PluginSound, P!Missing
      <4>2. supplier \in Scope
        BY <2>1, <2>2, <3>2 DEF AdapterCall, Scope
      <4>3. Told(Scope, req[c].all, P!With(req[c].answers, supplier, P!Swallowed(out)))
        BY <2>1, <2>2, <3>2, <4>1, <4>2 DEF Told, P!With
      <4> QED
        BY <2>1, <3>2, <4>3
    <3> QED
      BY <3>1, <3>2
  <2> HIDE DEF answers
  <2>7. /\ AdaptersInv(P!Suppliers, P!Operations)' /\ Going
        /\ \A d \in Clients : req'[d].op = "call" =>
             req'[d] = req[d] \/ (d = c /\ req'[d].answers = answers /\ req'[d].all = req[d].all)
        /\ db' = db \/ db' = [all |-> req[c].all, answers |-> answers]
    <3>1. DOMAIN answers \subseteq P!Suppliers /\ (req[c].all /\ mem.asked = "search" => DOMAIN answers \subseteq mem.enabled)
      BY <1>1, <2>6 DEF Told, Scope, AdaptersInv
    <3> QED
      BY <1>1, <2>4, <3>1, PluginSteps, AnsweredKeeps
  <2>8. Told(Scope, db'.all, db'.answers)
    BY <2>6, <2>7 DEF PluginsInv
  <2>9. \A d \in Clients : req'[d].op = "call" => Told(Scope, req'[d].all, req'[d].answers)
    BY <2>6, <2>7 DEF PluginsInv
  <2> QED
    BY <2>7, <2>8, <2>9, ScopeKept DEF PluginsInv, Going
<1>8. ASSUME UNCHANGED P!sessionVars PROVE PluginsInv' /\ L!InstancesKept
  <2>1. mem' = mem /\ req' = req /\ db' = db
    BY <1>8 DEF P!sessionVars
  <2> QED
    BY <2>1 DEF PluginsInv, AdaptersInv, AdapterCall, Scope, L!InstancesTyped, L!LifeCycleSound, L!InstancesKept
<1> QED
  BY <1>2, <1>3, <1>5, <1>6, <1>7, <1>8 DEF P!Next

\* Whatever is initialised, called and shut down at once, the prices and stocks that plugins
\* answer agree, a call of several fails with none of them, and who has a configuration is
\* enabled.
THEOREM PluginsIntegrity == P!Spec => [](P!TypeOK /\ P!Integrity)
<1>1. PluginsInv => P!TypeOK /\ P!Integrity
  BY DEF PluginsInv, AdaptersInv, Told, Scope, P!TypeOK, P!Integrity, L!InstancesTyped, P!InstancesTyped,
         L!LifeCycleSound, P!LifeCycleSound
<1> QED
  BY <1>1, PluginsInit, PluginsNext, PTL DEF P!Spec

\* An adapter stays the one that was made, with the client and the configuration of that time.
THEOREM PluginsLegal == P!Spec => [][P!LegalStep]_P!sessionVars
<1>1. L!InstancesKept => P!LegalStep
  BY DEF L!InstancesKept, P!LegalStep, P!InstancesKept
<1> QED
  BY <1>1, PluginsInit, PluginsNext, PTL DEF P!Spec

-----------------------------------------------------------------------------
\* The figures of a result are there and agree.
Whole(out) ==
  /\ "outcome" \in DOMAIN out
  /\ "winner" \in DOMAIN out => "count" \in DOMAIN out /\ (out.winner => out.count > 0)
  /\ "quantity" \in DOMAIN out => "status" \in DOMAIN out /\ (out.status = "in_stock" <=> out.quantity > 0)
  /\ "referral" \in DOMAIN out =>
       {"total", "processing"} \subseteq DOMAIN out /\ out.total >= out.referral /\ out.total = out.referral + out.processing

LEMMA WholePlain ==
  ASSUME NEW result, DOMAIN result \cap {"winner", "quantity", "referral"} = {}
  PROVE  Whole(K!Ok(result))
<1> DEFINE out == K!Ok(result)
<1>1. DOMAIN out = DOMAIN result \cup {"outcome"}
  BY DEF K!Ok, K!With
<1> HIDE DEF out
<1>2. "winner" \notin DOMAIN out /\ "quantity" \notin DOMAIN out /\ "referral" \notin DOMAIN out
  BY <1>1
<1>3. Whole(out)
  BY <1>1, <1>2 DEF Whole
<1> QED
  BY <1>3 DEF out

LEMMA WholeNothing == Whole(K!Missing) /\ \A reason : Whole(K!Refused(reason))
BY DEF Whole, K!Missing, K!Refused

LEMMA WholeWinner ==
  ASSUME NEW won, NEW n, won => n > 0
  PROVE  Whole(K!Ok([winner |-> won, count |-> n]))
<1> DEFINE out == K!Ok([winner |-> won, count |-> n])
<1>1. DOMAIN out = {"winner", "count", "outcome"} /\ out.winner = won /\ out.count = n
  BY DEF K!Ok, K!With
<1> HIDE DEF out
<1>2. Whole(out)
  BY <1>1 DEF Whole
<1> QED
  BY <1>2 DEF out

LEMMA WholeStock == \A answer : Whole(K!Stock(answer))
<1> SUFFICES ASSUME NEW answer PROVE Whole(K!Stock(answer))
  OBVIOUS
<1> DEFINE status == IF answer.quantity > 0 THEN "in_stock" ELSE "out_of_stock"
           out == K!Ok([quantity |-> answer.quantity, status |-> status])
<1>1. DOMAIN out = {"quantity", "status", "outcome"} /\ out.quantity = answer.quantity /\ out.status = status
  BY DEF K!Ok, K!With
<1>2. out.status = "in_stock" <=> out.quantity > 0
  BY <1>1
<1> HIDE DEF out
<1>3. Whole(out)
  BY <1>1, <1>2 DEF Whole
<1> QED
  BY <1>3 DEF out, K!Stock

LEMMA WholeFees ==
  ASSUME NEW price \in {None, 900}
  PROVE  Whole(K!Ok(K!EtsyFees(price)))
<1> DEFINE p == IF price = 900 THEN 900 ELSE 0
           referral == K!HalfEven(65 * p, 1000)
           processing == K!HalfEven(3 * p + 2500, 100)
           fees == [referral |-> referral, processing |-> processing, total |-> referral + processing]
           out == K!Ok(fees)
<1>1. K!EtsyFees(price) = fees
  <2>1. K!Or(price, 0) = p
    BY DEF K!Or, None, K!None
  <2> QED
    BY <2>1 DEF K!EtsyFees
<1>2. referral \in Nat /\ processing \in Nat
  BY DEF K!HalfEven
<1> HIDE DEF referral, processing
<1>3. /\ DOMAIN out = {"referral", "processing", "total", "outcome"} /\ out.referral = referral
      /\ out.processing = processing /\ out.total = referral + processing
  BY DEF K!Ok, K!With
<1> HIDE DEF out
<1>4. Whole(out)
  BY <1>2, <1>3 DEF Whole
<1> QED
  BY <1>1, <1>4 DEF out

LEMMA WholeFound ==
  ASSUME NEW code \in K!Codes, NEW capability \in K!Capabilities \ K!Unsupported[code], NEW answer \in K!Answers
  PROVE  Whole(K!Found(code, capability, answer))
<1>1. \A n : Whole(K!Ok([count |-> n])) /\ Whole(K!Ok([total |-> n])) /\ Whole(K!Ok([price |-> n]))
  BY WholePlain
<1>2. Whole(K!List(answer)) /\ Whole(K!Orders(answer)) /\ Whole(K!Unlabelled(answer)) /\ Whole(K!Stock(answer))
  BY <1>1, WholeNothing, WholeStock DEF K!List, K!Orders, K!Unlabelled
<1>3. Whole(K!Seller(capability, answer))
  BY <1>2 DEF K!Seller
<1>4. Whole(K!AmazonCatalog(capability, answer)) /\ Whole(K!AmazonSeller(capability, answer))
  BY <1>1, <1>2 DEF K!AmazonCatalog, K!AmazonSeller
<1>5. Whole(K!AmazonOffers(capability, answer))
  BY <1>2, WholeWinner DEF K!AmazonOffers
<1>6. Whole(K!Etsy(capability, answer))
  <2>1. Whole(K!Ok(K!EtsyFees(answer.price)))
    BY WholeFees DEF K!Answers, K!None, None
  <2> QED
    BY <1>1, <1>2, <2>1 DEF K!Etsy
<1>7. CASE code = "amazon"
  BY <1>4, <1>5, <1>7 DEF K!Found
<1>8. CASE code = "ebay"
  <2>1. CASE K!Open(code, capability)
    <3>1. capability \in {"search", "lookup", "pricing", "competition", "buybox", "shipping"}
      BY <1>8, <2>1 DEF K!Capabilities, K!Unsupported, K!Open
    <3>2. Whole(K!EBayItems(capability, answer))
      BY <1>1, <1>2, <3>1, WholeNothing, WholeWinner DEF K!EBayItems
    <3> QED
      BY <1>8, <2>1, <3>2 DEF K!Found
  <2>2. CASE ~K!Open(code, capability)
    BY <1>3, <1>8, <2>2 DEF K!Found, K!EBaySeller
  <2> QED
    BY <2>1, <2>2
<1>9. CASE code = "walmart"
  BY <1>1, <1>3, <1>9 DEF K!Found, K!WalmartItems, K!WalmartSeller
<1>10. CASE code \in {"etsy", "tiktok", "facebook"}
  BY <1>2, <1>3, <1>6, <1>10 DEF K!Found, K!TikTok, K!Facebook
<1> QED
  BY <1>7, <1>8, <1>9, <1>10 DEF K!Codes, K!Unsupported

LEMMA WholeAnswer ==
  ASSUME NEW code \in K!Codes, NEW capability \in K!Capabilities, NEW answer \in K!Answers, NEW configured, NEW closed
  PROVE  Whole(K!Answer(code, capability, answer, configured, closed))
<1>1. CASE capability \in K!Unsupported[code]
  BY <1>1, WholePlain, WholeNothing DEF K!Answer, K!NotSupported
<1>2. CASE capability \notin K!Unsupported[code]
  <2>1. Whole(K!NotFound(code, capability))
    <3>1. Whole(K!Ok([count |-> 0])) /\ Whole(K!Ok(K!EtsyFees(K!None)))
      BY WholePlain, WholeFees DEF K!None, None
    <3> QED
      BY <3>1, WholeNothing DEF K!NotFound
  <2>2. Whole(K!Found(code, capability, answer))
    BY <1>2, WholeFound
  <2>3. Whole(K!AmazonSeller(capability, answer))
    <3>1. Whole(K!Ok([count |-> 2])) /\ Whole(K!List(answer)) /\ Whole(K!Orders(answer))
      BY WholePlain, WholeNothing DEF K!List, K!Orders
    <3> QED
      BY <3>1 DEF K!AmazonSeller
  <2> QED
    BY <1>2, <2>1, <2>2, <2>3, WholeNothing DEF K!Answer
<1> QED
  BY <1>1, <1>2

\* AnswerSound of a result, whether the adapter has a configuration and what was asked.
Honest(configured, capability, code, out) ==
  /\ Whole(out)
  /\ out.outcome = "ok" => configured \/ K!Open(code, capability) \/ capability \in K!Unsupported[code]
  /\ capability \in K!Unsupported[code] => out.outcome = "invalid" \/ out = K!With(K!NotSupported(capability), "http", 200)

LEMMA HonestAnswer ==
  ASSUME NEW code \in K!Codes, NEW capability \in K!Capabilities, NEW answer \in K!Answers, NEW configured, NEW closed
  PROVE  LET out == K!Answer(code, capability, answer, configured, closed)
         IN Honest(configured, capability, code, K!With(out, "http", K!HttpStatus(out)))
<1> DEFINE out == K!Answer(code, capability, answer, configured, closed)
           told == K!With(out, "http", K!HttpStatus(out))
<1>1. Whole(out)
  BY WholeAnswer
<1>2. capability \in K!Unsupported[code] => out = K!NotSupported(capability)
  BY DEF K!Answer
<1>3. capability \notin K!Unsupported[code] /\ ~configured /\ ~K!Open(code, capability) => out = K!Refused("unconfigured")
  BY DEF K!Answer
<1> HIDE DEF out
<1>4. DOMAIN told = DOMAIN out \cup {"http"} /\ \A k \in DOMAIN out : k # "http" => told[k] = out[k]
  BY DEF K!With
<1>5. Whole(told)
  <2>1. "winner" \in DOMAIN told => "count" \in DOMAIN told /\ (told.winner => told.count > 0)
    BY <1>1, <1>4 DEF Whole
  <2>2. "quantity" \in DOMAIN told => "status" \in DOMAIN told /\ (told.status = "in_stock" <=> told.quantity > 0)
    BY <1>1, <1>4 DEF Whole
  <2>3. "referral" \in DOMAIN told =>
          {"total", "processing"} \subseteq DOMAIN told /\ told.total >= told.referral /\ told.total = told.referral + told.processing
    BY <1>1, <1>4 DEF Whole
  <2> QED
    BY <1>1, <1>4, <2>1, <2>2, <2>3 DEF Whole
<1>6. told.outcome = out.outcome
  BY <1>1, <1>4 DEF Whole
<1>7. told.outcome = "ok" => configured \/ K!Open(code, capability) \/ capability \in K!Unsupported[code]
  BY <1>3, <1>6 DEF K!Refused
<1>8. capability \in K!Unsupported[code] => told.outcome = "invalid" \/ told = K!With(K!NotSupported(capability), "http", 200)
  <2>1. out.outcome = "ok" => K!HttpStatus(out) = 200
    BY DEF K!HttpStatus
  <2>2. K!NotSupported(capability).outcome \in {"ok", "invalid"}
    BY DEF K!NotSupported, K!Refused, K!Ok, K!With
  <2> QED
    BY <1>2, <1>6, <2>1, <2>2
<1>9. Honest(configured, capability, code, told)
  BY <1>5, <1>7, <1>8 DEF Honest
<1> QED
  BY <1>9 DEF out

-----------------------------------------------------------------------------
\* What a call has answered so far, and what it answered in the end.
Reported(memory, all, answers) ==
  /\ DOMAIN answers \subseteq K!Codes
  /\ all => memory.asked = "search" /\ DOMAIN answers \subseteq memory.enabled
  /\ \A code \in DOMAIN answers :
       IF all THEN answers[code].count > 0
       ELSE code \in DOMAIN memory.instances /\ Honest(memory.instances[code].configured, memory.asked, code, answers[code])

MarketplacesInv ==
  /\ AdaptersInv(K!Codes, K!Capabilities)
  /\ Reported(mem, db.all, db.answers)
  /\ \A c \in Clients : req[c].op = "call" => Reported(mem, req[c].all, req[c].answers)

LEMMA ReportedKept ==
  ASSUME NEW all, NEW answers, Going, Reported(mem, all, answers)
  PROVE  Reported(mem', all, answers)
BY DEF Reported, Going, L!InstancesKept

LEMMA ReportedNothing == \A memory, all : (all => memory.asked = "search") => Reported(memory, all, <<>>)
BY DEF Reported

LEMMA MarketplaceSteps ==
  /\ K!Initialize => L!Initialize
  /\ \A c \in Clients : (K!Shutdown(c) => L!Shutdown(c)) /\ (K!Closed(c) => L!Closed(c))
  /\ \A c \in Clients : \A todo, all : K!Call(c, todo, all) => L!Call(c, todo, all)
  /\ \A c \in Clients : \A answers : K!Answered(c, answers) => L!Answered(c, answers)
<1>1. \A code : K!Get(code) = L!Get(code)
  BY DEF K!Get, L!Get
<1>2. \A f, key, value : K!With(f, key, value) = L!With(f, key, value)
  BY DEF K!With, L!With
<1>3. K!Initialize => L!Initialize
  BY DEF K!Initialize, L!Initialize
<1>4. \A c \in Clients : K!Shutdown(c) => L!Shutdown(c)
  BY DEF K!Shutdown, L!Shutdown
<1>5. \A c \in Clients : K!Closed(c) => L!Closed(c)
  BY DEF K!Closed, L!Closed, K!Idle, L!Idle
<1>6. \A c \in Clients : \A todo, all : K!Call(c, todo, all) => L!Call(c, todo, all)
  BY <1>1, <1>2 DEF K!Call, L!Call
<1>7. \A c \in Clients : \A answers : K!Answered(c, answers) => L!Answered(c, answers)
  BY <1>1, <1>2 DEF K!Answered, L!Answered, K!Idle, L!Idle
<1> QED
  BY <1>3, <1>4, <1>5, <1>6, <1>7

LEMMA MarketplacesInit == K!Init => MarketplacesInv
<1> SUFFICES ASSUME K!Init PROVE MarketplacesInv
  OBVIOUS
<1>1. db = [all |-> FALSE, answers |-> <<>>] /\ req = [c \in Clients |-> Idle]
  BY DEF K!Init, K!Started, K!NoRequests, K!Idle, Idle
<1>2. PICK enabled \in {{}, {"amazon", "etsy"}}, asked \in K!Capabilities :
        mem = [initialized |-> FALSE, client |-> 0, opened |-> 0, closed |-> {}, instances |-> <<>>,
               enabled |-> enabled, asked |-> asked]
  BY DEF K!Init, K!Started
<1>3. AdaptersInv(K!Codes, K!Capabilities)
  <2>1. IsFiniteSet({"amazon"}) /\ {"amazon", "etsy"} = {"amazon"} \cup {"etsy"}
    BY FS_Singleton
  <2>2. IsFiniteSet({"amazon", "etsy"})
    BY <2>1, FS_AddElement
  <2>3. IsFiniteSet(enabled) /\ enabled \in SUBSET K!Codes
    BY <2>2, FS_EmptySet DEF K!Codes, K!Unsupported
  <2>4. L!InstancesTyped(K!Codes)
    BY <1>2 DEF L!InstancesTyped
  <2>5. L!LifeCycleSound
    BY <1>2 DEF L!LifeCycleSound
  <2>6. \A c \in Clients : req[c].op # "call"
    BY <1>1 DEF Idle
  <2> QED
    BY <1>1, <1>2, <2>3, <2>4, <2>5, <2>6 DEF AdaptersInv
<1>4. Reported(mem, FALSE, <<>>)
  BY ReportedNothing
<1> QED
  BY <1>1, <1>3, <1>4 DEF MarketplacesInv, Idle

LEMMA MarketplacesNext == MarketplacesInv /\ [K!Next]_K!sessionVars => MarketplacesInv' /\ L!InstancesKept
<1> SUFFICES ASSUME MarketplacesInv, [K!Next]_K!sessionVars PROVE MarketplacesInv' /\ L!InstancesKept
  OBVIOUS
<1>1. AdaptersInv(K!Codes, K!Capabilities)
  BY DEF MarketplacesInv
<1>2. ASSUME K!Initialize PROVE MarketplacesInv' /\ L!InstancesKept
  <2>1. AdaptersInv(K!Codes, K!Capabilities)' /\ Going /\ req' = req /\ db' = db
    BY <1>1, <1>2, MarketplaceSteps, InitializeKeeps
  <2> QED
    BY <2>1, ReportedKept DEF MarketplacesInv, Going
<1>3. ASSUME NEW c \in Clients, K!Shutdown(c) \/ K!Closed(c) PROVE MarketplacesInv' /\ L!InstancesKept
  <2>1. /\ AdaptersInv(K!Codes, K!Capabilities)' /\ Going /\ db' = db
        /\ \A d \in Clients : req'[d].op = "call" => req'[d] = req[d]
    BY <1>1, <1>3, MarketplaceSteps, ShutdownKeeps, ClosedKeeps
  <2> QED
    BY <2>1, ReportedKept DEF MarketplacesInv, Going
<1>4. ASSUME NEW c \in Clients, NEW todo \in Seq(K!Codes), NEW all \in BOOLEAN,
             all => mem.asked = "search" /\ todo \in Seq(mem.enabled), K!Call(c, todo, all)
      PROVE  MarketplacesInv' /\ L!InstancesKept
  <2>1. /\ AdaptersInv(K!Codes, K!Capabilities)' /\ Going /\ db' = db
        /\ \A d \in Clients : req'[d].op = "call" => req'[d] = req[d] \/ (req'[d].answers = <<>> /\ req'[d].all = all)
    BY <1>1, <1>4, MarketplaceSteps, CallKeeps
  <2>2. all => mem'.asked = "search"
    BY <1>4, <2>1 DEF Going
  <2>3. \A d \in Clients : req'[d].op = "call" => Reported(mem', req'[d].all, req'[d].answers)
    BY <2>1, <2>2, ReportedKept, ReportedNothing DEF MarketplacesInv
  <2> QED
    BY <2>1, <2>3, ReportedKept DEF MarketplacesInv, Going
<1>5. ASSUME NEW c \in Clients, K!CallOne(c) PROVE MarketplacesInv' /\ L!InstancesKept
  <2>1. PICK code \in K!Codes : K!Call(c, <<code>>, FALSE)
    BY <1>5 DEF K!CallOne
  <2>2. <<code>> \in Seq(K!Codes)
    OBVIOUS
  <2> QED
    BY <1>4, <2>1, <2>2
<1>6. ASSUME NEW c \in Clients, K!SearchAll(c) PROVE MarketplacesInv' /\ L!InstancesKept
  <2>1. mem.asked = "search" /\ K!Call(c, K!SetToSeq(mem.enabled), TRUE)
    BY <1>6 DEF K!SearchAll
  <2>2. IsFiniteSet(mem.enabled) /\ mem.enabled \subseteq K!Codes
    BY <1>1 DEF AdaptersInv
  <2>3. K!SetToSeq(mem.enabled) \in Seq(mem.enabled)
    BY <2>2, SetAsSequence DEF K!SetToSeq, P!SetToSeq, K!IsInjective, P!IsInjective, K!Cardinality, P!Cardinality
  <2>4. K!SetToSeq(mem.enabled) \in Seq(K!Codes)
    BY <2>2, <2>3
  <2> QED
    BY <1>4, <2>1, <2>3, <2>4
<1>7. ASSUME NEW c \in Clients, K!Ends(c) PROVE MarketplacesInv' /\ L!InstancesKept
  <2> DEFINE code == req[c].todo[1]
             configured == req[c].uses.configured
  <2>1. AdapterCall(K!Codes, req[c]) /\ Reported(mem, req[c].all, req[c].answers) /\ req[c].op = "call"
    BY <1>1, <1>7 DEF AdaptersInv, MarketplacesInv, K!Ends
  <2>2. /\ code \in K!Codes /\ mem.asked \in K!Capabilities
        /\ code \in DOMAIN mem.instances /\ configured = mem.instances[code].configured
    BY <1>1, <2>1 DEF AdaptersInv, AdapterCall
  <2>3. PICK answer \in K!Answers :
          LET out == K!Answer(code, mem.asked, answer, configured, K!IsClosed(c))
          IN K!Answered(c, IF ~req[c].all THEN [k \in {code} |-> K!With(out, "http", K!HttpStatus(out))]
                           ELSE IF out.outcome = "ok" /\ out.count > 0 THEN K!With(req[c].answers, code, out) ELSE req[c].answers)
    BY <1>7 DEF K!Ends
  <2> DEFINE out == K!Answer(code, mem.asked, answer, configured, K!IsClosed(c))
             told == K!With(out, "http", K!HttpStatus(out))
             answers == IF ~req[c].all THEN [k \in {code} |-> told]
                        ELSE IF out.outcome = "ok" /\ out.count > 0 THEN K!With(req[c].answers, code, out) ELSE req[c].answers
  <2>4. K!Answered(c, answers)
    BY <2>3
  <2>5. Honest(configured, mem.asked, code, told)
    BY <2>2, HonestAnswer
  <2> HIDE DEF out, told
  <2>6. Reported(mem, req[c].all, answers)
    <3>1. CASE ~req[c].all
      BY <2>2, <2>5, <3>1 DEF Reported
    <3>2. CASE req[c].all
      <4>1. mem.asked = "search" /\ code \in mem.enabled
        BY <2>1, <3>2 DEF AdapterCall, Reported
      <4>2. out.count > 0 => Reported(mem, req[c].all, K!With(req[c].answers, code, out))
        BY <2>1, <2>2, <3>2, <4>1 DEF Reported, K!With
      <4> QED
        BY <2>1, <3>2, <4>2
    <3> QED
      BY <3>1, <3>2
  <2> HIDE DEF answers
  <2>7. /\ AdaptersInv(K!Codes, K!Capabilities)' /\ Going
        /\ \A d \in Clients : req'[d].op = "call" =>
             req'[d] = req[d] \/ (d = c /\ req'[d].answers = answers /\ req'[d].all = req[d].all)
        /\ db' = db \/ db' = [all |-> req[c].all, answers |-> answers]
    <3>1. DOMAIN answers \subseteq K!Codes /\ (req[c].all /\ mem.asked = "search" => DOMAIN answers \subseteq mem.enabled)
      BY <2>6 DEF Reported
    <3> QED
      BY <1>1, <2>4, <3>1, MarketplaceSteps, AnsweredKeeps
  <2>8. Reported(mem', db'.all, db'.answers)
    BY <2>6, <2>7, ReportedKept DEF MarketplacesInv
  <2>9. \A d \in Clients : req'[d].op = "call" => Reported(mem', req'[d].all, req'[d].answers)
    BY <2>6, <2>7, ReportedKept DEF MarketplacesInv
  <2> QED
    BY <2>7, <2>8, <2>9 DEF MarketplacesInv, Going
<1>8. ASSUME UNCHANGED K!sessionVars PROVE MarketplacesInv' /\ L!InstancesKept
  <2>1. mem' = mem /\ req' = req /\ db' = db
    BY <1>8 DEF K!sessionVars
  <2> QED
    BY <2>1 DEF MarketplacesInv, AdaptersInv, AdapterCall, L!InstancesTyped, L!LifeCycleSound, L!InstancesKept
<1> QED
  BY <1>2, <1>3, <1>5, <1>6, <1>7, <1>8 DEF K!Next

\* Whatever is initialised, called and shut down at once, nothing comes from a marketplace
\* without the configuration it was made with, what is not supported says so, stock and fees
\* agree, and a search of all finds something of each that it names.
THEOREM MarketplacesIntegrity == K!Spec => [](K!TypeOK /\ K!Integrity)
<1>1. MarketplacesInv => K!TypeOK /\ K!Integrity
  <2> SUFFICES ASSUME MarketplacesInv PROVE K!TypeOK /\ K!Integrity
    OBVIOUS
  <2>1. K!TypeOK /\ K!LifeCycleSound
    BY DEF MarketplacesInv, AdaptersInv, Reported, K!TypeOK, L!InstancesTyped, K!InstancesTyped,
           L!LifeCycleSound, K!LifeCycleSound
  <2>2. \A code, out : Honest(mem.instances[code].configured, mem.asked, code, out) => K!AnswerSound(code, out)
    BY DEF Honest, Whole, K!AnswerSound
  <2> QED
    BY <2>1, <2>2 DEF MarketplacesInv, Reported, K!Integrity
<1> QED
  BY <1>1, MarketplacesInit, MarketplacesNext, PTL DEF K!Spec

\* An adapter stays the one that was made, with the client and the configuration of that time.
THEOREM MarketplacesLegal == K!Spec => [][K!LegalStep]_K!sessionVars
<1>1. L!InstancesKept => K!LegalStep
  BY DEF L!InstancesKept, K!LegalStep, K!InstancesKept
<1> QED
  BY <1>1, MarketplacesInit, MarketplacesNext, PTL DEF K!Spec

-----------------------------------------------------------------------------
(***************************************************************************)
(* Memories.  What a request read ages under it in few ways: a row goes,   *)
(* is promoted, counted or fades, and fades only below the threshold that  *)
(* it never crosses.  So a late write finds a row of the class it read.    *)
(***************************************************************************)
M == INSTANCE Memory

Important(row) == row.importance >= M!PromotionThreshold

Aged(old, new) ==
  /\ new.user = old.user /\ new.type = old.type /\ new.system \in {old.system, "long_term"}
  /\ Important(new) <=> Important(old)
  /\ new.system # old.system => Important(old)

\* The rows after n requests.
Memories(rows, n) ==
  /\ DOMAIN rows \subseteq -1 .. n
  /\ \A id \in DOMAIN rows :
       /\ rows[id] \in M!MemoryRow /\ rows[id].count <= n
       /\ M!Given(rows[id].expires) <=> rows[id].system = "short_term"

MemoryRequest(r) ==
  /\ r.at \in 1 .. calls /\ Memories(r.saw.memories, r.at - 1)
  /\ \A id \in DOMAIN r.saw.memories \cap DOMAIN db.memories : Aged(r.saw.memories[id], db.memories[id])
  /\ r.op = "remember" => r.at \notin DOMAIN db.memories

MemoryInv ==
  /\ req = [c \in Clients |-> req[c]] /\ calls \in 0 .. MaxCalls
  /\ db = [memories |-> db.memories] /\ Memories(db.memories, calls)
  /\ \A c \in Clients : req[c].op # "idle" => MemoryRequest(req[c])
  /\ \A c, d \in Clients : req[c].op # "idle" /\ req[d].op # "idle" =>
       /\ c # d => req[c].at # req[d].at
       /\ req[c].op = "remember" => req[c].at \notin DOMAIN req[d].saw.memories

\* What one step may make of a row.
Follows(old, new) ==
  /\ new \in M!MemoryRow /\ new.count <= calls /\ (M!Given(new.expires) <=> new.system = "short_term")
  /\ Aged(old, new)
  /\ old.system \in {"semantic", "long_term"} =>
       new \in {[old EXCEPT !.count = n] : n \in 0 .. MaxCalls} \cup {[old EXCEPT !.system = "long_term"]}

\* What the request may take away.
Drops(c, id) ==
  \/ req[c].op = "delete" /\ req[c].arg = id
  \/ /\ req[c].op = "consolidate"
     /\ LET seen == req[c].saw.memories[id]
        IN \/ seen.system = "short_term" /\ seen.expires < req[c].at
           \/ seen.system = "episodic" /\ seen.importance < M!MinImportance + M!DecayFactor

\* A transaction of the request.
MemoryWrite(c, rows) ==
  /\ req[c].op # "idle" /\ M!Commit(c, [memories |-> rows])
  /\ \A id \in DOMAIN rows :
       \/ id \in DOMAIN db.memories /\ Follows(db.memories[id], rows[id])
       \/ /\ id = req[c].at /\ req[c].op = "remember"
          /\ rows[id] \in M!MemoryRow /\ rows[id].count <= calls
          /\ M!Given(rows[id].expires) <=> rows[id].system = "short_term"
  /\ \A id \in DOMAIN db.memories \ DOMAIN rows : Drops(c, id)
  /\ req[c].op = "consolidate" /\ rows # db.memories =>
       \A id \in DOMAIN rows \cap DOMAIN req[c].saw.memories :
         rows[id].system = "episodic" => rows[id].importance \in M!MinImportance .. M!PromotionThreshold - 1

LEMMA AgedOn ==
  ASSUME NEW x, NEW y, NEW z, Aged(x, y), Aged(y, z)
  PROVE  Aged(x, z)
BY DEF Aged

LEMMA FollowsItself ==
  ASSUME MemoryInv, NEW id \in DOMAIN db.memories
  PROVE  Follows(db.memories[id], db.memories[id])
<1> DEFINE row == db.memories[id]
<1>1. row \in M!MemoryRow /\ row.count <= calls /\ calls \in 0 .. MaxCalls /\ MaxCalls \in Nat
      /\ (M!Given(row.expires) <=> row.system = "short_term")
  BY SessionsAssumption DEF MemoryInv, Memories
<1> HIDE DEF row
<1>2. row.count \in 0 .. MaxCalls
  <2>1. row.count \in Nat
    BY <1>1 DEF M!MemoryRow
  <2> QED
    BY <1>1, <2>1
<1>3. row = [row EXCEPT !.count = row.count]
  BY <1>1 DEF M!MemoryRow
<1>4. Follows(row, row)
  BY <1>1, <1>2, <1>3 DEF Follows, Aged
<1> QED
  BY <1>4 DEF row

LEMMA MemoryWritten ==
  ASSUME MemoryInv, NEW c \in Clients, NEW rows, MemoryWrite(c, rows)
  PROVE  MemoryInv' /\ M!LegalStep
<1>1. db' = [memories |-> rows] /\ req' = [req EXCEPT ![c] = M!Idle] /\ mem' = mem /\ calls' = calls
  BY DEF MemoryWrite, M!Commit
<1>2. \A d \in Clients : req'[d] = IF d = c THEN M!Idle ELSE req[d]
  BY <1>1 DEF MemoryInv
<1>3. db' = [memories |-> db'.memories] /\ db'.memories = rows /\ M!Idle.op = "idle"
  BY <1>1 DEF M!Idle
<1>4. MemoryRequest(req[c]) /\ calls \in Nat /\ req[c].at \in 1 .. calls
  BY SessionsAssumption DEF MemoryInv, MemoryWrite, MemoryRequest
<1>5. Memories(rows, calls)
  BY <1>4 DEF MemoryWrite, Follows, Memories, MemoryInv
<1>6. ASSUME NEW d \in Clients, req'[d].op # "idle"
      PROVE  MemoryRequest(req[d])'
  <2>1. d # c /\ req'[d] = req[d] /\ req[d].op # "idle" /\ MemoryRequest(req[d])
    BY <1>2, <1>3, <1>6 DEF MemoryInv
  <2>2. ASSUME NEW id \in DOMAIN req[d].saw.memories \cap DOMAIN rows
        PROVE  Aged(req[d].saw.memories[id], rows[id])
    <3>1. id = req[c].at /\ req[c].op = "remember" => id \notin DOMAIN req[d].saw.memories
      BY <2>1 DEF MemoryInv, MemoryWrite
    <3>2. id \in DOMAIN db.memories /\ Follows(db.memories[id], rows[id])
      BY <2>2, <3>1 DEF MemoryWrite
    <3>3. Aged(req[d].saw.memories[id], db.memories[id]) /\ Aged(db.memories[id], rows[id])
      BY <2>1, <2>2, <3>2 DEF MemoryRequest, Follows
    <3> QED
      BY <3>3, AgedOn
  <2>3. req[d].op = "remember" => req[d].at \notin DOMAIN rows
    <3>1. req[d].at # req[c].at
      BY <2>1 DEF MemoryInv, MemoryWrite
    <3> QED
      BY <2>1, <3>1 DEF MemoryWrite, MemoryRequest
  <2>4. req[d].at \in 1 .. calls /\ Memories(req[d].saw.memories, req[d].at - 1)
    BY <2>1 DEF MemoryRequest
  <2> QED
    BY <1>1, <1>3, <2>1, <2>2, <2>3, <2>4 DEF MemoryRequest
<1>7. MemoryInv'
  <2>1. \A d, e \in Clients : req'[d].op # "idle" /\ req'[e].op # "idle" =>
           /\ d # e => req'[d].at # req'[e].at
           /\ req'[d].op = "remember" => req'[d].at \notin DOMAIN req'[e].saw.memories
    BY <1>2, <1>3 DEF MemoryInv
  <2>2. req' = [d \in Clients |-> req'[d]] /\ calls' \in 0 .. MaxCalls
    BY <1>1 DEF MemoryInv
  <2>3. Memories(db.memories, calls)'
    BY <1>1, <1>3, <1>5 DEF Memories
  <2> QED
    BY <1>3, <1>6, <2>1, <2>2, <2>3 DEF MemoryInv
<1>8. M!LegalStep
  <2>1. \A op : op # "idle" => \A d \in Clients : req[d].op = op /\ req'[d].op = "idle" <=> d = c /\ req[c].op = op
    BY <1>2, <1>3 DEF MemoryWrite
  <2>2. \A id \in DOMAIN rows : id \in DOMAIN db.memories \/ \E d \in {d \in Clients : req[d].op = "remember" /\ req'[d].op = "idle"} : id = req[d].at
    BY <2>1 DEF MemoryWrite
  <2>3. \A id \in DOMAIN db.memories \ DOMAIN rows :
          \/ \E d \in {d \in Clients : req[d].op = "delete" /\ req'[d].op = "idle"} : req[d].arg = id
          \/ \E d \in {d \in Clients : req[d].op = "consolidate" /\ req'[d].op = "idle"} :
               LET seen == req[d].saw.memories[id]
               IN (seen.system = "short_term" /\ seen.expires < req[d].at) \/ (seen.system = "episodic" /\ seen.importance < M!MinImportance + M!DecayFactor)
    BY <2>1 DEF MemoryWrite, Drops
  <2>4. \A id \in DOMAIN db.memories \cap DOMAIN rows : Follows(db.memories[id], rows[id])
    BY <1>4, FollowsItself DEF MemoryWrite, MemoryRequest
  <2>5. \A d \in {d \in Clients : req[d].op = "consolidate" /\ req'[d].op = "idle"} :
          db' # db => \A id \in DOMAIN rows \cap DOMAIN req[d].saw.memories :
                        rows[id].system = "episodic" => rows[id].importance \in M!MinImportance .. M!PromotionThreshold - 1
    BY <1>1, <2>1 DEF MemoryWrite, MemoryInv
  <2> QED
    BY <1>3, <2>2, <2>3, <2>4, <2>5 DEF M!LegalStep, Follows, Aged
<1> QED
  BY <1>7, <1>8

LEMMA MemoryServed ==
  ASSUME MemoryInv, NEW c \in Clients, M!Rollback(c)
  PROVE  MemoryInv' /\ M!LegalStep
<1>1. req[c].op # "idle" /\ M!Commit(c, [memories |-> db.memories])
  BY DEF M!Rollback, MemoryInv
<1>2. MemoryWrite(c, db.memories)
  BY <1>1, FollowsItself DEF MemoryWrite
<1> QED
  BY <1>2, MemoryWritten

\* A flush of updates to rows that were read.
LEMMA Flushed ==
  ASSUME MemoryInv, NEW c \in Clients, req[c].op # "idle", NEW updates, NEW deletes, M!Flush(c, updates, deletes),
         \A id \in DOMAIN updates \cap DOMAIN db.memories : Follows(db.memories[id], M!Updated(db.memories[id], updates[id])),
         \A id \in deletes : Drops(c, id),
         req[c].op = "consolidate" =>
           \A id \in (DOMAIN db.memories \ deletes) \cap DOMAIN req[c].saw.memories :
             LET row == IF id \in DOMAIN updates THEN M!Updated(db.memories[id], updates[id]) ELSE db.memories[id]
             IN row.system = "episodic" => row.importance \in M!MinImportance .. M!PromotionThreshold - 1
  PROVE  MemoryInv' /\ M!LegalStep
<1> DEFINE rows == [id \in DOMAIN db.memories \ deletes |->
                      IF id \in DOMAIN updates THEN M!Updated(db.memories[id], updates[id]) ELSE db.memories[id]]
<1>1. CASE ~(DOMAIN updates \subseteq DOMAIN db.memories)
  BY <1>1, MemoryServed DEF M!Flush
<1>2. CASE DOMAIN updates \subseteq DOMAIN db.memories
  <2>1. db = [memories |-> db.memories]
    BY DEF MemoryInv
  <2>2. M!Commit(c, [db EXCEPT !.memories = rows])
    BY <1>2 DEF M!Flush
  <2>3. [db EXCEPT !.memories = rows] = [memories |-> rows]
    BY <2>1
  <2>4. M!Commit(c, [memories |-> rows])
    BY <2>2, <2>3
  <2>5. \A id \in DOMAIN rows : id \in DOMAIN db.memories /\ Follows(db.memories[id], rows[id])
    BY FollowsItself
  <2>6. \A id \in DOMAIN db.memories \ DOMAIN rows : Drops(c, id)
    OBVIOUS
  <2>7. req[c].op = "consolidate" => \A id \in DOMAIN rows \cap DOMAIN req[c].saw.memories :
          rows[id].system = "episodic" => rows[id].importance \in M!MinImportance .. M!PromotionThreshold - 1
    OBVIOUS
  <2> HIDE DEF rows
  <2>8. MemoryWrite(c, rows)
    BY <2>4, <2>5, <2>6, <2>7 DEF MemoryWrite
  <2> QED
    BY <2>8, MemoryWritten
<1> QED
  BY <1>1, <1>2

LEMMA Columns ==
  ASSUME NEW row \in M!MemoryRow, NEW n
  PROVE  /\ M!Updated(row, [count |-> n]) = [row EXCEPT !.count = n]
         /\ M!Updated(row, [importance |-> n]) = [row EXCEPT !.importance = n]
         /\ M!Updated(row, [system |-> "long_term", expires |-> n]) = [row EXCEPT !.system = "long_term", !.expires = n]
<1>1. M!Updated(row, [count |-> n]) = [row EXCEPT !.count = n]
  <2>1. DOMAIN [count |-> n] = {"count"} /\ [count |-> n]["count"] = n
    OBVIOUS
  <2> QED
    BY <2>1 DEF M!Updated, M!MemoryRow
<1>2. M!Updated(row, [importance |-> n]) = [row EXCEPT !.importance = n]
  <2>1. DOMAIN [importance |-> n] = {"importance"} /\ [importance |-> n]["importance"] = n
    OBVIOUS
  <2> QED
    BY <2>1 DEF M!Updated, M!MemoryRow
<1>3. M!Updated(row, [system |-> "long_term", expires |-> n]) = [row EXCEPT !.system = "long_term", !.expires = n]
  <2> DEFINE columns == [system |-> "long_term", expires |-> n]
  <2>1. DOMAIN columns = {"system", "expires"} /\ columns["system"] = "long_term" /\ columns["expires"] = n
    OBVIOUS
  <2> HIDE DEF columns
  <2>2. M!Updated(row, columns) = [row EXCEPT !.system = "long_term", !.expires = n]
    BY <2>1 DEF M!Updated, M!MemoryRow
  <2> QED
    BY <2>2 DEF columns
<1> QED
  BY <1>1, <1>2, <1>3

LEMMA RowFields ==
  ASSUME NEW row \in M!MemoryRow
  PROVE  /\ row.importance \in 0 .. 100 /\ row.count \in Nat /\ row.system \in M!MemorySystem
         /\ row.expires \in {M!None} \cup Nat
BY DEF M!MemoryRow

\* What a request that is served knows.
LEMMA MemoryAsked ==
  ASSUME MemoryInv, NEW c \in Clients, req[c].op # "idle"
  PROVE  /\ MemoryRequest(req[c]) /\ req[c].at \in Nat /\ req[c].at <= calls /\ calls \in Nat
         /\ calls <= MaxCalls /\ MaxCalls \in Nat
BY SessionsAssumption DEF MemoryInv, MemoryRequest

\* A row read and the row of now.
LEMMA BothRows ==
  ASSUME MemoryInv, NEW c \in Clients, req[c].op # "idle",
         NEW id \in DOMAIN req[c].saw.memories
  PROVE  LET seen == req[c].saw.memories[id]
             row == db.memories[id]
         IN /\ seen \in M!MemoryRow /\ seen.count <= req[c].at - 1 /\ (M!Given(seen.expires) <=> seen.system = "short_term")
            /\ id \in DOMAIN db.memories =>
                 /\ row \in M!MemoryRow /\ row.count <= calls /\ (M!Given(row.expires) <=> row.system = "short_term")
                 /\ Aged(seen, row)
BY MemoryAsked DEF MemoryRequest, MemoryInv, Memories

LEMMA RecallKeeps ==
  ASSUME MemoryInv, NEW c \in Clients, M!Recall(c)
  PROVE  MemoryInv' /\ M!LegalStep
<1> DEFINE saw == req[c].saw.memories
<1>1. PICK hits \in SUBSET {id \in M!Visible(saw, req[c].arg) : saw[id].embedded} :
        M!Flush(c, [id \in hits |-> [count |-> saw[id].count + 1]], {})
  BY DEF M!Recall
<1>2. req[c].op = "recall" /\ hits \subseteq DOMAIN saw
  BY <1>1 DEF M!Recall, M!Visible
<1> DEFINE updates == [id \in hits |-> [count |-> saw[id].count + 1]]
<1>3. ASSUME NEW id \in DOMAIN updates \cap DOMAIN db.memories
      PROVE  Follows(db.memories[id], M!Updated(db.memories[id], updates[id]))
  <2> DEFINE row == db.memories[id]
             n == saw[id].count + 1
  <2>1. id \in DOMAIN saw /\ id \in DOMAIN db.memories
    BY <1>2, <1>3
  <2>2. /\ saw[id] \in M!MemoryRow /\ saw[id].count <= req[c].at - 1 /\ row \in M!MemoryRow
        /\ (M!Given(row.expires) <=> row.system = "short_term")
    BY <1>2, <2>1, BothRows
  <2>3. n \in 0 .. MaxCalls /\ n <= calls /\ n \in Nat
    BY <1>2, <2>2, MemoryAsked, RowFields
  <2>4. M!Updated(row, updates[id]) = [row EXCEPT !.count = n]
    BY <1>3, <2>2, Columns
  <2> HIDE DEF row, n
  <2>5. [row EXCEPT !.count = n] \in M!MemoryRow
    BY <2>2, <2>3 DEF M!MemoryRow
  <2>6. LET new == [row EXCEPT !.count = n]
        IN new.count = n /\ new.user = row.user /\ new.type = row.type /\ new.system = row.system
           /\ new.expires = row.expires /\ new.importance = row.importance
    BY <2>2 DEF M!MemoryRow
  <2>7. Follows(row, [row EXCEPT !.count = n])
    BY <2>2, <2>3, <2>5, <2>6 DEF Follows, Aged, Important
  <2> QED
    BY <2>4, <2>7 DEF row
<1> HIDE DEF updates, saw
<1>4. M!Flush(c, updates, {}) /\ req[c].op \notin {"idle", "consolidate"}
  BY <1>1, <1>2 DEF updates, saw
<1> QED
  BY <1>3, <1>4, Flushed

LEMMA DeleteKeeps ==
  ASSUME MemoryInv, NEW c \in Clients, M!Delete(c)
  PROVE  MemoryInv' /\ M!LegalStep
<1>1. req[c].op = "delete"
  BY DEF M!Delete
<1>2. CASE M!Rollback(c)
  BY <1>2, MemoryServed
<1>3. CASE M!Flush(c, <<>>, {req[c].arg})
  <2>1. Drops(c, req[c].arg)
    BY <1>1 DEF Drops
  <2>2. DOMAIN <<>> = {}
    OBVIOUS
  <2> QED
    BY <1>1, <1>3, <2>1, <2>2, Flushed
<1> QED
  BY <1>2, <1>3 DEF M!Delete

LEMMA ConsolidateKeeps ==
  ASSUME MemoryInv, NEW c \in Clients, M!Consolidate(c)
  PROVE  MemoryInv' /\ M!LegalStep
<1> DEFINE saw == req[c].saw.memories
           at == req[c].at
           up == M!Promotable(saw, at)
           fade == M!Decayable(saw, at) \ M!Purged(saw, at)
           updates == [id \in up \cup fade |->
                         IF id \in up THEN [system |-> "long_term", expires |-> M!None]
                         ELSE [importance |-> saw[id].importance - M!DecayFactor]]
           deletes == M!Expired(saw, at) \cup M!Purged(saw, at)
<1>1. req[c].op = "consolidate" /\ M!Flush(c, updates, deletes)
  BY DEF M!Consolidate
<1>2. /\ \A id \in up : id \in DOMAIN saw /\ saw[id].system \in {"episodic", "short_term"} /\ Important(saw[id])
      /\ \A id \in fade : /\ id \in DOMAIN saw /\ saw[id].system = "episodic" /\ ~(saw[id].importance >= M!PromotionThreshold)
                          /\ ~(saw[id].importance - M!DecayFactor < M!MinImportance) /\ id \notin up
      /\ \A id \in deletes : /\ id \in DOMAIN saw
                             /\ \/ M!Given(saw[id].expires) /\ saw[id].expires < at
                                \/ saw[id].system = "episodic" /\ saw[id].importance - M!DecayFactor < M!MinImportance
      /\ \A id \in DOMAIN saw : saw[id].system = "episodic" => id \in up \/ id \in fade \/ id \in deletes
  BY DEF M!Promotable, M!Decayable, M!Purged, M!Expired, Important
<1>3. DOMAIN updates = up \cup fade /\ \A id \in up \cup fade : updates[id] =
        IF id \in up THEN [system |-> "long_term", expires |-> M!None] ELSE [importance |-> saw[id].importance - M!DecayFactor]
  OBVIOUS
<1> HIDE DEF up, fade, updates, deletes
<1>4. ASSUME NEW id \in DOMAIN updates \cap DOMAIN db.memories
      PROVE  LET row == M!Updated(db.memories[id], updates[id])
             IN /\ Follows(db.memories[id], row)
                /\ row.system = "episodic" => row.importance \in M!MinImportance .. M!PromotionThreshold - 1
  <2> DEFINE row == db.memories[id]
             faded == saw[id].importance - M!DecayFactor
  <2>1. id \in DOMAIN saw /\ id \in DOMAIN db.memories
    BY <1>2, <1>3, <1>4
  <2>2. /\ saw[id] \in M!MemoryRow /\ row \in M!MemoryRow /\ row.count <= calls
        /\ (M!Given(row.expires) <=> row.system = "short_term") /\ Aged(saw[id], row)
    BY <1>1, <2>1, BothRows
  <2>3. saw[id].importance \in 0 .. 100 /\ row.importance \in 0 .. 100 /\ row.system \in M!MemorySystem
    BY <2>2, RowFields
  <2>4. CASE id \in up
    <3> DEFINE new == [row EXCEPT !.system = "long_term", !.expires = M!None]
    <3>1. M!Updated(row, updates[id]) = new
      <4>1. updates[id] = [system |-> "long_term", expires |-> M!None]
        BY <1>3, <2>4
      <4> QED
        BY <2>2, <4>1, Columns
    <3> HIDE DEF row
    <3>2. new \in M!MemoryRow
      BY <2>2 DEF M!MemoryRow, M!MemorySystem
    <3>3. /\ new.count = row.count /\ new.user = row.user /\ new.type = row.type /\ new.system = "long_term"
          /\ new.expires = M!None /\ new.importance = row.importance
      BY <2>2 DEF M!MemoryRow
    <3>4. ~M!Given(new.expires)
      BY <3>3 DEF M!Given
    <3>5. Important(row)
      BY <1>2, <2>2, <2>4 DEF Aged
    <3>6. row.system \in {"semantic", "long_term"} => new = [row EXCEPT !.system = "long_term"]
      <4>1. row.system \in {"semantic", "long_term"} => row.expires = M!None
        BY <2>2 DEF M!Given
      <4> QED
        BY <2>2, <4>1 DEF M!MemoryRow
    <3> HIDE DEF new
    <3>7. Follows(row, new)
      BY <2>2, <3>2, <3>3, <3>4, <3>5, <3>6 DEF Follows, Aged, Important
    <3> QED
      BY <3>1, <3>3, <3>7 DEF row
  <2>5. CASE id \in fade
    <3> DEFINE new == [row EXCEPT !.importance = faded]
    <3>1. M!Updated(row, updates[id]) = new
      <4>1. updates[id] = [importance |-> faded]
        BY <1>2, <1>3, <2>5
      <4> HIDE DEF row, faded
      <4>2. M!Updated(row, [importance |-> faded]) = new
        BY <2>2, Columns
      <4> QED
        BY <4>1, <4>2
    <3> HIDE DEF row, faded
    <3>2. faded \in M!MinImportance .. M!PromotionThreshold - 1 /\ faded \in 0 .. 100 /\ ~Important(saw[id])
      <4> DEFINE known == saw[id].importance
      <4>1. ~(known >= 70) /\ ~(faded < 10) /\ (Important(saw[id]) <=> known >= 70)
        BY <1>2, <2>5 DEF faded, M!MinImportance, M!PromotionThreshold, Important
      <4>2. faded = known - 5 /\ known \in 0 .. 100
        BY <2>3 DEF faded, M!DecayFactor
      <4> HIDE DEF known
      <4>3. faded \in 10 .. 69 /\ faded \in 0 .. 100
        BY <4>1, <4>2
      <4> QED
        BY <4>1, <4>3 DEF M!MinImportance, M!PromotionThreshold
    <3>3. new \in M!MemoryRow
      BY <2>2, <3>2 DEF M!MemoryRow
    <3>4. /\ new.count = row.count /\ new.user = row.user /\ new.type = row.type /\ new.system = row.system
          /\ new.expires = row.expires /\ new.importance = faded
      BY <2>2 DEF M!MemoryRow
    <3>5. ~Important(row) /\ row.system = "episodic"
      BY <1>2, <2>2, <2>5, <3>2 DEF Aged
    <3>6. ~Important(new)
      BY <3>2, <3>4 DEF Important, M!PromotionThreshold, M!MinImportance
    <3> HIDE DEF new
    <3>7. Follows(row, new)
      BY <2>2, <3>3, <3>4, <3>5, <3>6 DEF Follows, Aged
    <3> QED
      BY <3>1, <3>2, <3>4, <3>7 DEF row
  <2> QED
    BY <1>3, <1>4, <2>4, <2>5
<1>5. ASSUME NEW id \in deletes
      PROVE  Drops(c, id)
  <2>1. id \in DOMAIN saw
    BY <1>2, <1>5
  <2>2. saw[id].importance \in 0 .. 100 /\ (M!Given(saw[id].expires) <=> saw[id].system = "short_term")
    BY <1>1, <2>1, BothRows, RowFields
  <2> QED
    <3> DEFINE row == saw[id]
    <3>1. \/ row.system = "short_term" /\ row.expires < at
          \/ row.system = "episodic" /\ row.importance - M!DecayFactor < M!MinImportance
      BY <1>2, <1>5, <2>2
    <3>2. row.importance - M!DecayFactor < M!MinImportance => row.importance < M!MinImportance + M!DecayFactor
      <4>1. row.importance \in 0 .. 100
        BY <2>2
      <4> HIDE DEF row
      <4> QED
        BY <4>1 DEF M!MinImportance, M!DecayFactor
    <3> QED
      BY <1>1, <3>1, <3>2 DEF Drops
<1>6. ASSUME NEW id \in (DOMAIN db.memories \ deletes) \cap DOMAIN saw
      PROVE  LET row == IF id \in DOMAIN updates THEN M!Updated(db.memories[id], updates[id]) ELSE db.memories[id]
             IN row.system = "episodic" => row.importance \in M!MinImportance .. M!PromotionThreshold - 1
  <2>1. CASE id \in DOMAIN updates
    BY <1>4, <1>6, <2>1
  <2>2. CASE id \notin DOMAIN updates
    <3>1. saw[id].system # "episodic"
      BY <1>2, <1>3, <1>6, <2>2
    <3>2. db.memories[id].system \in {saw[id].system, "long_term"}
      BY <1>1, <1>6, BothRows DEF Aged
    <3> QED
      BY <2>2, <3>1, <3>2
  <2> QED
    BY <2>1, <2>2
<1>7. \A id \in DOMAIN updates \cap DOMAIN db.memories : Follows(db.memories[id], M!Updated(db.memories[id], updates[id]))
  BY <1>4
<1> QED
  BY <1>1, <1>5, <1>6, <1>7, Flushed

LEMMA TimesGiven ==
  ASSUME NEW at \in Nat
  PROVE  /\ M!Given(1) /\ ~M!Given(M!None) /\ at + 1 \in Nat /\ at + M!ShortTermTtl \in Nat
         /\ M!Given(at + 1) /\ M!Given(at + M!ShortTermTtl)
BY DEF M!Given, M!None, M!ShortTermTtl

\* A row that is stored lives as long as its system says.
Stored(row) == row \in M!MemoryRow /\ row.count = 0 /\ (M!Given(row.expires) <=> row.system = "short_term")

LEMMA RowStored ==
  ASSUME NEW at \in Nat, NEW type \in DOMAIN M!DefaultSystem, NEW system \in {"episodic", "semantic", "short_term"},
         NEW user \in Ids \cup {""}, NEW importance \in 0 .. 100, NEW ttl \in {M!None, 1}, NEW embedded \in BOOLEAN
  PROVE  Stored(M!Remembered(at, type, system, user, importance, ttl, embedded))
<1> DEFINE row == M!Remembered(at, type, system, user, importance, ttl, embedded)
           kept == IF M!Given(ttl) THEN "short_term" ELSE system
           expires == IF M!Given(ttl) THEN at + ttl ELSE IF kept = "short_term" THEN at + M!ShortTermTtl ELSE M!None
<1>1. row = [user |-> user, type |-> type, system |-> kept, importance |-> importance, count |-> 0, embedded |-> embedded, expires |-> expires]
  BY DEF M!Remembered
<1> HIDE DEF row
<1>2. kept \in M!MemorySystem
  BY DEF M!MemorySystem
<1>3. expires \in {M!None} \cup Nat /\ (M!Given(expires) <=> kept = "short_term")
  <2>1. M!Given(1) /\ ~M!Given(M!None) /\ at + 1 \in Nat /\ at + M!ShortTermTtl \in Nat
        /\ M!Given(at + 1) /\ M!Given(at + M!ShortTermTtl)
    BY TimesGiven
  <2>3. CASE ttl = 1
    BY <2>1, <2>3
  <2>4. CASE ttl = M!None
    BY <2>1, <2>4
  <2> QED
    BY <2>3, <2>4
<1> HIDE DEF kept, expires
<1>4. row \in M!MemoryRow
  BY <1>1, <1>2, <1>3 DEF M!MemoryRow
<1>5. row.count = 0 /\ row.expires = expires /\ row.system = kept
  BY <1>1
<1>6. Stored(row)
  BY <1>3, <1>4, <1>5 DEF Stored
<1> QED
  BY <1>6 DEF row

LEMMA RememberStores ==
  ASSUME MemoryInv, NEW c \in Clients, M!Remember(c)
  PROVE  MemoryInv' /\ M!LegalStep
<1>1. req[c].op = "remember"
  BY DEF M!Remember
<1>2. PICK type \in {"purchase", "general"}, ttl \in {M!None, 1} : \E importance \in {M!DefaultImportance[type], 50} :
        M!Commit(c, [db EXCEPT !.memories =
          M!With(@, req[c].at, M!Remembered(req[c].at, type, M!DefaultSystem[type], "", importance, ttl, type = "purchase"))])
  BY DEF M!Remember
<1>3. PICK importance \in {M!DefaultImportance[type], 50} :
        M!Commit(c, [db EXCEPT !.memories =
          M!With(@, req[c].at, M!Remembered(req[c].at, type, M!DefaultSystem[type], "", importance, ttl, type = "purchase"))])
  BY <1>2
<1>4. req[c].at \in Nat /\ calls \in Nat /\ req[c].at \notin DOMAIN db.memories
  BY <1>1, MemoryAsked DEF MemoryRequest
<1>9. type \in DOMAIN M!DefaultSystem /\ M!DefaultSystem[type] \in {"episodic", "semantic", "short_term"} /\ importance \in 0 .. 100
  BY DEF M!DefaultSystem, M!DefaultImportance
<1>10. "" \in Ids \cup {""} /\ (type = "purchase") \in BOOLEAN /\ ttl \in {M!None, 1}
  OBVIOUS
<1> DEFINE row == M!Remembered(req[c].at, type, M!DefaultSystem[type], "", importance, ttl, type = "purchase")
           rows == M!With(db.memories, req[c].at, row)
<1>5. Stored(row)
  <2>1. "" \in Ids \cup {""} /\ ttl \in {M!None, 1} /\ (type = "purchase") \in BOOLEAN
    BY <1>10
  <2> QED
    BY <1>4, <1>9, <2>1, RowStored, Zenon
<1> HIDE DEF row
<1>6. DOMAIN rows = DOMAIN db.memories \cup {req[c].at} /\ \A id \in DOMAIN rows : rows[id] = IF id = req[c].at THEN row ELSE db.memories[id]
  BY DEF M!With
<1>7. M!Commit(c, [memories |-> rows])
  <2>1. db = [memories |-> db.memories]
    BY DEF MemoryInv
  <2>2. [db EXCEPT !.memories = rows] = [memories |-> rows]
    BY <2>1
  <2> QED
    BY <1>3, <2>2 DEF row
<1> HIDE DEF rows
<1>8. MemoryWrite(c, rows)
  BY <1>1, <1>4, <1>5, <1>6, <1>7, FollowsItself DEF MemoryWrite, Stored
<1> QED
  BY <1>8, MemoryWritten

LEMMA MemoryAsks ==
  ASSUME MemoryInv, NEW c \in Clients, NEW op, NEW arg, op # "idle", M!Ask(c, op, arg)
  PROVE  MemoryInv' /\ M!LegalStep
<1> DEFINE new == [op |-> op, arg |-> arg, saw |-> db, at |-> calls + 1]
<1>1. req[c].op = "idle" /\ calls < MaxCalls /\ req' = [req EXCEPT ![c] = new] /\ calls' = calls + 1 /\ db' = db
  BY DEF M!Ask
<1>2. \A d \in Clients : req'[d] = IF d = c THEN new ELSE req[d]
  BY <1>1 DEF MemoryInv
<1>3. new.op = op /\ new.saw = db /\ new.at = calls + 1
  OBVIOUS
<1> HIDE DEF new
<1>4. Memories(db.memories, calls) /\ calls \in Nat /\ MaxCalls \in Nat
  BY SessionsAssumption DEF MemoryInv
<1>5. Memories(db.memories, calls + 1)
  <2>1. \A id \in DOMAIN db.memories : db.memories[id].count \in Nat
    BY <1>4, RowFields DEF Memories
  <2> QED
    BY <1>4, <2>1 DEF Memories
<1>6. \A id \in DOMAIN db.memories : id # calls + 1
  BY <1>4 DEF Memories
<1>7. ASSUME NEW d \in Clients, req'[d].op # "idle"
      PROVE  MemoryRequest(req[d])'
  <2>1. CASE d = c
    <3>1. req'[d] = new /\ \A id \in DOMAIN db.memories : Aged(db.memories[id], db.memories[id])
      BY <1>2, <2>1 DEF Aged
    <3>2. calls + 1 \in 1 .. calls + 1 /\ calls + 1 - 1 = calls
      BY <1>4
    <3> QED
      <4>1. new.at \in 1 .. calls' /\ new.at - 1 = calls /\ new.saw = db /\ db' = db
        BY <1>1, <1>3, <1>4, <3>2
      <4>2. new.at \notin DOMAIN db.memories
        BY <1>3, <1>6
      <4> QED
        BY <1>4, <3>1, <4>1, <4>2 DEF MemoryRequest
  <2>2. CASE d # c
    <3>1. req'[d] = req[d] /\ MemoryRequest(req[d]) /\ db' = db /\ calls' = calls + 1
      BY <1>1, <1>2, <1>7, <2>2 DEF MemoryInv
    <3>2. req[d].at \in 1 .. calls /\ req[d].at \in 1 .. calls + 1
      BY <1>4, <3>1 DEF MemoryRequest
    <3> QED
      BY <3>1, <3>2 DEF MemoryRequest
  <2> QED
    BY <2>1, <2>2
<1>8. \A d, e \in Clients : req'[d].op # "idle" /\ req'[e].op # "idle" =>
         /\ d # e => req'[d].at # req'[e].at
         /\ req'[d].op = "remember" => req'[d].at \notin DOMAIN req'[e].saw.memories
  <2> SUFFICES ASSUME NEW d \in Clients, NEW e \in Clients, req'[d].op # "idle", req'[e].op # "idle"
               PROVE  /\ d # e => req'[d].at # req'[e].at
                      /\ req'[d].op = "remember" => req'[d].at \notin DOMAIN req'[e].saw.memories
    OBVIOUS
  <2>1. \A f \in Clients \ {c} : req'[f].op # "idle" => req'[f] = req[f] /\ MemoryRequest(req[f])
    BY <1>2 DEF MemoryInv
  <2>2. \A f \in Clients \ {c} : req'[f].op # "idle" => req[f].at \in 1 .. calls /\ calls + 1 \notin DOMAIN req[f].saw.memories
    BY <1>4, <2>1 DEF MemoryRequest, Memories
  <2>3. CASE d = c
    BY <1>2, <1>3, <1>4, <1>6, <2>1, <2>2, <2>3
  <2>4. CASE d # c /\ e = c
    <3>1. req'[d].op = "remember" => req[d].at \notin DOMAIN db.memories
      BY <2>1, <2>4 DEF MemoryRequest
    <3> QED
      BY <1>2, <1>3, <1>4, <2>1, <2>2, <2>4, <3>1
  <2>5. CASE d # c /\ e # c
    BY <2>1, <2>5 DEF MemoryInv
  <2> QED
    BY <2>3, <2>4, <2>5
<1>9. MemoryInv'
  <2>1. req' = [d \in Clients |-> req'[d]] /\ calls' \in 0 .. MaxCalls
    BY <1>1, <1>4 DEF MemoryInv
  <2>2. (db = [memories |-> db.memories])' /\ Memories(db.memories, calls)'
    BY <1>1, <1>5 DEF MemoryInv, Memories
  <2> QED
    BY <1>7, <1>8, <2>1, <2>2 DEF MemoryInv
<1>10. M!LegalStep
  <2>1. \A d \in Clients : req[d].op = "consolidate" => req'[d].op # "idle"
    BY <1>1, <1>2
  <2>2. \A id \in DOMAIN db.memories : Follows(db.memories[id], db.memories[id])
    BY FollowsItself
  <2> QED
    BY <1>1, <2>1, <2>2 DEF M!LegalStep, Follows, Aged
<1> QED
  BY <1>9, <1>10

LEMMA MemoryStep ==
  ASSUME MemoryInv, [M!Next]_M!sessionVars
  PROVE  MemoryInv' /\ [M!LegalStep]_M!sessionVars
<1>1. CASE UNCHANGED M!sessionVars
  BY <1>1 DEF M!sessionVars, MemoryInv, MemoryRequest, Memories, Aged, Important
<1>2. ASSUME NEW c \in Clients, M!Requests(c)
      PROVE  MemoryInv' /\ M!LegalStep
  BY <1>2, MemoryAsks DEF M!Requests
<1>3. ASSUME NEW c \in Clients, M!Remember(c) \/ M!Recall(c) \/ M!Delete(c) \/ M!Consolidate(c) \/ M!Rollback(c)
      PROVE  MemoryInv' /\ M!LegalStep
  BY <1>3, RememberStores, RecallKeeps, DeleteKeeps, ConsolidateKeeps, MemoryServed
<1> QED
  BY <1>1, <1>2, <1>3 DEF M!Next

LEMMA MemoryInit == M!Init => MemoryInv
<1> SUFFICES ASSUME M!Init PROVE MemoryInv
  OBVIOUS
<1>1. PICK importance \in {12, 72}, ttl \in {M!None, 1} :
        db = [memories |-> [id \in {-1, 0} |->
               IF id = 0 THEN M!Remembered(0, "favorite", "semantic", "", 85, M!None, TRUE)
               ELSE M!Remembered(0, "conversation", "episodic", "a", importance, ttl, TRUE)]]
  BY DEF M!Init
<1>2. req = [c \in Clients |-> M!Idle] /\ calls = 0
  BY DEF M!Init, M!NoRequests
<1> DEFINE always == M!Remembered(0, "favorite", "semantic", "", 85, M!None, TRUE)
           once == M!Remembered(0, "conversation", "episodic", "a", importance, ttl, TRUE)
<1>3. {"favorite", "conversation"} \subseteq DOMAIN M!DefaultSystem
  BY DEF M!DefaultSystem
<1>4. Stored(always)
  <2>1. "" \in Ids \cup {""} /\ 85 \in 0 .. 100 /\ M!None \in {M!None, 1} /\ TRUE \in BOOLEAN /\ 0 \in Nat /\ "favorite" \in DOMAIN M!DefaultSystem
    BY <1>3
  <2> QED
    BY <2>1, RowStored
<1>5. Stored(once)
  <2>1. "a" \in Ids \cup {""} /\ importance \in 0 .. 100 /\ ttl \in {M!None, 1} /\ TRUE \in BOOLEAN /\ 0 \in Nat /\ "conversation" \in DOMAIN M!DefaultSystem
    <3>1. importance \in 0 .. 100
      OBVIOUS
    <3>2. ttl \in {M!None, 1} /\ 0 \in Nat /\ TRUE \in BOOLEAN
      OBVIOUS
    <3> QED
      BY <1>3, <3>1, <3>2, NamesAssumption
  <2> QED
    BY <2>1, RowStored
<1> HIDE DEF always, once
<1>6. db.memories = [id \in {-1, 0} |-> IF id = 0 THEN always ELSE once] /\ db = [memories |-> db.memories]
  BY <1>1 DEF always, once
<1>7. Memories(db.memories, calls)
  BY <1>2, <1>4, <1>5, <1>6 DEF Memories, Stored
<1>8. \A c \in Clients : req[c].op = "idle"
  BY <1>2 DEF M!Idle
<1> QED
  BY <1>2, <1>6, <1>7, <1>8, SessionsAssumption DEF MemoryInv

\* A memory expires as long as it is short-term and no longer, and no more recalls are counted
\* than were made, whatever requests and consolidations overlap (MemoryManager.remember,
\* consolidate; MemoryRepository.touch_access, promote).
THEOREM MemoryIntegrity == M!Spec => [](M!TypeOK /\ M!Integrity)
<1>1. M!Init => MemoryInv
  BY MemoryInit
<1>2. MemoryInv /\ [M!Next]_M!sessionVars => MemoryInv'
  BY MemoryStep
<1>3. MemoryInv => M!TypeOK /\ M!Integrity
  <2> SUFFICES ASSUME MemoryInv PROVE M!TypeOK /\ M!Integrity
    OBVIOUS
  <2>1. \A i \in -1 .. calls : i \in -1 .. MaxCalls
    BY SessionsAssumption DEF MemoryInv
  <2> QED
    BY <2>1 DEF MemoryInv, Memories, M!TypeOK, M!Integrity
<1> QED
  BY <1>1, <1>2, <1>3, PTL DEF M!Spec

\* What is gone stays gone and went because it was asked to or was seen expired or faded; a
\* memory is promoted, never demoted; after a consolidation nothing episodic that it saw is one
\* it should have promoted or purged (MemoryManager.consolidate, MemoryRepository.delete_many).
THEOREM MemoryLegalSteps == M!Spec => [][M!LegalStep]_M!sessionVars
<1>1. M!Init => MemoryInv
  BY MemoryInit
<1>2. MemoryInv /\ [M!Next]_M!sessionVars => MemoryInv'
  BY MemoryStep
<1>3. MemoryInv /\ [M!Next]_M!sessionVars => [M!LegalStep]_M!sessionVars
  BY MemoryStep
<1> QED
  BY <1>1, <1>2, <1>3, PTL DEF M!Spec
=============================================================================
