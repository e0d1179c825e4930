------------------------------ MODULE Learning ------------------------------
(***************************************************************************)
(* Predictions, what became of them, and the learning cycles over them     *)
(* (app/learning: manager.py, repository.py, models.py; the figures are in *)
(* Statistics).  Scores are tenths, so a true label is 10; the default     *)
(* threshold of a rule is 5.                                               *)
(***************************************************************************)
EXTENDS Sessions

E == INSTANCE Statistics

MaxScan == 6             \* max_predictions_per_scan; 5000 in the code
MaxRecommendations == 2  \* max_recommendations_per_run; 50 in the code
MinSamples == 5
Threshold == 5

RecommendationStatus == {"open", "applied", "dismissed"}

Subjects == {"a", "b"}

\* LearningPrediction, known by the time of its creation.
Prediction ==
  [at : -5 .. MaxCalls, ext : Ids \cup {NoName}, subject : Subjects, pred : {2, 8}, actual : {None, 0, 10}]

\* LearningRun with its LearningRecommendations.
Recommendation == [target : {"rule_threshold", "feature_weight", "matching"}, status : RecommendationStatus]
Run == [number : Nat, scanned : SUBSET (-5 .. MaxCalls), recs : Seq(Recommendation)]

TypeOK == db \in [predictions : Seq(Prediction), runs : Seq(Run)] /\ mem = <<>>

Histories ==
  {[i \in 1 .. 5 |-> [at |-> i - 6, ext |-> IF i = 1 THEN "a" ELSE NoName, subject |-> "a",
                      pred |-> IF i \in late THEN 8 ELSE 2,
                      actual |-> IF i \in open THEN None ELSE IF i % 2 = 0 THEN 10 ELSE 0]] :
     late \in {{2, 4}, {1, 3, 5}}, open \in {{}, {1, 5}}}

Init == db \in [predictions : Histories, runs : {<<>>}] /\ mem = <<>> /\ NoRequests

-----------------------------------------------------------------------------
\* resolved_predictions: the oldest ones, so past the limit a new outcome is never seen.
Scanned(x) == Top(Filter(x.predictions, LAMBDA p : Given(p.actual)), MaxScan)

Group(rows, s) == SelectSeq(rows, LAMBDA p : p.subject = s)
Groups(rows) == SetToSeq({s \in Subjects : Group(rows, s) # <<>>})

\* _recommendations_for_issues.
RecommendationsForIssues(rows) ==
  LET groups == [i \in DOMAIN Groups(rows) |-> [id |-> Groups(rows)[i], pairs |-> Group(rows, Groups(rows)[i])]]
      issues == E!ScanIssues(groups)
  IN [i \in DOMAIN issues |-> [target |-> "rule_threshold", status |-> "open"]]

\* _f1_at of a threshold in tenths.
F1At(pairs, threshold) ==
  E!Confusion([i \in DOMAIN pairs |-> IF pairs[i][1] >= threshold THEN 1 ELSE 0],
              [i \in DOMAIN pairs |-> pairs[i][2]]).f1

\* optimize_rule: a threshold other than the default that is better by a fiftieth.
OptimizeRule(rows) ==
  LET pairs == [i \in DOMAIN rows |-> <<rows[i].pred, IF rows[i].actual = 10 THEN 1 ELSE 0>>]
      best == E!OptimizeThreshold(pairs)
  IN [proposed |-> best.threshold, score |-> best.score,
      applied |-> best.threshold # 2 * Threshold /\ best.score - F1At(pairs, Threshold) >= 200]

\* _auto_tune_rules: the recommendation says "applied", and nothing is.
AutoTuneRules(rows) ==
  LET tuned == Filter(Groups(rows), LAMBDA s : /\ Len(Group(rows, s)) >= MinSamples
                                              /\ OptimizeRule(Group(rows, s)).applied)
  IN [i \in DOMAIN tuned |-> [target |-> "rule_threshold", status |-> "applied"]]

\* _auto_reweight of the one feature, the score.
AutoReweight(rows) ==
  LET correlation == E!Pearson([i \in DOMAIN rows |-> rows[i].pred], E!Errors(rows))
  IN IF Len(rows) >= MinSamples /\ Abs(correlation) >= 2000
       THEN <<[target |-> "feature_weight", status |-> "open"]>> ELSE <<>>

Recommendations(rows) == RecommendationsForIssues(rows) \o AutoTuneRules(rows) \o AutoReweight(rows)

NextRunNumber(x) == Max({0} \cup {x.runs[i].number : i \in DOMAIN x.runs}) + 1

\* _model_accuracy and dashboard.
ModelAccuracy(rows) ==
  [i \in DOMAIN Groups(rows) |->
     LET group == Group(rows, Groups(rows)[i])
     IN [size |-> Len(group), mae |-> E!Mae(group), severity |-> E!Severity(group)]]

Dashboard(x) ==
  [models |-> Ranked(ModelAccuracy(Scanned(x)), LAMBDA m : m.severity),
   mae |-> E!Mae(Scanned(x)), last |-> NextRunNumber(x) - 1,
   open |-> SumOf([i \in DOMAIN x.runs |-> Len(SelectSeq(x.runs[i].recs, LAMBDA r : r.status = "open"))])]

\* comparison: the two means bear each other's name.
Comparison(x) ==
  [predictedMean |-> Mean([i \in DOMAIN Scanned(x) |-> 100 * Scanned(x)[i].actual]),
   actualMean |-> Mean([i \in DOMAIN Scanned(x) |-> 100 * Scanned(x)[i].pred]), bias |-> E!Bias(Scanned(x))]

\* generate_report, which repeats run_cycle and stores nothing.
GenerateReport(x) ==
  [recorded |-> Len(x.predictions), resolved |-> Len(SelectSeq(x.predictions, LAMBDA p : Given(p.actual))),
   recommendations |-> Recommendations(Scanned(x))]

-----------------------------------------------------------------------------
\* record_prediction: one that has the external id already is returned.
Has(x, ext) == ext # NoName /\ \E i \in DOMAIN x.predictions : x.predictions[i].ext = ext
Inserted(rows, new) == Filter(rows, LAMBDA p : p.at < new.at) \o <<new>> \o Filter(rows, LAMBDA p : p.at >= new.at)

RecordPrediction(c) ==
  LET sent == req[c].arg
      new == [at |-> req[c].at, ext |-> sent.ext, subject |-> sent.subject, pred |-> sent.pred, actual |-> None]
  IN /\ req[c].op = "predict"
     /\ \/ Has(req[c].saw, sent.ext) /\ Commit(c, db)
        \/ /\ ~Has(req[c].saw, sent.ext) /\ ~Has(db, sent.ext)
           /\ Commit(c, [db EXCEPT !.predictions = Inserted(@, new)])

\* record_outcome: by the external id, whatever the row says already, else the rows of the
\* subject that were open.
Resolved(c, p) ==
  LET o == req[c].arg
  IN \E i \in DOMAIN req[c].saw.predictions :
       LET seen == req[c].saw.predictions[i]
       IN seen.at = p.at /\ IF o.ext # NoName THEN seen.ext = o.ext ELSE seen.subject = o.subject /\ ~Given(seen.actual)

WithOutcome(c, rows) ==
  [i \in DOMAIN rows |-> IF Resolved(c, rows[i]) THEN [rows[i] EXCEPT !.actual = req[c].arg.actual] ELSE rows[i]]

RecordOutcome(c) == req[c].op = "outcome" /\ Commit(c, [db EXCEPT !.predictions = WithOutcome(c, @)])

\* run_cycle: of two at once, the second to commit fails on the number of the run.
RunCycle(c) ==
  LET saw == req[c].saw
      rows == Scanned(saw)
  IN /\ req[c].op = "cycle"
     /\ NextRunNumber(saw) \notin {db.runs[i].number : i \in DOMAIN db.runs}
     /\ Commit(c, [db EXCEPT !.runs = Append(@,
          [number |-> NextRunNumber(saw), scanned |-> {rows[i].at : i \in DOMAIN rows},
           recs |-> Top(Recommendations(rows), MaxRecommendations)])])

\* update_recommendation: from any status to any.
UpdateRecommendation(c) ==
  /\ req[c].op = "recommendation"
  /\ \E i \in DOMAIN req[c].saw.runs : \E j \in DOMAIN req[c].saw.runs[i].recs :
       Commit(c, [db EXCEPT !.runs[i].recs[j].status = req[c].arg])

\* The routes that write (api/v1/learning.py).
Requests(c) ==
  \/ \E ext \in Ids \cup {NoName}, pred \in {2, 8} : Ask(c, "predict", [ext |-> ext, subject |-> "b", pred |-> pred])
  \/ \E ext \in {NoName, "a"}, actual \in {0, 10} : Ask(c, "outcome", [ext |-> ext, subject |-> "a", actual |-> actual])
  \/ Ask(c, "cycle", <<>>)
  \/ \E status \in {"applied", "dismissed"} : Ask(c, "recommendation", status)

Next ==
  \E c \in Clients :
    \/ Requests(c) \/ RecordPrediction(c) \/ RecordOutcome(c) \/ RunCycle(c) \/ UpdateRecommendation(c)
    \/ Rollback(c)

Spec == Init /\ [][Next]_sessionVars

-----------------------------------------------------------------------------
\* Runs are numbered without gaps and scanned only what has an outcome.
RunsSound ==
  \A i \in DOMAIN db.runs :
    /\ db.runs[i].number = i /\ Cardinality(db.runs[i].scanned) <= MaxScan
    /\ \A at \in db.runs[i].scanned : \E p \in ToSet(db.predictions) : p.at = at /\ Given(p.actual)

\* Predictions are in the order of their creation, and external ids are unique.
PredictionsSound ==
  \A i, j \in DOMAIN db.predictions :
    i < j => /\ db.predictions[i].at < db.predictions[j].at
             /\ db.predictions[i].ext = db.predictions[j].ext => db.predictions[i].ext = NoName

\* What the report recommends is what a run at that moment would; the dashboard counts each
\* scanned prediction once, and the two means, whichever is which, are the bias apart.
FiguresAgree ==
  LET d == Dashboard(db)
      report == GenerateReport(db)
  IN /\ SumOf([i \in DOMAIN d.models |-> d.models[i].size]) = Len(Scanned(db))
     /\ d.last = Len(db.runs) /\ report.resolved >= Len(Scanned(db))
     /\ Abs(Comparison(db).predictedMean - Comparison(db).actualMean) - Abs(Comparison(db).bias) \in -1 .. 1
     /\ \A s \in {r.target : r \in ToSet(report.recommendations)} : report.resolved >= MinSamples

Integrity == RunsSound /\ PredictionsSound /\ FiguresAgree

\* An outcome is kept but for one that names its external id, or one that was on its way
\* before the outcome came; runs and their findings stay.
LegalStep ==
  /\ \A p \in ToSet(db.predictions) :
       \E q \in ToSet(db'.predictions) :
         /\ [q EXCEPT !.actual = p.actual] = p
         /\ Given(p.actual) /\ q.actual # p.actual =>
              \E c \in Clients :
                /\ req[c].op = "outcome"
                /\ \/ req[c].arg.ext = p.ext /\ p.ext # NoName
                   \/ \E s \in ToSet(req[c].saw.predictions) : s.at = p.at /\ ~Given(s.actual)
  /\ Len(db'.runs) >= Len(db.runs)
  /\ \A i \in DOMAIN db.runs :
       /\ db'.runs[i].scanned = db.runs[i].scanned
       /\ \A j \in DOMAIN db.runs[i].recs : db'.runs[i].recs[j].target = db.runs[i].recs[j].target
=============================================================================
