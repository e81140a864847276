------------------------------ MODULE Reports -------------------------------
(***************************************************************************)
(* What one execution of an engine tells the cycle (internal/schema,       *)
(* internal/adapter/report.go), and how the reports of its batches become  *)
(* one (internal/cycle/persist.go).  A counter of the report's scope is    *)
(* kept here as the set it counts: a reader of the panel sees the numbers  *)
(* only, a property has to know which files are behind them.               *)
(***************************************************************************)
EXTENDS Naturals, FiniteSets

Status == {"completed", "partial", "timeout", "killed", "failed"}

CountsAsVote(r) == r.status = "completed"

(* A report with this status about these files, and nothing found yet. *)
Blank(status, considered, scanned, skipped) ==
    [status |-> status, findings |-> {}, clean |-> {},
     considered |-> considered, scanned |-> scanned, skipped |-> skipped]

(* schema.FailedReport: whatever it is called with, it is not a vote. *)
FailedReport(status) ==
    Blank(IF status = "completed" THEN "failed" ELSE status, {}, {}, {})

(* adapter.NewScanReport: everything asked for counts as scanned, except   *)
(* the paths the engine could not be asked about.                          *)
NewScanReport(requested, refused) ==
    Blank("completed", requested, requested \ refused,
          {"unscannable_path_name"} \X refused)

Severity == [completed |-> 0, partial |-> 1, timeout |-> 2, killed |-> 3, failed |-> 4]

WorstStatus(statuses) ==
    CHOOSE s \in statuses : \A t \in statuses : Severity[t] <= Severity[s]

Sum(partials) ==
    [status |-> WorstStatus({p.status : p \in partials}),
     findings |-> UNION {p.findings : p \in partials},
     clean |-> UNION {p.clean : p \in partials},
     considered |-> UNION {p.considered : p \in partials},
     scanned |-> UNION {p.scanned : p \in partials},
     skipped |-> UNION {p.skipped : p \in partials}]

(* mergeReports as it would be if the batches that worked were enough.     *)
MergeReportsLenient(partials) ==
    IF \E p \in partials : CountsAsVote(p)
    THEN [Sum(partials) EXCEPT !.status = "completed"]
    ELSE FailedReport("failed")

(* cycle.mergeReports: one batch that failed makes the whole an abstention,*)
(* without findings and without files declared clean.                      *)
MergeReports(partials) ==
    IF partials = {} THEN FailedReport("failed")
    ELSE IF CountsAsVote(Sum(partials)) THEN Sum(partials)
    ELSE [Sum(partials) EXCEPT !.findings = {}, !.clean = {}]
=============================================================================
