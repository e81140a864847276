----------------------------- MODULE Consensus ------------------------------
(***************************************************************************)
(* internal/verdict: how the reports of a cycle's engines become one       *)
(* verdict per content and path.  Engine.Consolidate is a pure function of *)
(* the reports; the state here is its input, which grows by one report at  *)
(* a time as runEngines goes through the engines.  Consolidating a prefix  *)
(* is what the code does when the remaining engines vanish, so a property  *)
(* of two consecutive states says what one report more does to every       *)
(* verdict.                                                                *)
(*                                                                         *)
(* Weights, multipliers and thresholds are integers, in hundredths; a      *)
(* score is kept in the unit of the weighted sum, weight times multiplier. *)
(***************************************************************************)
EXTENDS Integers, FiniteSets, FiniteSetsExt, Functions

CONSTANTS
    Engine,       \* the engines that have an adapter
    Expected,     \* those the configuration enables
    Sha, Path,    \* contents and where they lie
    Confidence,   \* the confidences an adapter may report
    Possible,     \* per engine, the reports it may hand in
    Missing,      \* stands for "no report"
    Weight,       \* engines.<slug>.weight
    Multiplier,   \* verdict.*_multiplier, for the known confidences
    Saturation,   \* verdict.saturation, in the unit of the sum
    ConfirmedAt, LikelyAt, SuspiciousAt,
    Location,     \* reach.Classifier.Of, for each path
    Whitelisted   \* paths that match a rule of verdict.whitelist

Finding == [sha : Sha, path : Path, kind : {"malware", "vulnerability"}, confidence : Confidence]
Status == {"completed", "partial", "failed", "timeout", "killed"}
Report == [status : Status, findings : SUBSET Finding, clean : SUBSET Sha]
Place == {"web_reachable", "trash", "outside_docroot", "unknown"}

ASSUME EngineAssumption ==
    /\ IsFiniteSet(Engine) /\ Expected \subseteq Engine
    /\ Possible \in [Engine -> SUBSET Report]
    /\ \A e \in Engine : \A r \in Possible[e] : IsFiniteSet(r.findings)
    /\ Missing \notin Report
    /\ Location \in [Path -> Place]
    /\ Whitelisted \subseteq Path
ASSUME WeightAssumption ==
    /\ Weight \in [Engine -> Nat]
    /\ "anomaly" \in DOMAIN Multiplier
    /\ \A c \in DOMAIN Multiplier : Multiplier[c] \in 0 .. 100
    /\ Saturation \in Nat \ {0}
    /\ {SuspiciousAt, LikelyAt, ConfirmedAt} \subseteq 0 .. 100
    /\ SuspiciousAt < LikelyAt /\ LikelyAt < ConfirmedAt

VARIABLE reports   \* what each engine has handed in, or Missing

-----------------------------------------------------------------------------
(* Who speaks.  Only a completed report does; the others abstain.          *)

Speaks(rs, e) == rs[e] # Missing /\ rs[e].status = "completed"

Abstains(rs, e) == rs[e] # Missing /\ rs[e].status # "completed"

(* Abstentions are named, those of enabled engines without a report too. *)
CollectAbstentions(rs) ==
    {e \in Engine : Abstains(rs, e)} \cup {e \in Expected : rs[e] = Missing}

(* Variant that takes the clean list of a report that stopped halfway. *)
OfficialOfAnybody(rs) == UNION {rs[e].clean : e \in {d \in Engine : rs[d] # Missing}}

(* Contents that a completed report declares to be the official ones. *)
OfficialClean(rs) == UNION {rs[e].clean : e \in {d \in Engine : Speaks(rs, d)}}

(* groupBySHA: what engine e says about content s.  Findings of another    *)
(* kind never mix into the malware score.                                  *)
About(rs, e, s) ==
    IF Speaks(rs, e) THEN {f \in rs[e].findings : f.sha = s /\ f.kind = "malware"} ELSE {}

Group(rs, s) == UNION {About(rs, e, s) : e \in Engine}

-----------------------------------------------------------------------------
(* One vote per engine, however many rules it matched.                     *)

(* An unknown confidence weighs as the weakest one. *)
ConfidenceMultiplier(c) ==
    IF c \in DOMAIN Multiplier THEN Multiplier[c] ELSE Multiplier["anomaly"]

Effective(e, f) == Weight[e] * ConfidenceMultiplier(f.confidence)

(* Variant of VoteOf in which every finding is a vote. *)
VotesOfEveryRule(rs, e, s) == MapThenSumSet(LAMBDA f : Effective(e, f), About(rs, e, s))

VoteOf(rs, e, s) == Max({Effective(e, f) : f \in About(rs, e, s)})

Voters(rs, s) == {e \in Engine : Weight[e] > 0 /\ About(rs, e, s) # {}}

BuildVotes(rs, s) == [e \in Voters(rs, s) |-> VoteOf(rs, e, s)]

-----------------------------------------------------------------------------
(* The score is the sum of the votes, cut at the saturation.               *)

Sum(votes) == FoldFunction(+, 0, votes)

(* Variant of Score that averages over the voters. *)
ScoreAverage(votes) ==
    LET n == Cardinality(DOMAIN votes) IN
    IF n = 0 THEN 0 ELSE Min({Sum(votes) \div n, Saturation})

(* Variant of Score without its ceiling. *)
ScoreUncapped(votes) == Sum(votes)

Score(votes) == IF Sum(votes) > Saturation THEN Saturation ELSE Sum(votes)

Reaches(score, threshold) == 100 * score >= threshold * Saturation

LevelOf(score) ==
    CASE Reaches(score, ConfirmedAt) -> "confirmed"
      [] ~Reaches(score, ConfirmedAt) /\ Reaches(score, LikelyAt) -> "likely"
      [] ~Reaches(score, LikelyAt) /\ Reaches(score, SuspiciousAt) -> "suspicious"
      [] OTHER -> "clean"

Level == {"confirmed", "likely", "suspicious", "clean"}

Rank(level) ==
    CASE level = "confirmed" -> 3 [] level = "likely" -> 2
      [] level = "suspicious" -> 1 [] level = "clean" -> 0

-----------------------------------------------------------------------------
(* One verdict per content and path.                                       *)

(* Variant of Reachable that forgets the trash. *)
ReachableInTrash(place) == place # "outside_docroot"

Reachable(place) == place \in {"web_reachable", "unknown"}

(* What blocks the action without touching the level; the whitelist, which *)
(* the user wrote, is the reason given when both apply.                    *)
ActionFor(level, p) ==
    IF level = "clean" THEN "none"
    ELSE IF p \in Whitelisted THEN "skipped_whitelist"
    ELSE IF ~Reachable(Location[p]) THEN "skipped_not_reachable"
    ELSE "none"

ConsolidateFile(rs, s, p) ==
    LET score == Score(BuildVotes(rs, s))
        level == LevelOf(score)
    IN IF s \in OfficialClean(rs)
       THEN [sha |-> s, path |-> p, level |-> "clean", score |-> 0,
             official |-> TRUE, action |-> "skipped_official_checksum"]
       ELSE [sha |-> s, path |-> p, level |-> level, score |-> score,
             official |-> FALSE, action |-> ActionFor(level, p)]

(* Variant of DistinctPaths: a group is named after one of its paths. *)
FirstPath(rs, s) ==
    IF Group(rs, s) = {} THEN {} ELSE {CHOOSE p \in Path : \E f \in Group(rs, s) : f.path = p}

DistinctPaths(rs, s) == {f.path : f \in Group(rs, s)}

Consolidate(rs) ==
    UNION {{ConsolidateFile(rs, s, p) : p \in DistinctPaths(rs, s)} : s \in Sha}

(* Verdict.Actionable, and the first test of Runner.act. *)
Actionable(v) == v.level = "confirmed" /\ ~v.official
MayAct(v) == v.action = "none" /\ Actionable(v)

-----------------------------------------------------------------------------
ConsensusInit == reports = [e \in Engine |-> Missing]

(* runEngines appends the report of the engine it has just run, abstaining *)
(* or not.                                                                 *)
HandIn(e) ==
    /\ reports[e] = Missing
    /\ \E r \in Possible[e] : reports' = [reports EXCEPT ![e] = r]

ConsensusNext == \E e \in Engine : HandIn(e)

ConsensusSpec == ConsensusInit /\ [][ConsensusNext]_reports

-----------------------------------------------------------------------------
VerdictType == [sha : Sha, path : Path, level : Level, score : 0 .. Saturation,
            official : BOOLEAN,
            action : {"none", "skipped_whitelist", "skipped_not_reachable",
                      "skipped_official_checksum"}]

ConsensusTypeOK ==
    /\ reports \in [Engine -> {Missing} \cup UNION {Possible[e] : e \in Engine}]
    /\ Consolidate(reports) \subseteq VerdictType

(***************************************************************************)
(* "An adapter failure is an abstention, never a clean vote" (Principle    *)
(* VI, DECISIONS.md D-004): a report that stopped halfway changes no       *)
(* verdict at all.  Neither its findings nor its clean list count, and it  *)
(* does not dilute what the others said.                                   *)
(***************************************************************************)
AbstentionIsSilence ==
    [][ \A e \in Engine :
          reports'[e] # reports[e] /\ Abstains(reports', e)
            => Consolidate(reports') = Consolidate(reports) ]_reports

(***************************************************************************)
(* One report more never makes a verdict disappear or its level drop: an   *)
(* engine that looks and finds nothing does not outvote one that found     *)
(* something.  Only an official checksum does (D-003, D-005).              *)
(***************************************************************************)
MoreEyesNeverLower ==
    [][ \A v \in Consolidate(reports) :
          \E u \in Consolidate(reports') :
            /\ u.sha = v.sha /\ u.path = v.path
            /\ Rank(u.level) >= Rank(v.level) \/ u.official ]_reports

(* No weight, at any confidence, reaches the threshold by itself. *)
NobodyIsDecisive ==
    \A e \in Engine : \A c \in Confidence :
        ~Reaches(Weight[e] * ConfidenceMultiplier(c), ConfirmedAt)

(***************************************************************************)
(* The level that authorises an automatic quarantine takes two engines,    *)
(* however many rules and copies one of them matched (buildVotes,          *)
(* verdict.go:217-222), as long as no configured weight is decisive.       *)
(***************************************************************************)
NoEngineDecidesAlone ==
    NobodyIsDecisive =>
        \A v \in Consolidate(reports) :
            v.level = "confirmed" => Cardinality(Voters(reports, v.sha)) >= 2

(***************************************************************************)
(* Every path that a voting engine named has a verdict, and all copies of  *)
(* a content have the same level: no copy is less actionable than the one  *)
(* named first (D-028).                                                    *)
(***************************************************************************)
NoCopyIsLost ==
    /\ \A e \in Engine : Speaks(reports, e) =>
         \A f \in reports[e].findings : f.kind = "malware" =>
           \E v \in Consolidate(reports) : v.sha = f.sha /\ v.path = f.path
    /\ \A u, v \in Consolidate(reports) : u.sha = v.sha => u.level = v.level

(***************************************************************************)
(* The automatic action is left to confirmed files that the web serves or  *)
(* may serve, that no whitelist rule protects and that nobody proved       *)
(* official, and what blocks the action leaves the level of the content    *)
(* as it is (D-005, D-006, act).                                           *)
(***************************************************************************)
ActsOnlyWhereAllowed ==
    \A v \in Consolidate(reports) :
        /\ MayAct(v) =>
             /\ Location[v.path] \notin {"trash", "outside_docroot"}
             /\ v.path \notin Whitelisted
             /\ v.sha \notin OfficialClean(reports)
        /\ v.action \in {"skipped_whitelist", "skipped_not_reachable"} =>
             v.level = LevelOf(v.score) /\ v.level # "clean"
=============================================================================
