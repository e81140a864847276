--------------------------- MODULE VerdictProofs ----------------------------
(***************************************************************************)
(* Proofs about the verdicts: how the votes of one cycle become one        *)
(* (Consensus), and what becomes of its row over the cycles, decisions and *)
(* maintenances that follow (History).                                     *)
(*                                                                         *)
(* Consensus, for any engines, contents, paths, weights and thresholds:    *)
(* what the votes about a content add up to, who is listened to, what is   *)
(* named, how a level moves, and what may be acted on.  A sum over a       *)
(* finite set is a recursive function picked by CHOOSE.  The lemmas of the *)
(* first part show that there is one, and that it adds in any order; each  *)
(* is an induction over finite sets in the form "take a smallest           *)
(* counterexample", which SmallestSubset provides.                         *)
(*                                                                         *)
(* History, further down, for any number of cycles and maintenances, any   *)
(* time and any number of decisions and faults.                            *)
(***************************************************************************)
EXTENDS Consensus, History, FiniteSetTheorems, WellFoundedInduction, TLAPS

-----------------------------------------------------------------------------
(* Sums over finite sets.                                                  *)

(* Among some subsets of a finite set there is a smallest one.             *)
LEMMA SmallestSubset ==
    ASSUME NEW S, IsFiniteSet(S), NEW U, U \subseteq SUBSET S, U # {}
    PROVE  \E T \in U : \A V \in U : V \subseteq T => V = T
<1>1. U \subseteq FiniteSubsetsOf(S)
  BY FS_FiniteSubsetsOfFinite
<1>2. PICK T \in U : \A V \in U : ~ (<<V, T>> \in StrictSubsetOrdering(S))
  BY <1>1, FS_StrictSubsetOrderingWellFounded, WFMin
<1>3. ASSUME NEW V \in U, V \subseteq T PROVE V = T
  BY <1>2, <1>3 DEF StrictSubsetOrdering
<1> QED
  BY <1>3

(* The element a fold takes next, the equation it solves on all subsets of *)
(* S, and its value on S.                                                  *)
Pick(s) == CHOOSE x \in s : TRUE

Adds(g, v, S) ==
    g = [s \in SUBSET S |-> IF s = {} THEN 0 ELSE v[Pick(s)] + g[s \ {Pick(s)}]]

Total(v, S) == FoldFunctionOnSet(+, 0, v, S)

LEMMA PickIn == \A s : s # {} => Pick(s) \in s
BY DEF Pick

LEMMA AddsAt ==
    ASSUME NEW S, NEW v, NEW g, Adds(g, v, S), NEW s \in SUBSET S
    PROVE  g[s] = IF s = {} THEN 0 ELSE v[Pick(s)] + g[s \ {Pick(s)}]
BY DEF Adds

(* The equation has one solution, whatever set it is solved on.            *)
LEMMA AddsAgree ==
    ASSUME NEW S, IsFiniteSet(S), NEW T \in SUBSET S, NEW v, NEW g, NEW h,
           Adds(g, v, S), Adds(h, v, T)
    PROVE  \A s \in SUBSET T : g[s] = h[s]
<1> DEFINE U == {s \in SUBSET T : g[s] # h[s]}
<1> SUFFICES ASSUME U # {} PROVE FALSE
  OBVIOUS
<1>1. PICK s \in U : \A r \in U : r \subseteq s => r = s
  <2>1. IsFiniteSet(T) /\ U \subseteq SUBSET T
    BY FS_Subset
  <2> HIDE DEF U
  <2> QED
    BY <2>1, SmallestSubset
<1>2. s # {}
  BY <1>1, AddsAt
<1> DEFINE r == s \ {Pick(s)}
<1>3. r \in SUBSET T /\ r # s /\ r \subseteq s
  BY <1>2, PickIn
<1>4. g[r] = h[r]
  BY <1>1, <1>3
<1> QED
  BY <1>1, <1>2, <1>4, AddsAt

(* It has one: the solutions on the smaller subsets are put together.      *)
LEMMA AddsExists ==
    ASSUME NEW S, IsFiniteSet(S), NEW v
    PROVE  \E g : Adds(g, v, S)
<1> DEFINE G(T) == CHOOSE g : Adds(g, v, T)
           U == {T \in SUBSET S : ~ \E g : Adds(g, v, T)}
<1> SUFFICES ASSUME U # {} PROVE FALSE
  OBVIOUS
<1>1. PICK T \in U : \A V \in U : V \subseteq T => V = T
  <2>1. U \subseteq SUBSET S
    OBVIOUS
  <2> HIDE DEF U
  <2> QED
    BY <2>1, SmallestSubset
<1>2. ASSUME NEW V \in SUBSET T, V # T PROVE Adds(G(V), v, V)
  BY <1>1, <1>2
<1> DEFINE r(s) == s \ {Pick(s)}
           h == [s \in SUBSET T |-> IF s = {} THEN 0 ELSE v[Pick(s)] + G(r(s))[r(s)]]
<1>3. ASSUME NEW s \in SUBSET T, s # T PROVE h[s] = G(s)[s]
  <2>1. CASE s = {}
    BY <1>2, <1>3, <2>1, AddsAt
  <2>2. CASE s # {}
    <3>1. r(s) \in SUBSET s /\ r(s) # s /\ r(s) # T
      BY <2>2, PickIn
    <3>2. Adds(G(s), v, s) /\ Adds(G(r(s)), v, r(s))
      BY <1>2, <1>3, <3>1
    <3>3. IsFiniteSet(s)
      BY FS_Subset
    <3>4. G(s)[r(s)] = G(r(s))[r(s)]
      <4> HIDE DEF G
      <4> QED BY <3>1, <3>2, <3>3, AddsAgree
    <3>5. G(s)[s] = v[Pick(s)] + G(s)[r(s)]
      <4> HIDE DEF G
      <4> QED BY <2>2, <3>2, AddsAt
    <3> QED
      BY <2>2, <3>4, <3>5
  <2> QED
    BY <2>1, <2>2
<1>4. ASSUME NEW s \in SUBSET T, s # {} PROVE h[r(s)] = G(r(s))[r(s)]
  <2>1. r(s) \in SUBSET T /\ r(s) # T
    BY <1>4, PickIn
  <2> QED
    BY <2>1, <1>3
<1>5. Adds(h, v, T)
  <2> HIDE DEF G
  <2>1. ASSUME NEW s \in SUBSET T
        PROVE h[s] = IF s = {} THEN 0 ELSE v[Pick(s)] + h[r(s)]
    BY <1>4
  <2>2. h = [s \in SUBSET T |-> h[s]]
    OBVIOUS
  <2> HIDE DEF h
  <2> QED
    BY <2>1, <2>2 DEF Adds
<1> QED
  BY <1>1, <1>5

LEMMA TotalAdds ==
    ASSUME NEW S, IsFiniteSet(S), NEW v
    PROVE  \E g : Adds(g, v, S) /\ Total(v, S) = g[S]
<1>1. \E g : Adds(g, v, S)
  BY AddsExists
<1>2. Adds(CHOOSE g : Adds(g, v, S), v, S)
  BY <1>1
<1>3. Total(v, S) = (CHOOSE g : Adds(g, v, S))[S]
  BY DEF Total, FoldFunctionOnSet, MapThenFoldSet, Adds, Pick
<1> QED
  BY <1>2, <1>3

LEMMA TotalEmpty == ASSUME NEW v PROVE Total(v, {}) = 0
BY TotalAdds, FS_EmptySet, AddsAt

(* So the fold is what its definition says it is.                          *)
LEMMA TotalPick ==
    ASSUME NEW S, IsFiniteSet(S), S # {}, NEW v
    PROVE  Total(v, S) = v[Pick(S)] + Total(v, S \ {Pick(S)})
<1> DEFINE T == S \ {Pick(S)}
<1>0. T \in SUBSET S /\ IsFiniteSet(T)
  BY FS_Subset
<1>1. PICK g : Adds(g, v, S) /\ Total(v, S) = g[S]
  BY TotalAdds
<1>2. PICK h : Adds(h, v, T) /\ Total(v, T) = h[T]
  BY TotalAdds, <1>0
<1>3. g[T] = h[T]
  BY <1>0, <1>1, <1>2, AddsAgree
<1> QED
  BY <1>1, <1>2, <1>3, AddsAt

LEMMA TotalType ==
    ASSUME NEW S, IsFiniteSet(S), NEW v, \A x \in S : v[x] \in Nat
    PROVE  Total(v, S) \in Nat
<1> DEFINE U == {T \in SUBSET S : Total(v, T) \notin Nat}
<1> SUFFICES ASSUME U # {} PROVE FALSE
  OBVIOUS
<1>1. PICK T \in U : \A V \in U : V \subseteq T => V = T
  <2>1. U \subseteq SUBSET S
    OBVIOUS
  <2> HIDE DEF U
  <2> QED
    BY <2>1, SmallestSubset
<1>2. T # {}
  <2>1. Total(v, T) \notin Nat
    OBVIOUS
  <2>2. Total(v, {}) \in Nat
    BY TotalEmpty
  <2> QED
    BY <2>1, <2>2
<1> DEFINE r == T \ {Pick(T)}
<1>3. Pick(T) \in T /\ r \in SUBSET S /\ r # T /\ r \subseteq T
  BY <1>2, PickIn
<1>4. Total(v, r) \in Nat /\ v[Pick(T)] \in Nat
  BY <1>1, <1>3
<1>5. Total(v, T) = v[Pick(T)] + Total(v, r)
  BY <1>2, FS_Subset, TotalPick
<1> QED
  BY <1>1, <1>4, <1>5

(* Numbers may be added in any order.                                      *)
LEMMA TotalAny ==
    ASSUME NEW S, IsFiniteSet(S), NEW v, \A x \in S : v[x] \in Nat, NEW y \in S
    PROVE  Total(v, S) = v[y] + Total(v, S \ {y})
<1> DEFINE U == {T \in SUBSET S : \E x \in T : Total(v, T) # v[x] + Total(v, T \ {x})}
<1> SUFFICES ASSUME U # {} PROVE FALSE
  OBVIOUS
<1>1. PICK T \in U : \A V \in U : V \subseteq T => V = T
  <2>1. U \subseteq SUBSET S
    OBVIOUS
  <2> HIDE DEF U
  <2> QED
    BY <2>1, SmallestSubset
<1>2. PICK x \in T : Total(v, T) # v[x] + Total(v, T \ {x})
  BY <1>1
<1>3. PICK z \in T : Total(v, T) = v[z] + Total(v, T \ {z})
  BY <1>2, FS_Subset, TotalPick, PickIn
<1>4. x # z
  BY <1>2, <1>3
<1>5. T \ {z} \notin U /\ T \ {x} \notin U
  BY <1>1, <1>2, <1>3
<1> DEFINE W == T \ {x, z}
<1>6. (T \ {z}) \ {x} = W /\ (T \ {x}) \ {z} = W
  OBVIOUS
<1>7. /\ Total(v, T \ {z}) = v[x] + Total(v, W)
      /\ Total(v, T \ {x}) = v[z] + Total(v, W)
  BY <1>2, <1>3, <1>4, <1>5, <1>6
<1>8. v[x] \in Nat /\ v[z] \in Nat
  BY <1>1, <1>2, <1>3
<1>9. Total(v, W) \in Nat
  <2>1. W \in SUBSET S /\ IsFiniteSet(W)
    BY FS_Subset
  <2> HIDE DEF W
  <2> QED
    BY <2>1, TotalType
<1> HIDE DEF W, U
<1> QED
  BY <1>2, <1>3, <1>7, <1>8, <1>9

(* More and larger summands give a larger sum.                             *)
LEMMA TotalMonotone ==
    ASSUME NEW S, IsFiniteSet(S), NEW v, NEW w, NEW T \in SUBSET S,
           \A x \in S : w[x] \in Nat,
           \A x \in T : v[x] \in Nat /\ v[x] <= w[x]
    PROVE  Total(v, T) <= Total(w, S)
<1> DEFINE Larger(R, V) == R \subseteq V /\ ~(Total(v, R) <= Total(w, V))
           U == {R \in SUBSET T : \E V \in SUBSET S : Larger(R, V)}
<1> SUFFICES ASSUME U # {} PROVE FALSE
  OBVIOUS
<1>0. IsFiniteSet(T)
  BY FS_Subset
<1>1. PICK R \in U : \A V \in U : V \subseteq R => V = R
  <2>1. U \subseteq SUBSET T
    OBVIOUS
  <2> HIDE DEF U
  <2> QED
    BY <1>0, <2>1, SmallestSubset
<1>2. PICK V \in SUBSET S : Larger(R, V)
  BY <1>1
<1>3. IsFiniteSet(V) /\ IsFiniteSet(R)
  BY <1>0, FS_Subset
<1>4. Total(w, V) \in Nat /\ \A x \in V : w[x] \in Nat
  BY <1>3, TotalType
<1>5. PICK y \in R : TRUE
  BY <1>2, <1>4, TotalEmpty
<1>6. Total(v, R) = v[y] + Total(v, R \ {y})
  BY <1>3, TotalAny
<1>7. Total(w, V) = w[y] + Total(w, V \ {y})
  BY <1>2, <1>3, <1>4, TotalAny
<1>8. Total(v, R \ {y}) <= Total(w, V \ {y})
  BY <1>1, <1>2
<1>9. Total(v, R \ {y}) \in Nat /\ Total(w, V \ {y}) \in Nat
  <2>1. IsFiniteSet(R \ {y}) /\ IsFiniteSet(V \ {y})
    BY <1>3, FS_RemoveElement
  <2> QED
    BY <1>4, <2>1, TotalType
<1> QED
  BY <1>2, <1>4, <1>5, <1>6, <1>7, <1>8, <1>9

(* A finite set of numbers has a largest one: whoever has nobody above it. *)
LEMMA MaxOf ==
    ASSUME NEW S, IsFiniteSet(S), S # {}, \A y \in S : y \in Nat
    PROVE  Max(S) \in S /\ \A y \in S : Max(S) >= y
<1> DEFINE Above(y) == {z \in S : z > y}
           U == {T \in SUBSET S : \E y \in S : T = Above(y)}
<1>1. PICK T \in U : \A V \in U : V \subseteq T => V = T
  <2>1. U \subseteq SUBSET S
    OBVIOUS
  <2>2. PICK y \in S : TRUE
    OBVIOUS
  <2>3. U # {}
    <3>1. Above(y) \in U
      OBVIOUS
    <3> QED
      BY <3>1
  <2> HIDE DEF U
  <2> QED
    BY <2>1, <2>3, SmallestSubset
<1>2. PICK x \in S : T = Above(x)
  BY <1>1
<1>3. ASSUME NEW z \in Above(x) PROVE FALSE
  <2>1. Above(z) \in U
    BY <1>3
  <2>3. z > x /\ z \in Nat /\ x \in Nat
    BY <1>3
  <2>4. Above(z) \subseteq Above(x)
    <3>1. ASSUME NEW k \in S, k > z PROVE k > x
      <4>1. k \in Nat
        OBVIOUS
      <4> QED
        BY <2>3, <3>1, <4>1
    <3> QED
      BY <3>1
  <2>2. Above(z) = Above(x)
    BY <1>1, <1>2, <2>1, <2>4
  <2> QED
    BY <1>3, <2>2
<1>4. \A y \in S : x >= y
  BY <1>3
<1> QED
  BY <1>2, <1>4 DEF Max

-----------------------------------------------------------------------------
(* Types, votes and scores.                                                *)

Handed == [Engine -> {Missing} \cup UNION {Possible[e] : e \in Engine}]

LEMMA ProductIsNat == \A m, n \in Nat : m * n \in Nat
OBVIOUS

(* What is said about a content is finite, and every vote is a number.     *)
LEMMA EffectiveType ==
    ASSUME NEW e \in Engine, NEW f
    PROVE  Effective(e, f) \in Nat
<1>1. Weight[e] \in Nat
  BY WeightAssumption
<1>2. ConfidenceMultiplier(f.confidence) \in Nat
  BY WeightAssumption DEF ConfidenceMultiplier
<1> QED
  BY <1>1, <1>2, ProductIsNat DEF Effective

LEMMA AboutType ==
    ASSUME NEW rs \in Handed, NEW e \in Engine, NEW s
    PROVE  IsFiniteSet(About(rs, e, s)) /\ About(rs, e, s) \subseteq Finding
<1>1. CASE Speaks(rs, e)
  <2>1. PICK d \in Engine : rs[e] \in Possible[d]
    BY <1>1 DEF Speaks, Handed
  <2>2. rs[e] \in Report /\ IsFiniteSet(rs[e].findings)
    BY <2>1, EngineAssumption
  <2>3. About(rs, e, s) \in SUBSET rs[e].findings
    BY <1>1 DEF About
  <2> QED
    BY <2>2, <2>3, FS_Subset DEF Report
<1>2. CASE ~Speaks(rs, e)
  BY <1>2, FS_EmptySet DEF About
<1> QED
  BY <1>1, <1>2

(* A vote is the weight of one of the findings, not a sum of them.         *)
LEMMA VoteIsSaid ==
    ASSUME NEW rs \in Handed, NEW e \in Engine, NEW s, About(rs, e, s) # {}
    PROVE  /\ VoteOf(rs, e, s) \in Nat
           /\ \E f \in About(rs, e, s) : VoteOf(rs, e, s) = Effective(e, f)
<1> DEFINE A == About(rs, e, s)
           V == {Effective(e, f) : f \in A}
           m == [f \in A |-> Effective(e, f)]
<1>1. IsFiniteSet(A)
  BY AboutType
<1>2. m \in Surjection(A, V)
  BY DEF Surjection
<1>3. IsFiniteSet(V)
  <2> HIDE DEF m, V, A
  <2> QED
    BY <1>1, <1>2, FS_Surjection
<1>4. \A x \in V : x \in Nat
  BY EffectiveType
<1>5. V # {}
  OBVIOUS
<1>6. Max(V) \in V
  <2> HIDE DEF V
  <2> QED
    BY <1>3, <1>4, <1>5, MaxOf
<1> QED
  BY <1>4, <1>6 DEF VoteOf

LEMMA VotersType ==
    ASSUME NEW rs \in Handed, NEW s
    PROVE  /\ Voters(rs, s) \subseteq Engine /\ IsFiniteSet(Voters(rs, s))
           /\ \A e \in Voters(rs, s) : BuildVotes(rs, s)[e] = VoteOf(rs, e, s)
           /\ \A e \in Voters(rs, s) : BuildVotes(rs, s)[e] \in Nat
           /\ Sum(BuildVotes(rs, s)) = Total(BuildVotes(rs, s), Voters(rs, s))
<1>1. Voters(rs, s) \in SUBSET Engine
  BY DEF Voters
<1>2. IsFiniteSet(Voters(rs, s))
  BY <1>1, EngineAssumption, FS_Subset
<1>3. \A e \in Voters(rs, s) : BuildVotes(rs, s)[e] = VoteOf(rs, e, s)
  BY DEF BuildVotes
<1>4. \A e \in Voters(rs, s) : BuildVotes(rs, s)[e] \in Nat
  BY <1>1, <1>3, VoteIsSaid DEF Voters
<1>5. Sum(BuildVotes(rs, s)) = Total(BuildVotes(rs, s), Voters(rs, s))
  BY DEF Sum, Total, FoldFunction, BuildVotes
<1> QED
  BY <1>1, <1>2, <1>3, <1>4, <1>5

LEMMA ScoreType ==
    ASSUME NEW rs \in Handed, NEW s
    PROVE  Sum(BuildVotes(rs, s)) \in Nat /\ Score(BuildVotes(rs, s)) \in 0 .. Saturation
<1>1. Sum(BuildVotes(rs, s)) \in Nat
  BY VotersType, TotalType
<1> QED
  BY <1>1, WeightAssumption DEF Score

LEMMA ConsolidatedType ==
    ASSUME NEW rs \in Handed
    PROVE  Consolidate(rs) \subseteq VerdictType
<1> SUFFICES ASSUME NEW s \in Sha, NEW p \in DistinctPaths(rs, s)
             PROVE  ConsolidateFile(rs, s, p) \in VerdictType
  BY DEF Consolidate
<1>1. p \in Path
  BY AboutType DEF DistinctPaths, Group, Finding
<1>2. Score(BuildVotes(rs, s)) \in 0 .. Saturation
  BY ScoreType
<1>3. \A n : LevelOf(n) \in Level
  BY DEF LevelOf, Level
<1>4. \A l : ActionFor(l, p) \in {"none", "skipped_whitelist", "skipped_not_reachable"}
  BY DEF ActionFor
<1>5. 0 \in 0 .. Saturation
  BY WeightAssumption
<1> QED
  BY <1>1, <1>2, <1>3, <1>4, <1>5 DEF ConsolidateFile, VerdictType, Level

LEMMA VerdictFields ==
    ASSUME NEW rs, NEW v \in Consolidate(rs)
    PROVE  \E s \in Sha : \E p \in DistinctPaths(rs, s) : v = ConsolidateFile(rs, s, p)
BY DEF Consolidate

Typed == reports \in Handed

LEMMA TypedStep ==
    ASSUME Typed, [ConsensusNext]_reports
    PROVE  Typed'
<1>1. ASSUME NEW e \in Engine, HandIn(e) PROVE Typed'
  <2>1. PICK r \in Possible[e] : reports' = [reports EXCEPT ![e] = r]
    BY <1>1 DEF HandIn
  <2>2. r \in UNION {Possible[d] : d \in Engine}
    OBVIOUS
  <2> QED
    BY <2>1, <2>2 DEF Typed, Handed
<1>2. CASE UNCHANGED reports
  BY <1>2 DEF Typed
<1> QED
  BY <1>1, <1>2 DEF ConsensusNext

LEMMA TypedHolds == ConsensusSpec => []Typed
<1>1. ConsensusInit => Typed
  BY DEF ConsensusInit, Typed, Handed
<1> QED
  BY <1>1, TypedStep, PTL DEF ConsensusSpec

(***************************************************************************)
(* What has been handed in is a report, and every verdict has a level, an  *)
(* action and a score between nothing and the saturation.                  *)
(***************************************************************************)
THEOREM ConsensusKeepsTypes == ConsensusSpec => []ConsensusTypeOK
<1>1. Typed => ConsensusTypeOK
  BY ConsolidatedType DEF Typed, Handed, ConsensusTypeOK
<1> QED
  BY <1>1, TypedHolds, PTL

-----------------------------------------------------------------------------
LEMMA Thresholds ==
    /\ {SuspiciousAt, LikelyAt, ConfirmedAt} \subseteq Nat
    /\ SuspiciousAt < LikelyAt /\ LikelyAt < ConfirmedAt /\ 0 < ConfirmedAt
    /\ Saturation \in Nat /\ 0 < Saturation
BY WeightAssumption

LEMMA ZeroReachesNothing == ~Reaches(0, ConfirmedAt)
<1>1. /\ ConfirmedAt \in Nat /\ ConfirmedAt > 0
      /\ Saturation \in Nat /\ Saturation > 0
  BY Thresholds
<1>2. ConfirmedAt * Saturation \in Nat /\ ConfirmedAt * Saturation > 0
  BY <1>1, ProductIsNat
<1>3. 100 * 0 = 0
  OBVIOUS
<1> QED
  BY <1>2, <1>3 DEF Reaches

LEMMA ScoreIsAtMostSum ==
    ASSUME NEW rs \in Handed, NEW s, NEW t,
           Reaches(Score(BuildVotes(rs, s)), t), t \in Nat
    PROVE  Reaches(Sum(BuildVotes(rs, s)), t)
<1> DEFINE total == Sum(BuildVotes(rs, s))
<1>1. total \in Nat /\ Saturation \in Nat
  BY ScoreType, WeightAssumption
<1>2. Score(BuildVotes(rs, s)) \in Nat /\ Score(BuildVotes(rs, s)) <= total
  BY <1>1 DEF Score
<1>3. t * Saturation \in Nat
  BY <1>1, ProductIsNat
<1> QED
  BY <1>1, <1>2, <1>3 DEF Reaches

(* With one voter the sum is that one's vote.                              *)
LEMMA OneVoterIsOneVote ==
    ASSUME NEW rs \in Handed, NEW s, NEW e, Voters(rs, s) = {e}
    PROVE  /\ e \in Engine
           /\ \E f \in About(rs, e, s) : Sum(BuildVotes(rs, s)) = Effective(e, f)
<1> DEFINE v == BuildVotes(rs, s)
<1>1. e \in Engine /\ About(rs, e, s) # {}
  BY DEF Voters
<1>2. v[e] \in Nat /\ v[e] = VoteOf(rs, e, s) /\ Sum(v) = Total(v, {e}) /\ IsFiniteSet({e})
  BY VotersType
<1>3. Total(v, {e}) = v[e] + Total(v, {e} \ {e})
  <2> HIDE DEF v
  <2> QED
    BY <1>2, TotalAny
<1>4. {e} \ {e} = {} /\ Total(v, {}) = 0
  BY TotalEmpty
<1>5. Sum(v) = VoteOf(rs, e, s)
  <2> HIDE DEF v
  <2> QED
    BY <1>2, <1>3, <1>4
<1> QED
  BY <1>1, <1>5, VoteIsSaid

LEMMA ConfirmedTakesTwo ==
    ASSUME NEW rs \in Handed, NobodyIsDecisive,
           NEW v \in Consolidate(rs), v.level = "confirmed"
    PROVE  Cardinality(Voters(rs, v.sha)) >= 2
<1>0. PICK s \in Sha : \E p \in DistinctPaths(rs, s) : v = ConsolidateFile(rs, s, p)
  BY VerdictFields
<1>1. PICK p \in DistinctPaths(rs, s) : v = ConsolidateFile(rs, s, p)
  BY <1>0
<1>2. v.sha = s /\ LevelOf(Score(BuildVotes(rs, s))) = "confirmed"
  BY <1>1 DEF ConsolidateFile
<1>3. Reaches(Score(BuildVotes(rs, s)), ConfirmedAt)
  BY <1>2 DEF LevelOf
<1>4. Reaches(Sum(BuildVotes(rs, s)), ConfirmedAt)
  BY <1>3, ScoreIsAtMostSum, WeightAssumption
<1> DEFINE D == Voters(rs, s)
<1>5. IsFiniteSet(D) /\ Cardinality(D) \in Nat
  BY VotersType, FS_CardinalityType
<1>6. Cardinality(D) # 0
  <2> SUFFICES ASSUME D = {} PROVE FALSE
    BY <1>5, FS_EmptySet
  <2>1. Sum(BuildVotes(rs, s)) = 0
    BY VotersType, TotalEmpty
  <2> QED
    BY <1>4, <2>1, ZeroReachesNothing
<1>7. Cardinality(D) # 1
  <2> SUFFICES ASSUME NEW e, D = {e} PROVE FALSE
    BY <1>5, FS_Singleton
  <2>1. PICK f \in About(rs, e, s) : Sum(BuildVotes(rs, s)) = Effective(e, f)
    BY OneVoterIsOneVote
  <2>2. e \in Engine /\ f.confidence \in Confidence
    BY OneVoterIsOneVote, AboutType DEF Finding
  <2> QED
    BY <1>4, <2>1, <2>2 DEF NobodyIsDecisive, Effective
<1> QED
  BY <1>2, <1>5, <1>6, <1>7

(***************************************************************************)
(* The level that authorises an automatic quarantine takes two engines,    *)
(* however many rules one of them matched, as long as no weight reaches    *)
(* the threshold by itself.                                                *)
(***************************************************************************)
THEOREM ConsensusNoEngineDecidesAlone == ConsensusSpec => []NoEngineDecidesAlone
<1>1. Typed => NoEngineDecidesAlone
  BY ConfirmedTakesTwo DEF Typed, NoEngineDecidesAlone
<1> QED
  BY <1>1, TypedHolds, PTL

-----------------------------------------------------------------------------
LEMMA ReachesMore ==
    ASSUME NEW m \in Nat, NEW n \in Nat, m <= n, NEW t \in Nat, Reaches(m, t)
    PROVE  Reaches(n, t)
<1>1. t * Saturation \in Nat
  BY WeightAssumption, ProductIsNat
<1> QED
  BY <1>1 DEF Reaches

(* Thresholds are ordered, so levels follow scores.                        *)
LEMMA HigherScoreHigherLevel ==
    ASSUME NEW m \in Nat, NEW n \in Nat, m <= n
    PROVE  Rank(LevelOf(n)) >= Rank(LevelOf(m))
<1>1. /\ Reaches(m, ConfirmedAt) => Reaches(n, ConfirmedAt)
      /\ Reaches(m, LikelyAt) => Reaches(n, LikelyAt)
      /\ Reaches(m, SuspiciousAt) => Reaches(n, SuspiciousAt)
  BY ReachesMore, Thresholds
<1>2. \A k \in Nat : /\ Reaches(k, ConfirmedAt) => Reaches(k, LikelyAt)
                     /\ Reaches(k, LikelyAt) => Reaches(k, SuspiciousAt)
  <2> TAKE k \in Nat
  <2>1. /\ ConfirmedAt * Saturation >= LikelyAt * Saturation
        /\ LikelyAt * Saturation >= SuspiciousAt * Saturation
        /\ {ConfirmedAt * Saturation, LikelyAt * Saturation, SuspiciousAt * Saturation}
              \subseteq Nat
    BY Thresholds
  <2> QED
    BY <2>1 DEF Reaches
<1> QED
  BY <1>1, <1>2 DEF Rank, LevelOf

(* An engine that has handed in keeps its vote, so scores only grow.       *)
LEMMA MoreReportsMoreVotes ==
    ASSUME NEW rs \in Handed, NEW ns \in Handed, NEW s,
           \A e \in Engine : rs[e] # Missing => ns[e] = rs[e]
    PROVE  Score(BuildVotes(rs, s)) <= Score(BuildVotes(ns, s))
<1> DEFINE v == BuildVotes(rs, s)
           w == BuildVotes(ns, s)
           D == Voters(rs, s)
           E == Voters(ns, s)
<1>1. \A e \in Engine : About(rs, e, s) # {} => About(ns, e, s) = About(rs, e, s)
  BY DEF About, Speaks
<1>2. D \subseteq E
  BY <1>1 DEF Voters
<1>3. \A e \in D : VoteOf(ns, e, s) = VoteOf(rs, e, s)
  BY <1>1 DEF Voters, VoteOf
<1>4. \A e \in D : v[e] \in Nat /\ v[e] = w[e]
  BY <1>2, <1>3, VotersType
<1>5. IsFiniteSet(E) /\ \A e \in E : w[e] \in Nat
  BY VotersType
<1>6. Sum(v) = Total(v, D) /\ Sum(w) = Total(w, E) /\ Sum(v) \in Nat /\ Sum(w) \in Nat
  BY VotersType, ScoreType
<1>7. Total(v, D) <= Total(w, E)
  <2>1. \A e \in D : v[e] <= w[e]
    BY <1>4
  <2> HIDE DEF v, w, D, E
  <2> QED
    BY <1>2, <1>4, <1>5, <2>1, TotalMonotone
<1>8. Saturation \in Nat
  BY WeightAssumption
<1> QED
  BY <1>6, <1>7, <1>8 DEF Score

(***************************************************************************)
(* One report more never makes a verdict disappear or its level drop,      *)
(* unless it says that the content is official.                            *)
(***************************************************************************)
THEOREM ConsensusMoreEyesNeverLower == ConsensusSpec => MoreEyesNeverLower
<1> DEFINE Kept == \A v \in Consolidate(reports) :
                     \E u \in Consolidate(reports') :
                       /\ u.sha = v.sha /\ u.path = v.path
                       /\ Rank(u.level) >= Rank(v.level) \/ u.official
<1>1. Typed /\ Typed' /\ ConsensusNext => Kept
  <2> SUFFICES ASSUME Typed, Typed', ConsensusNext, NEW v \in Consolidate(reports)
               PROVE  \E u \in Consolidate(reports') :
                        /\ u.sha = v.sha /\ u.path = v.path
                        /\ Rank(u.level) >= Rank(v.level) \/ u.official
    OBVIOUS
  <2>1. PICK d \in Engine : HandIn(d)
    BY DEF ConsensusNext
  <2>2. \A e \in Engine : reports[e] # Missing => reports'[e] = reports[e]
    BY <2>1 DEF HandIn, Typed, Handed
  <2>3. PICK s \in Sha : \E p \in DistinctPaths(reports, s) : v = ConsolidateFile(reports, s, p)
    BY VerdictFields
  <2>4. PICK p \in DistinctPaths(reports, s) : v = ConsolidateFile(reports, s, p)
    BY <2>3
  <2>5. Group(reports, s) \subseteq Group(reports', s)
    BY <2>2 DEF Group, About, Speaks
  <2>6. p \in DistinctPaths(reports', s)
    BY <2>5 DEF DistinctPaths
  <2> DEFINE u == ConsolidateFile(reports', s, p)
  <2>7. u \in Consolidate(reports') /\ u.sha = v.sha /\ u.path = v.path
    <3>1. u \in Consolidate(reports')
      BY <2>6 DEF Consolidate
    <3>2. u.sha = s /\ u.path = p /\ v.sha = s /\ v.path = p
      BY <2>4 DEF ConsolidateFile
    <3> QED
      BY <3>1, <3>2
  <2>8. Rank(u.level) >= Rank(v.level) \/ u.official
    <3>1. OfficialClean(reports) \subseteq OfficialClean(reports')
      BY <2>2 DEF OfficialClean, Speaks
    <3>2. CASE s \in OfficialClean(reports')
      BY <3>2 DEF ConsolidateFile
    <3>3. CASE s \notin OfficialClean(reports')
      <4>1. /\ v.level = LevelOf(Score(BuildVotes(reports, s)))
            /\ u.level = LevelOf(Score(BuildVotes(reports', s)))
        BY <2>4, <3>1, <3>3 DEF ConsolidateFile
      <4>2. Score(BuildVotes(reports, s)) <= Score(BuildVotes(reports', s))
        BY <2>2, MoreReportsMoreVotes DEF Typed
      <4>3. /\ Score(BuildVotes(reports, s)) \in Nat
            /\ Score(BuildVotes(reports', s)) \in Nat
        BY ScoreType, Thresholds DEF Typed
      <4> QED
        BY <4>1, <4>2, <4>3, HigherScoreHigherLevel
    <3> QED
      BY <3>2, <3>3
  <2> HIDE DEF u
  <2> QED
    BY <2>7, <2>8
<1>2. Typed /\ Typed' /\ [ConsensusNext]_reports => [Kept]_reports
  BY <1>1
<1> QED
  BY <1>2, TypedHolds, PTL DEF ConsensusSpec, MoreEyesNeverLower

-----------------------------------------------------------------------------
(* Verdicts depend on the reports only through those who speak.            *)

LEMMA SameVoices ==
    ASSUME \A x \in Engine : Speaks(reports', x) <=> Speaks(reports, x),
           \A x \in Engine : Speaks(reports, x) => reports'[x] = reports[x]
    PROVE  Consolidate(reports') = Consolidate(reports)
<1>1. OfficialClean(reports') = OfficialClean(reports)
  BY DEF OfficialClean
<1>2. \A x \in Engine, s \in Sha : About(reports', x, s) = About(reports, x, s)
  BY DEF About
<1>3. ASSUME NEW s \in Sha
      PROVE  {ConsolidateFile(reports', s, p) : p \in DistinctPaths(reports', s)}
               = {ConsolidateFile(reports, s, p) : p \in DistinctPaths(reports, s)}
  <2>1. Voters(reports', s) = Voters(reports, s)
    BY <1>2 DEF Voters
  <2>2. \A x \in Engine : VoteOf(reports', x, s) = VoteOf(reports, x, s)
    BY <1>2 DEF VoteOf
  <2>3. BuildVotes(reports', s) = BuildVotes(reports, s)
    BY <2>1, <2>2 DEF BuildVotes, Voters
  <2>4. Group(reports', s) = Group(reports, s)
    BY <1>2 DEF Group
  <2>5. DistinctPaths(reports', s) = DistinctPaths(reports, s)
    BY <2>4 DEF DistinctPaths
  <2>6. ASSUME NEW p PROVE ConsolidateFile(reports', s, p) = ConsolidateFile(reports, s, p)
    BY <1>1, <2>3 DEF ConsolidateFile
  <2> QED
    BY <2>5, <2>6
<1> QED
  BY <1>3 DEF Consolidate

(***************************************************************************)
(* A report that stopped halfway changes no verdict.                       *)
(***************************************************************************)
THEOREM ConsensusAbstentionIsSilence == ConsensusSpec => AbstentionIsSilence
<1> DEFINE Silent == \A e \in Engine :
                       reports'[e] # reports[e] /\ Abstains(reports', e)
                         => Consolidate(reports') = Consolidate(reports)
<1>1. Typed /\ ConsensusNext => Silent
  <2> SUFFICES ASSUME Typed, ConsensusNext, NEW e \in Engine,
                      reports'[e] # reports[e], Abstains(reports', e)
               PROVE  Consolidate(reports') = Consolidate(reports)
    OBVIOUS
  <2>1. PICK d \in Engine : HandIn(d)
    BY DEF ConsensusNext
  <2>2. PICK r \in Possible[d] : reports' = [reports EXCEPT ![d] = r]
    BY <2>1 DEF HandIn
  <2>3. e = d
    BY <2>2 DEF Typed, Handed
  <2>4. reports[e] = Missing /\ \A x \in Engine \ {e} : reports'[x] = reports[x]
    BY <2>1, <2>2, <2>3 DEF HandIn, Typed, Handed
  <2>5. ~Speaks(reports', e) /\ ~Speaks(reports, e)
    BY <2>4 DEF Speaks, Abstains
  <2>6. \A x \in Engine : Speaks(reports', x) <=> Speaks(reports, x)
    BY <2>4, <2>5 DEF Speaks
  <2>7. \A x \in Engine : Speaks(reports, x) => reports'[x] = reports[x]
    BY <2>4, <2>5
  <2> QED
    BY <2>6, <2>7, SameVoices
<1>2. Typed /\ [ConsensusNext]_reports => [Silent]_reports
  BY <1>1
<1> QED
  BY <1>2, TypedHolds, PTL DEF ConsensusSpec, AbstentionIsSilence

-----------------------------------------------------------------------------
(***************************************************************************)
(* Every path a voting engine named has a verdict, and all copies of one   *)
(* content have the same level.                                            *)
(***************************************************************************)
THEOREM ConsensusNoCopyIsLost == ConsensusSpec => []NoCopyIsLost
<1>1. ASSUME Typed PROVE NoCopyIsLost
  <2>1. ASSUME NEW e \in Engine, Speaks(reports, e),
               NEW f \in reports[e].findings, f.kind = "malware"
        PROVE  \E v \in Consolidate(reports) : v.sha = f.sha /\ v.path = f.path
    <3>1. reports[e] \in Report
      BY <1>1, <2>1, EngineAssumption DEF Typed, Handed, Speaks
    <3>2. f \in Finding
      BY <3>1, <2>1 DEF Report
    <3>3. f.sha \in Sha
      BY <3>2 DEF Finding
    <3>4. f \in Group(reports, f.sha)
      BY <2>1 DEF Group, About
    <3>5. f.path \in DistinctPaths(reports, f.sha)
      BY <3>4 DEF DistinctPaths
    <3>6. ConsolidateFile(reports, f.sha, f.path) \in Consolidate(reports)
      BY <3>3, <3>5 DEF Consolidate
    <3>7. /\ ConsolidateFile(reports, f.sha, f.path).sha = f.sha
          /\ ConsolidateFile(reports, f.sha, f.path).path = f.path
      BY DEF ConsolidateFile
    <3> QED
      BY <3>6, <3>7
  <2>2. ASSUME NEW u \in Consolidate(reports), NEW v \in Consolidate(reports), u.sha = v.sha
        PROVE  u.level = v.level
    <3>1. PICK s \in Sha : \E p \in DistinctPaths(reports, s) : u = ConsolidateFile(reports, s, p)
      BY VerdictFields
    <3>2. PICK p \in DistinctPaths(reports, s) : u = ConsolidateFile(reports, s, p)
      BY <3>1
    <3>3. PICK t \in Sha : \E q \in DistinctPaths(reports, t) : v = ConsolidateFile(reports, t, q)
      BY VerdictFields
    <3>4. PICK q \in DistinctPaths(reports, t) : v = ConsolidateFile(reports, t, q)
      BY <3>3
    <3>5. s = t
      BY <2>2, <3>2, <3>4 DEF ConsolidateFile
    <3> QED
      BY <3>2, <3>4, <3>5 DEF ConsolidateFile
  <2> QED
    BY <2>1, <2>2 DEF NoCopyIsLost
<1> QED
  BY <1>1, TypedHolds, PTL

(***************************************************************************)
(* An automatic action needs a confirmed file that may be served, is not   *)
(* whitelisted and is not official; blocking it does not touch its level.  *)
(***************************************************************************)
THEOREM ConsensusActsOnlyWhereAllowed == ConsensusSpec => []ActsOnlyWhereAllowed
<1>1. ASSUME Typed PROVE ActsOnlyWhereAllowed
  <2> SUFFICES ASSUME NEW v \in Consolidate(reports)
               PROVE  /\ MayAct(v) =>
                           /\ Location[v.path] \notin {"trash", "outside_docroot"}
                           /\ v.path \notin Whitelisted
                           /\ v.sha \notin OfficialClean(reports)
                      /\ v.action \in {"skipped_whitelist", "skipped_not_reachable"} =>
                           v.level = LevelOf(v.score) /\ v.level # "clean"
    BY DEF ActsOnlyWhereAllowed
  <2>0. PICK s \in Sha : \E p \in DistinctPaths(reports, s) : v = ConsolidateFile(reports, s, p)
    BY VerdictFields
  <2>1. PICK p \in DistinctPaths(reports, s) : v = ConsolidateFile(reports, s, p)
    BY <2>0
  <2>2. CASE s \in OfficialClean(reports)
    BY <2>1, <2>2 DEF ConsolidateFile, MayAct, Actionable
  <2>3. CASE s \notin OfficialClean(reports)
    <3>1. /\ v.sha = s /\ v.path = p /\ v.level = LevelOf(v.score)
          /\ v.action = ActionFor(v.level, p)
      BY <2>1, <2>3 DEF ConsolidateFile
    <3>2. MayAct(v) => v.level # "clean"
      BY DEF MayAct, Actionable
    <3> QED
      BY <2>3, <3>1, <3>2 DEF ActionFor, MayAct, Reachable
  <2> QED
    BY <2>2, <2>3
<1> QED
  BY <1>1, TypedHolds, PTL

-----------------------------------------------------------------------------
(* The history of a verdict's row.                                         *)

USE CycleAssumption, NoneAssumption, TimeAssumption, BudgetAssumption

(* The cycle that holds the lock is alive, and no other writes its row. *)
LiveIsAlive ==
    \A c \in Cycle :
        /\ live = c => step[c] \notin {"unborn", "done", "dead"}
        /\ row[c] = "running" => live = c \/ step[c] = "dead"

(* A maintenance closes the rows of dead cycles, or of those it caught. *)
ListedIsDead ==
    \A k \in Keeper : \A c \in listed[k] : step[c] = "dead" \/ c \in caught

(* There is no row before the verdict is written, and nothing in the vault *)
(* without a row.                                                          *)
RowBeforeAct ==
    \A c \in Cycle :
        /\ step[c] \in {"unborn", "scanning", "judged"} => verdict[c] = None
        /\ verdict[c] = None => item[c] = "none"

(* What the vault holds while the cycle is still acting was taken by the   *)
(* user.                                                                   *)
HeldInAct ==
    \A c \in Cycle \ unwritten :
        item[c] = "held" /\ step[c] = "acting"
            => verdict[c].ack \/ (dec.on = c /\ dec.at \in {"mark", "ack"})

(* A digest at time t, which tells S, leaves out only what FoundIsTold      *)
(* excepts.                                                                *)
Tells(t, S) ==
    \A c \in Rows :
        created[c] < t /\ c \notin S => c \in late \/ created[c] < Closes(t) - 2

(* So it is of the digests that are being mailed and recorded. *)
Telling ==
    /\ last <= now
    /\ \A k \in Keeper :
          /\ look[k] <= now
          /\ pc[k] = "mail" => Tells(look[k], told \cup window[k])
          /\ pc[k] = "record" => Tells(look[k], told)

IInv ==
    /\ TypeOK /\ LiveIsAlive /\ ListedIsDead /\ KilledRowIsDead
    /\ RowBeforeAct /\ HeldInAct /\ HeldIsOnRecord

-----------------------------------------------------------------------------
(* The records the rows and the requests are made of. *)

LEMMA VerdictIs ==
    ASSUME NEW f \in BOOLEAN, NEW a \in Action, NEW r \in BOOLEAN,
           NEW k \in BOOLEAN
    PROVE  /\ [found |-> f, action |-> a, ref |-> r, ack |-> k] \in Verdict
           /\ [found |-> f, action |-> a, ref |-> r, ack |-> k] # None
BY DEF Verdict

LEMMA FieldsOfVerdict ==
    ASSUME NEW v \in Verdict
    PROVE  v.found \in BOOLEAN /\ v.action \in Action /\ v.ref \in BOOLEAN /\ v.ack \in BOOLEAN
BY DEF Verdict

LEMMA FieldsOfDecision ==
    ASSUME NEW d \in Decision
    PROVE  d.on \in Cycle \cup {None} /\ d.at \in {"idle", "move", "mark", "ignore", "ack"}
BY DEF Decision

LEMMA IdleIsIdle == Idle \in Decision /\ Idle.at = "idle" /\ Idle.on = None
BY DEF Idle, Decision

LEMMA DecisionIs ==
    ASSUME NEW c \in Cycle, NEW a \in {"move", "mark", "ignore", "ack"},
           NEW d, d = [at |-> a, on |-> c]
    PROVE  d \in Decision /\ d.at = a /\ d.on = c /\ d # Idle
BY DEF Decision, Idle

LEMMA InsertGives ==
    ASSUME verdict \in [Cycle -> Verdict \cup {None}], NEW c \in Cycle,
           NEW f \in BOOLEAN, NEW a \in Action, Insert(c, Fresh(f, a))
    PROVE  /\ verdict' \in [Cycle -> Verdict \cup {None}] /\ verdict'[c] # None
           /\ \A d \in Cycle \ {c} : verdict'[d] = verdict[d]
           /\ late' = IF Looked(c) THEN late \cup {c} ELSE late
<1>1. Fresh(f, a) \in Verdict /\ Fresh(f, a) # None
  BY VerdictIs DEF Fresh
<1> QED
  BY <1>1 DEF Insert

LEMMA WriteGives ==
    ASSUME verdict \in [Cycle -> Verdict \cup {None}], NEW c \in Cycle, verdict[c] # None,
           NEW a \in Action, NEW r \in BOOLEAN, Write(c, a, r)
    PROVE  /\ verdict' \in [Cycle -> Verdict \cup {None}] /\ verdict'[c] # None
           /\ \A d \in Cycle \ {c} : verdict'[d] = verdict[d]
           /\ verdict'[c].action = a /\ verdict'[c].ref = r
           /\ verdict'[c].ack = verdict[c].ack
<1> DEFINE v == [found |-> verdict[c].found, action |-> a, ref |-> r, ack |-> verdict[c].ack]
<1>1. verdict[c] \in Verdict
  OBVIOUS
<1>2. v \in Verdict /\ v # None /\ v.action = a /\ v.ref = r /\ v.ack = verdict[c].ack
  BY <1>1, VerdictIs, FieldsOfVerdict
<1>3. verdict' = [verdict EXCEPT ![c] = v]
  BY DEF Write
<1> HIDE DEF v
<1> QED
  BY <1>2, <1>3

LEMMA AckGives ==
    ASSUME TypeOK, DecideAck
    PROVE  /\ dec.on \in Cycle /\ verdict[dec.on] # None
           /\ verdict' \in [Cycle -> Verdict \cup {None}] /\ verdict'[dec.on] # None
           /\ \A d \in Cycle \ {dec.on} : verdict'[d] = verdict[d]
           /\ verdict'[dec.on].ack = TRUE
<1> DEFINE w == verdict[dec.on]
<1> DEFINE v == [found |-> w.found, action |-> w.action, ref |-> w.ref, ack |-> TRUE]
<1>1. dec.on \in Cycle /\ w \in Verdict
  BY DEF DecideAck, TypeOK
<1>2. v \in Verdict /\ v # None /\ v.ack = TRUE
  BY <1>1, VerdictIs, FieldsOfVerdict
<1>3. verdict' = [verdict EXCEPT ![dec.on] = v]
  BY DEF DecideAck
<1>4. w # None /\ verdict \in [Cycle -> Verdict \cup {None}]
  BY DEF DecideAck, TypeOK
<1> HIDE DEF v
<1> QED
  BY <1>1, <1>2, <1>3, <1>4

LEMMA TypesKept ==
    ASSUME TypeOK, Next
    PROVE  TypeOK'
<1> USE DEF TypeOK, End, Step, RowStatus
<1>1. ASSUME NEW c \in Cycle, Begin(c) PROVE TypeOK'
  BY <1>1 DEF Begin, Goes, keepers, digest
<1>2. ASSUME NEW c \in Cycle, Judge(c) PROVE TypeOK'
  BY <1>2 DEF Judge, Goes, keepers, digest
<1>3. ASSUME NEW c \in Cycle, Persist(c) PROVE TypeOK'
  <2>1. verdict' \in [Cycle -> Verdict \cup {None}] /\ late' \subseteq Cycle
        /\ \A d \in Cycle : (verdict[d] # None => verdict'[d] # None)
        /\ verdict'[c] # None
    BY <1>3, InsertGives DEF Persist, Action
  <2>2. \E s \in {"acting", "finishing"} : step' = [step EXCEPT ![c] = s]
    BY <1>3 DEF Persist, Goes
  <2>3. UNCHANGED <<now, live, row, created, item, there, dec, pc, listed, look, window,
                    last, caught, unwritten, told>>
    BY <1>3 DEF Persist, keepers, digest
  <2>4. spent' = spent
    BY <1>3 DEF Persist
  <2>5. step' \in [Cycle -> Step]
        /\ \A d \in Cycle : (step'[d] \in {"acting", "moved"} => verdict'[d] # None)
    BY <2>1, <2>2
  <2>6. dec.at # "idle" => dec.on \in Cycle /\ verdict'[dec.on] # None
    BY <2>1
  <2> QED
    BY <2>1, <2>3, <2>4, <2>5, <2>6
<1>4. ASSUME NEW c \in Cycle, PersistFails(c) PROVE TypeOK'
  <2>1. verdict' \in [Cycle -> Verdict \cup {None}] /\ late' \subseteq Cycle
        /\ \A d \in Cycle : (verdict[d] # None => verdict'[d] # None)
    BY <1>4, InsertGives DEF PersistFails, Action
  <2>2. step' = [step EXCEPT ![c] = "finishing"]
    BY <1>4 DEF PersistFails, Goes
  <2>3. UNCHANGED <<now, live, row, created, item, there, dec, pc, listed, look, window,
                    last, caught, unwritten, told>>
    BY <1>4 DEF PersistFails, keepers, digest
  <2>4. spent' \in 0 .. Budget /\ now <= Start + spent'
    BY <1>4 DEF PersistFails, Spends
  <2>5. step' \in [Cycle -> Step]
        /\ \A d \in Cycle : (step'[d] \in {"acting", "moved"} => verdict'[d] # None)
    BY <2>1, <2>2
  <2>6. dec.at # "idle" => dec.on \in Cycle /\ verdict'[dec.on] # None
    BY <2>1
  <2> QED
    BY <2>1, <2>3, <2>4, <2>5, <2>6
<1>5. ASSUME NEW c \in Cycle, Refuse(c) PROVE TypeOK'
  <2>1. verdict[c] # None /\ verdict \in [Cycle -> Verdict \cup {None}]
    BY <1>5 DEF Refuse
  <2>2. verdict' \in [Cycle -> Verdict \cup {None}]
        /\ \A d \in Cycle : (verdict[d] # None => verdict'[d] # None)
    BY <1>5, <2>1, WriteGives DEF Refuse, Action
  <2> QED
    BY <1>5, <2>2 DEF Refuse, Goes, keepers, digest
<1>6. ASSUME NEW c \in Cycle, Move(c) PROVE TypeOK'
  BY <1>6 DEF Move, Goes, keepers, digest
<1>7. ASSUME NEW c \in Cycle, Mark(c) PROVE TypeOK'
  <2>1. verdict[c] # None /\ verdict \in [Cycle -> Verdict \cup {None}]
    BY <1>7 DEF Mark
  <2>2. verdict' \in [Cycle -> Verdict \cup {None}]
        /\ \A d \in Cycle : (verdict[d] # None => verdict'[d] # None)
    BY <1>7, <2>1, WriteGives DEF Mark, Action
  <2> QED
    BY <1>7, <2>2 DEF Mark, Goes, keepers, digest
<1>8. ASSUME NEW c \in Cycle, MarkFails(c) PROVE TypeOK'
  BY <1>8 DEF MarkFails, Spends, Goes, keepers, digest
<1>9. ASSUME NEW c \in Cycle, Finish(c) PROVE TypeOK'
  BY <1>9 DEF Finish, Goes, keepers, digest
<1>10. ASSUME NEW c \in Cycle, FinishFails(c) PROVE TypeOK'
  BY <1>10 DEF FinishFails, Spends, Goes, keepers, digest
<1>11. ASSUME NEW c \in Cycle, KillCycle(c) PROVE TypeOK'
  BY <1>11 DEF KillCycle, Spends, Goes, keepers, digest
<1>12. ASSUME NEW c \in Cycle, Leave(c) PROVE TypeOK'
  <2>1. there' \in BOOLEAN
    BY <1>12 DEF Leave
  <2> QED
    BY <1>12, <2>1 DEF Leave, Spends, cycles, keepers, digest
<1>13. ASSUME NEW c \in Cycle, NEW w \in {"move", "ignore"}, Decide(c, w) PROVE TypeOK'
  <2>1. dec' \in Decision /\ dec'.on = c
    BY <1>13, DecisionIs DEF Decide
  <2> QED
    BY <1>13, <2>1 DEF Decide, Spends, cycles, keepers, digest
<1>14. CASE DecideMove
  <2>1. dec.on \in Cycle /\ verdict[dec.on] # None
    BY <1>14 DEF DecideMove
  <2>2. dec' \in Decision /\ (dec'.at # "idle" => dec'.on = dec.on)
    BY <1>14, <2>1, DecisionIs, IdleIsIdle DEF DecideMove
  <2> QED
    BY <1>14, <2>1, <2>2 DEF DecideMove, cycles, keepers, digest
<1>15. CASE DecideWrite
  <2>1. dec.on \in Cycle /\ verdict[dec.on] # None
        /\ verdict \in [Cycle -> Verdict \cup {None}]
    BY <1>15 DEF DecideWrite
  <2>2. verdict' \in [Cycle -> Verdict \cup {None}]
        /\ \A d \in Cycle : (verdict[d] # None => verdict'[d] # None)
    BY <1>15, <2>1, WriteGives DEF DecideWrite, Action
  <2>3. dec' \in Decision /\ dec'.on = dec.on
    BY <1>15, <2>1, DecisionIs DEF DecideWrite
  <2> QED
    BY <1>15, <2>1, <2>2, <2>3 DEF DecideWrite, cycles, keepers, digest
<1>16. CASE DecideAck
  <2>1. verdict' \in [Cycle -> Verdict \cup {None}]
        /\ \A d \in Cycle : (verdict[d] # None => verdict'[d] # None)
    BY <1>16, AckGives
  <2>2. dec' \in Decision /\ dec'.at = "idle"
    BY <1>16, IdleIsIdle DEF DecideAck
  <2> QED
    BY <1>16, <2>1, <2>2 DEF DecideAck, cycles, keepers, digest
<1>17. CASE DecisionIsCut
  <2>1. dec' \in Decision /\ dec'.at = "idle"
    BY <1>17, IdleIsIdle DEF DecisionIsCut
  <2>2. dec.at # "move" => dec.on \in Cycle
    BY <1>17, FieldsOfDecision DEF DecisionIsCut
  <2>3. unwritten' \subseteq Cycle
    BY <1>17, <2>2 DEF DecisionIsCut
  <2> QED
    BY <1>17, <2>1, <2>3 DEF DecisionIsCut, Spends, cycles, keepers, digest
<1>18. ASSUME NEW k \in Keeper, List(k) PROVE TypeOK'
  BY <1>18 DEF List, cycles, digest
<1>19. ASSUME NEW k \in Keeper, NEW c \in Cycle, Recover(k, c) PROVE TypeOK'
  BY <1>19 DEF Recover, digest
<1>20. ASSUME NEW k \in Keeper, NEW c \in Cycle, RecoverFails(k, c) PROVE TypeOK'
  BY <1>20 DEF RecoverFails, Spends, cycles, digest
<1>21. ASSUME NEW k \in Keeper, Look(k) PROVE TypeOK'
  BY <1>21 DEF Look, InWindow, Rows, cycles
<1>22. ASSUME NEW k \in Keeper, Mail(k) PROVE TypeOK'
  BY <1>22 DEF Mail, cycles
<1>23. ASSUME NEW k \in Keeper, RecordDigest(k) PROVE TypeOK'
  BY <1>23 DEF RecordDigest, cycles
<1>24. ASSUME NEW k \in Keeper, KillKeeper(k) PROVE TypeOK'
  BY <1>24 DEF KillKeeper, Spends, cycles
<1>25. CASE Tick
  BY <1>25 DEF Tick, Spends, cycles, keepers, digest
<1> QED
  <2>1. ASSUME NEW c \in Cycle, Run(c) PROVE TypeOK'
    BY <2>1, <1>1, <1>2, <1>3, <1>4, <1>5, <1>6, <1>7, <1>8, <1>9, <1>10, <1>11 DEF Run
  <2>2. CASE Panel
    BY <2>2, <1>12, <1>13, <1>14, <1>15, <1>16, <1>17 DEF Panel
  <2>3. ASSUME NEW k \in Keeper, Keep(k) PROVE TypeOK'
    BY <2>3, <1>18, <1>19, <1>20, <1>21, <1>22, <1>23, <1>24 DEF Keep, Recovers
  <2> QED
    BY <1>25, <2>1, <2>2, <2>3 DEF Next

LEMMA CyclesKept ==
    ASSUME TypeOK, LiveIsAlive, ListedIsDead, KilledRowIsDead, Next
    PROVE  (LiveIsAlive /\ ListedIsDead /\ KilledRowIsDead)'
<1> USE DEF TypeOK, LiveIsAlive, ListedIsDead, KilledRowIsDead, Step, RowStatus
<1>1. ASSUME NEW c \in Cycle, Begin(c) PROVE (LiveIsAlive /\ ListedIsDead /\ KilledRowIsDead)'
  BY <1>1 DEF Begin, Goes, keepers, digest
<1>2. ASSUME NEW c \in Cycle, Judge(c) PROVE (LiveIsAlive /\ ListedIsDead /\ KilledRowIsDead)'
  BY <1>2 DEF Judge, Goes, keepers, digest
<1>3. ASSUME NEW c \in Cycle, Persist(c) PROVE (LiveIsAlive /\ ListedIsDead /\ KilledRowIsDead)'
  BY <1>3 DEF Persist, Insert, Fresh, Goes, keepers, digest
<1>4. ASSUME NEW c \in Cycle, PersistFails(c) PROVE (LiveIsAlive /\ ListedIsDead /\ KilledRowIsDead)'
  BY <1>4 DEF PersistFails, Insert, Fresh, Goes, Spends, keepers, digest
<1>5. ASSUME NEW c \in Cycle, Refuse(c) PROVE (LiveIsAlive /\ ListedIsDead /\ KilledRowIsDead)'
  BY <1>5 DEF Refuse, Write, Goes, keepers, digest
<1>6. ASSUME NEW c \in Cycle, Move(c) PROVE (LiveIsAlive /\ ListedIsDead /\ KilledRowIsDead)'
  BY <1>6 DEF Move, Goes, keepers, digest
<1>7. ASSUME NEW c \in Cycle, Mark(c) PROVE (LiveIsAlive /\ ListedIsDead /\ KilledRowIsDead)'
  BY <1>7 DEF Mark, Write, Goes, keepers, digest
<1>8. ASSUME NEW c \in Cycle, MarkFails(c) PROVE (LiveIsAlive /\ ListedIsDead /\ KilledRowIsDead)'
  BY <1>8 DEF MarkFails, Spends, Goes, keepers, digest
<1>9. ASSUME NEW c \in Cycle, Finish(c) PROVE (LiveIsAlive /\ ListedIsDead /\ KilledRowIsDead)'
  BY <1>9 DEF Finish, Goes, keepers, digest
<1>10. ASSUME NEW c \in Cycle, FinishFails(c) PROVE (LiveIsAlive /\ ListedIsDead /\ KilledRowIsDead)'
  BY <1>10 DEF FinishFails, Spends, Goes, keepers, digest
<1>11. ASSUME NEW c \in Cycle, KillCycle(c) PROVE (LiveIsAlive /\ ListedIsDead /\ KilledRowIsDead)'
  BY <1>11 DEF KillCycle, Spends, Goes, keepers, digest
<1>12. ASSUME NEW c \in Cycle, Leave(c) PROVE (LiveIsAlive /\ ListedIsDead /\ KilledRowIsDead)'
  BY <1>12 DEF Leave, Spends, cycles, keepers, digest
<1>13. ASSUME NEW c \in Cycle, NEW w \in {"move", "ignore"}, Decide(c, w) PROVE (LiveIsAlive /\ ListedIsDead /\ KilledRowIsDead)'
  BY <1>13 DEF Decide, Idle, Spends, cycles, keepers, digest
<1>14. CASE DecideMove
  BY <1>14 DEF DecideMove, Idle, cycles, keepers, digest
<1>15. CASE DecideWrite
  BY <1>15 DEF DecideWrite, Write, cycles, keepers, digest
<1>16. CASE DecideAck
  BY <1>16 DEF DecideAck, Idle, cycles, keepers, digest
<1>17. CASE DecisionIsCut
  BY <1>17 DEF DecisionIsCut, Idle, Spends, cycles, keepers, digest
<1>18. ASSUME NEW k \in Keeper, List(k) PROVE (LiveIsAlive /\ ListedIsDead /\ KilledRowIsDead)'
  BY <1>18 DEF List, cycles, digest
<1>19. ASSUME NEW k \in Keeper, NEW c \in Cycle, Recover(k, c) PROVE (LiveIsAlive /\ ListedIsDead /\ KilledRowIsDead)'
  BY <1>19 DEF Recover, digest
<1>20. ASSUME NEW k \in Keeper, NEW c \in Cycle, RecoverFails(k, c) PROVE (LiveIsAlive /\ ListedIsDead /\ KilledRowIsDead)'
  BY <1>20 DEF RecoverFails, Spends, cycles, digest
<1>21. ASSUME NEW k \in Keeper, Look(k) PROVE (LiveIsAlive /\ ListedIsDead /\ KilledRowIsDead)'
  BY <1>21 DEF Look, InWindow, Rows, cycles
<1>22. ASSUME NEW k \in Keeper, Mail(k) PROVE (LiveIsAlive /\ ListedIsDead /\ KilledRowIsDead)'
  BY <1>22 DEF Mail, cycles
<1>23. ASSUME NEW k \in Keeper, RecordDigest(k) PROVE (LiveIsAlive /\ ListedIsDead /\ KilledRowIsDead)'
  BY <1>23 DEF RecordDigest, cycles
<1>24. ASSUME NEW k \in Keeper, KillKeeper(k) PROVE (LiveIsAlive /\ ListedIsDead /\ KilledRowIsDead)'
  BY <1>24 DEF KillKeeper, Spends, cycles
<1>25. CASE Tick
  BY <1>25 DEF Tick, Spends, cycles, keepers, digest
<1> QED
  <2>1. ASSUME NEW c \in Cycle, Run(c) PROVE (LiveIsAlive /\ ListedIsDead /\ KilledRowIsDead)'
    BY <2>1, <1>1, <1>2, <1>3, <1>4, <1>5, <1>6, <1>7, <1>8, <1>9, <1>10, <1>11 DEF Run
  <2>2. CASE Panel
    BY <2>2, <1>12, <1>13, <1>14, <1>15, <1>16, <1>17 DEF Panel
  <2>3. ASSUME NEW k \in Keeper, Keep(k) PROVE (LiveIsAlive /\ ListedIsDead /\ KilledRowIsDead)'
    BY <2>3, <1>18, <1>19, <1>20, <1>21, <1>22, <1>23, <1>24 DEF Keep, Recovers
  <2> QED
    BY <1>25, <2>1, <2>2, <2>3 DEF Next

(* A step that leaves verdicts, items and who is about to write alone. *)
LEMMA RecordFrame ==
    ASSUME RowBeforeAct, HeldInAct, HeldIsOnRecord,
           UNCHANGED <<step, verdict, item, dec, unwritten>>
    PROVE  (RowBeforeAct /\ HeldInAct /\ HeldIsOnRecord)'
<1>1. RowBeforeAct'
  BY DEF RowBeforeAct
<1>2. HeldInAct'
  BY DEF HeldInAct
<1>3. HeldIsOnRecord'
  BY DEF HeldIsOnRecord, BeingWritten
<1> QED
  BY <1>1, <1>2, <1>3

LEMMA RecordKept ==
    ASSUME TypeOK, LiveIsAlive, RowBeforeAct, HeldInAct, HeldIsOnRecord, Next
    PROVE  (RowBeforeAct /\ HeldInAct /\ HeldIsOnRecord)'
<1> USE DEF TypeOK, LiveIsAlive, RowBeforeAct, HeldInAct, HeldIsOnRecord, BeingWritten, Step
<1>1. ASSUME NEW c \in Cycle, Begin(c) PROVE (RowBeforeAct /\ HeldInAct /\ HeldIsOnRecord)'
  <2>1. UNCHANGED <<verdict, item, dec>>
    BY <1>1 DEF Begin
  <2>2. \A d \in Cycle \ {c} : step'[d] = step[d]
    BY <1>1 DEF Begin, Goes
  <2>3. RowBeforeAct'
    BY <1>1, <2>1, <2>2 DEF Begin, Goes
  <2>4. HeldInAct'
    BY <1>1, <2>1, <2>2 DEF Begin, Goes
  <2>5. HeldIsOnRecord'
    BY <1>1, <2>1, <2>2 DEF Begin, Goes
  <2> QED
    BY <2>3, <2>4, <2>5
<1>2. ASSUME NEW c \in Cycle, Judge(c) PROVE (RowBeforeAct /\ HeldInAct /\ HeldIsOnRecord)'
  <2>1. UNCHANGED <<verdict, item, dec>>
    BY <1>2 DEF Judge
  <2>2. \A d \in Cycle \ {c} : step'[d] = step[d]
    BY <1>2 DEF Judge, Goes
  <2>3. RowBeforeAct'
    BY <1>2, <2>1, <2>2 DEF Judge, Goes
  <2>4. HeldInAct'
    BY <1>2, <2>1, <2>2 DEF Judge, Goes
  <2>5. HeldIsOnRecord'
    BY <1>2, <2>1, <2>2 DEF Judge, Goes
  <2> QED
    BY <2>3, <2>4, <2>5
<1>3. ASSUME NEW c \in Cycle, Persist(c) PROVE (RowBeforeAct /\ HeldInAct /\ HeldIsOnRecord)'
  <2>1. step[c] = "judged" /\ item[c] = "none" /\ UNCHANGED <<item, unwritten, dec>>
    BY <1>3 DEF Persist
  <2>2. /\ step'[c] \in {"acting", "finishing"}
        /\ \A d \in Cycle \ {c} : step'[d] = step[d]
    <3>1. Goes(c, "acting") \/ Goes(c, "finishing")
        BY <1>3 DEF Persist
    <3> QED
        BY <3>1 DEF Goes
  <2>3. \E f \in BOOLEAN, a \in Action : Insert(c, Fresh(f, a))
    BY <1>3 DEF Persist, Action
  <2>4. verdict'[c] # None /\ \A d \in Cycle \ {c} : verdict'[d] = verdict[d]
    BY <2>3, InsertGives
  <2>5. RowBeforeAct'
    BY <2>1, <2>2, <2>4
  <2>6. HeldInAct'
    BY <2>1, <2>2, <2>4
  <2>7. HeldIsOnRecord'
    BY <2>1, <2>2, <2>4
  <2> QED
    BY <2>5, <2>6, <2>7
<1>4. ASSUME NEW c \in Cycle, PersistFails(c) PROVE (RowBeforeAct /\ HeldInAct /\ HeldIsOnRecord)'
  <2>1. step[c] = "judged" /\ item[c] = "none" /\ UNCHANGED <<item, unwritten, dec>>
    BY <1>4 DEF PersistFails
  <2>2. /\ step'[c] \in {"acting", "finishing"}
        /\ \A d \in Cycle \ {c} : step'[d] = step[d]
    BY <1>4 DEF PersistFails, Goes
  <2>3. \A d \in Cycle \ {c} : verdict'[d] = verdict[d]
    BY <1>4, InsertGives DEF PersistFails, Action
  <2> QED
    BY <2>1, <2>2, <2>3
<1>5. ASSUME NEW c \in Cycle, Refuse(c) PROVE (RowBeforeAct /\ HeldInAct /\ HeldIsOnRecord)'
  <2>1. verdict[c] # None /\ verdict \in [Cycle -> Verdict \cup {None}]
    BY <1>5 DEF Refuse
  <2>2. /\ verdict'[c] # None
        /\ \A d \in Cycle \ {c} : verdict'[d] = verdict[d]
        /\ verdict'[c].ack = verdict[c].ack
    BY <1>5, <2>1, WriteGives DEF Refuse, Action
  <2> QED
    BY <1>5, <2>1, <2>2 DEF Refuse, Goes
<1>6. ASSUME NEW c \in Cycle, Move(c) PROVE (RowBeforeAct /\ HeldInAct /\ HeldIsOnRecord)'
  <2>1. /\ UNCHANGED <<verdict, dec, unwritten>>
        /\ \A d \in Cycle \ {c} : step'[d] = step[d] /\ item'[d] = item[d]
    BY <1>6 DEF Move, Goes
  <2>2. step[c] = "acting" /\ step'[c] = "moved"
    BY <1>6 DEF Move, Goes
  <2>3. RowBeforeAct'
    BY <2>1, <2>2
  <2>4. HeldInAct'
    BY <2>1, <2>2
  <2>5. HeldIsOnRecord'
    BY <2>1, <2>2
  <2> QED
    BY <2>3, <2>4, <2>5
<1>7. ASSUME NEW c \in Cycle, Mark(c) PROVE (RowBeforeAct /\ HeldInAct /\ HeldIsOnRecord)'
  <2>1. verdict[c] # None /\ verdict \in [Cycle -> Verdict \cup {None}]
    BY <1>7 DEF Mark
  <2>2. /\ verdict'[c] # None
        /\ \A d \in Cycle \ {c} : verdict'[d] = verdict[d]
        /\ verdict'[c].ack = verdict[c].ack
        /\ verdict'[c].action = "quarantined" /\ verdict'[c].ref = TRUE
    BY <1>7, <2>1, WriteGives DEF Mark, Action
  <2> QED
    BY <1>7, <2>1, <2>2 DEF Mark, Goes
<1>8. ASSUME NEW c \in Cycle, MarkFails(c) PROVE (RowBeforeAct /\ HeldInAct /\ HeldIsOnRecord)'
  <2>1. /\ UNCHANGED <<verdict, item, dec>> /\ unwritten' = unwritten \cup {c}
        /\ \A d \in Cycle \ {c} : step'[d] = step[d]
    BY <1>8 DEF MarkFails, Goes
  <2>2. step[c] = "moved" /\ step'[c] = "finishing"
    BY <1>8 DEF MarkFails, Goes
  <2>3. RowBeforeAct'
    BY <2>1, <2>2
  <2>4. HeldInAct'
    BY <2>1, <2>2
  <2>5. HeldIsOnRecord'
    BY <2>1, <2>2
  <2> QED
    BY <2>3, <2>4, <2>5
<1>9. ASSUME NEW c \in Cycle, Finish(c) PROVE (RowBeforeAct /\ HeldInAct /\ HeldIsOnRecord)'
  <2>1. UNCHANGED <<verdict, item, dec>>
    BY <1>9 DEF Finish
  <2>2. \A d \in Cycle \ {c} : step'[d] = step[d]
    BY <1>9 DEF Finish, Goes
  <2>3. RowBeforeAct'
    BY <1>9, <2>1, <2>2 DEF Finish, Goes
  <2>4. HeldInAct'
    BY <1>9, <2>1, <2>2 DEF Finish, Goes
  <2>5. HeldIsOnRecord'
    BY <1>9, <2>1, <2>2 DEF Finish, Goes
  <2> QED
    BY <2>3, <2>4, <2>5
<1>10. ASSUME NEW c \in Cycle, FinishFails(c) PROVE (RowBeforeAct /\ HeldInAct /\ HeldIsOnRecord)'
  <2>1. UNCHANGED <<verdict, item, dec>>
    BY <1>10 DEF FinishFails
  <2>2. \A d \in Cycle \ {c} : step'[d] = step[d]
    BY <1>10 DEF FinishFails, Goes
  <2>3. RowBeforeAct'
    BY <1>10, <2>1, <2>2 DEF FinishFails, Goes
  <2>4. HeldInAct'
    BY <1>10, <2>1, <2>2 DEF FinishFails, Goes
  <2>5. HeldIsOnRecord'
    BY <1>10, <2>1, <2>2 DEF FinishFails, Goes
  <2> QED
    BY <2>3, <2>4, <2>5
<1>11. ASSUME NEW c \in Cycle, KillCycle(c) PROVE (RowBeforeAct /\ HeldInAct /\ HeldIsOnRecord)'
  <2>1. UNCHANGED <<verdict, item, dec>>
    BY <1>11 DEF KillCycle
  <2>2. \A d \in Cycle \ {c} : step'[d] = step[d]
    BY <1>11 DEF KillCycle, Goes
  <2>3. RowBeforeAct'
    BY <1>11, <2>1, <2>2 DEF KillCycle, Goes
  <2>4. HeldInAct'
    BY <1>11, <2>1, <2>2 DEF KillCycle, Goes
  <2>5. HeldIsOnRecord'
    BY <1>11, <2>1, <2>2 DEF KillCycle, Goes
  <2> QED
    BY <2>3, <2>4, <2>5
<1>12. ASSUME NEW c \in Cycle, Leave(c) PROVE (RowBeforeAct /\ HeldInAct /\ HeldIsOnRecord)'
  <2>1. /\ UNCHANGED <<step, verdict, dec, unwritten>>
        /\ item'[c] = "none" /\ \A d \in Cycle \ {c} : item'[d] = item[d]
    BY <1>12 DEF Leave, cycles
  <2>2. RowBeforeAct'
    BY <2>1
  <2>3. HeldInAct'
    BY <2>1
  <2>4. HeldIsOnRecord'
    BY <2>1
  <2> QED
    BY <2>2, <2>3, <2>4
<1>13. ASSUME NEW c \in Cycle, NEW w \in {"move", "ignore"}, Decide(c, w) PROVE (RowBeforeAct /\ HeldInAct /\ HeldIsOnRecord)'
  <2>1. dec.at = "idle" /\ dec'.at = w /\ dec'.on = c
    BY <1>13 DEF Decide
  <2> QED
    BY <1>13, <2>1 DEF Decide, cycles
<1>14. CASE DecideMove
  <2>1. dec.on \in Cycle /\ verdict[dec.on] # None /\ dec.at = "move"
    BY <1>14 DEF DecideMove
  <2>2. \/ dec'.at = "mark" /\ dec'.on = dec.on /\ item' = [item EXCEPT ![dec.on] = "held"]
        \/ dec'.at = "idle" /\ item' = item
    BY <1>14, <2>1, IdleIsIdle DEF DecideMove
  <2> QED
    BY <1>14, <2>1, <2>2 DEF DecideMove, cycles
<1>15. CASE DecideWrite
  <2>1. dec.on \in Cycle /\ verdict[dec.on] # None
        /\ verdict \in [Cycle -> Verdict \cup {None}]
    BY <1>15 DEF DecideWrite
  <2>2. /\ verdict'[dec.on] # None
        /\ \A d \in Cycle \ {dec.on} : verdict'[d] = verdict[d]
        /\ verdict'[dec.on].ack = verdict[dec.on].ack
    BY <1>15, <2>1, WriteGives DEF DecideWrite, Action
  <2>3. dec'.at = "ack" /\ dec'.on = dec.on
    BY <1>15 DEF DecideWrite
  <2> QED
    BY <1>15, <2>1, <2>2, <2>3 DEF DecideWrite, cycles
<1>16. CASE DecideAck
  <2>1. dec'.at = "idle" /\ dec.at = "ack"
    BY <1>16, IdleIsIdle DEF DecideAck
  <2>2. /\ dec.on \in Cycle /\ verdict[dec.on] # None /\ verdict'[dec.on] # None
        /\ \A d \in Cycle \ {dec.on} : verdict'[d] = verdict[d]
        /\ verdict'[dec.on].ack = TRUE
    BY <1>16, AckGives
  <2>3. UNCHANGED <<live, step, item, unwritten>>
    BY <1>16 DEF DecideAck, cycles
  <2>4. RowBeforeAct'
    BY <2>2, <2>3
  <2>5. HeldInAct'
    BY <2>1, <2>2, <2>3
  <2>6. HeldIsOnRecord'
    BY <2>1, <2>2, <2>3
  <2> QED
    BY <2>4, <2>5, <2>6
<1>17. CASE DecisionIsCut
  <2>1. dec'.at = "idle" /\ unwritten \subseteq unwritten'
        /\ (dec.at # "move" => dec.on \in unwritten')
    BY <1>17, IdleIsIdle DEF DecisionIsCut
  <2> QED
    BY <1>17, <2>1 DEF DecisionIsCut, cycles
<1>18. ASSUME NEW k \in Keeper, List(k) PROVE (RowBeforeAct /\ HeldInAct /\ HeldIsOnRecord)'
  <2>1. UNCHANGED <<step, verdict, item, dec, unwritten>>
    BY <1>18 DEF List, cycles, digest
  <2> QED
    BY <2>1, RecordFrame
<1>19. ASSUME NEW k \in Keeper, NEW c \in Cycle, Recover(k, c) PROVE (RowBeforeAct /\ HeldInAct /\ HeldIsOnRecord)'
  <2>1. UNCHANGED <<step, verdict, item, dec, unwritten>>
    BY <1>19 DEF Recover, digest
  <2> QED
    BY <2>1, RecordFrame
<1>20. ASSUME NEW k \in Keeper, NEW c \in Cycle, RecoverFails(k, c) PROVE (RowBeforeAct /\ HeldInAct /\ HeldIsOnRecord)'
  <2>1. UNCHANGED <<step, verdict, item, dec, unwritten>>
    BY <1>20 DEF RecoverFails, Spends, cycles, digest
  <2> QED
    BY <2>1, RecordFrame
<1>21. ASSUME NEW k \in Keeper, Look(k) PROVE (RowBeforeAct /\ HeldInAct /\ HeldIsOnRecord)'
  <2>1. UNCHANGED <<step, verdict, item, dec, unwritten>>
    BY <1>21 DEF Look, InWindow, Rows, cycles
  <2> QED
    BY <2>1, RecordFrame
<1>22. ASSUME NEW k \in Keeper, Mail(k) PROVE (RowBeforeAct /\ HeldInAct /\ HeldIsOnRecord)'
  <2>1. UNCHANGED <<step, verdict, item, dec, unwritten>>
    BY <1>22 DEF Mail, cycles
  <2> QED
    BY <2>1, RecordFrame
<1>23. ASSUME NEW k \in Keeper, RecordDigest(k) PROVE (RowBeforeAct /\ HeldInAct /\ HeldIsOnRecord)'
  <2>1. UNCHANGED <<step, verdict, item, dec, unwritten>>
    BY <1>23 DEF RecordDigest, cycles
  <2> QED
    BY <2>1, RecordFrame
<1>24. ASSUME NEW k \in Keeper, KillKeeper(k) PROVE (RowBeforeAct /\ HeldInAct /\ HeldIsOnRecord)'
  <2>1. UNCHANGED <<step, verdict, item, dec, unwritten>>
    BY <1>24 DEF KillKeeper, Spends, cycles
  <2> QED
    BY <2>1, RecordFrame
<1>25. CASE Tick
  <2>1. UNCHANGED <<step, verdict, item, dec, unwritten>>
    BY <1>25 DEF Tick, Spends, cycles, keepers, digest
  <2> QED
    BY <2>1, RecordFrame
<1> QED
  <2>1. ASSUME NEW c \in Cycle, Run(c) PROVE (RowBeforeAct /\ HeldInAct /\ HeldIsOnRecord)'
    BY <2>1, <1>1, <1>2, <1>3, <1>4, <1>5, <1>6, <1>7, <1>8, <1>9, <1>10, <1>11 DEF Run
  <2>2. CASE Panel
    BY <2>2, <1>12, <1>13, <1>14, <1>15, <1>16, <1>17 DEF Panel
  <2>3. ASSUME NEW k \in Keeper, Keep(k) PROVE (RowBeforeAct /\ HeldInAct /\ HeldIsOnRecord)'
    BY <2>3, <1>18, <1>19, <1>20, <1>21, <1>22, <1>23, <1>24 DEF Keep, Recovers
  <2> QED
    BY <1>25, <2>1, <2>2, <2>3 DEF Next

(* The closing times follow one another. *)

LEMMA ClosesGrows ==
    ASSUME NEW s \in Nat, NEW t \in Nat, s <= t
    PROVE  Closes(s) \in Nat /\ Closes(t) \in Nat /\ Closes(s) <= Closes(t)
<1>1. Day(s) \in Nat /\ Day(t) \in Nat /\ Day(s) <= Day(t)
  BY DEF Day
<1> QED
  BY <1>1 DEF Closes

(* Steps that leave the digests and the rows alone. *)
LEMMA DigestFrame ==
    ASSUME TypeOK, Telling, FoundIsTold, Rows' = Rows, late' = late,
           \A c \in Rows : created'[c] = created[c],
           now' \in Nat, now <= now',
           \A k \in Keeper : pc'[k] = pc[k] \/ pc'[k] \in {"off", "recover"},
           UNCHANGED <<look, window, last, told>>
    PROVE  Telling' /\ FoundIsTold'
<1>1. now \in Nat /\ last \in Nat /\ \A k \in Keeper : look[k] \in Nat
  BY DEF TypeOK, End
<1>2. FoundIsTold'
  BY DEF FoundIsTold
<1>3. last' <= now'
  <2>1. last <= now /\ last' = last
    BY DEF Telling
  <2> QED
    BY <1>1, <2>1
<1>4. ASSUME NEW k \in Keeper
      PROVE  /\ look'[k] <= now'
             /\ pc'[k] = "mail" => Tells(look[k], told \cup window[k])'
             /\ pc'[k] = "record" => Tells(look[k], told)'
  <2>1. look'[k] <= now'
    <3>1. look[k] <= now /\ look'[k] = look[k]
      BY DEF Telling
    <3> QED
      BY <1>1, <3>1
  <2>2. ASSUME pc'[k] = "mail" PROVE Tells(look[k], told \cup window[k])'
    BY <2>2 DEF Telling, Tells
  <2>3. ASSUME pc'[k] = "record" PROVE Tells(look[k], told)'
    BY <2>3 DEF Telling, Tells
  <2> QED
    BY <2>1, <2>2, <2>3
<1> QED
  BY <1>2, <1>3, <1>4 DEF Telling

LEMMA NowIsNat ==
    ASSUME TypeOK
    PROVE  now \in Nat /\ now <= now /\ now + 1 \in Nat /\ now <= now + 1
BY DEF TypeOK, End

LEMMA DigestsKept ==
    ASSUME TypeOK, RowBeforeAct, Telling, FoundIsTold, Next
    PROVE  Telling' /\ FoundIsTold'
<1>1. ASSUME NEW c \in Cycle, Begin(c) PROVE Telling' /\ FoundIsTold'
  <2>1. Rows' = Rows
    BY <1>1 DEF Begin, cycles, Rows
  <2>2. UNCHANGED <<created, look, window, last, told, late>> /\ now' = now
    BY <1>1 DEF Begin, cycles, keepers, digest
  <2>3. \A k \in Keeper : pc'[k] = pc[k]
    BY <1>1 DEF Begin, keepers
  <2> QED
    BY <2>1, <2>2, <2>3, DigestFrame, NowIsNat
<1>2. ASSUME NEW c \in Cycle, Judge(c) PROVE Telling' /\ FoundIsTold'
  <2>1. Rows' = Rows /\ c \notin Rows
    BY <1>2 DEF Judge, Rows, RowBeforeAct
  <2>2. UNCHANGED <<look, window, last, told, late>> /\ now' = now
    BY <1>2 DEF Judge, cycles, keepers, digest
  <2>3. \A k \in Keeper : pc'[k] = pc[k]
    BY <1>2 DEF Judge, keepers
  <2>4. \A d \in Rows : created'[d] = created[d]
    BY <1>2, <2>1 DEF Judge, Rows, TypeOK
  <2> QED
    BY <2>1, <2>2, <2>3, <2>4, DigestFrame, NowIsNat
<1>3. ASSUME NEW c \in Cycle, Persist(c) PROVE Telling' /\ FoundIsTold'
  <2>1. \A d \in Cycle \ {c} : verdict'[d] = verdict[d]
    BY <1>3, InsertGives DEF Persist, TypeOK, Action
  <2>2. late \subseteq late' /\ (verdict[c] # verdict'[c] /\ Looked(c) => c \in late')
    BY <1>3 DEF Persist, Insert
  <2>3. UNCHANGED <<now, created, pc, look, window, last, told>>
    BY <1>3 DEF Persist, keepers, digest
  <2>4. verdict[c] = None
    BY <1>3 DEF Persist, RowBeforeAct
  <2>5. \A d \in Rows' : d \in Rows \/ (d = c /\ (Looked(c) => c \in late'))
    BY <2>1, <2>2, <2>4 DEF Rows
  <2>6. ASSUME NEW t \in Nat, NEW S, Tells(t, S), created[c] < t => Looked(c)
        PROVE  \A d \in Rows' : created'[d] < t /\ d \notin S
                  => d \in late' \/ created'[d] < Closes(t) - 2
    BY <2>2, <2>3, <2>5, <2>6 DEF Tells
  <2>7. FoundIsTold'
    <3>1. Tells(last, told) /\ last \in Nat
      BY DEF FoundIsTold, Tells, TypeOK, End
    <3>2. created[c] < last => Looked(c)
      BY DEF Looked
    <3> QED
      BY <3>1, <3>2, <2>6, <2>3 DEF FoundIsTold
  <2>8. ASSUME NEW k \in Keeper, pc[k] \in {"mail", "record"}, NEW S, Tells(look[k], S)
        PROVE  \A d \in Rows' : created'[d] < look[k] /\ d \notin S
                  => d \in late' \/ created'[d] < Closes(look[k]) - 2
    <3>1. look[k] \in Nat
      BY DEF TypeOK, End
    <3>2. created[c] < look[k] => Looked(c)
      BY <2>8 DEF Looked
    <3> QED
      BY <3>1, <3>2, <2>6, <2>8
  <2>9. ASSUME NEW k \in Keeper
        PROVE  /\ look'[k] <= now'
               /\ pc'[k] = "mail" => Tells(look[k], told \cup window[k])'
               /\ pc'[k] = "record" => Tells(look[k], told)'
    <3>1. look'[k] <= now'
      BY <2>3 DEF Telling
    <3>2. ASSUME pc'[k] = "mail" PROVE Tells(look[k], told \cup window[k])'
      BY <3>2, <2>3, <2>8 DEF Telling, Tells
    <3>3. ASSUME pc'[k] = "record" PROVE Tells(look[k], told)'
      BY <3>3, <2>3, <2>8 DEF Telling, Tells
    <3> QED
      BY <3>1, <3>2, <3>3
  <2> QED
    BY <2>3, <2>7, <2>9 DEF Telling
<1>4. ASSUME NEW c \in Cycle, PersistFails(c) PROVE Telling' /\ FoundIsTold'
  <2>1. \A d \in Cycle \ {c} : verdict'[d] = verdict[d]
    BY <1>4, InsertGives DEF PersistFails, TypeOK, Action
  <2>2. late \subseteq late' /\ (verdict[c] # verdict'[c] /\ Looked(c) => c \in late')
    BY <1>4 DEF PersistFails, Insert
  <2>3. UNCHANGED <<now, created, pc, look, window, last, told>>
    BY <1>4 DEF PersistFails, keepers, digest
  <2>4. verdict[c] = None
    BY <1>4 DEF PersistFails, RowBeforeAct
  <2>5. \A d \in Rows' : d \in Rows \/ (d = c /\ (Looked(c) => c \in late'))
    BY <2>1, <2>2, <2>4 DEF Rows
  <2>6. ASSUME NEW t \in Nat, NEW S, Tells(t, S), created[c] < t => Looked(c)
        PROVE  \A d \in Rows' : created'[d] < t /\ d \notin S
                  => d \in late' \/ created'[d] < Closes(t) - 2
    BY <2>2, <2>3, <2>5, <2>6 DEF Tells
  <2>7. FoundIsTold'
    <3>1. Tells(last, told) /\ last \in Nat
      BY DEF FoundIsTold, Tells, TypeOK, End
    <3>2. created[c] < last => Looked(c)
      BY DEF Looked
    <3> QED
      BY <3>1, <3>2, <2>6, <2>3 DEF FoundIsTold
  <2>8. ASSUME NEW k \in Keeper, pc[k] \in {"mail", "record"}, NEW S, Tells(look[k], S)
        PROVE  \A d \in Rows' : created'[d] < look[k] /\ d \notin S
                  => d \in late' \/ created'[d] < Closes(look[k]) - 2
    <3>1. look[k] \in Nat
      BY DEF TypeOK, End
    <3>2. created[c] < look[k] => Looked(c)
      BY <2>8 DEF Looked
    <3> QED
      BY <3>1, <3>2, <2>6, <2>8
  <2>9. ASSUME NEW k \in Keeper
        PROVE  /\ look'[k] <= now'
               /\ pc'[k] = "mail" => Tells(look[k], told \cup window[k])'
               /\ pc'[k] = "record" => Tells(look[k], told)'
    <3>1. look'[k] <= now'
      BY <2>3 DEF Telling
    <3>2. ASSUME pc'[k] = "mail" PROVE Tells(look[k], told \cup window[k])'
      BY <3>2, <2>3, <2>8 DEF Telling, Tells
    <3>3. ASSUME pc'[k] = "record" PROVE Tells(look[k], told)'
      BY <3>3, <2>3, <2>8 DEF Telling, Tells
    <3> QED
      BY <3>1, <3>2, <3>3
  <2> QED
    BY <2>3, <2>7, <2>9 DEF Telling
<1>5. ASSUME NEW c \in Cycle, Refuse(c) PROVE Telling' /\ FoundIsTold'
  <2>1. c \in Cycle /\ verdict[c] # None /\ verdict \in [Cycle -> Verdict \cup {None}]
    BY <1>5 DEF Refuse, TypeOK
  <2>2. verdict'[c] # None /\ \A d \in Cycle \ {c} : verdict'[d] = verdict[d]
    BY <1>5, <2>1, WriteGives DEF Refuse, Action
  <2>3. Rows' = Rows
    BY <2>1, <2>2 DEF Rows
  <2>4. UNCHANGED <<created, look, window, last, told, late>> /\ now' = now
    BY <1>5 DEF Refuse, cycles, keepers, digest
  <2>5. \A k \in Keeper : pc'[k] = pc[k]
    BY <1>5 DEF Refuse, keepers
  <2> QED
    BY <2>3, <2>4, <2>5, DigestFrame, NowIsNat
<1>6. ASSUME NEW c \in Cycle, Move(c) PROVE Telling' /\ FoundIsTold'
  <2>1. Rows' = Rows
    BY <1>6 DEF Move, cycles, Rows
  <2>2. UNCHANGED <<created, look, window, last, told, late>> /\ now' = now
    BY <1>6 DEF Move, cycles, keepers, digest
  <2>3. \A k \in Keeper : pc'[k] = pc[k]
    BY <1>6 DEF Move, keepers
  <2> QED
    BY <2>1, <2>2, <2>3, DigestFrame, NowIsNat
<1>7. ASSUME NEW c \in Cycle, Mark(c) PROVE Telling' /\ FoundIsTold'
  <2>1. c \in Cycle /\ verdict[c] # None /\ verdict \in [Cycle -> Verdict \cup {None}]
    BY <1>7 DEF Mark, TypeOK
  <2>2. verdict'[c] # None /\ \A d \in Cycle \ {c} : verdict'[d] = verdict[d]
    BY <1>7, <2>1, WriteGives DEF Mark, Action
  <2>3. Rows' = Rows
    BY <2>1, <2>2 DEF Rows
  <2>4. UNCHANGED <<created, look, window, last, told, late>> /\ now' = now
    BY <1>7 DEF Mark, cycles, keepers, digest
  <2>5. \A k \in Keeper : pc'[k] = pc[k]
    BY <1>7 DEF Mark, keepers
  <2> QED
    BY <2>3, <2>4, <2>5, DigestFrame, NowIsNat
<1>8. ASSUME NEW c \in Cycle, MarkFails(c) PROVE Telling' /\ FoundIsTold'
  <2>1. Rows' = Rows
    BY <1>8 DEF MarkFails, cycles, Rows
  <2>2. UNCHANGED <<created, look, window, last, told, late>> /\ now' = now
    BY <1>8 DEF MarkFails, cycles, keepers, digest
  <2>3. \A k \in Keeper : pc'[k] = pc[k]
    BY <1>8 DEF MarkFails, keepers
  <2> QED
    BY <2>1, <2>2, <2>3, DigestFrame, NowIsNat
<1>9. ASSUME NEW c \in Cycle, Finish(c) PROVE Telling' /\ FoundIsTold'
  <2>1. Rows' = Rows
    BY <1>9 DEF Finish, cycles, Rows
  <2>2. UNCHANGED <<created, look, window, last, told, late>> /\ now' = now
    BY <1>9 DEF Finish, cycles, keepers, digest
  <2>3. \A k \in Keeper : pc'[k] = pc[k]
    BY <1>9 DEF Finish, keepers
  <2> QED
    BY <2>1, <2>2, <2>3, DigestFrame, NowIsNat
<1>10. ASSUME NEW c \in Cycle, FinishFails(c) PROVE Telling' /\ FoundIsTold'
  <2>1. Rows' = Rows
    BY <1>10 DEF FinishFails, cycles, Rows
  <2>2. UNCHANGED <<created, look, window, last, told, late>> /\ now' = now
    BY <1>10 DEF FinishFails, cycles, keepers, digest
  <2>3. \A k \in Keeper : pc'[k] = pc[k]
    BY <1>10 DEF FinishFails, keepers
  <2> QED
    BY <2>1, <2>2, <2>3, DigestFrame, NowIsNat
<1>11. ASSUME NEW c \in Cycle, KillCycle(c) PROVE Telling' /\ FoundIsTold'
  <2>1. Rows' = Rows
    BY <1>11 DEF KillCycle, cycles, Rows
  <2>2. UNCHANGED <<created, look, window, last, told, late>> /\ now' = now
    BY <1>11 DEF KillCycle, cycles, keepers, digest
  <2>3. \A k \in Keeper : pc'[k] = pc[k]
    BY <1>11 DEF KillCycle, keepers
  <2> QED
    BY <2>1, <2>2, <2>3, DigestFrame, NowIsNat
<1>12. ASSUME NEW c \in Cycle, Leave(c) PROVE Telling' /\ FoundIsTold'
  <2>1. Rows' = Rows
    BY <1>12 DEF Leave, cycles, Rows
  <2>2. UNCHANGED <<created, look, window, last, told, late>> /\ now' = now
    BY <1>12 DEF Leave, cycles, keepers, digest
  <2>3. \A k \in Keeper : pc'[k] = pc[k]
    BY <1>12 DEF Leave, keepers
  <2> QED
    BY <2>1, <2>2, <2>3, DigestFrame, NowIsNat
<1>13. ASSUME NEW c \in Cycle, NEW w \in {"move", "ignore"}, Decide(c, w) PROVE Telling' /\ FoundIsTold'
  <2>1. Rows' = Rows
    BY <1>13 DEF Decide, cycles, Rows
  <2>2. UNCHANGED <<created, look, window, last, told, late>> /\ now' = now
    BY <1>13 DEF Decide, cycles, keepers, digest
  <2>3. \A k \in Keeper : pc'[k] = pc[k]
    BY <1>13 DEF Decide, keepers
  <2> QED
    BY <2>1, <2>2, <2>3, DigestFrame, NowIsNat
<1>14. CASE DecideMove
  <2>1. Rows' = Rows
    BY <1>14 DEF DecideMove, cycles, Rows
  <2>2. UNCHANGED <<created, look, window, last, told, late>> /\ now' = now
    BY <1>14 DEF DecideMove, cycles, keepers, digest
  <2>3. \A k \in Keeper : pc'[k] = pc[k]
    BY <1>14 DEF DecideMove, keepers
  <2> QED
    BY <2>1, <2>2, <2>3, DigestFrame, NowIsNat
<1>15. CASE DecideWrite
  <2>1. dec.on \in Cycle /\ verdict[dec.on] # None /\ verdict \in [Cycle -> Verdict \cup {None}]
    BY <1>15 DEF DecideWrite, TypeOK
  <2>2. verdict'[dec.on] # None /\ \A d \in Cycle \ {dec.on} : verdict'[d] = verdict[d]
    BY <1>15, <2>1, WriteGives DEF DecideWrite, Action
  <2>3. Rows' = Rows
    BY <2>1, <2>2 DEF Rows
  <2>4. UNCHANGED <<created, look, window, last, told, late>> /\ now' = now
    BY <1>15 DEF DecideWrite, cycles, keepers, digest
  <2>5. \A k \in Keeper : pc'[k] = pc[k]
    BY <1>15 DEF DecideWrite, keepers
  <2> QED
    BY <2>3, <2>4, <2>5, DigestFrame, NowIsNat
<1>16. CASE DecideAck
  <2>1. Rows' = Rows
    BY <1>16, AckGives DEF Rows
  <2>2. UNCHANGED <<created, look, window, last, told, late>> /\ now' = now
    BY <1>16 DEF DecideAck, cycles, keepers, digest
  <2>3. \A k \in Keeper : pc'[k] = pc[k]
    BY <1>16 DEF DecideAck, keepers
  <2> QED
    BY <2>1, <2>2, <2>3, DigestFrame, NowIsNat
<1>17. CASE DecisionIsCut
  <2>1. Rows' = Rows
    BY <1>17 DEF DecisionIsCut, cycles, Rows
  <2>2. UNCHANGED <<created, look, window, last, told, late>> /\ now' = now
    BY <1>17 DEF DecisionIsCut, cycles, keepers, digest
  <2>3. \A k \in Keeper : pc'[k] = pc[k]
    BY <1>17 DEF DecisionIsCut, keepers
  <2> QED
    BY <2>1, <2>2, <2>3, DigestFrame, NowIsNat
<1>18. ASSUME NEW k \in Keeper, List(k) PROVE Telling' /\ FoundIsTold'
  <2>1. Rows' = Rows
    BY <1>18 DEF List, cycles, Rows
  <2>2. UNCHANGED <<created, look, window, last, told, late>> /\ now' = now
    BY <1>18 DEF List, cycles, digest
  <2>3. \A i \in Keeper : pc'[i] = pc[i] \/ pc'[i] \in {"off", "recover"}
    BY <1>18 DEF List, TypeOK
  <2> QED
    BY <2>1, <2>2, <2>3, DigestFrame, NowIsNat
<1>19. ASSUME NEW k \in Keeper, NEW c \in Cycle, Recover(k, c) PROVE Telling' /\ FoundIsTold'
  <2>1. Rows' = Rows
    BY <1>19 DEF Recover, cycles, Rows
  <2>2. UNCHANGED <<created, look, window, last, told, late>> /\ now' = now
    BY <1>19 DEF Recover, cycles, digest
  <2>3. \A i \in Keeper : pc'[i] = pc[i] \/ pc'[i] \in {"off", "recover"}
    BY <1>19 DEF Recover, TypeOK
  <2> QED
    BY <2>1, <2>2, <2>3, DigestFrame, NowIsNat
<1>20. ASSUME NEW k \in Keeper, NEW c \in Cycle, RecoverFails(k, c) PROVE Telling' /\ FoundIsTold'
  <2>1. Rows' = Rows
    BY <1>20 DEF RecoverFails, cycles, Rows
  <2>2. UNCHANGED <<created, look, window, last, told, late>> /\ now' = now
    BY <1>20 DEF RecoverFails, cycles, digest
  <2>3. \A i \in Keeper : pc'[i] = pc[i] \/ pc'[i] \in {"off", "recover"}
    BY <1>20 DEF RecoverFails, TypeOK
  <2> QED
    BY <2>1, <2>2, <2>3, DigestFrame, NowIsNat
<1>21. ASSUME NEW k \in Keeper, Look(k) PROVE Telling' /\ FoundIsTold'
  <2>1. Rows' = Rows /\ UNCHANGED <<now, created, last, told, late>>
    BY <1>21 DEF Look, Rows, cycles
  <2>2. FoundIsTold' /\ last' <= now'
    BY <2>1 DEF FoundIsTold, Telling
  <2>3. now \in Nat /\ last \in Nat /\ last <= now
    BY DEF TypeOK, End, Telling
  <2>4. ASSUME NEW i \in Keeper, i # k
        PROVE  pc'[i] = pc[i] /\ look'[i] = look[i] /\ window'[i] = window[i]
    BY <1>21, <2>4 DEF Look, TypeOK
  <2>5. \/ pc'[k] = "off" /\ look'[k] = look[k]
        \/ pc'[k] = "mail" /\ look'[k] = now /\ window'[k] = InWindow
    BY <1>21 DEF Look, TypeOK
  <2>6. Tells(now, told \cup InWindow)
    <3> SUFFICES ASSUME NEW c \in Rows, created[c] < now, c \notin told, c \notin InWindow,
                        c \notin late
                 PROVE  created[c] < Closes(now) - 2
      BY DEF Tells
    <3>1. created[c] \in Nat
      BY DEF Rows, TypeOK, End
    <3>2. Closes(now) \in Nat /\ Closes(last) \in Nat /\ Closes(last) <= Closes(now)
      BY <2>3, ClosesGrows
    <3>3. created[c] < Begins
      <4>1. Begins \in Int
        BY <2>3, <3>2 DEF Begins
      <4> QED
        BY <4>1, <2>3, <3>1 DEF InWindow
    <3>4. CASE created[c] < last
      BY <3>1, <3>2, <3>4 DEF FoundIsTold
    <3>5. CASE ~(created[c] < last)
      BY <3>1, <3>2, <3>3, <3>5, <2>3 DEF Begins
    <3> QED
      BY <3>4, <3>5
  <2>7. ASSUME NEW i \in Keeper
        PROVE  /\ look'[i] <= now'
               /\ pc'[i] = "mail" => Tells(look[i], told \cup window[i])'
               /\ pc'[i] = "record" => Tells(look[i], told)'
    <3>1. CASE i # k
      BY <3>1, <2>1, <2>4 DEF Telling, Tells
    <3>2. CASE i = k /\ pc'[k] = "off"
      BY <3>2, <2>1, <2>3, <2>5 DEF Telling
    <3>3. CASE i = k /\ pc'[k] = "mail"
      BY <3>3, <2>1, <2>3, <2>5, <2>6 DEF Tells
    <3> QED
      BY <3>1, <3>2, <3>3, <2>5
  <2> QED
    BY <2>2, <2>7 DEF Telling
<1>22. ASSUME NEW k \in Keeper, Mail(k) PROVE Telling' /\ FoundIsTold'
  <2>1. Rows' = Rows /\ UNCHANGED <<now, created, last, late>> /\ told \subseteq told'
    BY <1>22 DEF Mail, Rows, cycles
  <2>2. FoundIsTold' /\ last' <= now'
    BY <2>1 DEF FoundIsTold, Telling
  <2>3. ASSUME NEW i \in Keeper, i # k
        PROVE  pc'[i] = pc[i] /\ look'[i] = look[i] /\ window'[i] = window[i]
    BY <1>22, <2>3 DEF Mail, TypeOK
  <2>4. \/ pc'[k] = "off" /\ look'[k] = 0
        \/ /\ pc[k] = "mail" /\ pc'[k] = "record" /\ look'[k] = look[k]
           /\ told' = told \cup window[k]
    BY <1>22 DEF Mail, TypeOK
  <2>5. now \in Nat
    BY DEF TypeOK, End
  <2>6. ASSUME NEW i \in Keeper
        PROVE  /\ look'[i] <= now'
               /\ pc'[i] = "mail" => Tells(look[i], told \cup window[i])'
               /\ pc'[i] = "record" => Tells(look[i], told)'
    <3>1. CASE i # k
      BY <3>1, <2>1, <2>3 DEF Telling, Tells
    <3>2. CASE i = k /\ pc'[k] = "off"
      BY <3>2, <2>1, <2>4, <2>5
    <3>3. CASE i = k /\ pc'[k] = "record"
      BY <3>3, <2>1, <2>4 DEF Telling, Tells
    <3> QED
      BY <3>1, <3>2, <3>3, <2>4
  <2> QED
    BY <2>2, <2>6 DEF Telling
<1>23. ASSUME NEW k \in Keeper, RecordDigest(k) PROVE Telling' /\ FoundIsTold'
  <2>1. Rows' = Rows /\ UNCHANGED <<now, created, told, late, window>> /\ last' = look[k]
    BY <1>23 DEF RecordDigest, Rows, cycles
  <2>2. Tells(look[k], told) /\ look[k] <= now
    BY <1>23 DEF RecordDigest, Telling
  <2>3. FoundIsTold' /\ last' <= now'
    BY <2>1, <2>2 DEF FoundIsTold, Tells
  <2>4. now \in Nat
    BY DEF TypeOK, End
  <2>5. ASSUME NEW i \in Keeper
        PROVE  IF i = k THEN pc'[i] = "off" /\ look'[i] = 0
                        ELSE pc'[i] = pc[i] /\ look'[i] = look[i]
    BY <1>23 DEF RecordDigest, TypeOK
  <2>6. ASSUME NEW i \in Keeper
        PROVE  /\ look'[i] <= now'
               /\ pc'[i] = "mail" => Tells(look[i], told \cup window[i])'
               /\ pc'[i] = "record" => Tells(look[i], told)'
    BY <2>1, <2>4, <2>5 DEF Telling, Tells
  <2> QED
    BY <2>3, <2>6 DEF Telling
<1>24. ASSUME NEW k \in Keeper, KillKeeper(k) PROVE Telling' /\ FoundIsTold'
  <2>1. Rows' = Rows /\ UNCHANGED <<now, created, told, late, last>>
    BY <1>24 DEF KillKeeper, Rows, cycles
  <2>2. FoundIsTold' /\ last' <= now'
    BY <2>1 DEF FoundIsTold, Telling
  <2>3. now \in Nat
    BY DEF TypeOK, End
  <2>4. ASSUME NEW i \in Keeper
        PROVE  IF i = k THEN pc'[i] = "off" /\ look'[i] = 0
               ELSE pc'[i] = pc[i] /\ look'[i] = look[i] /\ window'[i] = window[i]
    BY <1>24 DEF KillKeeper, TypeOK
  <2>5. ASSUME NEW i \in Keeper
        PROVE  /\ look'[i] <= now'
               /\ pc'[i] = "mail" => Tells(look[i], told \cup window[i])'
               /\ pc'[i] = "record" => Tells(look[i], told)'
    BY <2>1, <2>3, <2>4 DEF Telling, Tells
  <2> QED
    BY <2>2, <2>5 DEF Telling
<1>25. CASE Tick
  <2>1. Rows' = Rows
    BY <1>25 DEF Tick, Rows
  <2>2. UNCHANGED <<created, look, window, last, told, late>> /\ now' = now + 1
    BY <1>25 DEF Tick, keepers, digest
  <2>3. \A k \in Keeper : pc'[k] = pc[k]
    BY <1>25 DEF Tick, keepers
  <2> QED
    BY <2>1, <2>2, <2>3, DigestFrame, NowIsNat
<1> QED
  <2>1. ASSUME NEW c \in Cycle, Run(c) PROVE Telling' /\ FoundIsTold'
    BY <2>1, <1>1, <1>2, <1>3, <1>4, <1>5, <1>6, <1>7, <1>8, <1>9, <1>10, <1>11 DEF Run
  <2>2. CASE Panel
    BY <2>2, <1>12, <1>13, <1>14, <1>15, <1>16, <1>17 DEF Panel
  <2>3. ASSUME NEW k \in Keeper, Keep(k) PROVE Telling' /\ FoundIsTold'
    BY <2>3, <1>18, <1>19, <1>20, <1>21, <1>22, <1>23, <1>24 DEF Keep, Recovers
  <2> QED
    BY <1>25, <2>1, <2>2, <2>3 DEF Next

-----------------------------------------------------------------------------
(***************************************************************************)
(* The rows, requests and maintenances keep their types (store/scans.go,   *)
(* store/verdicts.go).                                                     *)
(***************************************************************************)
THEOREM HistoryTypeOK == Spec => []TypeOK
<1>1. Init => TypeOK
  BY IdleIsIdle DEF Init, TypeOK, End, Step, RowStatus
<1>2. TypeOK /\ [Next]_vars => TypeOK'
  <2>1. ASSUME TypeOK, UNCHANGED vars PROVE TypeOK'
    BY <2>1 DEF TypeOK, vars, cycles, keepers, digest, End
  <2> QED
    BY <2>1, TypesKept
<1> QED
  BY <1>1, <1>2, PTL DEF Spec

LEMMA InvariantHolds == Spec => []IInv
<1>1. Init => IInv
  BY IdleIsIdle DEF Init, IInv, TypeOK, End, Step, RowStatus, LiveIsAlive, ListedIsDead,
     KilledRowIsDead, RowBeforeAct, HeldInAct, HeldIsOnRecord
<1>2. IInv /\ [Next]_vars => IInv'
  <2>1. ASSUME IInv, Next PROVE IInv'
    BY <2>1, TypesKept, CyclesKept, RecordKept DEF IInv
  <2>2. ASSUME IInv, UNCHANGED vars PROVE IInv'
    BY <2>2 DEF IInv, vars, cycles, keepers, digest, TypeOK, End, LiveIsAlive, ListedIsDead,
       KilledRowIsDead, RowBeforeAct, HeldInAct, HeldIsOnRecord, BeingWritten
  <2> QED
    BY <2>1, <2>2
<1> QED
  BY <1>1, <1>2, PTL DEF Spec

(***************************************************************************)
(* A row that says "killed" is that of a cycle that ended without closing  *)
(* it, or of one listed while it ran (housekeeping.go, recoverCycles).     *)
(***************************************************************************)
THEOREM HistoryKilledRowIsDead == Spec => []KilledRowIsDead
<1>1. IInv => KilledRowIsDead
  BY DEF IInv
<1> QED
  BY <1>1, InvariantHolds, PTL

(***************************************************************************)
(* A file in the vault is found through its verdict (persist.go,           *)
(* quarantineOne; api.go, handleDecide).                                   *)
(***************************************************************************)
THEOREM HistoryHeldIsOnRecord == Spec => []HeldIsOnRecord
<1>1. IInv => HeldIsOnRecord
  BY DEF IInv
<1> QED
  BY <1>1, InvariantHolds, PTL

(***************************************************************************)
(* Nothing is skipped by the digests but what FoundIsTold names            *)
(* (digest.go, SendDigestIfDue).                                           *)
(***************************************************************************)
THEOREM HistoryFoundIsTold == Spec => []FoundIsTold
<1> DEFINE D == Telling /\ FoundIsTold
<1>1. Init => D
  BY DEF Init, Telling, FoundIsTold, Rows
<1>2. IInv /\ D /\ [Next]_vars => D'
  <2>1. ASSUME IInv, D, Next PROVE D'
    BY <2>1, DigestsKept DEF IInv
  <2>2. ASSUME D, UNCHANGED vars PROVE D'
    <3>1. Rows' = Rows
      BY <2>2 DEF vars, Rows
    <3>2. UNCHANGED <<now, created, pc, look, window, last, told, late>>
      BY <2>2 DEF vars, keepers, digest
    <3> QED
      BY <2>2, <3>1, <3>2 DEF Telling, FoundIsTold, Tells
  <2> QED
    BY <2>1, <2>2
<1> QED
  BY <1>1, <1>2, InvariantHolds, PTL DEF Spec

(***************************************************************************)
(* A decision is changed by another, or by the finding's own cycle while   *)
(* it acts (verdicts.go, UpdateVerdictAction), and by nothing else.        *)
(***************************************************************************)
THEOREM HistoryDecisionStands == Spec => DecisionStands
<1> DEFINE Mine(c) == dec.on = c \/ (live = c /\ step[c] \in {"acting", "moved"})
<1>1. ASSUME IInv, Next
      PROVE  \A d \in Cycle : verdict[d] # None /\ verdict'[d] # verdict[d] => Mine(d)
  <2> USE DEF IInv
  <2>1. ASSUME NEW c \in Cycle, Persist(c) \/ PersistFails(c)
        PROVE  \A d \in Cycle : verdict[d] # None => verdict'[d] = verdict[d]
    <3>1. verdict[c] = None
      BY <1>1, <2>1 DEF Persist, PersistFails, RowBeforeAct
    <3>2. \A d \in Cycle \ {c} : verdict'[d] = verdict[d]
      BY <1>1, <2>1, InsertGives DEF Persist, PersistFails, TypeOK, Action
    <3> QED
      BY <3>1, <3>2
  <2>2. ASSUME NEW c \in Cycle, Refuse(c) \/ Mark(c)
        PROVE  Mine(c) /\ \A d \in Cycle \ {c} : verdict'[d] = verdict[d]
    BY <1>1, <2>2, WriteGives DEF Refuse, Mark, TypeOK, Action
  <2>3. ASSUME DecideWrite
        PROVE  \A d \in Cycle \ {dec.on} : verdict'[d] = verdict[d]
    BY <1>1, <2>3, WriteGives DEF DecideWrite, TypeOK, Action
  <2>4. ASSUME DecideAck
        PROVE  \A d \in Cycle \ {dec.on} : verdict'[d] = verdict[d]
    BY <1>1, <2>4, AckGives
  <2>5. \/ verdict' = verdict
        \/ DecideWrite \/ DecideAck
        \/ \E c \in Cycle : Persist(c) \/ PersistFails(c) \/ Refuse(c) \/ Mark(c)
    BY <1>1 DEF Next, Run, Panel, Keep, Recovers, Begin, Judge, Move, MarkFails, Finish,
       FinishFails, KillCycle, Leave, Decide, DecideMove, DecisionIsCut, List, Recover,
       RecoverFails, Look, Mail, RecordDigest, KillKeeper, Tick
  <2> QED
    BY <2>1, <2>2, <2>3, <2>4, <2>5
<1>2. IInv /\ [Next]_vars
        => [ \A c \in Cycle :
               verdict[c] # None /\ verdict[c].ack /\ verdict'[c] # verdict[c]
                 => dec.on = c \/ (live = c /\ step[c] \in {"acting", "moved"}) ]_vars
  BY <1>1
<1> QED
  BY <1>2, InvariantHolds, PTL DEF Spec, DecisionStands
=============================================================================
