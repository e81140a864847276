---------------------------- MODULE CycleProofs -----------------------------
(***************************************************************************)
(* What the baseline and the cycle's status promise, for every site, set   *)
(* of engines, limit and number of edits, whatever deadline, kill, failing *)
(* disk or database, inaccessible root or abstaining engine comes in       *)
(* between: a file the next cycle skips, and a file a completed cycle      *)
(* covers, holds a content a voting engine has answered for.               *)
(***************************************************************************)
EXTENDS Cycle, FiniteSetTheorems, TLAPS

USE RootAssumption, EngineAssumption, ModeAssumption, FaultAssumption, BoundAssumption

(* What the promise takes: files stay readable, an engine that stops with  *)
(* an exit code of its own does not pass for one that looked, every engine *)
(* looks at every file, and a content nobody answered for does not return. *)
Favourable ==
    /\ "unreadable" \notin Faults
    /\ "exit" \notin Faults
    /\ \A e \in Engine : Covers[e] = File
    /\ Revert = FALSE

-----------------------------------------------------------------------------
(* The inductive invariant, one conjunct per phase of the cycle.           *)

After == {"engines", "read", "parse", "persist", "act", "finish"}

AllReadable == unreadable = {}

(* Contents and stamps are numbered by the edit that made them. *)
NoneFromTheFuture ==
    \A f \in File :
        /\ disk[f] <= edits /\ stamp[f] <= edits
        /\ knownSha[f] <= edits /\ knownStamp[f] <= edits
        /\ curSha[f] <= edits /\ wstamp[f] <= edits
        /\ sight[f] <= edits
        /\ \A v \in answered[f] : v <= edits

SameStampSameContent ==
    \A f \in File :
        knownSha[f] # 0 /\ knownStamp[f] = stamp[f] /\ disk[f] # 0 => knownSha[f] = disk[f]

KnownContentAnswered ==
    \A f \in File : disk[f] # 0 /\ knownSha[f] = disk[f] => disk[f] \in answered[f]

(* Nothing votes unless the hashing came to its end before the deadline. *)
HashingEnded == pc \in {"read", "parse"} \/ (pc \in After /\ (voted \/ ~expired))

WalkIsFaithful ==
    \A f \in current :
        /\ HashingEnded \/ (pc = "hash" /\ f \notin todo)
        /\ wstamp[f] = stamp[f]
        /\ disk[f] # 0
        => curSha[f] = disk[f]

SkippedIsKnown ==
    pc \in After \ {"finish"} =>
        \A f \in current \ targets : curSha[f] = 0 \/ curSha[f] = knownSha[f]

NoVoteBeforeEngines == pc \in {"walk", "hash"} => ~voted

ReadIsHashed ==
    /\ pc = "parse" => todo = {}
    /\ pc \in {"read", "parse"} =>
          \A f \in targets \ todo :
              disk[f] # 0 /\ curSha[f] = disk[f]
                  => sight[f] = disk[f] \/ disk[f] \in answered[f]

VoteCoversTargets ==
    pc \in After /\ voted =>
        \A f \in targets : disk[f] # 0 /\ curSha[f] = disk[f] => disk[f] \in answered[f]

VoteCoversWalk ==
    pc = "finish" /\ voted =>
        \A f \in current : disk[f] # 0 /\ curSha[f] = disk[f] => disk[f] \in answered[f]

IInv ==
    /\ AllReadable
    /\ NoneFromTheFuture
    /\ SameStampSameContent
    /\ KnownContentAnswered
    /\ WalkIsFaithful
    /\ SkippedIsKnown
    /\ NoVoteBeforeEngines
    /\ ReadIsHashed
    /\ VoteCoversTargets
    /\ VoteCoversWalk
-----------------------------------------------------------------------------
(* Types.                                                                  *)

LEMMA TypeStep == TypeOK /\ [Next]_vars => TypeOK'
<1> SUFFICES ASSUME TypeOK, [Next]_vars PROVE TypeOK'
    OBVIOUS
<1> USE DEF TypeOK, SiteType, WalkType, EngineType, ControlType, site, baseline, walk,
            reports, Content, Version, Step
<1>1. ASSUME NEW m \in Mode, Start(m) PROVE TypeOK'
    BY <1>1 DEF Start
<1>2. CASE WalkRoots
    BY <1>2 DEF WalkRoots, Fault
<1>3. CASE WalkNothing
    BY <1>3 DEF WalkNothing, Fault, Close
<1>4. ASSUME NEW f \in File, HashEntry(f) PROVE TypeOK'
    BY <1>4 DEF HashEntry
<1>5. CASE ChooseTargets
    BY <1>5 DEF ChooseTargets
<1>6. ASSUME NEW e \in Engine, Unavailable(e) PROVE TypeOK'
    BY <1>6 DEF Unavailable, Fault
<1>7. ASSUME NEW e \in Engine, NothingToScan(e) PROVE TypeOK'
    BY <1>7 DEF NothingToScan
<1>8. ASSUME NEW e \in Engine, StartEngine(e) PROVE TypeOK'
    BY <1>8 DEF StartEngine
<1>9. ASSUME NEW f \in File, ReadTarget(f) PROVE TypeOK'
    BY <1>9 DEF ReadTarget
<1>10. CASE EngineEnds
    BY <1>10 DEF EngineEnds
<1>11. CASE EngineAbstains
    BY <1>11 DEF EngineAbstains, Fault
<1>12. CASE EngineExits
    <2>1. voted' \in BOOLEAN
        BY <1>12 DEF EngineExits
    <2>2. /\ SiteType' /\ WalkType' /\ EngineType'
          /\ UNCHANGED <<mode, expired, truncated, row>> /\ pc' = "engines"
        BY <1>12 DEF EngineExits, Fault
    <2> QED
        BY <2>1, <2>2
<1>13. CASE Parse
    <2> DEFINE flagged == {f \in targets : sight[f] \in Malicious \ {0}}
               reported == {f \in flagged : Readable(f)}
    <2>1. findings' = findings \cup {<<engine, f, disk[f]>> : f \in reported}
        BY <1>13 DEF Parse
    <2>2. \A f \in reported : f \in File /\ disk[f] \in Version
        BY DEF Readable
    <2>3. findings' \subseteq Engine \X File \X Version
        BY <2>1, <2>2
    <2>4. answered' \in [File -> SUBSET Version]
        <3>1. \A f \in File : sight[f] # 0 => answered[f] \cup {sight[f]} \in SUBSET Version
            OBVIOUS
        <3> QED
            BY <1>13, <3>1 DEF Parse
    <2>5. /\ UNCHANGED <<site, baseline, walk, mode, expired, todo, waiting, engine, sight,
                        confirmed, row, faults>>
          /\ voted' = TRUE /\ pc' = "engines"
        BY <1>13 DEF Parse
    <2> QED
        BY <2>3, <2>4, <2>5
<1>14. CASE EnginesDone
    BY <1>14 DEF EnginesDone
<1>15. CASE Persist
    <2>1. Verdicts \subseteq File \X Version
        BY DEF Verdicts
    <2> QED
        BY <1>15, <2>1 DEF Persist
<1>16. CASE PersistFails
    BY <1>16 DEF PersistFails, Fault, Close
<1>17. ASSUME NEW f \in File, NEW s \in Version, QuarantineOne(f, s) PROVE TypeOK'
    BY <1>17 DEF QuarantineOne
<1>18. ASSUME NEW f \in File, NEW s \in Version, QuarantineFails(f, s) PROVE TypeOK'
    BY <1>18 DEF QuarantineFails, Fault
<1>19. CASE SaveBaseline
    BY <1>19 DEF SaveBaseline, Fault, Update
<1>20. CASE Finish
    BY <1>20 DEF Finish, Close
<1>21. CASE Deadline
    BY <1>21 DEF Deadline, Fault, Running
<1>22. CASE Kill
    BY <1>22 DEF Kill, Fault, Running
<1>23. ASSUME NEW f \in File, NEW v \in Version, Write(f, v) PROVE TypeOK'
    BY <1>23 DEF Write, Edit
<1>24. ASSUME NEW f \in File, Touch(f) PROVE TypeOK'
    BY <1>24 DEF Touch, Edit
<1>25. ASSUME NEW f \in File, Delete(f) PROVE TypeOK'
    BY <1>25 DEF Delete, Edit
<1>26. ASSUME NEW f \in File, Lock(f) PROVE TypeOK'
    BY <1>26 DEF Lock, Fault
<1>27. ASSUME NEW f \in File, Unlock(f) PROVE TypeOK'
    BY <1>27 DEF Unlock
<1>28. CASE UNCHANGED vars
    BY <1>28 DEF vars
<1> QED
    BY <1>1, <1>2, <1>3, <1>4, <1>5, <1>6, <1>7, <1>8, <1>9, <1>10, <1>11, <1>12, <1>13, <1>14, <1>15, <1>16, <1>17, <1>18, <1>19, <1>20, <1>21, <1>22, <1>23, <1>24, <1>25, <1>26, <1>27, <1>28
    DEF Next, Proceed, Collect, RunEngines, Conclude, People, Host

-----------------------------------------------------------------------------
(* The inductive step, one lemma per conjunct of the invariant.            *)

(* A content that is written is a new one, or one that was answered for.   *)
LEMMA WrittenContent ==
    ASSUME Favourable, NEW f, NEW v, Write(f, v)
    PROVE  v = edits + 1 \/ v \in answered[f]
BY DEF Favourable, Write

LEMMA ReadableStep == Favourable /\ AllReadable /\ [Next]_vars => AllReadable'
<1> SUFFICES ASSUME Favourable, AllReadable, [Next]_vars PROVE AllReadable'
    OBVIOUS
<1> USE DEF AllReadable, Favourable, site, Fault
<1>1. CASE UNCHANGED vars
    BY <1>1 DEF vars
<1>2. CASE \E m \in Mode : Start(m)
    BY <1>2 DEF Start
<1>3. CASE Proceed
    BY <1>3
    DEF Proceed, Collect, RunEngines, Conclude, WalkRoots, WalkNothing, HashEntry,
        ChooseTargets, Unavailable, NothingToScan, StartEngine, ReadTarget, EngineEnds,
        EngineAbstains, EngineExits, Parse, EnginesDone, Persist, PersistFails,
        QuarantineOne, QuarantineFails, SaveBaseline, Finish
<1>4. CASE People \/ Host
    BY <1>4 DEF People, Host, Write, Touch, Delete, Lock, Unlock, Deadline, Kill
<1> QED
    BY <1>1, <1>2, <1>3, <1>4 DEF Next

(* A new content or stamp takes the number of the edit that makes it. *)
LEMMA FutureStep ==
    ASSUME Favourable, TypeOK, IInv, [Next]_vars
    PROVE  NoneFromTheFuture'
<1> USE DEF site, baseline, walk, reports, TypeOK, SiteType, WalkType, EngineType, ControlType,
            Content, Version,
            IInv, NoneFromTheFuture
<1>1. ASSUME NEW m \in Mode, Start(m) PROVE NoneFromTheFuture'
    BY <1>1 DEF Start
<1>2. CASE WalkRoots
    BY <1>2 DEF WalkRoots
<1>3. CASE WalkNothing
    BY <1>3 DEF WalkNothing, Close
<1>4. ASSUME NEW f \in File, HashEntry(f) PROVE NoneFromTheFuture'
    BY <1>4 DEF HashEntry
<1>5. CASE ChooseTargets
    BY <1>5 DEF ChooseTargets
<1>6. ASSUME NEW e \in Engine, Unavailable(e) PROVE NoneFromTheFuture'
    BY <1>6 DEF Unavailable
<1>7. ASSUME NEW e \in Engine, NothingToScan(e) PROVE NoneFromTheFuture'
    BY <1>7 DEF NothingToScan
<1>8. ASSUME NEW e \in Engine, StartEngine(e) PROVE NoneFromTheFuture'
    BY <1>8 DEF StartEngine
<1>9. ASSUME NEW f \in File, ReadTarget(f) PROVE NoneFromTheFuture'
    BY <1>9 DEF ReadTarget
<1>10. CASE EngineEnds
    BY <1>10 DEF EngineEnds
<1>11. CASE EngineAbstains
    BY <1>11 DEF EngineAbstains
<1>12. CASE EngineExits
    BY <1>12 DEF EngineExits, Fault, Favourable
<1>13. CASE Parse
    BY <1>13 DEF Parse
<1>14. CASE EnginesDone
    BY <1>14 DEF EnginesDone
<1>15. CASE Persist
    BY <1>15 DEF Persist
<1>16. CASE PersistFails
    BY <1>16 DEF PersistFails, Close
<1>17. ASSUME NEW f \in File, NEW s \in Version, QuarantineOne(f, s) PROVE NoneFromTheFuture'
    BY <1>17 DEF QuarantineOne
<1>18. ASSUME NEW f \in File, NEW s \in Version, QuarantineFails(f, s) PROVE NoneFromTheFuture'
    BY <1>18 DEF QuarantineFails
<1>19. CASE SaveBaseline
    BY <1>19 DEF SaveBaseline, Update
<1>20. CASE Finish
    BY <1>20 DEF Finish, Close
<1>21. CASE Deadline
    BY <1>21 DEF Deadline
<1>22. CASE Kill
    BY <1>22 DEF Kill
<1>23. ASSUME NEW f \in File, NEW v \in Version, Write(f, v) PROVE NoneFromTheFuture'
    BY <1>23 DEF Write, Edit
<1>24. ASSUME NEW f \in File, Touch(f) PROVE NoneFromTheFuture'
    BY <1>24 DEF Touch, Edit
<1>25. ASSUME NEW f \in File, Delete(f) PROVE NoneFromTheFuture'
    BY <1>25 DEF Delete, Edit
<1>26. ASSUME NEW f \in File, Lock(f) PROVE NoneFromTheFuture'
    BY <1>26 DEF Lock, Fault, Favourable
<1>27. ASSUME NEW f \in File, Unlock(f) PROVE NoneFromTheFuture'
    BY <1>27 DEF Unlock
<1>28. CASE UNCHANGED vars
    BY <1>28 DEF vars
<1> QED
    BY <1>1, <1>2, <1>3, <1>4, <1>5, <1>6, <1>7, <1>8, <1>9, <1>10, <1>11,
       <1>12, <1>13, <1>14, <1>15, <1>16, <1>17, <1>18, <1>19, <1>20,
       <1>21, <1>22, <1>23, <1>24, <1>25, <1>26, <1>27, <1>28
    DEF Next, Proceed, Collect, RunEngines, Conclude, People, Host

(* Who changes a content gives it a new stamp; the walk records both. *)
LEMMA StampStep ==
    ASSUME Favourable, TypeOK, IInv, [Next]_vars
    PROVE  SameStampSameContent'
<1> USE DEF site, baseline, walk, reports, TypeOK, SiteType, WalkType, EngineType, ControlType,
            Content, Version,
            IInv, SameStampSameContent, NoneFromTheFuture
<1>1. CASE SaveBaseline
    BY <1>1 DEF SaveBaseline, Update, WalkIsFaithful, HashingEnded, After
<1>2. ASSUME NEW m \in Mode, Start(m) PROVE SameStampSameContent'
    BY <1>2 DEF Start
<1>3. CASE WalkRoots
    BY <1>3 DEF WalkRoots
<1>4. CASE WalkNothing
    BY <1>4 DEF WalkNothing, Close
<1>5. ASSUME NEW f \in File, HashEntry(f) PROVE SameStampSameContent'
    BY <1>5 DEF HashEntry
<1>6. CASE ChooseTargets
    BY <1>6 DEF ChooseTargets
<1>7. ASSUME NEW e \in Engine, Unavailable(e) PROVE SameStampSameContent'
    BY <1>7 DEF Unavailable
<1>8. ASSUME NEW e \in Engine, NothingToScan(e) PROVE SameStampSameContent'
    BY <1>8 DEF NothingToScan
<1>9. ASSUME NEW e \in Engine, StartEngine(e) PROVE SameStampSameContent'
    BY <1>9 DEF StartEngine
<1>10. ASSUME NEW f \in File, ReadTarget(f) PROVE SameStampSameContent'
    BY <1>10 DEF ReadTarget
<1>11. CASE EngineEnds
    BY <1>11 DEF EngineEnds
<1>12. CASE EngineAbstains
    BY <1>12 DEF EngineAbstains
<1>13. CASE EngineExits
    BY <1>13 DEF EngineExits, Fault, Favourable
<1>14. CASE Parse
    BY <1>14 DEF Parse
<1>15. CASE EnginesDone
    BY <1>15 DEF EnginesDone
<1>16. CASE Persist
    BY <1>16 DEF Persist
<1>17. CASE PersistFails
    BY <1>17 DEF PersistFails, Close
<1>18. ASSUME NEW f \in File, NEW s \in Version, QuarantineOne(f, s) PROVE SameStampSameContent'
    BY <1>18 DEF QuarantineOne
<1>19. ASSUME NEW f \in File, NEW s \in Version, QuarantineFails(f, s) PROVE SameStampSameContent'
    BY <1>19 DEF QuarantineFails
<1>20. CASE Finish
    BY <1>20 DEF Finish, Close
<1>21. CASE Deadline
    BY <1>21 DEF Deadline
<1>22. CASE Kill
    BY <1>22 DEF Kill
<1>23. ASSUME NEW f \in File, NEW v \in Version, Write(f, v) PROVE SameStampSameContent'
    BY <1>23 DEF Write, Edit
<1>24. ASSUME NEW f \in File, Touch(f) PROVE SameStampSameContent'
    BY <1>24 DEF Touch, Edit
<1>25. ASSUME NEW f \in File, Delete(f) PROVE SameStampSameContent'
    BY <1>25 DEF Delete, Edit
<1>26. ASSUME NEW f \in File, Lock(f) PROVE SameStampSameContent'
    BY <1>26 DEF Lock, Fault, Favourable
<1>27. ASSUME NEW f \in File, Unlock(f) PROVE SameStampSameContent'
    BY <1>27 DEF Unlock
<1>28. CASE UNCHANGED vars
    BY <1>28 DEF vars
<1> QED
    BY <1>1, <1>2, <1>3, <1>4, <1>5, <1>6, <1>7, <1>8, <1>9, <1>10, <1>11,
       <1>12, <1>13, <1>14, <1>15, <1>16, <1>17, <1>18, <1>19, <1>20,
       <1>21, <1>22, <1>23, <1>24, <1>25, <1>26, <1>27, <1>28
    DEF Next, Proceed, Collect, RunEngines, Conclude, People, Host

(* What the baseline takes over was voted on, or was known before. *)
LEMMA KnownStep ==
    ASSUME Favourable, TypeOK, IInv, [Next]_vars
    PROVE  KnownContentAnswered'
<1> USE DEF site, baseline, walk, reports, TypeOK, SiteType, WalkType, EngineType, ControlType,
            Content, Version,
            IInv, KnownContentAnswered, NoneFromTheFuture
<1>1. CASE SaveBaseline
    BY <1>1 DEF SaveBaseline, Update, SkippedIsKnown, VoteCoversTargets, After
<1>2. ASSUME NEW m \in Mode, Start(m) PROVE KnownContentAnswered'
    BY <1>2 DEF Start
<1>3. CASE WalkRoots
    BY <1>3 DEF WalkRoots
<1>4. CASE WalkNothing
    BY <1>4 DEF WalkNothing, Close
<1>5. ASSUME NEW f \in File, HashEntry(f) PROVE KnownContentAnswered'
    BY <1>5 DEF HashEntry
<1>6. CASE ChooseTargets
    BY <1>6 DEF ChooseTargets
<1>7. ASSUME NEW e \in Engine, Unavailable(e) PROVE KnownContentAnswered'
    BY <1>7 DEF Unavailable
<1>8. ASSUME NEW e \in Engine, NothingToScan(e) PROVE KnownContentAnswered'
    BY <1>8 DEF NothingToScan
<1>9. ASSUME NEW e \in Engine, StartEngine(e) PROVE KnownContentAnswered'
    BY <1>9 DEF StartEngine
<1>10. ASSUME NEW f \in File, ReadTarget(f) PROVE KnownContentAnswered'
    BY <1>10 DEF ReadTarget
<1>11. CASE EngineEnds
    BY <1>11 DEF EngineEnds
<1>12. CASE EngineAbstains
    BY <1>12 DEF EngineAbstains
<1>13. CASE EngineExits
    BY <1>13 DEF EngineExits, Fault, Favourable
<1>14. CASE Parse
    BY <1>14 DEF Parse
<1>15. CASE EnginesDone
    BY <1>15 DEF EnginesDone
<1>16. CASE Persist
    BY <1>16 DEF Persist
<1>17. CASE PersistFails
    BY <1>17 DEF PersistFails, Close
<1>18. ASSUME NEW f \in File, NEW s \in Version, QuarantineOne(f, s) PROVE KnownContentAnswered'
    BY <1>18 DEF QuarantineOne
<1>19. ASSUME NEW f \in File, NEW s \in Version, QuarantineFails(f, s) PROVE KnownContentAnswered'
    BY <1>19 DEF QuarantineFails
<1>20. CASE Finish
    BY <1>20 DEF Finish, Close
<1>21. CASE Deadline
    BY <1>21 DEF Deadline
<1>22. CASE Kill
    BY <1>22 DEF Kill
<1>23. ASSUME NEW f \in File, NEW v \in Version, Write(f, v) PROVE KnownContentAnswered'
    <2>1. v = edits + 1 \/ v \in answered[f]
        BY <1>23, WrittenContent
    <2>2. /\ disk' = [disk EXCEPT ![f] = v]
          /\ UNCHANGED <<baseline, walk, reports, pc, todo>>
        BY <1>23 DEF Write
    <2> QED
        BY <2>1, <2>2
<1>24. ASSUME NEW f \in File, Touch(f) PROVE KnownContentAnswered'
    BY <1>24 DEF Touch, Edit
<1>25. ASSUME NEW f \in File, Delete(f) PROVE KnownContentAnswered'
    BY <1>25 DEF Delete, Edit
<1>26. ASSUME NEW f \in File, Lock(f) PROVE KnownContentAnswered'
    BY <1>26 DEF Lock, Fault, Favourable
<1>27. ASSUME NEW f \in File, Unlock(f) PROVE KnownContentAnswered'
    BY <1>27 DEF Unlock
<1>28. CASE UNCHANGED vars
    BY <1>28 DEF vars
<1> QED
    BY <1>1, <1>2, <1>3, <1>4, <1>5, <1>6, <1>7, <1>8, <1>9, <1>10, <1>11,
       <1>12, <1>13, <1>14, <1>15, <1>16, <1>17, <1>18, <1>19, <1>20,
       <1>21, <1>22, <1>23, <1>24, <1>25, <1>26, <1>27, <1>28
    DEF Next, Proceed, Collect, RunEngines, Conclude, People, Host

(* The hash of an entry is the hash of what its stamp belongs to. *)
LEMMA WalkStep ==
    ASSUME Favourable, TypeOK, IInv, [Next]_vars
    PROVE  WalkIsFaithful'
<1> USE DEF site, baseline, walk, reports, TypeOK, SiteType, WalkType, EngineType, ControlType,
            Content, Version,
            IInv, WalkIsFaithful, NoneFromTheFuture, HashingEnded, After, NoVoteBeforeEngines
<1>1. CASE WalkRoots
    BY <1>1 DEF WalkRoots, NeedsHash, SameStampSameContent
<1>2. ASSUME NEW f \in File, HashEntry(f) PROVE WalkIsFaithful'
    BY <1>2 DEF HashEntry, Readable, AllReadable
<1>3. ASSUME NEW m \in Mode, Start(m) PROVE WalkIsFaithful'
    BY <1>3 DEF Start
<1>4. CASE WalkNothing
    BY <1>4 DEF WalkNothing, Close
<1>5. CASE ChooseTargets
    BY <1>5 DEF ChooseTargets
<1>6. ASSUME NEW e \in Engine, Unavailable(e) PROVE WalkIsFaithful'
    BY <1>6 DEF Unavailable
<1>7. ASSUME NEW e \in Engine, NothingToScan(e) PROVE WalkIsFaithful'
    BY <1>7 DEF NothingToScan
<1>8. ASSUME NEW e \in Engine, StartEngine(e) PROVE WalkIsFaithful'
    BY <1>8 DEF StartEngine
<1>9. ASSUME NEW f \in File, ReadTarget(f) PROVE WalkIsFaithful'
    BY <1>9 DEF ReadTarget
<1>10. CASE EngineEnds
    BY <1>10 DEF EngineEnds
<1>11. CASE EngineAbstains
    BY <1>11 DEF EngineAbstains
<1>12. CASE EngineExits
    BY <1>12 DEF EngineExits, Fault, Favourable
<1>13. CASE Parse
    BY <1>13 DEF Parse
<1>14. CASE EnginesDone
    BY <1>14 DEF EnginesDone
<1>15. CASE Persist
    BY <1>15 DEF Persist
<1>16. CASE PersistFails
    BY <1>16 DEF PersistFails, Close
<1>17. ASSUME NEW f \in File, NEW s \in Version, QuarantineOne(f, s) PROVE WalkIsFaithful'
    BY <1>17 DEF QuarantineOne
<1>18. ASSUME NEW f \in File, NEW s \in Version, QuarantineFails(f, s) PROVE WalkIsFaithful'
    BY <1>18 DEF QuarantineFails
<1>19. CASE SaveBaseline
    BY <1>19 DEF SaveBaseline, Update
<1>20. CASE Finish
    BY <1>20 DEF Finish, Close
<1>21. CASE Deadline
    BY <1>21 DEF Deadline
<1>22. CASE Kill
    BY <1>22 DEF Kill
<1>23. ASSUME NEW f \in File, NEW v \in Version, Write(f, v) PROVE WalkIsFaithful'
    BY <1>23 DEF Write, Edit
<1>24. ASSUME NEW f \in File, Touch(f) PROVE WalkIsFaithful'
    BY <1>24 DEF Touch, Edit
<1>25. ASSUME NEW f \in File, Delete(f) PROVE WalkIsFaithful'
    BY <1>25 DEF Delete, Edit
<1>26. ASSUME NEW f \in File, Lock(f) PROVE WalkIsFaithful'
    BY <1>26 DEF Lock, Fault, Favourable
<1>27. ASSUME NEW f \in File, Unlock(f) PROVE WalkIsFaithful'
    BY <1>27 DEF Unlock
<1>28. CASE UNCHANGED vars
    BY <1>28 DEF vars
<1> QED
    BY <1>1, <1>2, <1>3, <1>4, <1>5, <1>6, <1>7, <1>8, <1>9, <1>10, <1>11,
       <1>12, <1>13, <1>14, <1>15, <1>16, <1>17, <1>18, <1>19, <1>20,
       <1>21, <1>22, <1>23, <1>24, <1>25, <1>26, <1>27, <1>28
    DEF Next, Proceed, Collect, RunEngines, Conclude, People, Host

(* An entry that is not a target has no hash, or the known one. *)
LEMMA SkippedStep ==
    ASSUME Favourable, TypeOK, IInv, [Next]_vars
    PROVE  SkippedIsKnown'
<1> USE DEF site, baseline, walk, reports, TypeOK, SiteType, WalkType, EngineType, ControlType,
            Content, Version,
            IInv, SkippedIsKnown, After
<1>1. CASE ChooseTargets
    BY <1>1 DEF ChooseTargets, Changed
<1>2. ASSUME NEW m \in Mode, Start(m) PROVE SkippedIsKnown'
    BY <1>2 DEF Start
<1>3. CASE WalkRoots
    BY <1>3 DEF WalkRoots
<1>4. CASE WalkNothing
    BY <1>4 DEF WalkNothing, Close
<1>5. ASSUME NEW f \in File, HashEntry(f) PROVE SkippedIsKnown'
    BY <1>5 DEF HashEntry
<1>6. ASSUME NEW e \in Engine, Unavailable(e) PROVE SkippedIsKnown'
    BY <1>6 DEF Unavailable
<1>7. ASSUME NEW e \in Engine, NothingToScan(e) PROVE SkippedIsKnown'
    BY <1>7 DEF NothingToScan
<1>8. ASSUME NEW e \in Engine, StartEngine(e) PROVE SkippedIsKnown'
    BY <1>8 DEF StartEngine
<1>9. ASSUME NEW f \in File, ReadTarget(f) PROVE SkippedIsKnown'
    BY <1>9 DEF ReadTarget
<1>10. CASE EngineEnds
    BY <1>10 DEF EngineEnds
<1>11. CASE EngineAbstains
    BY <1>11 DEF EngineAbstains
<1>12. CASE EngineExits
    BY <1>12 DEF EngineExits, Fault, Favourable
<1>13. CASE Parse
    BY <1>13 DEF Parse
<1>14. CASE EnginesDone
    BY <1>14 DEF EnginesDone
<1>15. CASE Persist
    BY <1>15 DEF Persist
<1>16. CASE PersistFails
    BY <1>16 DEF PersistFails, Close
<1>17. ASSUME NEW f \in File, NEW s \in Version, QuarantineOne(f, s) PROVE SkippedIsKnown'
    BY <1>17 DEF QuarantineOne
<1>18. ASSUME NEW f \in File, NEW s \in Version, QuarantineFails(f, s) PROVE SkippedIsKnown'
    BY <1>18 DEF QuarantineFails
<1>19. CASE SaveBaseline
    BY <1>19 DEF SaveBaseline, Update
<1>20. CASE Finish
    BY <1>20 DEF Finish, Close
<1>21. CASE Deadline
    BY <1>21 DEF Deadline
<1>22. CASE Kill
    BY <1>22 DEF Kill
<1>23. ASSUME NEW f \in File, NEW v \in Version, Write(f, v) PROVE SkippedIsKnown'
    BY <1>23 DEF Write, Edit
<1>24. ASSUME NEW f \in File, Touch(f) PROVE SkippedIsKnown'
    BY <1>24 DEF Touch, Edit
<1>25. ASSUME NEW f \in File, Delete(f) PROVE SkippedIsKnown'
    BY <1>25 DEF Delete, Edit
<1>26. ASSUME NEW f \in File, Lock(f) PROVE SkippedIsKnown'
    BY <1>26 DEF Lock, Fault, Favourable
<1>27. ASSUME NEW f \in File, Unlock(f) PROVE SkippedIsKnown'
    BY <1>27 DEF Unlock
<1>28. CASE UNCHANGED vars
    BY <1>28 DEF vars
<1> QED
    BY <1>1, <1>2, <1>3, <1>4, <1>5, <1>6, <1>7, <1>8, <1>9, <1>10, <1>11,
       <1>12, <1>13, <1>14, <1>15, <1>16, <1>17, <1>18, <1>19, <1>20,
       <1>21, <1>22, <1>23, <1>24, <1>25, <1>26, <1>27, <1>28
    DEF Next, Proceed, Collect, RunEngines, Conclude, People, Host

(* What the engine reads at a target is what was hashed, or was written since. *)
LEMMA ReadStep ==
    ASSUME Favourable, TypeOK, IInv, [Next]_vars
    PROVE  ReadIsHashed'
<1> USE DEF site, baseline, walk, reports, TypeOK, SiteType, WalkType, EngineType, ControlType,
            Content, Version,
            IInv, ReadIsHashed, NoneFromTheFuture
<1>1. ASSUME NEW e \in Engine, StartEngine(e) PROVE ReadIsHashed'
    BY <1>1 DEF StartEngine, Favourable
<1>2. ASSUME NEW f \in File, ReadTarget(f) PROVE ReadIsHashed'
    BY <1>2 DEF ReadTarget, Readable, AllReadable
<1>3. ASSUME NEW m \in Mode, Start(m) PROVE ReadIsHashed'
    BY <1>3 DEF Start
<1>4. CASE WalkRoots
    BY <1>4 DEF WalkRoots
<1>5. CASE WalkNothing
    BY <1>5 DEF WalkNothing, Close
<1>6. ASSUME NEW f \in File, HashEntry(f) PROVE ReadIsHashed'
    BY <1>6 DEF HashEntry
<1>7. CASE ChooseTargets
    BY <1>7 DEF ChooseTargets
<1>8. ASSUME NEW e \in Engine, Unavailable(e) PROVE ReadIsHashed'
    BY <1>8 DEF Unavailable
<1>9. ASSUME NEW e \in Engine, NothingToScan(e) PROVE ReadIsHashed'
    BY <1>9 DEF NothingToScan
<1>10. CASE EngineEnds
    BY <1>10 DEF EngineEnds
<1>11. CASE EngineAbstains
    BY <1>11 DEF EngineAbstains
<1>12. CASE EngineExits
    BY <1>12 DEF EngineExits, Fault, Favourable
<1>13. CASE Parse
    BY <1>13 DEF Parse
<1>14. CASE EnginesDone
    BY <1>14 DEF EnginesDone
<1>15. CASE Persist
    BY <1>15 DEF Persist
<1>16. CASE PersistFails
    BY <1>16 DEF PersistFails, Close
<1>17. ASSUME NEW f \in File, NEW s \in Version, QuarantineOne(f, s) PROVE ReadIsHashed'
    BY <1>17 DEF QuarantineOne
<1>18. ASSUME NEW f \in File, NEW s \in Version, QuarantineFails(f, s) PROVE ReadIsHashed'
    BY <1>18 DEF QuarantineFails
<1>19. CASE SaveBaseline
    BY <1>19 DEF SaveBaseline, Update
<1>20. CASE Finish
    BY <1>20 DEF Finish, Close
<1>21. CASE Deadline
    BY <1>21 DEF Deadline
<1>22. CASE Kill
    BY <1>22 DEF Kill
<1>23. ASSUME NEW f \in File, NEW v \in Version, Write(f, v) PROVE ReadIsHashed'
    <2>1. v = edits + 1 \/ v \in answered[f]
        BY <1>23, WrittenContent
    <2>2. /\ disk' = [disk EXCEPT ![f] = v]
          /\ UNCHANGED <<baseline, walk, reports, pc, todo>>
        BY <1>23 DEF Write
    <2> QED
        BY <2>1, <2>2
<1>24. ASSUME NEW f \in File, Touch(f) PROVE ReadIsHashed'
    BY <1>24 DEF Touch, Edit
<1>25. ASSUME NEW f \in File, Delete(f) PROVE ReadIsHashed'
    BY <1>25 DEF Delete, Edit
<1>26. ASSUME NEW f \in File, Lock(f) PROVE ReadIsHashed'
    BY <1>26 DEF Lock, Fault, Favourable
<1>27. ASSUME NEW f \in File, Unlock(f) PROVE ReadIsHashed'
    BY <1>27 DEF Unlock
<1>28. CASE UNCHANGED vars
    BY <1>28 DEF vars
<1> QED
    BY <1>1, <1>2, <1>3, <1>4, <1>5, <1>6, <1>7, <1>8, <1>9, <1>10, <1>11,
       <1>12, <1>13, <1>14, <1>15, <1>16, <1>17, <1>18, <1>19, <1>20,
       <1>21, <1>22, <1>23, <1>24, <1>25, <1>26, <1>27, <1>28
    DEF Next, Proceed, Collect, RunEngines, Conclude, People, Host

(* A vote comes from an engine that read every target. *)
LEMMA VoteStep ==
    ASSUME Favourable, TypeOK, IInv, [Next]_vars
    PROVE  VoteCoversTargets'
<1> USE DEF site, baseline, walk, reports, TypeOK, SiteType, WalkType, EngineType, ControlType,
            Content, Version,
            IInv, VoteCoversTargets, NoneFromTheFuture, After, NoVoteBeforeEngines
<1>1. CASE Parse
    BY <1>1 DEF Parse, ReadIsHashed, Readable, AllReadable
<1>2. ASSUME NEW m \in Mode, Start(m) PROVE VoteCoversTargets'
    BY <1>2 DEF Start
<1>3. CASE WalkRoots
    BY <1>3 DEF WalkRoots
<1>4. CASE WalkNothing
    BY <1>4 DEF WalkNothing, Close
<1>5. ASSUME NEW f \in File, HashEntry(f) PROVE VoteCoversTargets'
    BY <1>5 DEF HashEntry
<1>6. CASE ChooseTargets
    BY <1>6 DEF ChooseTargets
<1>7. ASSUME NEW e \in Engine, Unavailable(e) PROVE VoteCoversTargets'
    BY <1>7 DEF Unavailable
<1>8. ASSUME NEW e \in Engine, NothingToScan(e) PROVE VoteCoversTargets'
    BY <1>8 DEF NothingToScan
<1>9. ASSUME NEW e \in Engine, StartEngine(e) PROVE VoteCoversTargets'
    BY <1>9 DEF StartEngine
<1>10. ASSUME NEW f \in File, ReadTarget(f) PROVE VoteCoversTargets'
    BY <1>10 DEF ReadTarget
<1>11. CASE EngineEnds
    BY <1>11 DEF EngineEnds
<1>12. CASE EngineAbstains
    BY <1>12 DEF EngineAbstains
<1>13. CASE EngineExits
    BY <1>13 DEF EngineExits, Fault, Favourable
<1>14. CASE EnginesDone
    BY <1>14 DEF EnginesDone
<1>15. CASE Persist
    BY <1>15 DEF Persist
<1>16. CASE PersistFails
    BY <1>16 DEF PersistFails, Close
<1>17. ASSUME NEW f \in File, NEW s \in Version, QuarantineOne(f, s) PROVE VoteCoversTargets'
    BY <1>17 DEF QuarantineOne
<1>18. ASSUME NEW f \in File, NEW s \in Version, QuarantineFails(f, s) PROVE VoteCoversTargets'
    BY <1>18 DEF QuarantineFails
<1>19. CASE SaveBaseline
    BY <1>19 DEF SaveBaseline, Update
<1>20. CASE Finish
    BY <1>20 DEF Finish, Close
<1>21. CASE Deadline
    BY <1>21 DEF Deadline
<1>22. CASE Kill
    BY <1>22 DEF Kill
<1>23. ASSUME NEW f \in File, NEW v \in Version, Write(f, v) PROVE VoteCoversTargets'
    <2>1. v = edits + 1 \/ v \in answered[f]
        BY <1>23, WrittenContent
    <2>2. /\ disk' = [disk EXCEPT ![f] = v]
          /\ UNCHANGED <<baseline, walk, reports, pc, todo>>
        BY <1>23 DEF Write
    <2> QED
        BY <2>1, <2>2
<1>24. ASSUME NEW f \in File, Touch(f) PROVE VoteCoversTargets'
    BY <1>24 DEF Touch, Edit
<1>25. ASSUME NEW f \in File, Delete(f) PROVE VoteCoversTargets'
    BY <1>25 DEF Delete, Edit
<1>26. ASSUME NEW f \in File, Lock(f) PROVE VoteCoversTargets'
    BY <1>26 DEF Lock, Fault, Favourable
<1>27. ASSUME NEW f \in File, Unlock(f) PROVE VoteCoversTargets'
    BY <1>27 DEF Unlock
<1>28. CASE UNCHANGED vars
    BY <1>28 DEF vars
<1> QED
    BY <1>1, <1>2, <1>3, <1>4, <1>5, <1>6, <1>7, <1>8, <1>9, <1>10, <1>11,
       <1>12, <1>13, <1>14, <1>15, <1>16, <1>17, <1>18, <1>19, <1>20,
       <1>21, <1>22, <1>23, <1>24, <1>25, <1>26, <1>27, <1>28
    DEF Next, Proceed, Collect, RunEngines, Conclude, People, Host

(* Every entry of the walk was voted on, or was known before. *)
LEMMA FinishStep ==
    ASSUME Favourable, TypeOK, IInv, [Next]_vars
    PROVE  VoteCoversWalk'
<1> USE DEF site, baseline, walk, reports, TypeOK, SiteType, WalkType, EngineType, ControlType,
            Content, Version,
            IInv, VoteCoversWalk, NoneFromTheFuture, After
<1>1. CASE SaveBaseline
    BY <1>1 DEF SaveBaseline, Update, SkippedIsKnown, VoteCoversTargets, KnownContentAnswered
<1>2. ASSUME NEW m \in Mode, Start(m) PROVE VoteCoversWalk'
    BY <1>2 DEF Start
<1>3. CASE WalkRoots
    BY <1>3 DEF WalkRoots
<1>4. CASE WalkNothing
    BY <1>4 DEF WalkNothing, Close
<1>5. ASSUME NEW f \in File, HashEntry(f) PROVE VoteCoversWalk'
    BY <1>5 DEF HashEntry
<1>6. CASE ChooseTargets
    BY <1>6 DEF ChooseTargets
<1>7. ASSUME NEW e \in Engine, Unavailable(e) PROVE VoteCoversWalk'
    BY <1>7 DEF Unavailable
<1>8. ASSUME NEW e \in Engine, NothingToScan(e) PROVE VoteCoversWalk'
    BY <1>8 DEF NothingToScan
<1>9. ASSUME NEW e \in Engine, StartEngine(e) PROVE VoteCoversWalk'
    BY <1>9 DEF StartEngine
<1>10. ASSUME NEW f \in File, ReadTarget(f) PROVE VoteCoversWalk'
    BY <1>10 DEF ReadTarget
<1>11. CASE EngineEnds
    BY <1>11 DEF EngineEnds
<1>12. CASE EngineAbstains
    BY <1>12 DEF EngineAbstains
<1>13. CASE EngineExits
    BY <1>13 DEF EngineExits, Fault, Favourable
<1>14. CASE Parse
    BY <1>14 DEF Parse
<1>15. CASE EnginesDone
    BY <1>15 DEF EnginesDone
<1>16. CASE Persist
    BY <1>16 DEF Persist
<1>17. CASE PersistFails
    BY <1>17 DEF PersistFails, Close
<1>18. ASSUME NEW f \in File, NEW s \in Version, QuarantineOne(f, s) PROVE VoteCoversWalk'
    BY <1>18 DEF QuarantineOne
<1>19. ASSUME NEW f \in File, NEW s \in Version, QuarantineFails(f, s) PROVE VoteCoversWalk'
    BY <1>19 DEF QuarantineFails
<1>20. CASE Finish
    BY <1>20 DEF Finish, Close
<1>21. CASE Deadline
    BY <1>21 DEF Deadline
<1>22. CASE Kill
    BY <1>22 DEF Kill
<1>23. ASSUME NEW f \in File, NEW v \in Version, Write(f, v) PROVE VoteCoversWalk'
    <2>1. v = edits + 1 \/ v \in answered[f]
        BY <1>23, WrittenContent
    <2>2. /\ disk' = [disk EXCEPT ![f] = v]
          /\ UNCHANGED <<baseline, walk, reports, pc, todo>>
        BY <1>23 DEF Write
    <2> QED
        BY <2>1, <2>2
<1>24. ASSUME NEW f \in File, Touch(f) PROVE VoteCoversWalk'
    BY <1>24 DEF Touch, Edit
<1>25. ASSUME NEW f \in File, Delete(f) PROVE VoteCoversWalk'
    BY <1>25 DEF Delete, Edit
<1>26. ASSUME NEW f \in File, Lock(f) PROVE VoteCoversWalk'
    BY <1>26 DEF Lock, Fault, Favourable
<1>27. ASSUME NEW f \in File, Unlock(f) PROVE VoteCoversWalk'
    BY <1>27 DEF Unlock
<1>28. CASE UNCHANGED vars
    BY <1>28 DEF vars
<1> QED
    BY <1>1, <1>2, <1>3, <1>4, <1>5, <1>6, <1>7, <1>8, <1>9, <1>10, <1>11,
       <1>12, <1>13, <1>14, <1>15, <1>16, <1>17, <1>18, <1>19, <1>20,
       <1>21, <1>22, <1>23, <1>24, <1>25, <1>26, <1>27, <1>28
    DEF Next, Proceed, Collect, RunEngines, Conclude, People, Host

(* No engine has voted before the engines run. *)
LEMMA NoVoteStep ==
    ASSUME NoVoteBeforeEngines, [Next]_vars
    PROVE  NoVoteBeforeEngines'
<1> USE DEF NoVoteBeforeEngines, reports
<1>1. CASE UNCHANGED vars
    BY <1>1 DEF vars
<1>2. CASE \E m \in Mode : Start(m)
    BY <1>2 DEF Start
<1>3. CASE Collect
    BY <1>3 DEF Collect, WalkRoots, WalkNothing, HashEntry, ChooseTargets, Close
<1>4. CASE RunEngines
    BY <1>4
    DEF RunEngines, Unavailable, NothingToScan, StartEngine, ReadTarget, EngineEnds,
        EngineAbstains, EngineExits, Parse, EnginesDone
<1>5. CASE Conclude
    BY <1>5
    DEF Conclude, Persist, PersistFails, QuarantineOne, QuarantineFails, SaveBaseline,
        Finish, Close
<1>6. CASE People \/ Host
    BY <1>6 DEF People, Host, Write, Touch, Delete, Lock, Unlock, Deadline, Kill
<1> QED
    BY <1>1, <1>2, <1>3, <1>4, <1>5, <1>6 DEF Next, Proceed

-----------------------------------------------------------------------------
(* The promises.                                                           *)

(* Every variable keeps its type in every behaviour of the cycle.          *)
THEOREM CycleTypeOK == Spec => []TypeOK
<1>1. Init => TypeOK
    <2> USE DEF Init, Content, Version
    <2>1. 0 \in Content /\ 0 \in 0 .. MaxFaults
        OBVIOUS
    <2>2. Init => SiteType
        BY <2>1 DEF SiteType
    <2>3. Init => WalkType
        BY <2>1 DEF WalkType
    <2>4. Init => EngineType
        BY <2>1 DEF EngineType
    <2>5. Init => ControlType
        BY DEF ControlType
    <2> QED
        BY <2>2, <2>3, <2>4, <2>5 DEF TypeOK
<1> QED
    BY <1>1, TypeStep, PTL DEF Spec

LEMMA InvariantHolds ==
    ASSUME Favourable
    PROVE  Spec => []IInv
<1>1. Init => IInv
    BY DEF Init, IInv, AllReadable, NoneFromTheFuture, SameStampSameContent,
           KnownContentAnswered, HashingEnded, After, WalkIsFaithful, SkippedIsKnown,
           NoVoteBeforeEngines, ReadIsHashed, VoteCoversTargets, VoteCoversWalk
<1>2. TypeOK /\ IInv /\ [Next]_vars => IInv'
    BY ReadableStep, FutureStep, StampStep, KnownStep, WalkStep, SkippedStep, NoVoteStep,
       ReadStep, VoteStep, FinishStep
    DEF IInv
<1> QED
    BY <1>1, <1>2, CycleTypeOK, PTL DEF Spec

(* A file the next incremental cycle skips holds a content some voting     *)
(* engine answered for: the baseline never makes a cycle believe it knows  *)
(* a file it does not (baseline.go:169-170).                               *)
THEOREM CycleKnownIsAnswered ==
    ASSUME Favourable
    PROVE  Spec => []KnownIsAnswered
<1>1. IInv => KnownIsAnswered
    BY DEF IInv, SameStampSameContent, KnownContentAnswered, KnownIsAnswered
<1> QED
    BY <1>1, InvariantHolds, PTL

(* A cycle that records itself as completed has had every entry of its     *)
(* walk that did not change since answered for (cycle.go:269-272).         *)
THEOREM CycleCompletedCovers ==
    ASSUME Favourable
    PROVE  Spec => CompletedCovers
<1>1. ASSUME TypeOK, IInv, [Next]_vars, row # "completed", row' = "completed"
      PROVE  \A f \in current :
                disk[f] # 0 /\ stamp[f] = wstamp[f] => disk[f] \in answered[f]
    <2>1. Finish /\ ~expired /\ voted
        BY <1>1
        DEF vars, Next, Proceed, Collect, RunEngines, Conclude, People, Host, Start,
            WalkRoots, WalkNothing, HashEntry, ChooseTargets, Unavailable, NothingToScan,
            StartEngine, ReadTarget, EngineEnds, EngineAbstains, EngineExits, Parse,
            EnginesDone, Persist, PersistFails, QuarantineOne, QuarantineFails,
            SaveBaseline, Finish, Close, Write, Touch, Delete, Lock, Unlock, Deadline, Kill
    <2>2. pc = "finish" /\ HashingEnded
        BY <2>1 DEF Finish, HashingEnded, After
    <2>3. ASSUME NEW f \in current, disk[f] # 0, stamp[f] = wstamp[f]
          PROVE  disk[f] \in answered[f]
        <3>1. curSha[f] = disk[f]
            BY <1>1, <2>2, <2>3 DEF IInv, WalkIsFaithful
        <3> QED
            BY <1>1, <2>1, <2>2, <2>3, <3>1 DEF IInv, VoteCoversWalk
    <2> QED
        BY <2>3
<1>2. TypeOK /\ IInv /\ [Next]_vars =>
        [ row # "completed" /\ row' = "completed" =>
            \A f \in current :
                disk[f] # 0 /\ stamp[f] = wstamp[f] => disk[f] \in answered[f] ]_vars
    BY <1>1
<1> QED
    BY <1>2, CycleTypeOK, InvariantHolds, PTL DEF Spec, CompletedCovers

-----------------------------------------------------------------------------
(* The automatic action, and the row.                                      *)

SightIsCurrent ==
    pc \in {"read", "parse"} => \A f \in File : sight[f] = 0 \/ sight[f] = disk[f]

FindingsAnswered ==
    \A e \in Engine, f \in File, s \in Version :
        <<e, f, s>> \in findings => s \in answered[f]

ConfirmedAnswered ==
    \A f \in File, s \in Version : <<f, s>> \in confirmed => s \in answered[f]

(* A confirmed verdict rests on a finding.                                 *)
LEMMA VerdictHasFinding ==
    ASSUME Quorum > 0, NEW f \in File, NEW s \in Version, <<f, s>> \in Verdicts
    PROVE  \E e \in Engine : <<e, f, s>> \in findings
<1> DEFINE E == {e \in Engine : <<e, f, s>> \in findings}
<1>1. Cardinality(E) >= Quorum
    BY DEF Verdicts
<1>2. Cardinality({}) = 0 /\ Quorum \in Nat
    BY FS_EmptySet DEF BoundAssumption
<1>3. ASSUME E = {} PROVE FALSE
    <2>1. Cardinality(E) = 0
        BY <1>2, <1>3
    <2> QED
        BY <1>1, <1>2, <2>1
<1> QED
    BY <1>3

LEMMA SightStep ==
    ASSUME {"read", "parse"} \subseteq Quiet, TypeOK, SightIsCurrent, [Next]_vars
    PROVE  SightIsCurrent'
<1> USE DEF SightIsCurrent, TypeOK, SiteType, EngineType, site, reports
<1>1. CASE UNCHANGED vars
    BY <1>1 DEF vars
<1>2. CASE \E m \in Mode : Start(m)
    BY <1>2 DEF Start
<1>3. CASE Collect
    BY <1>3 DEF Collect, WalkRoots, WalkNothing, HashEntry, ChooseTargets, Close
<1>4. CASE RunEngines
    <2>1. ASSUME NEW e \in Engine, StartEngine(e) PROVE SightIsCurrent'
        BY <2>1 DEF StartEngine
    <2>2. ASSUME NEW f \in File, ReadTarget(f) PROVE SightIsCurrent'
        BY <2>2 DEF ReadTarget
    <2>3. CASE EngineEnds \/ EngineAbstains \/ EngineExits
        BY <2>3 DEF EngineEnds, EngineAbstains, EngineExits
    <2>4. ASSUME NEW e \in Engine, Unavailable(e) \/ NothingToScan(e) PROVE SightIsCurrent'
        BY <2>4 DEF Unavailable, NothingToScan
    <2>5. CASE Parse \/ EnginesDone
        BY <2>5 DEF Parse, EnginesDone
    <2> QED
        BY <1>4, <2>1, <2>2, <2>3, <2>4, <2>5 DEF RunEngines
<1>5. CASE Conclude
    BY <1>5
    DEF Conclude, Persist, PersistFails, QuarantineOne, QuarantineFails, SaveBaseline,
        Finish, Close
<1>6. CASE People \/ Host
    BY <1>6 DEF People, Host, Edit, Write, Touch, Delete, Lock, Unlock, Deadline, Kill
<1> QED
    BY <1>1, <1>2, <1>3, <1>4, <1>5, <1>6 DEF Next, Proceed

LEMMA AnsweredStep ==
    ASSUME Quorum > 0, TypeOK, SightIsCurrent, FindingsAnswered, ConfirmedAnswered,
           [Next]_vars
    PROVE  FindingsAnswered' /\ ConfirmedAnswered'
<1> USE DEF FindingsAnswered, ConfirmedAnswered, TypeOK, SiteType, WalkType, EngineType,
            reports
<1>1. CASE UNCHANGED vars
    BY <1>1 DEF vars
<1>2. CASE \E m \in Mode : Start(m)
    BY <1>2 DEF Start
<1>3. CASE Collect
    BY <1>3 DEF Collect, WalkRoots, WalkNothing, HashEntry, ChooseTargets
<1>4. CASE Parse
    <2> DEFINE reported == {f \in targets : sight[f] \in Malicious \ {0} /\ Readable(f)}
    <2>1. findings' = findings \cup {<<engine, f, disk[f]>> : f \in reported}
        BY <1>4 DEF Parse
    <2>2. \A f \in reported : f \in File /\ sight[f] # 0 /\ sight[f] = disk[f]
        BY <1>4 DEF Parse, SightIsCurrent
    <2>3. /\ \A f \in reported : sight[f] \in answered'[f]
          /\ \A f \in File : answered[f] \subseteq answered'[f]
        BY <1>4, <2>2 DEF Parse
    <2>4. FindingsAnswered'
        BY <2>1, <2>2, <2>3
    <2>5. ConfirmedAnswered'
        BY <1>4, <2>3 DEF Parse
    <2> QED
        BY <2>4, <2>5
<1>5. CASE Persist
    <2>1. ConfirmedAnswered'
        BY <1>5, VerdictHasFinding DEF Persist
    <2> QED
        BY <1>5, <2>1 DEF Persist
<1>6. CASE RunEngines /\ ~Parse
    BY <1>6
    DEF RunEngines, Unavailable, NothingToScan, StartEngine, ReadTarget, EngineEnds,
        EngineAbstains, EngineExits, EnginesDone
<1>7. CASE Conclude /\ ~Persist
    BY <1>7
    DEF Conclude, PersistFails, QuarantineOne, QuarantineFails, SaveBaseline, Finish
<1>8. CASE People \/ Host
    BY <1>8 DEF People, Host, Write, Touch, Delete, Lock, Unlock, Deadline, Kill
<1> QED
    BY <1>1, <1>2, <1>3, <1>4, <1>5, <1>6, <1>7, <1>8 DEF Next, Proceed

(* Where nobody changes a file between an engine's reading it and the      *)
(* hashing of what it flagged, the automatic action takes only contents    *)
(* an engine has answered for (persist.go:188-189).                        *)
THEOREM CycleTakesOnlyWhatWasAnswered ==
    ASSUME {"read", "parse"} \subseteq Quiet, Quorum > 0
    PROVE  Spec => TakesOnlyWhatWasAnswered
<1> DEFINE Inv == SightIsCurrent /\ FindingsAnswered /\ ConfirmedAnswered
<1>1. Init => Inv
    BY DEF Init, SightIsCurrent, FindingsAnswered, ConfirmedAnswered
<1>2. TypeOK /\ Inv /\ [Next]_vars => Inv'
    BY SightStep, AnsweredStep
<1>3. ASSUME TypeOK, Inv, [Next]_vars, NEW f \in File, pc = "act", edits' = edits,
             disk[f] # 0, disk'[f] = 0
      PROVE  disk[f] \in answered[f]
    <2>1. PICK g \in File, s \in Version : QuarantineOne(g, s)
        <3> USE <1>3 DEF site
        <3>1. ~ UNCHANGED disk
            OBVIOUS
        <3>2. ~ (\E m \in Mode : Start(m)) /\ ~ Collect /\ ~ RunEngines /\ ~ Host
            BY <3>1
            DEF Start, Collect, WalkRoots, WalkNothing, HashEntry, ChooseTargets,
                RunEngines, Unavailable, NothingToScan, StartEngine, ReadTarget,
                EngineEnds, EngineAbstains, EngineExits, Parse, EnginesDone,
                Host, Deadline, Kill, Lock, Unlock
        <3>3. ~ People
            BY DEF People, Write, Touch, Delete, Edit, TypeOK, SiteType, Content
        <3>4. Conclude
            BY <3>1, <3>2, <3>3 DEF Next, Proceed, vars
        <3> QED
            BY <3>1, <3>4
            DEF Conclude, Persist, PersistFails, QuarantineFails, SaveBaseline, Finish
    <2>2. g = f /\ disk[f] = s /\ <<f, s>> \in confirmed
        BY <1>3, <2>1 DEF QuarantineOne, TypeOK, SiteType
    <2> QED
        BY <1>3, <2>2 DEF ConfirmedAnswered
<1>4. TypeOK /\ Inv /\ [Next]_vars =>
        [ \A f \in File : pc = "act" /\ edits' = edits /\ disk[f] # 0 /\ disk'[f] = 0
            => disk[f] \in answered[f] ]_vars
    BY <1>3
<1> QED
    BY <1>1, <1>2, <1>4, CycleTypeOK, PTL DEF Spec, TakesOnlyWhatWasAnswered

LEMMA ClosesRow ==
    ASSUME ~expired, NEW status, Close(status)
    PROVE  row' = status
BY DEF Close

(* Without the deadline every cycle that returns has closed its row.       *)
THEOREM CycleRowIsClosed ==
    ASSUME "timeout" \notin Faults
    PROVE  Spec => []ReturnedRowIsClosed
<1> DEFINE Inv == ~expired /\ ReturnedRowIsClosed
<1>1. Init => Inv
    BY DEF Init, ReturnedRowIsClosed
<1>2. Inv /\ [Next]_vars => Inv'
    <2> SUFFICES ASSUME Inv, [Next]_vars PROVE Inv'
        OBVIOUS
    <2> USE DEF ReturnedRowIsClosed
    <2>1. CASE UNCHANGED vars
        BY <2>1 DEF vars
    <2>2. CASE \E m \in Mode : Start(m)
        BY <2>2 DEF Start
    <2>3. CASE Collect
        <3>1. CASE WalkNothing
            BY <3>1, ClosesRow DEF WalkNothing
        <3>2. CASE WalkRoots
            BY <3>2 DEF WalkRoots
        <3>3. ASSUME NEW f \in File, HashEntry(f) PROVE Inv'
            BY <3>3 DEF HashEntry
        <3>4. CASE ChooseTargets
            BY <3>4 DEF ChooseTargets
        <3> QED
            BY <2>3, <3>1, <3>2, <3>3, <3>4 DEF Collect
    <2>4. CASE RunEngines
        BY <2>4
        DEF RunEngines, Unavailable, NothingToScan, StartEngine, ReadTarget, EngineEnds,
            EngineAbstains, EngineExits, Parse, EnginesDone
    <2>5. CASE Conclude
        <3>1. CASE PersistFails
            BY <3>1, ClosesRow DEF PersistFails
        <3>2. CASE Finish
            BY <3>2, ClosesRow DEF Finish
        <3>3. CASE Persist
            BY <3>3 DEF Persist
        <3>4. CASE SaveBaseline
            BY <3>4 DEF SaveBaseline
        <3>5. ASSUME NEW f \in File, NEW s \in Version,
                     QuarantineOne(f, s) \/ QuarantineFails(f, s)
              PROVE  Inv'
            BY <3>5 DEF QuarantineOne, QuarantineFails
        <3> QED
            BY <2>5, <3>1, <3>2, <3>3, <3>4, <3>5 DEF Conclude
    <2>6. CASE People \/ Host
        BY <2>6
        DEF People, Host, Write, Touch, Delete, Lock, Unlock, Deadline, Kill, Fault, Running,
            Step
    <2> QED
        BY <2>1, <2>2, <2>3, <2>4, <2>5, <2>6 DEF Next, Proceed
<1> QED
    BY <1>1, <1>2, PTL DEF Spec
=============================================================================
