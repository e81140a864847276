---------------------------- MODULE VaultProofs -----------------------------
(***************************************************************************)
(* What the vault guarantees for every set of processes, paths, contents   *)
(* and references, every distribution of duties and any number of the      *)
(* user's changes: its types, the finality of an outcome, the retention    *)
(* barrier, that every active item can be restored, that the detailed      *)
(* calls implement the ledger, that nothing stray or truncated is left     *)
(* behind, and that no content is lost.  Each theorem assumes away only    *)
(* the failures and overlaps that would break it.                          *)
(***************************************************************************)
EXTENDS Vault, TLAPS

USE DutiesAssumption, RefusedAssumption, ContentAssumption, FaultsAssumption,
    MaxEditsAssumption

-----------------------------------------------------------------------------
(* Setting one file, one copy, one status, or returning keeps the types.   *)

LEMMA DoneType ==
    ASSUME Types, NEW p \in Proc, Done(p)
    PROVE  /\ pc' \in [Proc -> {"idle"} \cup QuarantineSteps \cup RestoreSteps
                                        \cup PurgeSteps]
           /\ ref' \in [Proc -> Ref \cup {Absent}]
           /\ path' \in [Proc -> Path \cup {Absent}]
           /\ cur' \in [Proc -> Content \cup {Absent}]
           /\ buf' \in [Proc -> FileState \cup CopyState]
BY DEF Types, Done, Goto, FileState, CopyState

LEMMA DropCopyType ==
    ASSUME Types, NEW r, DropCopy(r)
    PROVE  vault' \in [Ref -> CopyState]
BY DEF Types, DropCopy, SetCopy, CopyState

LEMMA QuarantineType ==
    ASSUME TypeOK, NEW p \in Proc, Quarantine(p)
    PROVE  Types'
<1> USE DEF files, records, locals
<1>0. Types /\ LocalsSet
    BY DEF TypeOK
<1>1. ASSUME NEW f \in Path, NEW h \in Content, QHash(p, f, h) PROVE Types'
    BY <1>0, <1>1 DEF Types, QHash, Goto, QuarantineSteps
<1>2. CASE QChecks(p)
    BY <1>0, <1>2, DoneType DEF Types, QChecks, Goto, QuarantineSteps
<1>3. CASE QOpen(p)
    BY <1>0, <1>3, DoneType DEF Types, LocalsSet, QOpen, Goto, QuarantineSteps, SetCopy, CopyState
<1>4. CASE QCopy(p)
    BY <1>0, <1>4, DoneType, DropCopyType
    DEF Types, LocalsSet, QCopy, Continue, Goto, QuarantineSteps, SetCopy, CopyState, FileState
<1>5. CASE QCopyFails(p)
    BY <1>0, <1>5, DoneType, DropCopyType DEF Types, QCopyFails
<1>6. CASE QInsert(p)
    BY <1>0, <1>6 DEF Types, QInsert, Continue, Goto, QuarantineSteps, Status, Retention
<1>7. CASE QInsertFails(p)
    BY <1>0, <1>7, DoneType, DropCopyType DEF Types, QInsertFails
<1>8. CASE QRemove(p)
    BY <1>0, <1>8, DoneType
    DEF Types, QRemove, Continue, Goto, QuarantineSteps, SetFile, FileState
<1>9. CASE QUndo(p)
    BY <1>0, <1>9 DEF Types, QUndo, Continue, Goto, QuarantineSteps, SetStatus, Status
<1>10. CASE QUndrop(p)
    BY <1>0, <1>10, DoneType, DropCopyType DEF Types, QUndrop
<1> QED
    BY <1>0, <1>1, <1>2, <1>3, <1>4, <1>5, <1>6, <1>7, <1>8, <1>9, <1>10 DEF Quarantine

LEMMA RestoreType ==
    ASSUME TypeOK, NEW p \in Proc, Restore(p)
    PROVE  Types'
<1> USE DEF files, records, locals
<1>0. Types /\ LocalsSet
    BY DEF TypeOK
<1>1. ASSUME NEW r \in Ref, RGet(p, r) PROVE Types'
    BY <1>0, <1>1 DEF Types, RGet, Goto, RestoreSteps
<1>2. CASE RHash(p)
    BY <1>0, <1>2, DoneType DEF Types, RHash, Continue, Goto, RestoreSteps
<1>3. CASE RStat(p)
    BY <1>0, <1>3, DoneType DEF Types, RStat, Continue, Goto, RestoreSteps
<1>4. CASE RCreate(p)
    BY <1>0, <1>4 DEF Types, LocalsSet, RCreate, Continue, Goto, RestoreSteps, SetFile, FileState
<1>5. CASE RFill(p)
    BY <1>0, <1>5 DEF Types, LocalsSet, RFill, Continue, Goto, RestoreSteps, SetFile, FileState
<1>6. CASE RClean(p)
    BY <1>0, <1>6, DoneType DEF Types, RClean, SetFile, FileState
<1>7. CASE RMark(p)
    BY <1>0, <1>7, DoneType DEF Types, RMark, Continue, Goto, RestoreSteps, SetStatus, Status
<1>8. CASE RDrop(p)
    BY <1>0, <1>8, DoneType, DropCopyType DEF Types, RDrop
<1> QED
    BY <1>0, <1>1, <1>2, <1>3, <1>4, <1>5, <1>6, <1>7, <1>8 DEF Restore

LEMMA PurgeType ==
    ASSUME Types, NEW p \in Proc, Purge(p)
    PROVE  Types'
<1> USE DEF files, records, locals
<1>1. ASSUME NEW r \in Ref, PGet(p, r) PROVE Types'
    BY <1>1 DEF Types, PGet, PurgeSteps
<1>2. CASE PForce(p)
    BY <1>2, DoneType DEF Types, PForce, Continue, Goto, PurgeSteps, SetStatus, Status
<1>3. CASE PExpired(p)
    BY <1>3, DoneType DEF Types, PExpired, Continue, Goto, PurgeSteps, SetStatus, Status
<1>4. CASE PDrop(p)
    BY <1>4, DoneType, DropCopyType DEF Types, PDrop
<1> QED
    BY <1>1, <1>2, <1>3, <1>4 DEF Purge

LEMMA OutsideType ==
    ASSUME Types, Environment \/ (\E p \in Proc : Crash(p)) \/ UNCHANGED vars
    PROVE  Types'
<1> USE DEF files, records, locals
<1>1. ASSUME NEW p \in Proc, Crash(p) PROVE Types'
    BY <1>1, DoneType DEF Types, Crash
<1>2. ASSUME NEW r \in Ref, RetentionEnds(r) PROVE Types'
    BY <1>2 DEF Types, RetentionEnds, Retention
<1>3. ASSUME NEW r \in Ref, Rot(r) PROVE Types'
    BY <1>3 DEF Types, Rot, SetCopy, CopyState
<1>4. ASSUME NEW f \in Path, NEW x \in Content \cup {Absent}, UserChanges(f, x)
      PROVE Types'
    BY <1>4 DEF Types, UserChanges, SetFile, FileState
<1>5. CASE UNCHANGED vars
    BY <1>5 DEF Types, vars
<1> QED
    BY <1>1, <1>2, <1>3, <1>4, <1>5 DEF Environment

(* A step sets the locals it hands on, and leaves other processes' alone.  *)
LEMMA LocalsStep ==
    ASSUME TypeOK, [Next]_vars
    PROVE  LocalsSet'
<1> USE DEF locals, Continue, Goto, Done
<1>0. Types /\ LocalsSet
    BY DEF TypeOK
<1>1. ASSUME NEW p \in Proc, Quarantine(p) PROVE LocalsSet'
    <2>1. ASSUME NEW f \in Path, NEW h \in Content, QHash(p, f, h) PROVE LocalsSet'
        BY <1>0, <2>1 DEF Types, LocalsSet, QHash, QuarantineSteps
    <2>2. CASE QChecks(p)
        BY <1>0, <2>2 DEF Types, LocalsSet, QChecks, QuarantineSteps
    <2>3. CASE QOpen(p)
        BY <1>0, <2>3 DEF Types, LocalsSet, QOpen, QuarantineSteps
    <2>4. CASE QCopy(p) \/ QCopyFails(p)
        BY <1>0, <2>4 DEF Types, LocalsSet, QCopy, QCopyFails, QuarantineSteps
    <2>5. CASE QInsert(p) \/ QInsertFails(p)
        BY <1>0, <2>5 DEF Types, LocalsSet, QInsert, QInsertFails, QuarantineSteps
    <2>6. CASE QRemove(p) \/ QUndo(p) \/ QUndrop(p)
        BY <1>0, <2>6 DEF Types, LocalsSet, QRemove, QUndo, QUndrop, QuarantineSteps
    <2> QED
        BY <1>1, <2>1, <2>2, <2>3, <2>4, <2>5, <2>6 DEF Quarantine
<1>2. ASSUME NEW p \in Proc, Restore(p) PROVE LocalsSet'
    <2>1. ASSUME NEW r \in Ref, RGet(p, r) PROVE LocalsSet'
        BY <1>0, <2>1 DEF Types, LocalsSet, RGet, QuarantineSteps
    <2>2. CASE RHash(p) \/ RStat(p) \/ RCreate(p) \/ RFill(p)
        BY <1>0, <2>2
        DEF Types, LocalsSet, RHash, RStat, RCreate, RFill, QuarantineSteps
    <2>3. CASE RClean(p) \/ RMark(p) \/ RDrop(p)
        BY <1>0, <2>3 DEF Types, LocalsSet, RClean, RMark, RDrop, QuarantineSteps
    <2> QED
        BY <1>2, <2>1, <2>2, <2>3 DEF Restore
<1>3. ASSUME NEW p \in Proc, Purge(p) PROVE LocalsSet'
    <2>1. ASSUME NEW r \in Ref, PGet(p, r) PROVE LocalsSet'
        BY <1>0, <2>1 DEF Types, LocalsSet, PGet, QuarantineSteps
    <2>2. CASE PForce(p) \/ PExpired(p) \/ PDrop(p)
        BY <1>0, <2>2 DEF Types, LocalsSet, PForce, PExpired, PDrop, QuarantineSteps
    <2> QED
        BY <1>3, <2>1, <2>2 DEF Purge
<1>4. ASSUME NEW p \in Proc, Crash(p) PROVE LocalsSet'
    BY <1>0, <1>4 DEF Types, LocalsSet, Crash, QuarantineSteps
<1>5. ASSUME Environment PROVE LocalsSet'
    BY <1>0, <1>5 DEF LocalsSet, Environment, RetentionEnds, Rot, UserChanges
<1>6. CASE UNCHANGED vars
    BY <1>0, <1>6 DEF LocalsSet, vars
<1> QED
    BY <1>1, <1>2, <1>3, <1>4, <1>5, <1>6 DEF Next

(* Every variable of the vault keeps its type in every behaviour.          *)
THEOREM VaultTypeOK == Spec => []TypeOK
<1>1. Init => Types
    BY DEF Init, Types, FileState, CopyState, Status, Retention
<1>2. Init => LocalsSet
    BY DEF Init, LocalsSet, QuarantineSteps
<1>3. TypeOK /\ [Next]_vars => TypeOK'
    <2>1. TypeOK /\ [Next]_vars => Types'
        BY QuarantineType, RestoreType, PurgeType, OutsideType DEF Next, TypeOK
    <2> QED
        BY <2>1, LocalsStep DEF TypeOK
<1> QED
    BY <1>1, <1>2, <1>3, PTL DEF Spec, TypeOK

-----------------------------------------------------------------------------
(* The inductive invariant behind ActiveIsRestorable: a reference belongs  *)
(* to one quarantine until it is recorded, a copy is checked before it is  *)
(* recorded, and a copy is removed only after its record stopped being     *)
(* active.                                                                 *)

(* newRef never gives two quarantines the same reference. *)
RefsAreOwned ==
    \A p \in Proc : OwnsRef(p) =>
        /\ ref[p] \in used
        /\ \A q \in Proc : OwnsRef(q) /\ ref[q] = ref[p] => q = p

(* Only a generated reference has a record. *)
RecordedIsUsed == \A r \in Ref : status[r] # "none" => r \in used

(* The record comes with QInsert, not before. *)
FreshUntilInsert ==
    \A p \in Proc :
        pc[p] \in {"q_open", "q_copy", "q_insert"} => status[ref[p]] = "none"

(* The part of the invariant that holds under every fault. *)
Recorded == TypeOK /\ RefsAreOwned /\ RecordedIsUsed /\ FreshUntilInsert

(* The copy is verified before QInsert, and a record, once there, stays. *)
CopyBeforeRecord ==
    \A p \in Proc :
        /\ pc[p] = "q_insert" => vault[ref[p]] = cur[p]
        /\ pc[p] \in {"q_remove", "q_undo", "q_undrop"} => status[ref[p]] # "none"

(* Whoever is about to remove a copy has seen its record leave "active". *)
RecordBeforeDrop ==
    \A p \in Proc :
        pc[p] \in {"q_undrop", "r_drop", "p_drop"}
            => status[ref[p]] \in {"restored", "purged"}

Restorable ==
    /\ Recorded
    /\ CopyBeforeRecord
    /\ RecordBeforeDrop
    /\ ActiveIsRestorable

(* newRef picks a reference nobody has had, and keeps it to its quarantine. *)
LEMMA RefsStep == Recorded /\ [Next]_vars => RefsAreOwned'
<1> SUFFICES ASSUME Recorded, [Next]_vars PROVE RefsAreOwned'
    OBVIOUS
<1>0. Types /\ LocalsSet /\ RefsAreOwned
    BY DEF Recorded, TypeOK
<1> USE DEF locals, Continue, Goto, Done, OwnsRef
<1>1. ASSUME NEW p \in Proc, Quarantine(p) PROVE RefsAreOwned'
    <2>1. ASSUME NEW f \in Path, NEW h \in Content, QHash(p, f, h) PROVE RefsAreOwned'
        BY <1>0, <2>1 DEF Types, RefsAreOwned, QHash, QuarantineSteps
    <2>2. CASE QChecks(p)
        BY <1>0, <2>2 DEF Types, RefsAreOwned, QChecks, QuarantineSteps
    <2>3. CASE QOpen(p)
        BY <1>0, <2>3 DEF Types, RefsAreOwned, QOpen, QuarantineSteps
    <2>4. CASE QCopy(p) \/ QCopyFails(p)
        BY <1>0, <2>4 DEF Types, RefsAreOwned, QCopy, QCopyFails, QuarantineSteps
    <2>5. CASE QInsert(p) \/ QInsertFails(p)
        BY <1>0, <2>5 DEF Types, RefsAreOwned, QInsert, QInsertFails, QuarantineSteps
    <2>6. CASE QRemove(p) \/ QUndo(p) \/ QUndrop(p)
        BY <1>0, <2>6 DEF Types, RefsAreOwned, QRemove, QUndo, QUndrop, QuarantineSteps
    <2> QED
        BY <1>1, <2>1, <2>2, <2>3, <2>4, <2>5, <2>6 DEF Quarantine
<1>2. ASSUME NEW p \in Proc, Restore(p) PROVE RefsAreOwned'
    <2>1. ASSUME NEW r \in Ref, RGet(p, r) PROVE RefsAreOwned'
        BY <1>0, <2>1 DEF Types, RefsAreOwned, RGet, QuarantineSteps
    <2>2. CASE RHash(p) \/ RStat(p) \/ RCreate(p) \/ RFill(p)
        BY <1>0, <2>2
        DEF Types, RefsAreOwned, RHash, RStat, RCreate, RFill, QuarantineSteps
    <2>3. CASE RClean(p) \/ RMark(p) \/ RDrop(p)
        BY <1>0, <2>3 DEF Types, RefsAreOwned, RClean, RMark, RDrop, QuarantineSteps
    <2> QED
        BY <1>2, <2>1, <2>2, <2>3 DEF Restore
<1>3. ASSUME NEW p \in Proc, Purge(p) PROVE RefsAreOwned'
    <2>1. ASSUME NEW r \in Ref, PGet(p, r) PROVE RefsAreOwned'
        BY <1>0, <2>1 DEF Types, RefsAreOwned, PGet, QuarantineSteps
    <2>2. CASE PForce(p) \/ PExpired(p) \/ PDrop(p)
        BY <1>0, <2>2 DEF Types, RefsAreOwned, PForce, PExpired, PDrop, QuarantineSteps
    <2> QED
        BY <1>3, <2>1, <2>2 DEF Purge
<1>4. ASSUME NEW p \in Proc, Crash(p) PROVE RefsAreOwned'
    BY <1>0, <1>4 DEF Types, RefsAreOwned, Crash, QuarantineSteps
<1>5. ASSUME Environment PROVE RefsAreOwned'
    BY <1>0, <1>5 DEF RefsAreOwned, Environment, RetentionEnds, Rot, UserChanges
<1>6. CASE UNCHANGED vars
    BY <1>0, <1>6 DEF RefsAreOwned, vars
<1> QED
    BY <1>1, <1>2, <1>3, <1>4, <1>5, <1>6 DEF Next

(* A row is inserted under a reference its quarantine has generated.       *)
LEMMA RecordedStep == Recorded /\ [Next]_vars => RecordedIsUsed'
<1> SUFFICES ASSUME Recorded, [Next]_vars PROVE RecordedIsUsed'
    OBVIOUS
<1>0. Types /\ LocalsSet /\ RefsAreOwned /\ RecordedIsUsed
    BY DEF Recorded, TypeOK
<1> USE DEF records, SetStatus
<1>1. ASSUME NEW p \in Proc, Quarantine(p) PROVE RecordedIsUsed'
    <2>1. CASE QChecks(p)
        BY <1>0, <2>1 DEF RecordedIsUsed, QChecks
    <2>2. CASE QInsert(p)
        BY <1>0, <2>2 DEF Types, RecordedIsUsed, RefsAreOwned, OwnsRef, QuarantineSteps,
                          QInsert
    <2>3. CASE QUndo(p)
        BY <1>0, <2>3 DEF Types, RecordedIsUsed, QUndo
    <2> QED
        BY <1>0, <1>1, <2>1, <2>2, <2>3
        DEF RecordedIsUsed, Quarantine, QHash, QOpen, QCopy, QCopyFails, QInsertFails,
            QRemove, QUndrop
<1>2. ASSUME NEW p \in Proc, Restore(p) PROVE RecordedIsUsed'
    BY <1>0, <1>2 DEF Types, RecordedIsUsed, Restore, RGet, RHash, RStat, RCreate, RFill,
                      RClean, RMark, RDrop
<1>3. ASSUME NEW p \in Proc, Purge(p) PROVE RecordedIsUsed'
    BY <1>0, <1>3 DEF Types, RecordedIsUsed, Purge, PGet, PForce, PExpired, PDrop
<1>4. ASSUME NEW p \in Proc, Crash(p) PROVE RecordedIsUsed'
    BY <1>0, <1>4 DEF RecordedIsUsed, Crash
<1>5. ASSUME Environment PROVE RecordedIsUsed'
    BY <1>0, <1>5 DEF RecordedIsUsed, Environment, RetentionEnds, Rot, UserChanges
<1>6. CASE UNCHANGED vars
    BY <1>0, <1>6 DEF RecordedIsUsed, vars
<1> QED
    BY <1>1, <1>2, <1>3, <1>4, <1>5, <1>6 DEF Next

(* A fresh reference gets its record from its own quarantine only.         *)
LEMMA FreshStep == Recorded /\ [Next]_vars => FreshUntilInsert'
<1> SUFFICES ASSUME Recorded, [Next]_vars PROVE FreshUntilInsert'
    OBVIOUS
<1>0. Types /\ LocalsSet /\ RefsAreOwned /\ RecordedIsUsed /\ FreshUntilInsert
    BY DEF Recorded, TypeOK
<1> USE DEF records, locals, SetStatus, Continue, Goto, Done, Types, FreshUntilInsert
<1>1. ASSUME NEW p \in Proc, Quarantine(p) PROVE FreshUntilInsert'
    <2>1. ASSUME NEW f \in Path, NEW h \in Content, QHash(p, f, h)
          PROVE FreshUntilInsert'
        BY <1>0, <2>1 DEF QHash
    <2>2. CASE QChecks(p)
        BY <1>0, <2>2 DEF QChecks, RecordedIsUsed
    <2>3. CASE QOpen(p) \/ QCopy(p) \/ QCopyFails(p) \/ QInsertFails(p)
        BY <1>0, <2>3 DEF QOpen, QCopy, QCopyFails, QInsertFails
    <2>4. CASE QInsert(p)
        BY <1>0, <2>4 DEF QInsert, RefsAreOwned, OwnsRef, QuarantineSteps, LocalsSet
    <2>5. CASE QRemove(p) \/ QUndrop(p)
        BY <1>0, <2>5 DEF QRemove, QUndrop
    <2>6. CASE QUndo(p)
        BY <1>0, <2>6 DEF QUndo, LocalsSet
    <2> QED
        BY <1>1, <2>1, <2>2, <2>3, <2>4, <2>5, <2>6 DEF Quarantine
<1>2. ASSUME NEW p \in Proc, Restore(p) PROVE FreshUntilInsert'
    <2>1. ASSUME NEW r \in Ref, RGet(p, r) PROVE FreshUntilInsert'
        BY <1>0, <2>1 DEF RGet
    <2>2. CASE RHash(p) \/ RStat(p) \/ RCreate(p) \/ RFill(p) \/ RClean(p) \/ RDrop(p)
        BY <1>0, <2>2 DEF RHash, RStat, RCreate, RFill, RClean, RDrop
    <2>3. CASE RMark(p)
        BY <1>0, <2>3 DEF RMark, LocalsSet
    <2> QED
        BY <1>2, <2>1, <2>2, <2>3 DEF Restore
<1>3. ASSUME NEW p \in Proc, Purge(p) PROVE FreshUntilInsert'
    <2>1. ASSUME NEW r \in Ref, PGet(p, r) PROVE FreshUntilInsert'
        BY <1>0, <2>1 DEF PGet
    <2>2. CASE PForce(p) \/ PExpired(p) \/ PDrop(p)
        BY <1>0, <2>2 DEF PForce, PExpired, PDrop, LocalsSet
    <2> QED
        BY <1>3, <2>1, <2>2 DEF Purge
<1>4. ASSUME NEW p \in Proc, Crash(p) PROVE FreshUntilInsert'
    BY <1>0, <1>4 DEF Crash
<1>5. ASSUME Environment PROVE FreshUntilInsert'
    BY <1>0, <1>5 DEF Environment, RetentionEnds, Rot, UserChanges
<1>6. CASE UNCHANGED vars
    BY <1>0, <1>6 DEF vars
<1> QED
    BY <1>1, <1>2, <1>3, <1>4, <1>5, <1>6 DEF Next

(* Recorded is inductive whatever fails.                                   *)
LEMMA RecordedInv == Spec => []Recorded
<1>1. Init => Recorded
    <2> SUFFICES ASSUME Init PROVE Recorded
        OBVIOUS
    <2>1. TypeOK
        BY DEF Init, TypeOK, Types, LocalsSet, FileState, CopyState, Status, Retention,
               QuarantineSteps
    <2>2. RefsAreOwned /\ FreshUntilInsert /\ RecordedIsUsed
        BY DEF Init, RefsAreOwned, OwnsRef, QuarantineSteps, FreshUntilInsert,
               RecordedIsUsed
    <2> QED
        BY <2>1, <2>2 DEF Recorded
<1>2. Recorded /\ [Next]_vars => Recorded'
    <2> SUFFICES ASSUME Recorded, [Next]_vars PROVE Recorded'
        OBVIOUS
    <2>1. Types' /\ LocalsSet'
        BY QuarantineType, RestoreType, PurgeType, OutsideType, LocalsStep
        DEF Next, TypeOK, Recorded
    <2> QED
        BY <2>1, RefsStep, RecordedStep, FreshStep DEF Recorded, TypeOK
<1> QED
    BY <1>1, <1>2, PTL DEF Spec

-----------------------------------------------------------------------------
(* What one step may do to a record, whatever fails.                       *)

(* A restored or purged item stays so: every statement that sets a status  *)
(* asks for an active item, and the insert is of a fresh reference.        *)
THEOREM VaultOutcomeIsFinal == Spec => OutcomeIsFinal
<1> DEFINE Final(r) == status[r] \in {"restored", "purged"} => status'[r] = status[r]
<1>1. Recorded /\ [Next]_vars => \A r \in Ref : Final(r)
    <2> SUFFICES ASSUME Recorded, [Next]_vars, NEW r \in Ref PROVE Final(r)
        OBVIOUS
    <2>0. Types /\ LocalsSet /\ FreshUntilInsert
        BY DEF Recorded, TypeOK
    <2> USE DEF records, SetStatus, Types, LocalsSet
    <2>1. ASSUME NEW p \in Proc, QInsert(p) PROVE Final(r)
        BY <2>0, <2>1 DEF QInsert, FreshUntilInsert
    <2>2. ASSUME NEW p \in Proc, QUndo(p) PROVE Final(r)
        BY <2>0, <2>2 DEF QUndo
    <2>3. ASSUME NEW p \in Proc, Quarantine(p) PROVE Final(r)
        BY <2>0, <2>1, <2>2, <2>3
        DEF Quarantine, QHash, QChecks, QOpen, QCopy, QCopyFails, QInsertFails, QRemove,
            QUndrop
    <2>4. ASSUME NEW p \in Proc, Restore(p) PROVE Final(r)
        BY <2>0, <2>4 DEF Restore, RGet, RHash, RStat, RCreate, RFill, RClean, RMark, RDrop
    <2>5. ASSUME NEW p \in Proc, Purge(p) PROVE Final(r)
        BY <2>0, <2>5 DEF Purge, PGet, PForce, PExpired, PDrop
    <2>6. ASSUME NEW p \in Proc, Crash(p) PROVE Final(r)
        BY <2>6 DEF Crash
    <2>7. ASSUME Environment PROVE Final(r)
        BY <2>7 DEF Environment, RetentionEnds, Rot, UserChanges
    <2> QED
        BY <2>3, <2>4, <2>5, <2>6, <2>7 DEF Next, vars
<1> QED
    BY RecordedInv, <1>1, PTL DEF Spec, OutcomeIsFinal

(* An item inside its retention is purged only by ForcePurge: the user's   *)
(* forced purge, or the quarantine that could not remove the original.     *)
THEOREM VaultRetentionHolds == Spec => RetentionHolds
<1> DEFINE Held(r) ==
        status[r] = "quarantined" /\ status'[r] = "purged" /\ retention[r] # "over"
            => Asked(r)
<1>1. Recorded /\ [Next]_vars => \A r \in Ref : Held(r)
    <2> SUFFICES ASSUME Recorded, [Next]_vars, NEW r \in Ref PROVE Held(r)
        OBVIOUS
    <2>0. Types /\ LocalsSet
        BY DEF Recorded, TypeOK
    <2> USE DEF records, SetStatus, Types, LocalsSet
    <2>1. ASSUME NEW p \in Proc, QInsert(p) PROVE Held(r)
        BY <2>0, <2>1 DEF QInsert, Asked
    <2>2. ASSUME NEW p \in Proc, QUndo(p) PROVE Held(r)
        BY <2>0, <2>2 DEF QUndo, Asked
    <2>3. ASSUME NEW p \in Proc, Quarantine(p) PROVE Held(r)
        BY <2>0, <2>1, <2>2, <2>3
        DEF Quarantine, QHash, QChecks, QOpen, QCopy, QCopyFails, QInsertFails, QRemove,
            QUndrop
    <2>4. ASSUME NEW p \in Proc, Restore(p) PROVE Held(r)
        BY <2>0, <2>4 DEF Restore, RGet, RHash, RStat, RCreate, RFill, RClean, RMark, RDrop
    <2>5. ASSUME NEW p \in Proc, Purge(p) PROVE Held(r)
        BY <2>0, <2>5 DEF Purge, PGet, PForce, PExpired, PDrop, Asked
    <2>6. ASSUME NEW p \in Proc, Crash(p) PROVE Held(r)
        BY <2>6 DEF Crash
    <2>7. ASSUME Environment PROVE Held(r)
        BY <2>7 DEF Environment, RetentionEnds, Rot, UserChanges
    <2> QED
        BY <2>3, <2>4, <2>5, <2>6, <2>7 DEF Next, vars
<1> QED
    BY RecordedInv, <1>1, PTL DEF Spec, RetentionHolds

(* Until it is recorded, a reference's row and copy are its quarantine's   *)
(* alone; the record never goes back to "none".                            *)
LEMMA CopyStep ==
    ASSUME Restorable, [Next]_vars, "rot" \notin Faults
    PROVE  CopyBeforeRecord'
<1>0. Types /\ LocalsSet /\ RefsAreOwned /\ RecordedIsUsed /\ FreshUntilInsert
        /\ CopyBeforeRecord /\ RecordBeforeDrop
    BY DEF Restorable, Recorded, TypeOK
<1> USE DEF files, records, locals, SetStatus, Continue, Goto, Done
<1>1. ASSUME NEW p \in Proc, Quarantine(p) PROVE CopyBeforeRecord'
    <2> USE DEF Types, LocalsSet, RefsAreOwned, OwnsRef, QuarantineSteps, CopyBeforeRecord,
            FreshUntilInsert
    <2>1. ASSUME NEW f \in Path, NEW h \in Content, QHash(p, f, h)
          PROVE CopyBeforeRecord'
        BY <1>0, <2>1 DEF QHash
    <2>2. CASE QChecks(p)
        BY <1>0, <2>2 DEF QChecks, RecordedIsUsed
    <2>3. CASE QOpen(p)
        BY <1>0, <2>3 DEF QOpen, SetCopy
    <2>4. CASE QCopy(p) \/ QCopyFails(p)
        BY <1>0, <2>4 DEF QCopy, QCopyFails, SetCopy, DropCopy
    <2>5. CASE QInsert(p)
        BY <1>0, <2>5 DEF QInsert
    <2>6. CASE QInsertFails(p)
        BY <1>0, <2>6 DEF QInsertFails, SetCopy, DropCopy
    <2>7. CASE QRemove(p)
        BY <1>0, <2>7 DEF QRemove
    <2>8. CASE QUndo(p)
        BY <1>0, <2>8 DEF QUndo
    <2>9. CASE QUndrop(p)
        BY <1>0, <2>9 DEF QUndrop, SetCopy, DropCopy
    <2> QED
        BY <1>1, <2>1, <2>2, <2>3, <2>4, <2>5, <2>6, <2>7, <2>8, <2>9 DEF Quarantine
<1>2. ASSUME NEW p \in Proc, Restore(p) PROVE CopyBeforeRecord'
    <2>1. ASSUME NEW r \in Ref, RGet(p, r) PROVE CopyBeforeRecord'
        BY <1>0, <2>1 DEF Types, CopyBeforeRecord, RGet
    <2>2. CASE RHash(p) \/ RStat(p) \/ RCreate(p) \/ RFill(p) \/ RClean(p)
        BY <1>0, <2>2
        DEF Types, CopyBeforeRecord, RHash, RStat, RCreate, RFill, RClean
    <2>3. CASE RMark(p)
        BY <1>0, <2>3 DEF Types, LocalsSet, FreshUntilInsert, CopyBeforeRecord, RMark
    <2>4. CASE RDrop(p)
        BY <1>0, <2>4
        DEF Types, LocalsSet, FreshUntilInsert, CopyBeforeRecord, RecordBeforeDrop, RDrop, SetCopy, DropCopy
    <2> QED
        BY <1>2, <2>1, <2>2, <2>3, <2>4 DEF Restore
<1>3. ASSUME NEW p \in Proc, Purge(p) PROVE CopyBeforeRecord'
    <2>1. ASSUME NEW r \in Ref, PGet(p, r) PROVE CopyBeforeRecord'
        BY <1>0, <2>1 DEF Types, CopyBeforeRecord, PGet
    <2>2. CASE PForce(p) \/ PExpired(p)
        BY <1>0, <2>2 DEF Types, LocalsSet, FreshUntilInsert, CopyBeforeRecord, PForce, PExpired
    <2>3. CASE PDrop(p)
        BY <1>0, <2>3
        DEF Types, LocalsSet, FreshUntilInsert, CopyBeforeRecord, RecordBeforeDrop, PDrop, SetCopy, DropCopy
    <2> QED
        BY <1>3, <2>1, <2>2, <2>3 DEF Purge
<1>4. ASSUME NEW p \in Proc, Crash(p) PROVE CopyBeforeRecord'
    BY <1>0, <1>4 DEF Types, CopyBeforeRecord, Crash
<1>5. ASSUME Environment PROVE CopyBeforeRecord'
    BY <1>0, <1>5 DEF CopyBeforeRecord, Environment, RetentionEnds, Rot, UserChanges
<1>6. CASE UNCHANGED vars
    BY <1>0, <1>6 DEF CopyBeforeRecord, vars
<1> QED
    BY <1>1, <1>2, <1>3, <1>4, <1>5, <1>6 DEF Next

(* With a database that answers, every copy is dropped by an operation     *)
(* whose record is already final, and a final record stays final.          *)
LEMMA DropStep ==
    ASSUME Restorable, [Next]_vars, "db" \notin Faults
    PROVE  RecordBeforeDrop'
<1>0. Types /\ LocalsSet /\ FreshUntilInsert /\ CopyBeforeRecord /\ RecordBeforeDrop
    BY DEF Restorable, Recorded, TypeOK
<1> USE DEF records, locals, SetStatus, Continue, Goto, Done, Types, RecordBeforeDrop
<1>1. ASSUME NEW p \in Proc, Quarantine(p) PROVE RecordBeforeDrop'
    <2>1. ASSUME NEW f \in Path, NEW h \in Content, QHash(p, f, h)
          PROVE RecordBeforeDrop'
        BY <1>0, <2>1 DEF QHash
    <2>2. CASE QChecks(p) \/ QOpen(p) \/ QCopy(p) \/ QCopyFails(p)
        BY <1>0, <2>2 DEF QChecks, QOpen, QCopy, QCopyFails
    <2>3. CASE QInsert(p)
        BY <1>0, <2>3 DEF QInsert, FreshUntilInsert, LocalsSet
    <2>4. CASE QInsertFails(p) \/ QRemove(p) \/ QUndrop(p)
        BY <1>0, <2>4 DEF QInsertFails, QRemove, QUndrop
    <2>5. CASE QUndo(p)
        BY <1>0, <2>5 DEF QUndo, CopyBeforeRecord, LocalsSet, Status
    <2> QED
        BY <1>1, <2>1, <2>2, <2>3, <2>4, <2>5 DEF Quarantine
<1>2. ASSUME NEW p \in Proc, Restore(p) PROVE RecordBeforeDrop'
    <2>1. ASSUME NEW r \in Ref, RGet(p, r) PROVE RecordBeforeDrop'
        BY <1>0, <2>1 DEF RGet
    <2>2. CASE RHash(p) \/ RStat(p) \/ RCreate(p) \/ RFill(p) \/ RClean(p) \/ RDrop(p)
        BY <1>0, <2>2 DEF RHash, RStat, RCreate, RFill, RClean, RDrop
    <2>3. CASE RMark(p)
        BY <1>0, <2>3 DEF RMark, LocalsSet
    <2> QED
        BY <1>2, <2>1, <2>2, <2>3 DEF Restore
<1>3. ASSUME NEW p \in Proc, Purge(p) PROVE RecordBeforeDrop'
    <2>1. ASSUME NEW r \in Ref, PGet(p, r) PROVE RecordBeforeDrop'
        BY <1>0, <2>1 DEF PGet
    <2>2. CASE PForce(p) \/ PExpired(p)
        BY <1>0, <2>2 DEF PForce, PExpired, LocalsSet
    <2>3. CASE PDrop(p)
        BY <1>0, <2>3 DEF PDrop
    <2> QED
        BY <1>3, <2>1, <2>2, <2>3 DEF Purge
<1>4. ASSUME NEW p \in Proc, Crash(p) PROVE RecordBeforeDrop'
    BY <1>0, <1>4 DEF Crash
<1>5. ASSUME Environment PROVE RecordBeforeDrop'
    BY <1>0, <1>5 DEF Environment, RetentionEnds, Rot, UserChanges
<1>6. CASE UNCHANGED vars
    BY <1>0, <1>6 DEF vars
<1> QED
    BY <1>1, <1>2, <1>3, <1>4, <1>5, <1>6 DEF Next

(* A record becomes active over a verified copy, and no copy of an active  *)
(* item is touched: the ones that are belong to unrecorded references or   *)
(* to final records.                                                       *)
LEMMA ActiveStep ==
    ASSUME Restorable, [Next]_vars, "rot" \notin Faults
    PROVE  ActiveIsRestorable'
<1>0. Types /\ LocalsSet /\ FreshUntilInsert /\ CopyBeforeRecord /\ RecordBeforeDrop
        /\ ActiveIsRestorable
    BY DEF Restorable, Recorded, TypeOK
<1> USE DEF files, records, SetStatus, SetCopy, DropCopy, Types, ActiveIsRestorable
<1>1. ASSUME NEW p \in Proc, Quarantine(p) PROVE ActiveIsRestorable'
    <2> USE DEF LocalsSet, CopyBeforeRecord, FreshUntilInsert
    <2>1. CASE QOpen(p)
        BY <1>0, <2>1 DEF QOpen
    <2>2. CASE QCopy(p)
        BY <1>0, <2>2 DEF QCopy
    <2>3. CASE QCopyFails(p) \/ QInsertFails(p)
        <3>1. status[ref[p]] = "none" /\ DropCopy(ref[p]) /\ UNCHANGED records
            BY <1>0, <2>3 DEF QCopyFails, QInsertFails
        <3> QED
            BY <1>0, <3>1
    <2>4. CASE QInsert(p)
        BY <1>0, <2>4 DEF QInsert
    <2>5. CASE QUndo(p)
        BY <1>0, <2>5 DEF QUndo
    <2>6. CASE QUndrop(p)
        BY <1>0, <2>6 DEF QUndrop, RecordBeforeDrop
    <2> QED
        BY <1>0, <1>1, <2>1, <2>2, <2>3, <2>4, <2>5, <2>6
        DEF Quarantine, QHash, QChecks, QRemove
<1>2. ASSUME NEW p \in Proc, Restore(p) PROVE ActiveIsRestorable'
    <2>1. CASE RMark(p)
        BY <1>0, <2>1 DEF RMark
    <2>2. CASE RDrop(p)
        BY <1>0, <2>2 DEF RDrop, RecordBeforeDrop, LocalsSet
    <2> QED
        BY <1>0, <1>2, <2>1, <2>2
        DEF Restore, RGet, RHash, RStat, RCreate, RFill, RClean
<1>3. ASSUME NEW p \in Proc, Purge(p) PROVE ActiveIsRestorable'
    <2>1. CASE PForce(p) \/ PExpired(p)
        BY <1>0, <2>1 DEF PForce, PExpired
    <2>2. CASE PDrop(p)
        BY <1>0, <2>2 DEF PDrop, RecordBeforeDrop, LocalsSet
    <2> QED
        BY <1>0, <1>3, <2>1, <2>2 DEF Purge, PGet
<1>4. ASSUME NEW p \in Proc, Crash(p) PROVE ActiveIsRestorable'
    BY <1>0, <1>4 DEF Crash
<1>5. ASSUME Environment PROVE ActiveIsRestorable'
    BY <1>0, <1>5 DEF Environment, RetentionEnds, Rot, UserChanges
<1>6. CASE UNCHANGED vars
    BY <1>0, <1>6 DEF vars
<1> QED
    BY <1>1, <1>2, <1>3, <1>4, <1>5, <1>6 DEF Next

LEMMA RestorableInv ==
    ASSUME "db" \notin Faults, "rot" \notin Faults
    PROVE  Spec => []Restorable
<1>1. Init => CopyBeforeRecord /\ RecordBeforeDrop /\ ActiveIsRestorable
    BY DEF Init, CopyBeforeRecord, RecordBeforeDrop, ActiveIsRestorable
<1>2. Recorded /\ Recorded' /\ Restorable /\ [Next]_vars => Restorable'
    BY CopyStep, DropStep, ActiveStep DEF Restorable
<1>3. Init /\ Recorded => Restorable
    BY <1>1 DEF Restorable
<1> QED
    BY RecordedInv, <1>2, <1>3, PTL DEF Spec

(* Every active item of the vault has an intact copy behind it, through    *)
(* every interleaving of quarantines, restores, purges, the user's changes *)
(* and kills, while the database answers and the vault's disk does not     *)
(* alter what it was given; full disks and failing removals are allowed.   *)
THEOREM VaultRestorable ==
    ASSUME "db" \notin Faults, "rot" \notin Faults
    PROVE  Spec => []ActiveIsRestorable
<1>1. Restorable => ActiveIsRestorable
    BY DEF Restorable
<1> QED
    BY RestorableInv, <1>1, PTL

-----------------------------------------------------------------------------
(* The refinement of the ledger: every step of the vault is a step of the  *)
(* ledger or none.                                                         *)

LEMMA InitLedger == Init => Ledger!Init
BY DEF Init, Ledger!Init, Asked

(* What the ledger sees of a step. *)
HeldCopy == [r \in Ref |-> IF status[r] = "quarantined" THEN vault[r] ELSE Absent]
AskedFor == [r \in Ref |-> Asked(r)]

(* A process that is at no forced purge before or after its step leaves    *)
(* every answer of Asked alone.                                            *)
LEMMA AskedKept ==
    ASSUME Types, NEW p \in Proc, pc[p] \notin {"p_force", "q_undo"},
           pc'[p] \notin {"p_force", "q_undo"},
           \A q \in Proc \ {p} : pc'[q] = pc[q] /\ ref'[q] = ref[q]
    PROVE  UNCHANGED AskedFor
<1>1. \A r \in Ref : Asked(r)' = Asked(r)
    BY DEF Asked
<1> QED
    BY <1>1 DEF AskedFor

(* A process that reaches or leaves one changes the answer for its own     *)
(* reference at most.                                                      *)
LEMMA AskedOthers ==
    ASSUME Types, NEW p \in Proc, NEW r \in Ref,
           pc[p] \in {"p_force", "q_undo"} => ref[p] = r,
           pc'[p] \in {"p_force", "q_undo"} => ref'[p] = r,
           \A q \in Proc \ {p} : pc'[q] = pc[q] /\ ref'[q] = ref[q]
    PROVE  \A s \in Ref \ {r} : Asked(s)' = Asked(s)
BY DEF Asked

LEMMA AskedOnce ==
    ASSUME Types, NEW p \in Proc, NEW r \in Ref,
           pc[p] \in {"p_force", "q_undo"} => ref[p] = r,
           pc'[p] \in {"p_force", "q_undo"} => ref'[p] = r,
           \A q \in Proc \ {p} : pc'[q] = pc[q] /\ ref'[q] = ref[q]
    PROVE  AskedFor' \in {AskedFor, [AskedFor EXCEPT ![r] = ~@]}
<1>1. \A s \in Ref \ {r} : Asked(s)' = Asked(s)
    BY AskedOthers
<1>2. Asked(r) \in BOOLEAN /\ Asked(r)' \in BOOLEAN
    BY DEF Asked
<1>3. CASE Asked(r)' = Asked(r)
    BY <1>1, <1>3 DEF AskedFor
<1>4. CASE Asked(r)' # Asked(r)
    <2>1. Asked(r)' = ~Asked(r)
        BY <1>2, <1>4
    <2>2. AskedFor' = [s \in Ref |-> IF s = r THEN ~Asked(r) ELSE Asked(s)]
        BY <1>1, <2>1 DEF AskedFor
    <2>3. [AskedFor EXCEPT ![r] = ~@] = [s \in Ref |-> IF s = r THEN ~Asked(r) ELSE Asked(s)]
        BY DEF AskedFor
    <2> QED
        BY <2>2, <2>3
<1> QED
    BY <1>3, <1>4

(* A step that leaves the records and every active copy alone is at most   *)
(* somebody's asking.                                                      *)
LEMMA OnlyAsks ==
    ASSUME NEW r \in Ref, UNCHANGED records, UNCHANGED HeldCopy,
           AskedFor' \in {AskedFor, [AskedFor EXCEPT ![r] = ~@]}
    PROVE  [Ledger!Next]_(Ledger!ledger)
<1> USE DEF records, HeldCopy, AskedFor, Ledger!ledger, Ledger!record
<1>1. CASE AskedFor' = AskedFor
    BY <1>1
<1>2. CASE AskedFor' = [AskedFor EXCEPT ![r] = ~@]
    <2>1. Ledger!Ask(r)
        BY <1>2 DEF Ledger!Ask
    <2> QED
        BY <2>1 DEF Ledger!Next
<1> QED
    BY <1>1, <1>2

LEMMA Unseen ==
    ASSUME UNCHANGED records, UNCHANGED HeldCopy, UNCHANGED AskedFor
    PROVE  UNCHANGED Ledger!ledger
BY DEF records, HeldCopy, AskedFor, Ledger!ledger, Ledger!record

(* A change of a copy that is not active stays out of sight.               *)
LEMMA HeldCopyKept ==
    ASSUME Types, UNCHANGED records, NEW r \in Ref, status[r] # "quarantined",
           \A s \in Ref \ {r} : vault'[s] = vault[s]
    PROVE  UNCHANGED HeldCopy
BY DEF HeldCopy, records

(* The one statement that purges an active item.                           *)
LEMMA PurgeRefines ==
    ASSUME Types, NEW r \in Ref, status[r] = "quarantined", SetStatus(r, "purged"),
           UNCHANGED vault, retention[r] = "over" \/ Asked(r),
           \A s \in Ref \ {r} : Asked(s)' = Asked(s), Asked(r)' => Asked(r)
    PROVE  Ledger!Purge(r)
<1>1. HeldCopy' = [HeldCopy EXCEPT ![r] = Absent]
    BY DEF HeldCopy, SetStatus, Types
<1>2. Asked(r) \in BOOLEAN /\ Asked(r)' \in BOOLEAN
    BY DEF Asked
<1>3. AskedFor' \in {AskedFor, [AskedFor EXCEPT ![r] = FALSE]}
    <2>1. CASE Asked(r)' = Asked(r)
        BY <2>1 DEF AskedFor
    <2>2. CASE Asked(r)' = FALSE
        BY <2>2 DEF AskedFor
    <2> QED
        BY <1>2, <2>1, <2>2
<1> QED
    BY <1>1, <1>3
    DEF SetStatus, HeldCopy, AskedFor, Ledger!Purge, Ledger!Becomes, Ledger!record

(* A step of the ledger, named by its reference.                           *)
LEMMA LedgerStep ==
    ASSUME NEW r \in Ref,
           \/ \E f \in Path, c \in Content : Ledger!Take(r, f, c)
           \/ Ledger!GiveBack(r) \/ Ledger!Purge(r)
    PROVE  Ledger!Next
BY DEF Ledger!Next

LEMMA QuarantineRefines ==
    ASSUME Restorable, "db" \notin Faults, NEW p \in Proc, Quarantine(p)
    PROVE  [Ledger!Next]_(Ledger!ledger)
<1>0. /\ Types /\ LocalsSet /\ FreshUntilInsert /\ CopyBeforeRecord
      /\ RecordBeforeDrop
    BY DEF Restorable, Recorded, TypeOK
<1> USE DEF files, locals, Continue, Goto, Done
<1>1. ASSUME NEW f \in Path, NEW h \in Content, QHash(p, f, h)
      PROVE  UNCHANGED Ledger!ledger
    <2>1. UNCHANGED records /\ UNCHANGED HeldCopy
        BY <1>1 DEF QHash, HeldCopy, records
    <2>2. UNCHANGED AskedFor
        BY <1>0, <1>1, AskedKept DEF QHash, Types
    <2> QED
        BY <2>1, <2>2, Unseen
<1>2. CASE QChecks(p)
    <2>1. UNCHANGED records /\ UNCHANGED HeldCopy
        BY <1>2 DEF QChecks, HeldCopy, records
    <2>2. UNCHANGED AskedFor
        BY <1>0, <1>2, AskedKept DEF QChecks, Types
    <2> QED
        BY <2>1, <2>2, Unseen
<1>3. CASE QOpen(p) \/ QCopy(p) \/ QCopyFails(p) \/ QInsertFails(p)
    <2>1. ref[p] \in Ref /\ status[ref[p]] = "none" /\ UNCHANGED records
        BY <1>0, <1>3
        DEF LocalsSet, FreshUntilInsert, QOpen, QCopy, QCopyFails, QInsertFails
    <2>2. \A s \in Ref \ {ref[p]} : vault'[s] = vault[s]
        BY <1>0, <1>3
        DEF QOpen, QCopy, QCopyFails, QInsertFails, SetCopy, DropCopy, Types
    <2>3. UNCHANGED AskedFor
        BY <1>0, <1>3, AskedKept DEF QOpen, QCopy, QCopyFails, QInsertFails, Types
    <2> QED
        BY <1>0, <2>1, <2>2, <2>3, HeldCopyKept, Unseen
<1>4. CASE QInsert(p)
    <2>1. /\ ref[p] \in Ref /\ path[p] \in Path /\ cur[p] \in Content
          /\ status[ref[p]] = "none" /\ vault[ref[p]] = cur[p]
        BY <1>0, <1>4
        DEF LocalsSet, FreshUntilInsert, CopyBeforeRecord, QInsert, QuarantineSteps
    <2>2. UNCHANGED AskedFor
        BY <1>0, <1>4, AskedKept DEF QInsert, Types
    <2>3. HeldCopy' = [HeldCopy EXCEPT ![ref[p]] = cur[p]]
        BY <1>0, <1>4, <2>1 DEF QInsert, Types, HeldCopy
    <2>4. PICK r \in Ref, f \in Path, c \in Content : ref[p] = r /\ path[p] = f /\ cur[p] = c
        BY <2>1
    <2>5. Ledger!Take(r, f, c)
        BY <1>4, <2>1, <2>2, <2>3, <2>4
        DEF QInsert, Ledger!Take, Ledger!Becomes, HeldCopy, AskedFor
    <2> QED
        BY <2>5, LedgerStep
<1>5. CASE QRemove(p)
    <2>1. UNCHANGED records /\ UNCHANGED HeldCopy /\ ref[p] \in Ref
        BY <1>0, <1>5 DEF QRemove, HeldCopy, records, LocalsSet
    <2>2. AskedFor' \in {AskedFor, [AskedFor EXCEPT ![ref[p]] = ~@]}
        BY <1>0, <1>5, <2>1, AskedOnce DEF QRemove, Types
    <2> QED
        BY <2>1, <2>2, OnlyAsks
<1>6. CASE QUndo(p)
    <2>1. ref[p] \in Ref
        BY <1>0, <1>6 DEF QUndo, LocalsSet
    <2>2. AskedFor' \in {AskedFor, [AskedFor EXCEPT ![ref[p]] = ~@]}
        BY <1>0, <1>6, <2>1, AskedOnce DEF QUndo, Types
    <2>3. CASE UNCHANGED records
        BY <1>6, <2>1, <2>2, <2>3, OnlyAsks DEF QUndo, HeldCopy, records
    <2>4. CASE status[ref[p]] = "quarantined" /\ SetStatus(ref[p], "purged")
        <3>1. Asked(ref[p]) /\ UNCHANGED vault
            BY <1>6 DEF QUndo, Asked
        <3>2. PICK r \in Ref : ref[p] = r
            BY <2>1
        <3>3. \A s \in Ref \ {r} : Asked(s)' = Asked(s)
            BY <1>0, <1>6, <3>2, AskedOthers DEF QUndo, Types
        <3>4. Ledger!Purge(r)
            BY <1>0, <2>4, <3>1, <3>2, <3>3, PurgeRefines DEF Asked
        <3> QED
            BY <3>4, LedgerStep
    <2> QED
        BY <1>6, <2>3, <2>4 DEF QUndo
<1>7. CASE QUndrop(p)
    <2>1. ref[p] \in Ref /\ status[ref[p]] # "quarantined" /\ UNCHANGED records
        BY <1>0, <1>7 DEF LocalsSet, RecordBeforeDrop, QUndrop
    <2>2. \A s \in Ref \ {ref[p]} : vault'[s] = vault[s]
        BY <1>0, <1>7 DEF QUndrop, SetCopy, DropCopy, Types
    <2>3. UNCHANGED AskedFor
        BY <1>0, <1>7, AskedKept DEF QUndrop, Types
    <2> QED
        BY <1>0, <2>1, <2>2, <2>3, HeldCopyKept, Unseen
<1> QED
    BY <1>1, <1>2, <1>3, <1>4, <1>5, <1>6, <1>7 DEF Quarantine

LEMMA RestoreRefines ==
    ASSUME Restorable, "db" \notin Faults, NEW p \in Proc, Restore(p)
    PROVE  [Ledger!Next]_(Ledger!ledger)
<1>0. Types /\ LocalsSet /\ RecordBeforeDrop
    BY DEF Restorable, Recorded, TypeOK
<1> USE DEF files, locals, Continue, Goto, Done
<1>1. UNCHANGED AskedFor
    BY <1>0, AskedKept
    DEF Restore, RGet, RHash, RStat, RCreate, RFill, RClean, RMark, RDrop, Types
<1>2. CASE UNCHANGED <<vault, records>>
    BY <1>1, <1>2, Unseen DEF HeldCopy, records
<1>3. CASE RMark(p) /\ ~UNCHANGED <<vault, records>>
    <2>1. /\ ref[p] \in Ref /\ status[ref[p]] = "quarantined"
          /\ SetStatus(ref[p], "restored") /\ UNCHANGED vault
        BY <1>0, <1>3 DEF RMark, LocalsSet
    <2>2. HeldCopy' = [HeldCopy EXCEPT ![ref[p]] = Absent]
        BY <1>0, <2>1 DEF HeldCopy, SetStatus, Types
    <2>3. PICK r \in Ref : ref[p] = r
        BY <2>1
    <2>4. Ledger!GiveBack(r)
        BY <1>1, <2>1, <2>2, <2>3
        DEF SetStatus, HeldCopy, AskedFor, Ledger!GiveBack, Ledger!Becomes, Ledger!record
    <2> QED
        BY <2>4, LedgerStep
<1>4. CASE RDrop(p)
    <2>1. ref[p] \in Ref /\ status[ref[p]] # "quarantined" /\ UNCHANGED records
        BY <1>0, <1>4 DEF LocalsSet, RecordBeforeDrop, RDrop
    <2>2. \A s \in Ref \ {ref[p]} : vault'[s] = vault[s]
        BY <1>0, <1>4 DEF RDrop, SetCopy, DropCopy, Types
    <2> QED
        BY <1>0, <1>1, <2>1, <2>2, HeldCopyKept, Unseen
<1> QED
    BY <1>2, <1>3, <1>4
    DEF Restore, RGet, RHash, RStat, RCreate, RFill, RClean, records

LEMMA PurgesRefine ==
    ASSUME Restorable, "db" \notin Faults, NEW p \in Proc, Purge(p)
    PROVE  [Ledger!Next]_(Ledger!ledger)
<1>0. Types /\ LocalsSet /\ RecordBeforeDrop
    BY DEF Restorable, Recorded, TypeOK
<1> USE DEF files, locals, Continue, Goto, Done
<1>1. ASSUME NEW r \in Ref, PGet(p, r) PROVE [Ledger!Next]_(Ledger!ledger)
    <2>1. UNCHANGED records /\ UNCHANGED HeldCopy
        BY <1>1 DEF PGet, HeldCopy, records
    <2>2. AskedFor' \in {AskedFor, [AskedFor EXCEPT ![r] = ~@]}
        BY <1>0, <1>1, AskedOnce DEF PGet, Types
    <2> QED
        BY <2>1, <2>2, OnlyAsks
<1>2. CASE PForce(p) \/ PExpired(p)
    <2>1. ref[p] \in Ref /\ UNCHANGED vault
        BY <1>0, <1>2 DEF PForce, PExpired, LocalsSet
    <2>2. AskedFor' \in {AskedFor, [AskedFor EXCEPT ![ref[p]] = ~@]}
        BY <1>0, <1>2, <2>1, AskedOnce DEF PForce, PExpired, Types
    <2>3. CASE UNCHANGED records
        BY <2>1, <2>2, <2>3, OnlyAsks DEF HeldCopy, records
    <2>4. CASE status[ref[p]] = "quarantined" /\ SetStatus(ref[p], "purged")
        <3>1. retention[ref[p]] = "over" \/ Asked(ref[p])
            <4>1. CASE PForce(p)
                BY <4>1 DEF PForce, Asked
            <4>2. CASE PExpired(p) /\ retention[ref[p]] # "over"
                <5>1. UNCHANGED records
                    BY <4>2 DEF PExpired
                <5> QED
                    BY <1>0, <2>1, <2>4, <5>1 DEF SetStatus, records, Types
            <4> QED
                BY <1>2, <4>1, <4>2
        <3>2. PICK r \in Ref : ref[p] = r
            BY <2>1
        <3>3. \A s \in Ref \ {r} : Asked(s)' = Asked(s)
            BY <1>0, <1>2, <3>2, AskedOthers DEF PForce, PExpired, Types
        <3>4. Asked(r)' => Asked(r)
            BY <1>0, <1>2, <3>2 DEF PForce, PExpired, Types, Asked
        <3>5. Ledger!Purge(r)
            BY <1>0, <2>1, <2>4, <3>1, <3>2, <3>3, <3>4, PurgeRefines DEF Asked
        <3> QED
            BY <3>5, LedgerStep
    <2> QED
        BY <1>2, <2>3, <2>4 DEF PForce, PExpired
<1>3. CASE PDrop(p)
    <2>1. ref[p] \in Ref /\ status[ref[p]] # "quarantined" /\ UNCHANGED records
        BY <1>0, <1>3 DEF LocalsSet, RecordBeforeDrop, PDrop
    <2>2. \A s \in Ref \ {ref[p]} : vault'[s] = vault[s]
        BY <1>0, <1>3 DEF PDrop, SetCopy, DropCopy, Types
    <2>3. UNCHANGED AskedFor
        BY <1>0, <1>3, AskedKept DEF PDrop, Types
    <2> QED
        BY <1>0, <2>1, <2>2, <2>3, HeldCopyKept, Unseen
<1> QED
    BY <1>1, <1>2, <1>3 DEF Purge

LEMMA OutsideRefines ==
    ASSUME Restorable, "rot" \notin Faults,
           Environment \/ (\E p \in Proc : Crash(p)) \/ UNCHANGED vars
    PROVE  [Ledger!Next]_(Ledger!ledger)
<1>0. Types /\ LocalsSet
    BY DEF Restorable, Recorded, TypeOK
<1>1. ASSUME NEW p \in Proc, Crash(p) PROVE [Ledger!Next]_(Ledger!ledger)
    <2>1. UNCHANGED records /\ UNCHANGED HeldCopy
        BY <1>1 DEF Crash, HeldCopy, records, files
    <2>2. CASE pc[p] \in {"p_force", "q_undo"}
        <3>1. ref[p] \in Ref
            BY <1>0, <2>2 DEF LocalsSet
        <3>2. AskedFor' \in {AskedFor, [AskedFor EXCEPT ![ref[p]] = ~@]}
            BY <1>0, <1>1, <3>1, AskedOnce DEF Crash, Done, Goto, Types
        <3> QED
            BY <2>1, <3>1, <3>2, OnlyAsks
    <2>3. CASE pc[p] \notin {"p_force", "q_undo"}
        BY <1>0, <1>1, <2>1, <2>3, AskedKept, Unseen DEF Crash, Done, Goto, Types
    <2> QED
        BY <2>2, <2>3
<1>2. ASSUME NEW r \in Ref, RetentionEnds(r) PROVE [Ledger!Next]_(Ledger!ledger)
    <2>1. UNCHANGED HeldCopy /\ UNCHANGED AskedFor
        BY <1>2 DEF RetentionEnds, HeldCopy, AskedFor, Asked, files, locals
    <2>2. Ledger!RetentionEnds(r)
        BY <1>2, <2>1 DEF RetentionEnds, Ledger!RetentionEnds, Ledger!record, HeldCopy, AskedFor
    <2> QED
        BY <2>2 DEF Ledger!Next
<1>3. ASSUME NEW f \in Path, NEW x \in Content \cup {Absent}, UserChanges(f, x)
      PROVE  UNCHANGED Ledger!ledger
    <2>1. UNCHANGED records /\ UNCHANGED HeldCopy /\ UNCHANGED AskedFor
        BY <1>3 DEF UserChanges, HeldCopy, AskedFor, Asked, records, locals
    <2> QED
        BY <2>1, Unseen
<1>4. CASE UNCHANGED vars
    <2>1. UNCHANGED records /\ UNCHANGED HeldCopy /\ UNCHANGED AskedFor
        BY <1>4 DEF vars, HeldCopy, AskedFor, Asked, records, locals, files
    <2> QED
        BY <2>1, Unseen
<1> QED
    BY <1>1, <1>2, <1>3, <1>4 DEF Environment, Rot

(* The vault implements the ledger for any processes, duties, paths,       *)
(* contents, references and user changes, with full disks, failing         *)
(* removals and kills, while the database answers and no copy rots.        *)
THEOREM VaultImplementsLedger ==
    ASSUME "db" \notin Faults, "rot" \notin Faults
    PROVE  Spec => ImplementsLedger
<1>1. Restorable /\ [Next]_vars => [Ledger!Next]_(Ledger!ledger)
    BY QuarantineRefines, RestoreRefines, PurgesRefine, OutsideRefines DEF Next
<1> QED
    BY InitLedger, RestorableInv, <1>1, PTL DEF Spec, ImplementsLedger, Ledger!Spec
-----------------------------------------------------------------------------
(* How a step touches what others rely on: the locals of one process, the  *)
(* files by five actions only, and a record once it is there.              *)

Moves(p) == Quarantine(p) \/ Restore(p) \/ Purge(p) \/ Crash(p)

Stays(p) ==
    /\ pc'[p] = pc[p] /\ ref'[p] = ref[p] /\ path'[p] = path[p]
    /\ cur'[p] = cur[p] /\ buf'[p] = buf[p]

LEMMA OthersStay ==
    ASSUME Types, NEW p \in Proc, Moves(p), NEW q \in Proc \ {p}
    PROVE  Stays(q)
<1> USE DEF Types, Stays, locals, Continue, Goto, Done
<1>1. CASE Quarantine(p)
    BY <1>1
    DEF Quarantine, QHash, QChecks, QOpen, QCopy, QCopyFails, QInsert, QInsertFails,
        QRemove, QUndo, QUndrop
<1>2. CASE Restore(p)
    BY <1>2 DEF Restore, RGet, RHash, RStat, RCreate, RFill, RClean, RMark, RDrop
<1>3. CASE Purge(p)
    BY <1>3 DEF Purge, PGet, PForce, PExpired, PDrop
<1>4. CASE Crash(p)
    BY <1>4 DEF Crash
<1> QED
    BY <1>1, <1>2, <1>3, <1>4 DEF Moves

(* Any step of the vault is somebody's or leaves a process where it is.    *)
LEMMA StaysOrMoves ==
    ASSUME Types, [Next]_vars, NEW q \in Proc
    PROVE  Stays(q) \/ Moves(q)
<1>1. ASSUME NEW p \in Proc, Moves(p) PROVE Stays(q) \/ Moves(q)
    BY <1>1, OthersStay
<1>2. CASE Environment \/ UNCHANGED vars
    BY <1>2 DEF Environment, RetentionEnds, Rot, UserChanges, vars, locals, Stays
<1> QED
    BY <1>1, <1>2 DEF Next, Moves

(* The five ways a file changes. *)
Removed(f) ==
    \E p \in Proc : QRemove(p) /\ path[p] = f /\ disk'[f] = Absent
Created(f) ==
    \E p \in Proc :
        RCreate(p) /\ origin[ref[p]] = f /\ disk[f] = Absent /\ disk'[f] = p
Filled(f) ==
    \E p \in Proc :
        /\ RFill(p) /\ origin[ref[p]] = f
        /\ disk[f] = p /\ disk'[f] = buf[p] /\ buf[p] = sha[ref[p]]
Cleaned(f) ==
    \E p \in Proc : RClean(p) /\ origin[ref[p]] = f /\ disk'[f] = Absent
Edited(f) ==
    \E x \in Content \cup {Absent} : UserChanges(f, x) /\ disk'[f] = x

LEMMA FileChanges ==
    ASSUME Types, [Next]_vars, NEW f \in Path, disk'[f] # disk[f]
    PROVE  Removed(f) \/ Created(f) \/ Filled(f) \/ Cleaned(f) \/ Edited(f)
<1> USE DEF Types, files, SetFile
<1>1. ASSUME NEW p \in Proc, Quarantine(p) PROVE Removed(f)
    <2>1. QRemove(p)
        BY <1>1
        DEF Quarantine, QHash, QChecks, QOpen, QCopy, QCopyFails, QInsert, QInsertFails,
            QRemove, QUndo, QUndrop
    <2> QED
        BY <2>1 DEF QRemove, Removed
<1>2. ASSUME NEW p \in Proc, Restore(p) PROVE Created(f) \/ Filled(f) \/ Cleaned(f)
    <2>1. RCreate(p) \/ RFill(p) \/ RClean(p)
        BY <1>2 DEF Restore, RGet, RHash, RStat, RCreate, RFill, RClean, RMark, RDrop
    <2>2. CASE RCreate(p)
        BY <2>2 DEF RCreate, Created
    <2>3. CASE RFill(p)
        BY <2>3 DEF RFill, Filled
    <2>4. CASE RClean(p)
        BY <2>4 DEF RClean, Cleaned
    <2> QED
        BY <2>1, <2>2, <2>3, <2>4
<1>3. ASSUME NEW p \in Proc, Purge(p) \/ Crash(p) PROVE FALSE
    BY <1>3 DEF Purge, PGet, PForce, PExpired, PDrop, Crash
<1>4. CASE Environment
    <2>1. PICK g \in Path, x \in Content \cup {Absent} : UserChanges(g, x)
        BY <1>4 DEF Environment, RetentionEnds, Rot
    <2>2. g = f /\ disk'[f] = x
        BY <2>1 DEF UserChanges
    <2> QED
        BY <2>1, <2>2 DEF Edited
<1>5. CASE UNCHANGED vars
    BY <1>5 DEF vars
<1> QED
    BY <1>1, <1>2, <1>3, <1>4, <1>5 DEF Next

(* A record never goes away, nor does what it says of the original.        *)
LEMMA RecordKept ==
    ASSUME Recorded, [Next]_vars, NEW r \in Ref, status[r] # "none"
    PROVE  status'[r] # "none" /\ origin'[r] = origin[r] /\ sha'[r] = sha[r]
<1>0. Types /\ LocalsSet /\ FreshUntilInsert
    BY DEF Recorded, TypeOK
<1> USE DEF records, SetStatus, Types, LocalsSet
<1>1. ASSUME NEW p \in Proc, Quarantine(p)
      PROVE  status'[r] # "none" /\ origin'[r] = origin[r] /\ sha'[r] = sha[r]
    <2>1. CASE QInsert(p)
        BY <1>0, <2>1 DEF QInsert, FreshUntilInsert
    <2>2. CASE QUndo(p)
        BY <1>0, <2>2 DEF QUndo
    <2> QED
        BY <1>0, <1>1, <2>1, <2>2
        DEF Quarantine, QHash, QChecks, QOpen, QCopy, QCopyFails, QInsertFails, QRemove,
            QUndrop
<1>2. ASSUME NEW p \in Proc, Restore(p)
      PROVE  status'[r] # "none" /\ origin'[r] = origin[r] /\ sha'[r] = sha[r]
    BY <1>0, <1>2 DEF Restore, RGet, RHash, RStat, RCreate, RFill, RClean, RMark, RDrop
<1>3. ASSUME NEW p \in Proc, Purge(p)
      PROVE  status'[r] # "none" /\ origin'[r] = origin[r] /\ sha'[r] = sha[r]
    BY <1>0, <1>3 DEF Purge, PGet, PForce, PExpired, PDrop
<1>4. ASSUME NEW p \in Proc, Crash(p)
      PROVE  status'[r] # "none" /\ origin'[r] = origin[r] /\ sha'[r] = sha[r]
    BY <1>4 DEF Crash
<1>5. CASE Environment \/ UNCHANGED vars
    BY <1>5 DEF Environment, RetentionEnds, Rot, UserChanges, vars
<1> QED
    BY <1>1, <1>2, <1>3, <1>4, <1>5 DEF Next

-----------------------------------------------------------------------------
(* What an operation that returns leaves behind, in the vault and on disk. *)

Explains(p, r) ==
    /\ ref[p] = r
    /\ pc[p] \in {"q_copy", "q_insert", "q_undrop", "r_drop", "p_drop"}

(* A step that leaves a copy and its record alone, by a process that does  *)
(* not answer for them, leaves whoever does.                               *)
LEMMA StillExplained ==
    ASSUME Types, NoUnexplainedCopy, NEW r \in Ref, NEW p \in Proc, Moves(p),
           ~Explains(p, r), vault[r] # Absent, status[r] # "quarantined"
    PROVE  \E q \in Proc : Explains(q, r)'
<1>1. PICK q \in Proc : Explains(q, r)
    BY DEF NoUnexplainedCopy, Explains
<1>2. Stays(q)
    BY <1>1, OthersStay
<1> QED
    BY <1>1, <1>2 DEF Explains, Stays

LEMMA UnexplainedStep ==
    ASSUME TypeOK, NoUnexplainedCopy, [Next]_vars,
           "crash" \notin Faults, "disk" \notin Faults
    PROVE  NoUnexplainedCopy'
<1>0. Types /\ LocalsSet
    BY DEF TypeOK
<1> SUFFICES ASSUME NEW r \in Ref, vault'[r] # Absent, status'[r] # "quarantined"
             PROVE  \E q \in Proc : Explains(q, r)'
    BY DEF NoUnexplainedCopy, Explains
<1> DEFINE Before == vault[r] # Absent /\ status[r] # "quarantined"
<1> USE DEF files, records, locals, SetCopy, DropCopy, SetStatus, Continue, Goto, Done
<1>1. ASSUME NEW p \in Proc, Moves(p), ~Explains(p, r), Before
      PROVE  \E q \in Proc : Explains(q, r)'
    BY <1>0, <1>1, StillExplained
<1>2. ASSUME NEW p \in Proc, Quarantine(p) PROVE \E q \in Proc : Explains(q, r)'
    <2>0. Explains(p, r)' \/ (Before /\ ~Explains(p, r))
        <3> USE DEF Types, LocalsSet, Explains
        <3>1. ASSUME NEW f \in Path, NEW h \in Content, QHash(p, f, h)
              PROVE  Before /\ ~Explains(p, r)
            BY <1>0, <3>1 DEF QHash
        <3>2. CASE QChecks(p)
            BY <1>0, <3>2 DEF QChecks
        <3>3. CASE QOpen(p)
            BY <1>0, <3>3 DEF QOpen
        <3>4. CASE QCopy(p)
            <4>1. CASE ref[p] = r
                <5>1. pc'[p] = "q_insert" /\ ref'[p] = r
                    BY <1>0, <3>4, <4>1 DEF QCopy
                <5> QED
                    BY <5>1
            <4>2. CASE ref[p] # r
                BY <1>0, <3>4, <4>2 DEF QCopy
            <4> QED
                BY <4>1, <4>2
        <3>5. CASE QCopyFails(p)
            BY <1>0, <3>5 DEF QCopyFails
        <3>6. CASE QInsert(p)
            BY <1>0, <3>6 DEF QInsert
        <3>7. CASE QInsertFails(p)
            BY <1>0, <3>7 DEF QInsertFails
        <3>8. CASE QRemove(p)
            BY <1>0, <3>8 DEF QRemove
        <3>9. CASE QUndo(p)
            BY <1>0, <3>9 DEF QUndo
        <3>10. CASE QUndrop(p)
            BY <1>0, <3>10 DEF QUndrop
        <3> QED
            BY <1>2, <3>1, <3>2, <3>3, <3>4, <3>5, <3>6, <3>7, <3>8, <3>9, <3>10
            DEF Quarantine
    <2> QED
        BY <1>1, <1>2, <2>0 DEF Moves
<1>3. ASSUME NEW p \in Proc, Restore(p) PROVE \E q \in Proc : Explains(q, r)'
    <2>0. Explains(p, r)' \/ (Before /\ ~Explains(p, r))
        <3> USE DEF Types, LocalsSet, Explains
        <3>1. CASE RMark(p)
            BY <1>0, <3>1 DEF RMark
        <3>2. CASE RDrop(p)
            BY <1>0, <3>2 DEF RDrop
        <3>3. CASE \/ \E s \in Ref : RGet(p, s)
                   \/ RHash(p) \/ RStat(p) \/ RCreate(p) \/ RFill(p) \/ RClean(p)
            BY <1>0, <3>3 DEF RGet, RHash, RStat, RCreate, RFill, RClean
        <3> QED
            BY <1>3, <3>1, <3>2, <3>3 DEF Restore
    <2> QED
        BY <1>1, <1>3, <2>0 DEF Moves
<1>4. ASSUME NEW p \in Proc, Purge(p) PROVE \E q \in Proc : Explains(q, r)'
    <2>0. Explains(p, r)' \/ (Before /\ ~Explains(p, r))
        <3> USE DEF Types, LocalsSet, Explains
        <3>1. CASE \E s \in Ref : PGet(p, s)
            BY <1>0, <3>1 DEF PGet
        <3>2. CASE PForce(p) \/ PExpired(p)
            BY <1>0, <3>2 DEF PForce, PExpired
        <3>3. CASE PDrop(p)
            BY <1>0, <3>3 DEF PDrop
        <3> QED
            BY <1>4, <3>1, <3>2, <3>3 DEF Purge
    <2> QED
        BY <1>1, <1>4, <2>0 DEF Moves
<1>5. CASE Environment \/ UNCHANGED vars
    <2>1. Before
        BY <1>0, <1>5
        DEF Environment, RetentionEnds, Rot, UserChanges, vars, Types
    <2>2. PICK q \in Proc : Explains(q, r)
        BY <2>1 DEF NoUnexplainedCopy, Explains
    <2>3. pc' = pc /\ ref' = ref
        BY <1>5 DEF Environment, RetentionEnds, Rot, UserChanges, vars
    <2> QED
        BY <2>2, <2>3 DEF Explains
<1> QED
    BY <1>2, <1>3, <1>4, <1>5 DEF Next, Crash

(* While no process is killed and no removal fails, every copy in the      *)
(* vault belongs to an active item or to an operation still in progress:   *)
(* a database that refuses the record, the mark or the purge leaves no     *)
(* stray file behind, nor does any interleaving.                           *)
THEOREM VaultNoUnexplainedCopy ==
    ASSUME "crash" \notin Faults, "disk" \notin Faults
    PROVE  Spec => []NoUnexplainedCopy
<1>1. Init => NoUnexplainedCopy
    BY DEF Init, NoUnexplainedCopy
<1>2. TypeOK /\ NoUnexplainedCopy /\ [Next]_vars => NoUnexplainedCopy'
    BY UnexplainedStep
<1> QED
    BY VaultTypeOK, <1>1, <1>2, PTL DEF Spec

(* A restore works on a record that is there and says where its file was.  *)
RestoresKnown ==
    /\ \A p \in Proc : pc[p] \in RestoreSteps => status[ref[p]] # "none"
    /\ \A r \in Ref : status[r] # "none" => origin[r] \in Path /\ sha[r] \in Content

LEMMA RestoresKnownStep ==
    ASSUME Recorded, RestoresKnown, [Next]_vars
    PROVE  RestoresKnown'
<1>0. Types /\ LocalsSet
    BY DEF Recorded, TypeOK
<1>1. ASSUME NEW p \in Proc, pc'[p] \in RestoreSteps PROVE status'[ref'[p]] # "none"
    <2>1. CASE Stays(p)
        BY <1>0, <1>1, <2>1, RecordKept DEF RestoresKnown, Stays, LocalsSet, RestoreSteps
    <2>2. CASE Moves(p)
        <3> USE DEF Types, LocalsSet, Continue, Goto, Done, locals, RestoreSteps
        <3>1. Restore(p)
            BY <1>0, <1>1, <2>2
            DEF Moves, Quarantine, QHash, QChecks, QOpen, QCopy, QCopyFails, QInsert,
                QInsertFails, QRemove, QUndo, QUndrop, Purge, PGet, PForce, PExpired,
                PDrop, Crash
        <3>2. ref'[p] \in Ref /\ status[ref'[p]] # "none"
            BY <1>0, <1>1, <3>1
            DEF Restore, RGet, RHash, RStat, RCreate, RFill, RClean, RMark, RDrop,
                RestoresKnown
        <3> QED
            BY <3>2, RecordKept
    <2> QED
        BY <1>0, <2>1, <2>2, StaysOrMoves
<1>2. ASSUME NEW r \in Ref, status'[r] # "none"
      PROVE  origin'[r] \in Path /\ sha'[r] \in Content
    <2>1. CASE status[r] # "none"
        BY <2>1, RecordKept DEF RestoresKnown
    <2>2. CASE status[r] = "none"
        <3> USE DEF Types, LocalsSet, SetStatus, records
        <3>1. PICK p \in Proc : QInsert(p) /\ ref[p] = r
            <4>1. ASSUME NEW p \in Proc, Quarantine(p) PROVE QInsert(p) /\ ref[p] = r
                BY <1>0, <1>2, <2>2, <4>1
                DEF Quarantine, QHash, QChecks, QOpen, QCopy, QCopyFails, QInsert,
                    QInsertFails, QRemove, QUndo, QUndrop
            <4>2. ASSUME NEW p \in Proc, Restore(p) PROVE FALSE
                BY <1>0, <1>2, <2>2, <4>2
                DEF Restore, RGet, RHash, RStat, RCreate, RFill, RClean, RMark, RDrop
            <4>3. ASSUME NEW p \in Proc, Purge(p) \/ Crash(p) PROVE FALSE
                BY <1>0, <1>2, <2>2, <4>3
                DEF Purge, PGet, PForce, PExpired, PDrop, Crash
            <4>4. ~(Environment \/ UNCHANGED vars)
                BY <1>2, <2>2 DEF Environment, RetentionEnds, Rot, UserChanges, vars
            <4> QED
                BY <4>1, <4>2, <4>3, <4>4 DEF Next
        <3> QED
            BY <1>0, <3>1 DEF QInsert, QuarantineSteps
    <2> QED
        BY <2>1, <2>2
<1> QED
    BY <1>1, <1>2 DEF RestoresKnown

LEMMA RestoresKnownInv == Spec => []RestoresKnown
<1>1. Init => RestoresKnown
    BY DEF Init, RestoresKnown, RestoreSteps
<1>2. Recorded /\ RestoresKnown /\ [Next]_vars => RestoresKnown'
    BY RestoresKnownStep
<1> QED
    BY RecordedInv, <1>1, <1>2, PTL DEF Spec

(* An unfinished file appears with RCreate, and its restore either fills   *)
(* it or goes on to remove it.                                             *)
LEMMA TruncatedStep ==
    ASSUME Recorded, RestoresKnown, NoTruncatedOriginal, [Next]_vars,
           "crash" \notin Faults, "disk" \notin Faults
    PROVE  NoTruncatedOriginal'
<1>0. Types /\ LocalsSet
    BY DEF Recorded, TypeOK
<1> SUFFICES ASSUME NEW f \in Path, NEW p \in Proc, disk'[f] = p
             PROVE  pc'[p] \in {"r_fill", "r_clean"} /\ origin'[ref'[p]] = f
    BY DEF NoTruncatedOriginal
<1> USE DEF Types, LocalsSet, locals, records, Continue, Goto, Done
<1>1. CASE disk[f] # p
    <2>1. disk'[f] # disk[f]
        BY <1>1
    <2>2. p \notin Content \cup {Absent}
        OBVIOUS
    <2>3. ~Removed(f) /\ ~Cleaned(f) /\ ~Edited(f)
        BY <2>2 DEF Removed, Cleaned, Edited
    <2>4. ~Filled(f)
        BY <1>0, <2>2 DEF Filled, RFill, RestoresKnown, RestoreSteps
    <2>5. Created(f)
        BY <1>0, <2>1, <2>3, <2>4, FileChanges
    <2> QED
        BY <1>0, <2>2, <2>5 DEF Created, RCreate
<1>2. CASE disk[f] = p
    <2>0. /\ pc[p] \in {"r_fill", "r_clean"} /\ origin[ref[p]] = f /\ ref[p] \in Ref
          /\ status[ref[p]] # "none" /\ sha[ref[p]] \in Content
        BY <1>0, <1>2 DEF NoTruncatedOriginal, RestoresKnown, RestoreSteps
    <2>1. origin'[ref[p]] = f
        BY <2>0, RecordKept
    <2>2. CASE Stays(p)
        BY <2>0, <2>1, <2>2 DEF Stays
    <2>3. CASE Moves(p)
        <3>1. RFill(p) \/ RClean(p)
            BY <1>0, <2>0, <2>3
            DEF Moves, Quarantine, QHash, QChecks, QOpen, QCopy, QCopyFails, QInsert,
                QInsertFails, QRemove, QUndo, QUndrop, Purge, PGet, PForce, PExpired,
                PDrop, Crash, Restore, RGet, RHash, RStat, RCreate, RMark, RDrop
        <3>2. CASE RFill(p)
            <4>1. buf[p] # sha[ref[p]]
                BY <1>0, <1>2, <2>0, <3>2 DEF RFill, SetFile
            <4> QED
                BY <1>0, <2>0, <2>1, <3>2, <4>1 DEF RFill
        <3>3. CASE RClean(p)
            BY <1>0, <2>0, <3>3 DEF RClean, SetFile
        <3> QED
            BY <3>1, <3>2, <3>3
    <2> QED
        BY <1>0, <2>2, <2>3, StaysOrMoves
<1> QED
    BY <1>1, <1>2

(* While no process is killed and no removal fails, an incomplete file at  *)
(* an original path always has a restore that is about to fill it or to    *)
(* remove it: a copy that rotted under the restore, a database that        *)
(* refuses, and other restores, quarantines and edits of the same file     *)
(* leave no truncated file behind.                                         *)
THEOREM VaultNoTruncatedOriginal ==
    ASSUME "crash" \notin Faults, "disk" \notin Faults
    PROVE  Spec => []NoTruncatedOriginal
<1>1. Init => NoTruncatedOriginal
    BY DEF Init, NoTruncatedOriginal
<1>2. /\ Recorded /\ RestoresKnown /\ NoTruncatedOriginal /\ [Next]_vars
      => NoTruncatedOriginal'
    BY TruncatedStep
<1> QED
    BY RecordedInv, RestoresKnownInv, <1>1, <1>2, PTL DEF Spec

-----------------------------------------------------------------------------
(* The windows between a check and the act that relies on it, while the    *)
(* user stays out of them and no two quarantines, and no two restores,     *)
(* share one (Alone).                                                      *)

(* A restore finds at the original path what it left there itself. *)
RestoresOwnFile ==
    \A p \in Proc :
        /\ pc[p] = "r_create" => disk[origin[ref[p]]] = Absent
        /\ pc[p] = "r_fill" => disk[origin[ref[p]]] = p
        /\ pc[p] = "r_clean" => disk[origin[ref[p]]] \in {Absent, p}

(* A quarantine removes the content that it copied, not what took its place. *)
CopiesWhatIsThere ==
    \A p \in Proc :
        /\ pc[p] = "q_copy" /\ buf[p] \in Content => disk[path[p]] = buf[p]
        /\ pc[p] \in {"q_insert", "q_remove"} => disk[path[p]] = cur[p]

Undisturbed == Recorded /\ RestoresKnown /\ RestoresOwnFile /\ CopiesWhatIsThere

(* The three steps of a restore at a path belong to one process, and the   *)
(* one step that could take the file away, a quarantine's removal, removes *)
(* only complete contents.                                                 *)
LEMMA OwnFileStep ==
    ASSUME Undisturbed, Alone, ~AnyMoment, [Next]_vars
    PROVE  RestoresOwnFile'
<1>0. Types /\ LocalsSet /\ RestoresKnown /\ RestoresOwnFile /\ CopiesWhatIsThere
    BY DEF Undisturbed, Recorded, TypeOK
<1> SUFFICES ASSUME NEW p \in Proc, pc'[p] \in {"r_create", "r_fill", "r_clean"}
             PROVE  LET o == origin'[ref'[p]]
                    IN  /\ pc'[p] = "r_create" => disk'[o] = Absent
                        /\ pc'[p] = "r_fill" => disk'[o] = p
                        /\ pc'[p] = "r_clean" => disk'[o] \in {Absent, p}
    BY DEF RestoresOwnFile
<1>1. CASE Stays(p)
    <2> DEFINE o == origin[ref[p]]
    <2>1. /\ o \in Path /\ o = origin'[ref'[p]] /\ pc'[p] = pc[p]
          /\ PuttingBack(p, o)
        BY <1>0, <1>1, RecordKept
        DEF Stays, RestoresKnown, RestoreSteps, LocalsSet, PuttingBack, Undisturbed
    <2>2. CASE disk'[o] = disk[o]
        BY <1>0, <2>1, <2>2 DEF RestoresOwnFile
    <2>3. CASE disk'[o] # disk[o]
        <3>1. ~Edited(o)
            BY <2>1 DEF Edited, UserChanges, InWindow
        <3>2. ASSUME NEW q \in Proc, PuttingBack(q, o) PROVE q = p
            BY <2>1, <3>2 DEF Alone
        <3>3. ASSUME NEW q \in Proc, RCreate(q) \/ RFill(q) \/ RClean(q), origin[ref[q]] = o
              PROVE  FALSE
            <4>1. q = p
                BY <3>2, <3>3 DEF PuttingBack, RestoreSteps, RCreate, RFill, RClean
            <4>2. pc'[p] # pc[p]
                BY <1>0, <3>3, <4>1
                DEF RCreate, RFill, RClean, Types, Continue, Goto, Done
            <4> QED
                BY <2>1, <4>2
        <3>4. ~Created(o) /\ ~Filled(o) /\ ~Cleaned(o)
            BY <3>3 DEF Created, Filled, Cleaned
        <3>5. Removed(o)
            BY <1>0, <2>1, <2>3, <3>1, <3>4, FileChanges
        <3>6. disk[o] \in Content /\ disk'[o] = Absent
            BY <1>0, <3>5
            DEF Removed, QRemove, CopiesWhatIsThere, LocalsSet, QuarantineSteps
        <3> QED
            BY <1>0, <2>1, <3>6 DEF RestoresOwnFile
    <2> QED
        BY <2>2, <2>3
<1>2. CASE Moves(p)
    <2> USE DEF Types, LocalsSet, Continue, Goto, Done, locals, records, files, SetFile
    <2>1. RStat(p) \/ RCreate(p) \/ RFill(p)
        BY <1>0, <1>2
        DEF Moves, Quarantine, QHash, QChecks, QOpen, QCopy, QCopyFails, QInsert,
            QInsertFails, QRemove, QUndo, QUndrop, Purge, PGet, PForce, PExpired,
            PDrop, Crash, Restore, RGet, RHash, RClean, RMark, RDrop
    <2>2. ref[p] \in Ref /\ origin[ref[p]] \in Path
        BY <1>0, <2>1 DEF RStat, RCreate, RFill, RestoresKnown, RestoreSteps
    <2>3. CASE RStat(p)
        BY <1>0, <2>2, <2>3 DEF RStat
    <2>4. CASE RCreate(p)
        BY <1>0, <2>2, <2>4 DEF RCreate, RestoresOwnFile
    <2>5. CASE RFill(p)
        BY <1>0, <2>2, <2>5 DEF RFill, RestoresOwnFile
    <2> QED
        BY <2>1, <2>3, <2>4, <2>5
<1> QED
    BY <1>0, <1>1, <1>2, StaysOrMoves

(* A file that is being quarantined is complete, which keeps every restore *)
(* away, and it is removed by its own quarantine.                          *)
LEMMA CopiesStep ==
    ASSUME Undisturbed, Alone, ~AnyMoment, [Next]_vars
    PROVE  CopiesWhatIsThere'
<1>0. Types /\ LocalsSet /\ RestoresKnown /\ RestoresOwnFile /\ CopiesWhatIsThere
    BY DEF Undisturbed, Recorded, TypeOK
<1> SUFFICES ASSUME NEW p \in Proc, pc'[p] \in {"q_copy", "q_insert", "q_remove"}
             PROVE  LET f == path'[p]
                    IN  /\ pc'[p] = "q_copy" /\ buf'[p] \in Content => disk'[f] = buf'[p]
                        /\ pc'[p] \in {"q_insert", "q_remove"} => disk'[f] = cur'[p]
    BY DEF CopiesWhatIsThere
<1>1. CASE Stays(p)
    <2> DEFINE f == path[p]
    <2>1. f \in Path /\ cur[p] \in Content /\ Copying(p, f)
        BY <1>0, <1>1 DEF Stays, LocalsSet, Copying, QuarantineSteps
    <2>2. CASE disk'[f] = disk[f] \/ disk[f] \notin Content
        BY <1>0, <1>1, <2>1, <2>2 DEF CopiesWhatIsThere, Stays
    <2>3. CASE disk'[f] # disk[f] /\ disk[f] \in Content
        <3>1. ~Edited(f)
            BY <2>1 DEF Edited, UserChanges, InWindow
        <3>2. ~Created(f) /\ ~Filled(f)
            BY <2>3 DEF Created, Filled
        <3>3. ~Cleaned(f)
            BY <1>0, <2>3 DEF Cleaned, RClean, RestoresOwnFile
        <3>4. ~Removed(f)
            <4>1. ASSUME NEW q \in Proc, QRemove(q), path[q] = f, disk'[f] = Absent
                  PROVE  FALSE
                <5>1. q = p
                    BY <2>1, <4>1 DEF Alone, Copying, QRemove
                <5>2. pc'[p] # pc[p]
                    BY <1>0, <4>1, <5>1
                    DEF QRemove, Types, Continue, Goto, Done
                <5> QED
                    BY <1>1, <5>2 DEF Stays
            <4> QED
                BY <4>1 DEF Removed
        <3> QED
            BY <1>0, <2>1, <2>3, <3>1, <3>2, <3>3, <3>4, FileChanges
    <2> QED
        BY <2>2, <2>3
<1>2. CASE Moves(p)
    <2> USE DEF Types, LocalsSet, Continue, Goto, Done, locals, records, files, SetFile,
                QuarantineSteps
    <2>1. QOpen(p) \/ QCopy(p) \/ QInsert(p)
        BY <1>0, <1>2
        DEF Moves, Quarantine, QHash, QChecks, QCopyFails, QInsertFails, QRemove, QUndo,
            QUndrop, Purge, PGet, PForce, PExpired, PDrop, Crash, Restore, RGet, RHash,
            RStat, RCreate, RFill, RClean, RMark, RDrop
    <2>2. CASE QOpen(p)
        BY <1>0, <2>2 DEF QOpen
    <2>3. CASE QCopy(p)
        <3>1. cur[p] \in {buf[p], disk[path[p]]} /\ cur[p] \in Content
            BY <1>0, <2>3 DEF QCopy
        <3>2. pc[p] = "q_copy" /\ pc'[p] = "q_insert" /\ UNCHANGED <<disk, path, cur>>
            BY <1>0, <2>3 DEF QCopy
        <3> QED
            BY <1>0, <3>1, <3>2 DEF CopiesWhatIsThere
    <2>4. CASE QInsert(p)
        BY <1>0, <2>4 DEF QInsert, CopiesWhatIsThere
    <2> QED
        BY <2>1, <2>2, <2>3, <2>4
<1> QED
    BY <1>0, <1>1, <1>2, StaysOrMoves

LEMMA UndisturbedInv ==
    ASSUME ~AnyMoment
    PROVE  Spec /\ []Alone => []Undisturbed
<1>1. Init => RestoresOwnFile /\ CopiesWhatIsThere
    BY DEF Init, RestoresOwnFile, CopiesWhatIsThere
<1>2. /\ Recorded' /\ RestoresKnown' /\ Undisturbed /\ Alone /\ [Next]_vars
      => Undisturbed'
    BY OwnFileStep, CopiesStep DEF Undisturbed
<1>3. Recorded /\ RestoresKnown /\ RestoresOwnFile /\ CopiesWhatIsThere => Undisturbed
    BY DEF Undisturbed
<1> QED
    BY RecordedInv, RestoresKnownInv, <1>1, <1>2, <1>3, PTL DEF Spec

(* As long as the user keeps out of the window, and no two quarantines or  *)
(* restores of one file overlap, the error path of a restore removes only  *)
(* the file that this restore created, under every fault of disk, database *)
(* and host.                                                               *)
THEOREM VaultRestoreRemovesOnlyItsOwn ==
    ASSUME ~AnyMoment
    PROVE  Spec /\ []Alone => RestoreRemovesOnlyItsOwn
<1> DEFINE Own == \A p \in Proc :
                    pc[p] = "r_clean" /\ pc'[p] = "idle" /\ disk' # disk
                        => disk[origin[ref[p]]] = p
<1>1. Undisturbed /\ [Next]_vars => Own
    <2> SUFFICES ASSUME Undisturbed, [Next]_vars, NEW p \in Proc,
                        pc[p] = "r_clean", pc'[p] = "idle", disk' # disk
                 PROVE  disk[origin[ref[p]]] = p
        OBVIOUS
    <2>0. Types /\ LocalsSet /\ RestoresOwnFile
        BY DEF Undisturbed, Recorded, TypeOK
    <2>1. Moves(p)
        BY <2>0, StaysOrMoves DEF Stays
    <2>2. RClean(p) \/ Crash(p)
        BY <2>0, <2>1
        DEF Moves, Quarantine, QHash, QChecks, QOpen, QCopy, QCopyFails, QInsert,
            QInsertFails, QRemove, QUndo, QUndrop, Purge, PGet, PForce, PExpired, PDrop,
            Restore, RGet, RHash, RStat, RCreate, RFill, RMark, RDrop
    <2>3. disk' = [disk EXCEPT ![origin[ref[p]]] = Absent]
        BY <2>2 DEF RClean, SetFile, Crash, files
    <2>4. disk[origin[ref[p]]] # Absent
        BY <2>0, <2>3 DEF Types
    <2> QED
        BY <2>0, <2>4 DEF RestoresOwnFile
<1> QED
    BY UndisturbedInv, <1>1, PTL DEF Spec, RestoreRemovesOnlyItsOwn

-----------------------------------------------------------------------------
(* Where the last copy of a content is while an operation removes another. *)

(* The record of a copy that is about to replace the original. *)
RecordedAsCopied ==
    \A p \in Proc : pc[p] = "q_remove" =>
        /\ status[ref[p]] \in {"quarantined", "purged"}
        /\ origin[ref[p]] = path[p] /\ sha[ref[p]] = cur[p]

(* A restore has not filled a file whose quarantine has yet to remove it. *)
NotYetRemoved ==
    \A p \in Proc, q \in Proc :
        pc[p] = "r_mark" /\ pc[q] = "q_remove" => ref[p] # ref[q]

Elsewhere(r) ==
    \E s \in Ref \ {r} :
        status[s] = "quarantined" /\ origin[s] = origin[r] /\ sha[s] = sha[r]

(* The content of an item about to be marked restored is at its path, or   *)
(* it has been quarantined from there, or purged, since it was put back.   *)
PutBack ==
    \A p \in Proc : pc[p] = "r_mark" =>
        \/ disk[origin[ref[p]]] = sha[ref[p]]
        \/ Elsewhere(ref[p])
        \/ Purged(sha[ref[p]])

Accounted ==
    /\ Undisturbed /\ Restorable
    /\ RecordedAsCopied /\ NotYetRemoved /\ PutBack

(* What a step may make of an active record. *)
LEMMA ActiveChanges ==
    ASSUME Recorded, [Next]_vars, NEW r \in Ref, status[r] = "quarantined",
           status'[r] # "quarantined"
    PROVE  \/ status'[r] = "purged"
           \/ \E p \in Proc : RMark(p) /\ ref[p] = r /\ status'[r] = "restored"
<1>0. Types /\ LocalsSet /\ FreshUntilInsert
    BY DEF Recorded, TypeOK
<1> USE DEF records, SetStatus, Types, LocalsSet
<1>1. ASSUME NEW p \in Proc, Quarantine(p) PROVE status'[r] = "purged"
    <2>1. QUndo(p) \/ QInsert(p)
        BY <1>0, <1>1
        DEF Quarantine, QHash, QChecks, QOpen, QCopy, QCopyFails, QInsertFails, QRemove,
            QUndrop
    <2> QED
        BY <1>0, <2>1 DEF QUndo, QInsert
<1>2. ASSUME NEW p \in Proc, Restore(p)
      PROVE  RMark(p) /\ ref[p] = r /\ status'[r] = "restored"
    BY <1>0, <1>2 DEF Restore, RGet, RHash, RStat, RCreate, RFill, RClean, RMark, RDrop
<1>3. ASSUME NEW p \in Proc, Purge(p) PROVE status'[r] = "purged"
    BY <1>0, <1>3 DEF Purge, PGet, PForce, PExpired, PDrop
<1>4. ~(Environment \/ UNCHANGED vars \/ \E p \in Proc : Crash(p))
    BY DEF Environment, RetentionEnds, Rot, UserChanges, Crash, vars
<1> QED
    BY <1>1, <1>2, <1>3, <1>4 DEF Next

LEMMA PurgedStays ==
    ASSUME Recorded, [Next]_vars, NEW r \in Ref, status[r] = "purged"
    PROVE  status'[r] = "purged"
<1>0. Types /\ LocalsSet /\ FreshUntilInsert
    BY DEF Recorded, TypeOK
<1> USE DEF records, SetStatus, Types, LocalsSet
<1>1. ASSUME NEW p \in Proc, Quarantine(p) PROVE status'[r] = "purged"
    BY <1>0, <1>1
    DEF Quarantine, QHash, QChecks, QOpen, QCopy, QCopyFails, QInsert, QInsertFails,
        QRemove, QUndo, QUndrop, FreshUntilInsert
<1>2. ASSUME NEW p \in Proc, Restore(p) PROVE status'[r] = "purged"
    BY <1>0, <1>2 DEF Restore, RGet, RHash, RStat, RCreate, RFill, RClean, RMark, RDrop
<1>3. ASSUME NEW p \in Proc, Purge(p) PROVE status'[r] = "purged"
    BY <1>0, <1>3 DEF Purge, PGet, PForce, PExpired, PDrop
<1>4. CASE Environment \/ UNCHANGED vars \/ \E p \in Proc : Crash(p)
    BY <1>4 DEF Environment, RetentionEnds, Rot, UserChanges, Crash, vars
<1> QED
    BY <1>1, <1>2, <1>3, <1>4 DEF Next

LEMMA ContentStaysPurged ==
    ASSUME Recorded, [Next]_vars, NEW c, Purged(c)
    PROVE  Purged(c)'
BY PurgedStays, RecordKept DEF Purged

LEMMA RecordedStays ==
    ASSUME Accounted, [Next]_vars
    PROVE  RecordedAsCopied'
<1>0. /\ Recorded /\ Types /\ LocalsSet /\ RecordedAsCopied /\ NotYetRemoved
    BY DEF Accounted, Undisturbed, Recorded, TypeOK
<1> SUFFICES ASSUME NEW p \in Proc, pc'[p] = "q_remove"
             PROVE  /\ status'[ref'[p]] \in {"quarantined", "purged"}
                    /\ origin'[ref'[p]] = path'[p] /\ sha'[ref'[p]] = cur'[p]
    BY DEF RecordedAsCopied
<1>1. CASE Stays(p)
    <2>1. /\ ref[p] \in Ref /\ status[ref[p]] \in {"quarantined", "purged"}
          /\ origin'[ref[p]] = path[p] /\ sha'[ref[p]] = cur[p] /\ pc[p] = "q_remove"
        BY <1>0, <1>1, RecordKept DEF Stays, LocalsSet, RecordedAsCopied
    <2>2. status'[ref[p]] \in {"quarantined", "purged"}
        <3>1. ~\E q \in Proc : RMark(q) /\ ref[q] = ref[p]
            BY <1>0, <2>1 DEF RMark, NotYetRemoved
        <3> QED
            BY <1>0, <2>1, <3>1, ActiveChanges, PurgedStays
    <2> QED
        BY <1>1, <2>1, <2>2 DEF Stays
<1>2. CASE Moves(p)
    <2> USE DEF Types, LocalsSet, Continue, Goto, Done, locals
    <2>1. QInsert(p)
        BY <1>0, <1>2
        DEF Moves, Quarantine, QHash, QChecks, QOpen, QCopy, QCopyFails, QInsertFails,
            QRemove, QUndo, QUndrop, Purge, PGet, PForce, PExpired, PDrop, Crash,
            Restore, RGet, RHash, RStat, RCreate, RFill, RClean, RMark, RDrop
    <2> QED
        BY <1>0, <2>1 DEF QInsert
<1> QED
    BY <1>0, <1>1, <1>2, StaysOrMoves

(* A restore fills only its own file, and a quarantine that has not yet    *)
(* removed the original still has a complete content there.                *)
LEMMA NotYetRemovedStep ==
    ASSUME Accounted, [Next]_vars
    PROVE  NotYetRemoved'
<1>0. /\ Recorded /\ Types /\ LocalsSet /\ FreshUntilInsert /\ RestoresKnown
      /\ RestoresOwnFile /\ CopiesWhatIsThere /\ RecordedAsCopied /\ NotYetRemoved
    BY DEF Accounted, Undisturbed, Recorded, TypeOK
<1> SUFFICES ASSUME NEW p \in Proc, NEW q \in Proc, pc'[p] = "r_mark", pc'[q] = "q_remove",
                    ref'[p] = ref'[q]
             PROVE  FALSE
    BY DEF NotYetRemoved
<1> USE DEF Types, LocalsSet, Continue, Goto, Done, locals
<1>1. /\ pc[q] \in {"q_insert", "q_remove"} /\ ref'[q] = ref[q]
      /\ pc[q] = "q_insert" => QInsert(q)
    <2>1. CASE Moves(q)
        BY <1>0, <2>1
        DEF Moves, Quarantine, QHash, QChecks, QOpen, QCopy, QCopyFails, QInsert,
            QInsertFails, QRemove, QUndo, QUndrop, Purge, PGet, PForce, PExpired, PDrop,
            Crash, Restore, RGet, RHash, RStat, RCreate, RFill, RClean, RMark, RDrop
    <2>2. CASE Stays(q)
        BY <2>2 DEF Stays
    <2> QED
        BY <1>0, <2>1, <2>2, StaysOrMoves
<1>2. /\ pc[p] \in {"r_fill", "r_mark"} /\ ref'[p] = ref[p]
      /\ pc[p] = "r_fill" => RFill(p)
    <2>1. CASE Moves(p)
        BY <1>0, <2>1
        DEF Moves, Quarantine, QHash, QChecks, QOpen, QCopy, QCopyFails, QInsert,
            QInsertFails, QRemove, QUndo, QUndrop, Purge, PGet, PForce, PExpired, PDrop,
            Crash, Restore, RGet, RHash, RStat, RCreate, RFill, RClean, RMark, RDrop
    <2>2. CASE Stays(p)
        BY <2>2 DEF Stays
    <2> QED
        BY <1>0, <2>1, <2>2, StaysOrMoves
<1>3. status[ref[p]] # "none"
    BY <1>0, <1>2 DEF RestoresKnown, RestoreSteps
<1>4. pc[q] = "q_remove"
    BY <1>0, <1>1, <1>2, <1>3 DEF FreshUntilInsert
<1>5. pc[p] = "r_fill"
    BY <1>0, <1>1, <1>2, <1>4 DEF NotYetRemoved
<1>6. disk[origin[ref[p]]] = p
    BY <1>0, <1>5 DEF RestoresOwnFile
<1>7. disk[origin[ref[q]]] = cur[q] /\ cur[q] \in Content
    BY <1>0, <1>4 DEF RecordedAsCopied, CopiesWhatIsThere, QuarantineSteps
<1> QED
    BY <1>1, <1>2, <1>6, <1>7

(* While a restore goes from filling the file to marking the item, only a  *)
(* quarantine can take the file away, and it keeps a copy of its own; that *)
(* copy is put back by no other restore, since none works at this path.    *)
LEMMA PutBackStep ==
    ASSUME Accounted, Alone, ~AnyMoment, [Next]_vars
    PROVE  PutBack'
<1>0. /\ Recorded /\ Types /\ LocalsSet /\ RestoresKnown /\ RestoresOwnFile
      /\ CopiesWhatIsThere /\ RecordedAsCopied /\ NotYetRemoved /\ PutBack
    BY DEF Accounted, Undisturbed, Recorded, TypeOK
<1> SUFFICES ASSUME NEW p \in Proc, pc'[p] = "r_mark"
             PROVE  (\/ disk[origin[ref[p]]] = sha[ref[p]]
                     \/ Elsewhere(ref[p])
                     \/ Purged(sha[ref[p]]))'
    BY DEF PutBack
<1>1. CASE Moves(p)
    <2> USE DEF Types, LocalsSet, Continue, Goto, Done, locals, records
    <2>1. RFill(p)
        BY <1>0, <1>1
        DEF Moves, Quarantine, QHash, QChecks, QOpen, QCopy, QCopyFails, QInsert,
            QInsertFails, QRemove, QUndo, QUndrop, Purge, PGet, PForce, PExpired, PDrop,
            Crash, Restore, RGet, RHash, RStat, RCreate, RClean, RMark, RDrop
    <2> QED
        BY <1>0, <2>1
        DEF RFill, SetFile, RestoresOwnFile, RestoresKnown, RestoreSteps
<1>2. CASE Stays(p)
    <2>0. pc[p] = "r_mark" /\ ref'[p] = ref[p] /\ ref[p] \in Ref
        BY <1>0, <1>2 DEF Stays, LocalsSet
    <2>1. PICK o \in Path, c \in Content :
            /\ o = origin[ref[p]] /\ c = sha[ref[p]] /\ PuttingBack(p, o)
            /\ origin'[ref[p]] = o /\ sha'[ref[p]] = c
        BY <1>0, <2>0, RecordKept DEF RestoresKnown, RestoreSteps, PuttingBack
    <2>2. CASE Purged(c)
        BY <1>0, <2>0, <2>1, <2>2, ContentStaysPurged
    <2>3. ASSUME NEW s \in Ref \ {ref[p]}, status[s] = "quarantined",
                 origin[s] = o, sha[s] = c
          PROVE  Elsewhere(ref[p])' \/ Purged(c)'
        <3>1. origin'[s] = o /\ sha'[s] = c
            BY <1>0, <2>3, RecordKept
        <3>2. CASE status'[s] = "quarantined"
            BY <2>0, <2>1, <3>1, <3>2 DEF Elsewhere
        <3>3. CASE status'[s] = "purged"
            BY <3>1, <3>3 DEF Purged
        <3>4. ASSUME NEW q \in Proc, RMark(q), ref[q] = s PROVE FALSE
            <4>1. PuttingBack(q, o)
                BY <2>3, <3>4 DEF PuttingBack, RMark, RestoreSteps
            <4> QED
                BY <2>1, <2>3, <3>4, <4>1 DEF Alone
        <3> QED
            BY <1>0, <2>3, <3>2, <3>3, <3>4, ActiveChanges
    <2>4. CASE disk[o] = c
        <3>1. CASE disk'[o] = c
            BY <2>0, <2>1, <3>1
        <3>2. CASE disk'[o] # c
            <4>1. ~Edited(o)
                BY <2>1 DEF Edited, UserChanges, InWindow
            <4>2. ~Created(o) /\ ~Filled(o)
                BY <2>1, <2>4 DEF Created, Filled
            <4>3. ~Cleaned(o)
                BY <1>0, <2>1, <2>4 DEF Cleaned, RClean, RestoresOwnFile
            <4>4. Removed(o)
                BY <1>0, <2>1, <2>4, <3>2, <4>1, <4>2, <4>3, FileChanges
            <4>5. PICK q \in Proc : QRemove(q) /\ path[q] = o
                BY <4>4 DEF Removed
            <4>6. /\ cur[q] = c /\ ref[q] \in Ref \ {ref[p]}
                  /\ status[ref[q]] \in {"quarantined", "purged"}
                  /\ origin[ref[q]] = o /\ sha[ref[q]] = c
                BY <1>0, <2>0, <2>4, <4>5
                DEF QRemove, LocalsSet, CopiesWhatIsThere, RecordedAsCopied, NotYetRemoved
            <4>7. UNCHANGED records
                BY <4>5 DEF QRemove
            <4>8. Elsewhere(ref[p])' \/ Purged(c)'
                BY <2>0, <2>1, <4>6, <4>7 DEF records, Elsewhere, Purged
            <4> QED
                BY <2>0, <2>1, <4>8
        <3> QED
            BY <3>1, <3>2
    <2> QED
        BY <1>0, <2>0, <2>1, <2>2, <2>3, <2>4 DEF PutBack, Elsewhere
<1> QED
    BY <1>0, <1>1, <1>2, StaysOrMoves

LEMMA AccountedInv ==
    ASSUME ~AnyMoment, "db" \notin Faults, "rot" \notin Faults
    PROVE  Spec /\ []Alone => []Accounted
<1>1. Init => RecordedAsCopied /\ NotYetRemoved /\ PutBack
    BY DEF Init, RecordedAsCopied, NotYetRemoved, PutBack
<1>2. /\ Undisturbed' /\ Restorable' /\ Accounted /\ Alone /\ [Next]_vars
      => Accounted'
    BY RecordedStays, NotYetRemovedStep, PutBackStep DEF Accounted
<1>3. /\ Undisturbed /\ Restorable /\ RecordedAsCopied /\ NotYetRemoved /\ PutBack
      => Accounted
    BY DEF Accounted
<1> QED
    BY UndisturbedInv, RestorableInv, <1>1, <1>2, <1>3, PTL DEF Spec

(* A copy, whether at a path or in custody, goes only when another one is  *)
(* accounted for.                                                          *)
LEMMA LossStep ==
    ASSUME Accounted, Restorable', [Next]_vars, NEW c \in Content,
           Copies(c) # {}, Copies(c)' = {}
    PROVE  edits' # edits \/ Purged(c)'
<1>0. /\ Recorded /\ Types /\ LocalsSet /\ RestoresKnown /\ RestoresOwnFile
      /\ CopiesWhatIsThere /\ RecordedAsCopied /\ PutBack /\ ActiveIsRestorable
      /\ ActiveIsRestorable'
    BY DEF Accounted, Undisturbed, Restorable, Recorded, TypeOK
<1>1. /\ \A f \in Path : disk'[f] # c
      /\ \A r \in Ref : ~(status'[r] = "quarantined" /\ vault'[r] = c)
    BY DEF Copies
<1>2. ASSUME NEW f \in Path, disk[f] = c PROVE edits' # edits \/ Purged(c)'
    <2>1. ~Created(f) /\ ~Filled(f)
        BY <1>2 DEF Created, Filled
    <2>2. ~Cleaned(f)
        BY <1>0, <1>2 DEF Cleaned, RClean, RestoresOwnFile
    <2>3. CASE Edited(f)
        BY <1>0, <2>3 DEF Edited, UserChanges, Types
    <2>4. ASSUME NEW q \in Proc, QRemove(q), path[q] = f PROVE Purged(c)'
        <3>1. /\ ref[q] \in Ref /\ sha[ref[q]] = c
              /\ status[ref[q]] \in {"quarantined", "purged"}
            BY <1>0, <1>2, <2>4
            DEF QRemove, LocalsSet, CopiesWhatIsThere, RecordedAsCopied
        <3>2. UNCHANGED <<records, vault>>
            BY <2>4 DEF QRemove
        <3>3. status[ref[q]] # "quarantined"
            BY <1>0, <1>1, <3>1, <3>2 DEF records, ActiveIsRestorable
        <3> QED
            BY <3>1, <3>2, <3>3 DEF records, Purged
    <2>5. CASE Removed(f)
        BY <2>4, <2>5 DEF Removed
    <2> QED
        BY <1>0, <1>1, <1>2, <2>1, <2>2, <2>3, <2>5, FileChanges
<1>3. ASSUME NEW r \in Ref, status[r] = "quarantined", vault[r] = c PROVE Purged(c)'
    <2>1. sha[r] = c /\ sha'[r] = c
        BY <1>0, <1>3, RecordKept DEF ActiveIsRestorable
    <2>2. status'[r] # "quarantined"
        BY <1>0, <1>1, <2>1 DEF ActiveIsRestorable
    <2>3. CASE status'[r] = "purged"
        BY <2>1, <2>3 DEF Purged
    <2>4. ASSUME NEW p \in Proc, RMark(p), ref[p] = r, status'[r] = "restored"
          PROVE  Purged(c)'
        <3>1. UNCHANGED disk /\ SetStatus(r, "restored")
            BY <1>0, <1>3, <2>4 DEF RMark, files, records, Types
        <3>2. disk[origin[r]] # c
            BY <1>0, <1>1, <1>3, <3>1 DEF RestoresKnown
        <3>3. ~Elsewhere(r)
            <4>1. ASSUME NEW s \in Ref \ {r}, status[s] = "quarantined", sha[s] = sha[r]
                  PROVE  FALSE
                <5>1. status'[s] = "quarantined" /\ sha'[s] = c
                    BY <1>0, <2>1, <3>1, <4>1 DEF SetStatus, Types
                <5> QED
                    BY <1>0, <1>1, <5>1 DEF ActiveIsRestorable
            <4> QED
                BY <4>1 DEF Elsewhere
        <3>4. Purged(c)
            BY <1>0, <2>1, <2>4, <3>2, <3>3 DEF PutBack, RMark
        <3> QED
            BY <1>0, <3>4, ContentStaysPurged
    <2> QED
        BY <1>0, <1>3, <2>2, <2>3, <2>4, ActiveChanges
<1> QED
    BY <1>2, <1>3 DEF Copies

(* Principle I: whatever quarantines, restores, purges, full disks and     *)
(* kills do, no content loses the last place it can be had from, as long   *)
(* as the database answers, no copy rots, the user keeps out of the        *)
(* windows, and no two quarantines or restores of one file overlap.  Each  *)
(* of these conditions is needed: without Alone two restores of one item   *)
(* or two quarantines of one file lose a content.                          *)
THEOREM VaultNothingIsLost ==
    ASSUME ~AnyMoment, "db" \notin Faults, "rot" \notin Faults
    PROVE  Spec /\ []Alone => NothingIsLost
<1> DEFINE Kept == \A c \in Content :
                    Copies(c) # {} /\ Copies(c)' = {} => edits' # edits \/ Purged(c)'
<1>1. Accounted /\ Restorable' /\ [Next]_vars => Kept
    BY LossStep
<1> QED
    BY AccountedInv, RestorableInv, <1>1, PTL DEF Spec, NothingIsLost

=============================================================================
