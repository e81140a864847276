------------------------------- MODULE Vault --------------------------------
(***************************************************************************)
(* The quarantine vault of internal/quarantine over the quarantine_items   *)
(* table of internal/store.  Quarantine, Restore and Purge are sequences   *)
(* of system calls and single-statement transactions, run by the cycle,    *)
(* the panel's request handlers and the CLI with no lock between them, on  *)
(* files the user edits at the same time.  Every call that changes or      *)
(* examines shared state is an action; a call whose refusal changes        *)
(* nothing but the caller is a disjunct back to "idle".                    *)
(*                                                                         *)
(* A content stands for its SHA-256: two files have the same hash exactly  *)
(* when they have the same content.                                        *)
(***************************************************************************)
EXTENDS Naturals, FiniteSets

CONSTANTS
    Proc,      \* the processes and request handlers that use the vault
    Duties,    \* the operations each of them runs
    Path,      \* paths under the configured roots, and others
    Refused,   \* paths the containment and link checks refuse to act on
    Content,   \* complete file contents
    Ref,       \* quarantine references newRef can still generate
    Absent,    \* no file there
    Damaged,   \* an incomplete or altered copy in the vault
    Faults,    \* the kinds of failure the environment produces
    MaxEdits,  \* bound on the user's own changes to the files
    AnyMoment  \* whether the user may change a file at any moment, or only
               \* outside the windows between a check of it and its removal

Operation == {"quarantine", "restore", "purge"}
FaultKind == {"crash", "db", "disk", "rot"}

ASSUME DutiesAssumption == Duties \in [Proc -> SUBSET Operation]
ASSUME RefusedAssumption == Refused \subseteq Path
ASSUME ContentAssumption ==
    /\ Absent \notin Content \cup Proc
    /\ Damaged \notin Content \cup {Absent}
    /\ Content \cap Proc = {}
ASSUME FaultsAssumption == Faults \subseteq FaultKind
ASSUME MaxEditsAssumption == MaxEdits \in Nat /\ AnyMoment \in BOOLEAN

VARIABLES
    disk,       \* what is at each path; the file a restore has created and
                \* not yet filled is represented by the process writing it
    vault,      \* the copy in the vault, per reference
    status,     \* quarantine_items.status, "none" before the insert
    origin,     \* quarantine_items.original_path
    sha,        \* quarantine_items.sha256
    retention,  \* "never" (NULL), "running", or "over" (retention_until < now)
    used,       \* references generated so far
    pc,         \* where each process is
    ref,        \* the reference it works on
    path,       \* the path a quarantine works on
    cur,        \* the hash a quarantine read before acting
    buf,        \* the content behind the descriptor a copy reads from
    edits       \* changes the user has made

files == <<disk, vault>>
records == <<status, origin, sha, retention>>
locals == <<ref, path, cur, buf>>
vars == <<files, records, used, pc, locals, edits>>

Status == {"none", "quarantined", "restored", "purged"}
Retention == {"never", "running", "over"}

QuarantineSteps ==
    {"q_checks", "q_open", "q_copy", "q_insert", "q_remove", "q_undo", "q_undrop"}
RestoreSteps ==
    {"r_hash", "r_stat", "r_create", "r_fill", "r_clean", "r_mark", "r_drop"}
PurgeSteps == {"p_force", "p_expired", "p_drop"}

(* A reference is a quarantine's own from newRef on. *)
OwnsRef(p) == pc[p] \in QuarantineSteps \ {"q_checks"}

FileState == Content \cup {Absent} \cup Proc
CopyState == Content \cup {Absent, Damaged}

-----------------------------------------------------------------------------
Init ==
    /\ disk \in [Path -> Content \cup {Absent}]
    /\ vault = [r \in Ref |-> Absent]
    /\ status = [r \in Ref |-> "none"]
    /\ origin = [r \in Ref |-> Absent]
    /\ sha = [r \in Ref |-> Absent]
    /\ retention = [r \in Ref |-> "never"]
    /\ used = {}
    /\ pc = [p \in Proc |-> "idle"]
    /\ ref = [p \in Proc |-> Absent]
    /\ path = [p \in Proc |-> Absent]
    /\ cur = [p \in Proc |-> Absent]
    /\ buf = [p \in Proc |-> Absent]
    /\ edits = 0

Goto(p, l) == pc' = [pc EXCEPT ![p] = l]
SetFile(f, x) == disk' = [disk EXCEPT ![f] = x]
SetCopy(r, x) == vault' = [vault EXCEPT ![r] = x]
SetStatus(r, s) ==
    /\ status' = [status EXCEPT ![r] = s]
    /\ UNCHANGED <<origin, sha, retention>>

(* os.Remove of a copy whose error the caller ignores or only reports. *)
DropCopy(r) == SetCopy(r, Absent) \/ ("disk" \in Faults /\ UNCHANGED vault)

(* The operation returns, with or without an error. *)
Done(p) ==
    /\ Goto(p, "idle")
    /\ ref' = [ref EXCEPT ![p] = Absent]
    /\ path' = [path EXCEPT ![p] = Absent]
    /\ cur' = [cur EXCEPT ![p] = Absent]
    /\ buf' = [buf EXCEPT ![p] = Absent]

(* The operation goes on to its next call. *)
Continue(p, l) == Goto(p, l) /\ UNCHANGED locals

-----------------------------------------------------------------------------
(* Quarantine(verdictID, path, expectedSHA)                                *)

(* HashFile just before acting: the file has to be the one the verdict saw. *)
QHash(p, f, h) ==
    /\ pc[p] = "idle" /\ "quarantine" \in Duties[p]
    /\ disk[f] = h
    /\ path' = [path EXCEPT ![p] = f]
    /\ cur' = [cur EXCEPT ![p] = h]
    /\ Goto(p, "q_checks")
    /\ UNCHANGED <<files, records, used, ref, buf, edits>>

(* A control character, a path outside every root, a link or a second name. *)
Refuses(f) == f \in Refused

(* Stat, control characters, containment, links; then newRef. *)
QChecks(p) ==
    /\ pc[p] = "q_checks"
    /\ \/ /\ disk[path[p]] = Absent \/ Refuses(path[p])
          /\ Done(p)
          /\ UNCHANGED used
       \/ /\ disk[path[p]] # Absent /\ ~Refuses(path[p])
          /\ \E r \in Ref \ used :
                /\ used' = used \cup {r}
                /\ ref' = [ref EXCEPT ![p] = r]
          /\ Goto(p, "q_open")
          /\ UNCHANGED <<path, cur, buf>>
    /\ UNCHANGED <<files, records, edits>>

(* copyAndVerify opens the source and creates the copy. *)
QOpen(p) ==
    /\ pc[p] = "q_open"
    /\ \/ /\ disk[path[p]] = Absent
          /\ Done(p)
          /\ UNCHANGED vault
       \/ /\ disk[path[p]] # Absent
          /\ SetCopy(ref[p], Damaged)
          /\ buf' = [buf EXCEPT ![p] = disk[path[p]]]
          /\ Goto(p, "q_copy")
          /\ UNCHANGED <<ref, path, cur>>
    /\ UNCHANGED <<disk, records, used, edits>>

(* Variant that takes the copy for good without comparing its hash. *)
QCopyUnverified(p) ==
    /\ pc[p] = "q_copy"
    /\ \E w \in {buf[p], disk[path[p]]} \ {Absent} : SetCopy(ref[p], w)
    /\ Continue(p, "q_insert")
    /\ UNCHANGED <<disk, records, used, edits>>

(* The bytes are copied and hashed as they are written.  A file edited in  *)
(* place since it was opened gives its new content, one that was replaced  *)
(* or removed still gives the old one; anything but the hash that was      *)
(* checked is thrown away.                                                 *)
QCopy(p) ==
    /\ pc[p] = "q_copy"
    /\ \E w \in {buf[p], disk[path[p]]} \ {Absent} :
          \/ /\ w = cur[p]
             /\ SetCopy(ref[p], w)
             /\ Continue(p, "q_insert")
          \/ /\ w # cur[p]
             /\ DropCopy(ref[p])
             /\ Done(p)
    /\ UNCHANGED <<disk, records, used, edits>>

(* Variant that ignores the error and goes on to remove the original. *)
QCopyFailsUnnoticed(p) ==
    /\ pc[p] \in {"q_open", "q_copy"} /\ "disk" \in Faults
    /\ Continue(p, "q_remove")
    /\ UNCHANGED <<files, records, used, edits>>

(* Full disk, partial write, failing sync: the copy is removed. *)
QCopyFails(p) ==
    /\ pc[p] \in {"q_open", "q_copy"} /\ "disk" \in Faults
    /\ DropCopy(ref[p])
    /\ Done(p)
    /\ UNCHANGED <<disk, records, used, edits>>

(* InsertQuarantineItem: the record exists before the original goes. *)
QInsert(p) ==
    /\ pc[p] = "q_insert"
    /\ status' = [status EXCEPT ![ref[p]] = "quarantined"]
    /\ origin' = [origin EXCEPT ![ref[p]] = path[p]]
    /\ sha' = [sha EXCEPT ![ref[p]] = cur[p]]
    /\ \E t \in {"never", "running"} :
          retention' = [retention EXCEPT ![ref[p]] = t]
    /\ Continue(p, "q_remove")
    /\ UNCHANGED <<files, used, edits>>

(* Variant that leaves the copy behind when it cannot be recorded. *)
QInsertFailsLeaving(p) ==
    /\ pc[p] = "q_insert" /\ "db" \in Faults
    /\ Done(p)
    /\ UNCHANGED <<files, records, used, edits>>

(* The item cannot be recorded: the copy is removed. *)
QInsertFails(p) ==
    /\ pc[p] = "q_insert" /\ "db" \in Faults
    /\ DropCopy(ref[p])
    /\ Done(p)
    /\ UNCHANGED <<disk, records, used, edits>>

(* os.Remove(path): by name, whatever the file contains by now. *)
QRemove(p) ==
    /\ pc[p] = "q_remove"
    /\ \/ /\ disk[path[p]] # Absent
          /\ SetFile(path[p], Absent)
          /\ Done(p)
       \/ /\ disk[path[p]] = Absent \/ "disk" \in Faults
          /\ Continue(p, "q_undo")
          /\ UNCHANGED disk
    /\ UNCHANGED <<vault, records, used, edits>>

(* The original could not be removed: ForcePurge, its error ignored. *)
QUndo(p) ==
    /\ pc[p] = "q_undo"
    /\ \/ /\ status[ref[p]] = "quarantined"
          /\ SetStatus(ref[p], "purged")
       \/ /\ status[ref[p]] # "quarantined" \/ "db" \in Faults
          /\ UNCHANGED records
    /\ Continue(p, "q_undrop")
    /\ UNCHANGED <<files, used, edits>>

QUndrop(p) ==
    /\ pc[p] = "q_undrop"
    /\ DropCopy(ref[p])
    /\ Done(p)
    /\ UNCHANGED <<disk, records, used, edits>>

-----------------------------------------------------------------------------
(* Restore(ref)                                                            *)

RGet(p, r) ==
    /\ pc[p] = "idle" /\ "restore" \in Duties[p]
    /\ status[r] = "quarantined"
    /\ ref' = [ref EXCEPT ![p] = r]
    /\ Goto(p, "r_hash")
    /\ UNCHANGED <<files, records, used, path, cur, buf, edits>>

(* The copy in the vault must still have the recorded hash. *)
RHash(p) ==
    /\ pc[p] = "r_hash"
    /\ \/ /\ vault[ref[p]] = sha[ref[p]]
          /\ Continue(p, "r_stat")
       \/ /\ vault[ref[p]] # sha[ref[p]]
          /\ Done(p)
    /\ UNCHANGED <<files, records, used, edits>>

(* Variant that does not look at the original path. *)
RStatNot(p) ==
    /\ pc[p] = "r_stat"
    /\ Continue(p, "r_create")
    /\ UNCHANGED <<files, records, used, edits>>

(* Nothing may be at the original path. *)
RStat(p) ==
    /\ pc[p] = "r_stat"
    /\ \/ /\ disk[origin[ref[p]]] = Absent
          /\ Continue(p, "r_create")
       \/ /\ disk[origin[ref[p]]] # Absent
          /\ Done(p)
    /\ UNCHANGED <<files, records, used, edits>>

(* copyAndVerify opens the copy and creates the original with O_EXCL; when *)
(* either fails, Restore goes on to its error path.                        *)
RCreate(p) ==
    /\ pc[p] = "r_create"
    /\ \/ /\ vault[ref[p]] # Absent /\ disk[origin[ref[p]]] = Absent
          /\ SetFile(origin[ref[p]], p)
          /\ buf' = [buf EXCEPT ![p] = vault[ref[p]]]
          /\ Goto(p, "r_fill")
          /\ UNCHANGED <<ref, path, cur>>
       \/ /\ vault[ref[p]] = Absent \/ disk[origin[ref[p]]] # Absent
                \/ "disk" \in Faults
          /\ Continue(p, "r_clean")
          /\ UNCHANGED disk
    /\ UNCHANGED <<vault, records, used, edits>>

(* The bytes go to the file this restore created, which is at the original *)
(* path only while nobody else has removed it.  A copy altered since it    *)
(* was hashed cannot become a complete file: its hash is compared again.   *)
RFill(p) ==
    /\ pc[p] = "r_fill"
    /\ \/ /\ buf[p] = sha[ref[p]]
          /\ IF disk[origin[ref[p]]] = p
                THEN SetFile(origin[ref[p]], buf[p]) ELSE UNCHANGED disk
          /\ Continue(p, "r_mark")
       \/ /\ buf[p] # sha[ref[p]] \/ "disk" \in Faults
          /\ Continue(p, "r_clean")
          /\ UNCHANGED disk
    /\ UNCHANGED <<vault, records, used, edits>>

(* Variant that leaves a failed restore's file where it is. *)
RCleanNot(p) ==
    /\ pc[p] = "r_clean"
    /\ Done(p)
    /\ UNCHANGED <<files, records, used, edits>>

(* The error path removes the original, by name, whoever put it there. *)
RClean(p) ==
    /\ pc[p] = "r_clean"
    /\ SetFile(origin[ref[p]], Absent) \/ ("disk" \in Faults /\ UNCHANGED disk)
    /\ Done(p)
    /\ UNCHANGED <<vault, records, used, edits>>

(* Variant of MarkRestored without the condition on the status. *)
RMarkAny(p) ==
    /\ pc[p] = "r_mark"
    /\ SetStatus(ref[p], "restored")
    /\ Continue(p, "r_drop")
    /\ UNCHANGED <<files, used, edits>>

(* MarkRestored: only an active item, otherwise an error. *)
RMark(p) ==
    /\ pc[p] = "r_mark"
    /\ \/ /\ status[ref[p]] = "quarantined"
          /\ SetStatus(ref[p], "restored")
          /\ Continue(p, "r_drop")
       \/ /\ status[ref[p]] # "quarantined" \/ "db" \in Faults
          /\ Done(p)
          /\ UNCHANGED records
    /\ UNCHANGED <<files, used, edits>>

(* The copy leaves the vault last; failing to remove it is no error. *)
RDrop(p) ==
    /\ pc[p] = "r_drop"
    /\ DropCopy(ref[p])
    /\ Done(p)
    /\ UNCHANGED <<disk, records, used, edits>>

-----------------------------------------------------------------------------
(* Purge(ref, force); PurgeExpired is Purge without force on each ref that *)
(* ExpiredItems listed, and Purge looks at the item afresh each time.      *)

PGet(p, r) ==
    /\ pc[p] = "idle" /\ "purge" \in Duties[p]
    /\ status[r] = "quarantined"
    /\ ref' = [ref EXCEPT ![p] = r]
    /\ pc' \in {[pc EXCEPT ![p] = l] : l \in {"p_force", "p_expired"}}
    /\ UNCHANGED <<files, records, used, path, cur, buf, edits>>

(* ForcePurge: the user's explicit purge ignores the retention. *)
PForce(p) ==
    /\ pc[p] = "p_force"
    /\ \/ /\ status[ref[p]] = "quarantined"
          /\ SetStatus(ref[p], "purged")
          /\ Continue(p, "p_drop")
       \/ /\ status[ref[p]] # "quarantined" \/ "db" \in Faults
          /\ Done(p)
          /\ UNCHANGED records
    /\ UNCHANGED <<files, used, edits>>

(* MarkPurged: active, with a retention, and past it. *)
PExpired(p) ==
    /\ pc[p] = "p_expired"
    /\ \/ /\ status[ref[p]] = "quarantined" /\ retention[ref[p]] = "over"
          /\ SetStatus(ref[p], "purged")
          /\ Continue(p, "p_drop")
       \/ /\ status[ref[p]] # "quarantined" \/ retention[ref[p]] # "over"
                \/ "db" \in Faults
          /\ Done(p)
          /\ UNCHANGED records
    /\ UNCHANGED <<files, used, edits>>

PDrop(p) ==
    /\ pc[p] = "p_drop"
    /\ DropCopy(ref[p])
    /\ Done(p)
    /\ UNCHANGED <<disk, records, used, edits>>

-----------------------------------------------------------------------------
(* Time, the user, the disk and the host.                                  *)

RetentionEnds(r) ==
    /\ retention[r] = "running"
    /\ retention' = [retention EXCEPT ![r] = "over"]
    /\ UNCHANGED <<files, status, origin, sha, used, pc, locals, edits>>

(* A quarantine has opened the file at f and will remove it by name. *)
Copying(p, f) == pc[p] \in {"q_copy", "q_insert", "q_remove"} /\ path[p] = f

(* A restore has found nothing at f and will create, fill or remove it. *)
PuttingBack(p, f) ==
    pc[p] \in RestoreSteps \ {"r_hash", "r_stat"} /\ origin[ref[p]] = f

InWindow(f) == \E p \in Proc : Copying(p, f) \/ PuttingBack(p, f)

(* The user writes, replaces or deletes a file: FTP, an editor, a deploy. *)
UserChanges(f, x) ==
    /\ edits < MaxEdits
    /\ AnyMoment \/ ~InWindow(f)
    /\ disk[f] # x
    /\ SetFile(f, x)
    /\ edits' = edits + 1
    /\ UNCHANGED <<vault, records, used, pc, locals>>

Rot(r) ==
    /\ "rot" \in Faults
    /\ vault[r] \in Content
    /\ SetCopy(r, Damaged)
    /\ UNCHANGED <<disk, records, used, pc, locals, edits>>

(* The host kills the process: what is on disk and in the database stays. *)
Crash(p) ==
    /\ "crash" \in Faults
    /\ pc[p] # "idle"
    /\ Done(p)
    /\ UNCHANGED <<files, records, used, edits>>

-----------------------------------------------------------------------------
Quarantine(p) ==
    \/ \E f \in Path, h \in Content : QHash(p, f, h)
    \/ QChecks(p) \/ QOpen(p) \/ QCopy(p) \/ QCopyFails(p) \/ QInsert(p)
    \/ QInsertFails(p) \/ QRemove(p) \/ QUndo(p) \/ QUndrop(p)

Restore(p) ==
    \/ \E r \in Ref : RGet(p, r)
    \/ RHash(p) \/ RStat(p) \/ RCreate(p) \/ RFill(p) \/ RClean(p) \/ RMark(p)
    \/ RDrop(p)

Purge(p) ==
    \/ \E r \in Ref : PGet(p, r)
    \/ PForce(p) \/ PExpired(p) \/ PDrop(p)

Environment ==
    \/ \E r \in Ref : RetentionEnds(r) \/ Rot(r)
    \/ \E f \in Path, x \in Content \cup {Absent} : UserChanges(f, x)

Next ==
    \/ \E p \in Proc : Quarantine(p) \/ Restore(p) \/ Purge(p) \/ Crash(p)
    \/ Environment

Spec == Init /\ [][Next]_vars

-----------------------------------------------------------------------------
Types ==
    /\ disk \in [Path -> FileState]
    /\ vault \in [Ref -> CopyState]
    /\ status \in [Ref -> Status]
    /\ origin \in [Ref -> Path \cup {Absent}]
    /\ sha \in [Ref -> Content \cup {Absent}]
    /\ retention \in [Ref -> Retention]
    /\ used \subseteq Ref
    /\ pc \in [Proc -> {"idle"} \cup QuarantineSteps \cup RestoreSteps \cup PurgeSteps]
    /\ ref \in [Proc -> Ref \cup {Absent}]
    /\ path \in [Proc -> Path \cup {Absent}]
    /\ cur \in [Proc -> Content \cup {Absent}]
    /\ buf \in [Proc -> FileState \cup CopyState]
    /\ edits \in 0 .. MaxEdits

(* An operation's local variables are set by the time they are used. *)
LocalsSet ==
    \A p \in Proc :
        /\ pc[p] \in QuarantineSteps => path[p] \in Path /\ cur[p] \in Content
        /\ pc[p] \notin {"idle", "q_checks"} => ref[p] \in Ref

TypeOK == Types /\ LocalsSet

(***************************************************************************)
(* An item listed as active has an intact copy in the vault, so that it    *)
(* can be restored byte for byte (the promise `quarantine list` prints:    *)
(* "All are restorable with ..."), at every moment of every interleaving   *)
(* of quarantines, restores, purges, user edits and kills.  It needs the   *)
(* database to accept the compensating ForcePurge and the disk not to rot: *)
(* without either, it fails.                                               *)
(***************************************************************************)
ActiveIsRestorable ==
    \A r \in Ref : status[r] = "quarantined" => vault[r] = sha[r]

(* Somebody is at a step that purges r whatever its retention. *)
Asked(r) == \E p \in Proc : ref[p] = r /\ pc[p] \in {"p_force", "q_undo"}

(***************************************************************************)
(* A restore and a purge that race on one item cannot both win: once the   *)
(* record says restored or purged it says so for ever (the condition on    *)
(* the status in MarkRestored, MarkPurged and ForcePurge).                 *)
(***************************************************************************)
OutcomeIsFinal ==
    [][ \A r \in Ref :
          status[r] \in {"restored", "purged"} => status'[r] = status[r] ]_vars

(***************************************************************************)
(* Inside its retention an item is purged only by the user's forced purge  *)
(* or by the quarantine that could not remove the original ("Principle     *)
(* I's last barrier at the database level", store/quarantine.go:156-158).  *)
(***************************************************************************)
RetentionHolds ==
    [][ \A r \in Ref :
          status[r] = "quarantined" /\ status'[r] = "purged" /\ retention[r] # "over"
            => Asked(r) ]_vars

Ledger ==
    INSTANCE VaultLedger
        WITH copy <- [r \in Ref |-> IF status[r] = "quarantined" THEN vault[r] ELSE Absent],
             asked <- [r \in Ref |-> Asked(r)]

(***************************************************************************)
(* The calls and statements of every quarantine, restore, purge, failure   *)
(* and kill amount to the ledger's steps: an item is in custody exactly    *)
(* from its insert to the one statement that ends it, with the copy that   *)
(* was verified, and its retention is kept (vault.go:3-12).  It needs a    *)
(* database that answers and a disk that keeps what it was given.          *)
(***************************************************************************)
ImplementsLedger == Ledger!Spec

(* No two quarantines, and no two restores, are in that window of one file. *)
Alone ==
    \A f \in Path, p \in Proc, q \in Proc :
        (Copying(p, f) /\ Copying(q, f)) \/ (PuttingBack(p, f) /\ PuttingBack(q, f))
            => p = q

(* Where a content is, or can be got back from with a restore. *)
Copies(c) ==
    {f \in Path : disk[f] = c}
        \cup {r \in Ref : status[r] = "quarantined" /\ vault[r] = c}

(* An item of this content was purged: on request, after its retention, or *)
(* because its original never got away.                                    *)
Purged(c) == \E r \in Ref : sha[r] = c /\ status[r] = "purged"

(***************************************************************************)
(* Principle I, "quarantine means move + record + block, NEVER delete"     *)
(* (vault.go:3-5): no step of a quarantine, a restore or a kill takes the  *)
(* last copy of a content, unless an item of that content is purged;       *)
(* otherwise only the user's own changes can.                              *)
(***************************************************************************)
NothingIsLost ==
    [][ \A c \in Content :
          Copies(c) # {} /\ Copies(c)' = {} => edits' # edits \/ Purged(c)' ]_vars

(***************************************************************************)
(* The error path of Restore removes only a file this restore created ("It *)
(* overwrites nothing: if there is a file at the original path, it may be  *)
(* the clean version the user has already put back", vault.go:258-259).    *)
(***************************************************************************)
RestoreRemovesOnlyItsOwn ==
    [][ \A p \in Proc :
          pc[p] = "r_clean" /\ pc'[p] = "idle" /\ disk' # disk
            => disk[origin[ref[p]]] = p ]_vars

(***************************************************************************)
(* No restore that returns leaves a truncated file at the original path    *)
(* (the clean-up in Restore's two error branches): an incomplete file is   *)
(* always one that a running restore is filling or about to remove.        *)
(***************************************************************************)
NoTruncatedOriginal ==
    \A f \in Path, p \in Proc :
        disk[f] = p => pc[p] \in {"r_fill", "r_clean"} /\ origin[ref[p]] = f

(***************************************************************************)
(* A copy in the vault that no active record explains belongs to an        *)
(* operation in progress: nothing becomes "a file in the vault with no     *)
(* record of how to restore it" (vault.go:217-219).                        *)
(***************************************************************************)
NoUnexplainedCopy ==
    \A r \in Ref :
        vault[r] # Absent /\ status[r] # "quarantined"
            => \E p \in Proc :
                  ref[p] = r /\ pc[p] \in {"q_copy", "q_insert", "q_undrop",
                                            "r_drop", "p_drop"}
=============================================================================
