-------------------------------- MODULE Lock --------------------------------
(***************************************************************************)
(* The single-instance lock of internal/lock: a file created with O_EXCL   *)
(* whose content names the PID of its owner.  A contender is one call of   *)
(* lock.Acquire, made by cycle.Run in some operating-system process; one   *)
(* process (the panel, the daemon) may host several contenders.            *)
(*                                                                         *)
(* Acquire is not atomic: creating the file, writing the PID into it,      *)
(* reading somebody else's file, asking whether that PID is alive and      *)
(* removing a stale file are separate system calls, and the removal is by  *)
(* NAME.  Each of them is an action here.                                  *)
(***************************************************************************)
EXTENDS Naturals, FiniteSets

CONSTANTS
    Contender,   \* the calls of lock.Acquire that may be in progress
    Pid,         \* process identifiers the kernel can hand out
    PidOf,       \* the process each contender runs in
    Nobody,      \* stands for "no lock file"
    MaxFaults    \* bound on kills and failing system calls

ASSUME PidOfAssumption == PidOf \in [Contender -> Pid]
ASSUME NobodyAssumption == Nobody \notin Contender
ASSUME MaxFaultsAssumption == MaxFaults \in Nat

VARIABLES
    owner,       \* the contender that created the file at the lock path, or
                 \* Nobody when there is no file
    written,     \* the PID has been written into that file
    readers,     \* history: the contenders that have read that file
    running,     \* PIDs of live SentinelHost processes
    foreign,     \* PIDs of live processes that are somebody else's
    pc,          \* where each contender is inside Acquire / Release
    seen,        \* the PID each contender last read from the file
    misremoved,  \* history: a removal by name took a file it was not meant for
    faults       \* faults injected so far

lockFile == <<owner, written, readers>>

vars == <<lockFile, running, foreign, pc, seen, misremoved, faults>>

(***************************************************************************)
(* "idle": not in Acquire; "create": about to open with O_EXCL; "write":   *)
(* the file is ours but still empty; "read", "check", "remove": the file   *)
(* existed and is being examined; "held": Acquire returned a *Lock.        *)
(***************************************************************************)
Location == {"idle", "create", "write", "read", "check", "remove", "held"}

Absent == owner = Nobody

(* A PID answers signal 0, with success or with EPERM. *)
ProcessAlive(k) == k \in running \cup foreign

Holds(c) == pc[c] = "held"

-----------------------------------------------------------------------------
Init ==
    /\ owner = Nobody
    /\ written = FALSE
    /\ readers = {}
    /\ running = {}
    /\ foreign = {}
    /\ pc = [c \in Contender |-> "idle"]
    /\ seen \in [Contender -> Pid]
    /\ misremoved = FALSE
    /\ faults = 0

Fault == faults < MaxFaults /\ faults' = faults + 1

Goto(c, l) == pc' = [pc EXCEPT ![c] = l]

(* A new, empty file at the lock path, created by c. *)
NewFile(c) == owner' = c /\ written' = FALSE /\ readers' = {}

(* The PID goes into the file the descriptor refers to, which is the file  *)
(* at the path only while nobody else has removed it.                      *)
FillFile(c) ==
    /\ written' = (written \/ owner = c)
    /\ UNCHANGED <<owner, readers>>

(* os.Remove(path): whatever file has that name goes.  "meant" says whether *)
(* the file that is there is the one the caller intended to remove.        *)
RemoveByName(meant) ==
    /\ owner' = Nobody
    /\ written' = FALSE
    /\ readers' = {}
    /\ misremoved' = (misremoved \/ (~Absent /\ ~meant))

-----------------------------------------------------------------------------
(* Acquire: the entry point, and the O_EXCL open.                          *)

Begin(c) ==
    /\ pc[c] = "idle"
    /\ PidOf[c] \in running
    /\ Goto(c, "create")
    /\ UNCHANGED <<lockFile, running, foreign, seen, misremoved, faults>>

(* Variant without O_EXCL: an existing lock is truncated and taken over. *)
CreateWithoutExcl(c) ==
    /\ pc[c] = "create"
    /\ NewFile(c)
    /\ Goto(c, "write")
    /\ UNCHANGED <<running, foreign, seen, misremoved, faults>>

Create(c) ==
    /\ pc[c] = "create"
    /\ \/ /\ Absent
          /\ NewFile(c)
          /\ Goto(c, "write")
       \/ /\ ~Absent
          /\ Goto(c, "read")
          /\ UNCHANGED lockFile
    /\ UNCHANGED <<running, foreign, seen, misremoved, faults>>

(* MkdirAll fails, or the open fails for a reason other than EEXIST. *)
CreateFails(c) ==
    /\ pc[c] = "create"
    /\ Fault
    /\ Goto(c, "idle")
    /\ UNCHANGED <<lockFile, running, foreign, seen, misremoved>>

(* The PID is written, the file closed: Acquire returns the lock. *)
Write(c) ==
    /\ pc[c] = "write"
    /\ FillFile(c)
    /\ Goto(c, "held")
    /\ UNCHANGED <<running, foreign, seen, misremoved, faults>>

(* The write fails (full disk): the file is removed, by name. *)
WriteFails(c) ==
    /\ pc[c] = "write"
    /\ Fault
    /\ RemoveByName(owner = c)
    /\ Goto(c, "idle")
    /\ UNCHANGED <<running, foreign, seen>>

(* The write succeeds and Close fails: an error, and the file stays. *)
CloseFails(c) ==
    /\ pc[c] = "write"
    /\ Fault
    /\ FillFile(c)
    /\ Goto(c, "idle")
    /\ UNCHANGED <<running, foreign, seen, misremoved>>

-----------------------------------------------------------------------------
(* Acquire: the file exists.                                               *)

(* Read: an unreadable or still empty file is taken for a live owner's. *)
ReadLock(c) ==
    /\ pc[c] = "read"
    /\ \/ /\ ~written
          /\ Goto(c, "idle")
          /\ UNCHANGED <<readers, seen>>
       \/ /\ written
          /\ seen' = [seen EXCEPT ![c] = PidOf[owner]]
          /\ readers' = readers \cup {c}
          /\ Goto(c, "check")
    /\ UNCHANGED <<owner, written, running, foreign, misremoved, faults>>

(* Variant that never asks the kernel: any other process's lock is stale. *)
CheckNothing(c) ==
    /\ pc[c] = "check"
    /\ Goto(c, IF seen[c] = PidOf[c] THEN "idle" ELSE "remove")
    /\ UNCHANGED <<lockFile, running, foreign, seen, misremoved, faults>>

Check(c) ==
    /\ pc[c] = "check"
    /\ Goto(c, IF ProcessAlive(seen[c]) THEN "idle" ELSE "remove")
    /\ UNCHANGED <<lockFile, running, foreign, seen, misremoved, faults>>

(* Variant that gives up on a stale lock as if its owner were alive. *)
RemoveStaleNever(c) ==
    /\ pc[c] = "remove"
    /\ Goto(c, "idle")
    /\ UNCHANGED <<lockFile, running, foreign, seen, misremoved, faults>>

(* Removing the stale file and calling Acquire again.  A file that is      *)
(* already gone is no error.                                               *)
RemoveStale(c) ==
    /\ pc[c] = "remove"
    /\ RemoveByName(c \in readers)
    /\ Goto(c, "create")
    /\ UNCHANGED <<running, foreign, seen, faults>>

RemoveStaleFails(c) ==
    /\ pc[c] = "remove"
    /\ Fault
    /\ Goto(c, "idle")
    /\ UNCHANGED <<lockFile, running, foreign, seen, misremoved>>

-----------------------------------------------------------------------------
(* Release clears l.held and removes the file by name. *)
Release(c) ==
    /\ pc[c] = "held"
    /\ RemoveByName(owner = c)
    /\ Goto(c, "idle")
    /\ UNCHANGED <<running, foreign, seen, faults>>

(* Release's removal fails: the lock is no longer held and the file stays. *)
ReleaseFails(c) ==
    /\ pc[c] = "held"
    /\ Fault
    /\ Goto(c, "idle")
    /\ UNCHANGED <<lockFile, running, foreign, seen, misremoved>>

-----------------------------------------------------------------------------
(* The operating system: processes come and go, and PIDs are reused.       *)

Spawn(k) ==
    /\ ~ProcessAlive(k)
    /\ running' = running \cup {k}
    /\ UNCHANGED <<lockFile, foreign, pc, seen, misremoved, faults>>

(* A process ends by itself, with no Acquire or cycle in progress. *)
Exit(k) ==
    /\ k \in running
    /\ \A c \in Contender : PidOf[c] = k => pc[c] = "idle"
    /\ running' = running \ {k}
    /\ UNCHANGED <<lockFile, foreign, pc, seen, misremoved, faults>>

(* The host kills a process in the middle of anything: no defer runs. *)
Kill(k) ==
    /\ k \in running
    /\ \E c \in Contender : PidOf[c] = k /\ pc[c] # "idle"
    /\ Fault
    /\ running' = running \ {k}
    /\ pc' = [c \in Contender |-> IF PidOf[c] = k THEN "idle" ELSE pc[c]]
    /\ UNCHANGED <<lockFile, foreign, seen, misremoved>>

(* A dead process's PID is given to a process of another account. *)
Recycle(k) ==
    /\ ~ProcessAlive(k)
    /\ foreign' = foreign \cup {k}
    /\ UNCHANGED <<lockFile, running, pc, seen, misremoved, faults>>

ForeignExit(k) ==
    /\ k \in foreign
    /\ foreign' = foreign \ {k}
    /\ UNCHANGED <<lockFile, running, pc, seen, misremoved, faults>>

-----------------------------------------------------------------------------
Proceed(c) ==
    Create(c) \/ Write(c) \/ ReadLock(c) \/ Check(c) \/ RemoveStale(c) \/ Release(c)

Failure(c) ==
    CreateFails(c) \/ WriteFails(c) \/ CloseFails(c) \/ RemoveStaleFails(c)
        \/ ReleaseFails(c)

Environment(k) == Spawn(k) \/ Exit(k) \/ Kill(k) \/ Recycle(k) \/ ForeignExit(k)

Next ==
    \/ \E c \in Contender : Begin(c) \/ Proceed(c) \/ Failure(c)
    \/ \E k \in Pid : Environment(k)

Spec == Init /\ [][Next]_vars

(***************************************************************************)
(* A process that is running makes its calls, and cron or the daemon's     *)
(* ticker keeps calling Acquire for as long as a process that can exists.  *)
(* Nothing forces a process to start, to exit, to fail or to be killed.    *)
(***************************************************************************)
Fairness == \A c \in Contender : WF_vars(Proceed(c)) /\ SF_vars(Begin(c))

FairSpec == Spec /\ Fairness

-----------------------------------------------------------------------------
TypeOK ==
    /\ owner \in Contender \cup {Nobody}
    /\ written \in BOOLEAN
    /\ readers \subseteq Contender
    /\ running \subseteq Pid
    /\ foreign \subseteq Pid
    /\ pc \in [Contender -> Location]
    /\ seen \in [Contender -> Pid]
    /\ misremoved \in BOOLEAN
    /\ faults \in 0 .. MaxFaults

(***************************************************************************)
(* Two contenders never hold the lock together: "Package lock prevents two *)
(* instances of SentinelHost from running at once" (lock.go:1-5).  Acquire *)
(* does NOT guarantee it: two contenders that read the same stale file     *)
(* both remove by name, and the second removal takes the first one's fresh *)
(* lock.                                                                   *)
(***************************************************************************)
MutualExclusion == \A c, d \in Contender : Holds(c) /\ Holds(d) => c = d

(***************************************************************************)
(* What Acquire does guarantee, under kills, reused PIDs and failing       *)
(* system calls: until some removal by name has hit a file other than the  *)
(* one its caller read or created, at most one contender holds the lock    *)
(* and the file at the path is that contender's, with its PID inside.      *)
(***************************************************************************)
ExclusiveUntilMisremoval ==
    ~misremoved =>
        /\ MutualExclusion
        /\ \A c \in Contender : Holds(c) => owner = c /\ written

(***************************************************************************)
(* The first removal of a wrong file can only be Acquire's removal of a    *)
(* stale lock, and only while the file it takes is newer than the one the  *)
(* remover examined; neither Release nor the clean-up of a failed write    *)
(* starts the damage.                                                      *)
(***************************************************************************)
OnlyStaleRemovalMisremoves ==
    [][ ~misremoved /\ misremoved' =>
          \E c \in Contender : pc[c] = "remove" /\ pc'[c] = "create"
                                /\ c \notin readers ]_vars

(* A lock file with no live process behind the PID of its creator. *)
Orphan == ~Absent /\ ~ProcessAlive(PidOf[owner])

(***************************************************************************)
(* A stale lock that carries its PID does not stay for ever while some     *)
(* SentinelHost process is there to try (lock.go:62-64, "must not leave    *)
(* the tool stuck forever").  "written" is the code's own limit: the empty *)
(* file of a creator killed between the O_EXCL create and the write of its *)
(* PID is refused as unreadable by every later attempt.                    *)
(***************************************************************************)
WrittenOrphanRecovered == ~<>[](Orphan /\ written /\ running # {})
=============================================================================
