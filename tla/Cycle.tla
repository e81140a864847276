------------------------------- MODULE Cycle --------------------------------
(***************************************************************************)
(* One scan cycle of internal/cycle together with the baseline it reads    *)
(* and advances (internal/baseline): walk the roots, hash what the         *)
(* (size, mtime) pair says has changed, hand the targets to every engine,  *)
(* persist the findings, act on the confirmed ones, save the baseline,     *)
(* close the row.  The next cycle skips what the baseline knows, so an     *)
(* entry that should not be there hides a file from every engine.          *)
(*                                                                         *)
(* The cycle runs alone (module Lock); the site does not stand still: the  *)
(* user changes files between any two steps unless a run says otherwise.   *)
(*                                                                         *)
(* Contents are numbered by the edit that first wrote them, 0 is "no file" *)
(* or "no hash"; a stamp stands for a file's (size, mtime) pair.           *)
(***************************************************************************)
EXTENDS Naturals, FiniteSets

CONSTANTS
    File,        \* the paths of the site
    Root,        \* general.roots
    RootOf,      \* the root each path lies under
    MaxFiles,    \* the values limits.max_files_per_cycle is given, 0 for no limit
    Engine,      \* the enabled engines
    Lenient,     \* engines whose Parse does not look at the exit code (pmf)
    Covers,      \* the paths each engine looks at (wpchecksums: core files only)
    Malicious,   \* the contents every engine recognises
    Quorum,      \* how many engines' findings make a confirmed verdict
    Mode,        \* the modes of the cycles that are started
    Faults,      \* the kinds of failure the environment may inject
    Quiet,       \* steps of the cycle during which nobody changes a file
    Revert,      \* a content no engine answered for may come back
    MaxEdits,    \* bound on changes to the site
    MaxFaults    \* bound on failures

FaultKind == {"unreadable", "root", "abstain", "exit", "timeout", "db", "disk", "kill"}

Step == {"walk", "hash", "engines", "read", "parse", "persist", "act", "finish"}

ASSUME RootAssumption == RootOf \in [File -> Root]
ASSUME EngineAssumption == Covers \in [Engine -> SUBSET File]
ASSUME ModeAssumption == Mode \subseteq {"incremental", "full"}
ASSUME FaultAssumption == Faults \subseteq FaultKind
ASSUME QuietAssumption == Quiet \subseteq Step
ASSUME RevertAssumption == Revert \in BOOLEAN
ASSUME BoundAssumption == MaxFiles \subseteq Nat /\ Quorum \in Nat /\ MaxEdits \in Nat
                            /\ MaxFaults \in Nat

VARIABLES
    disk,        \* the content at each path
    stamp,       \* its (size, mtime) pair
    unreadable,  \* the paths os.Open refuses
    knownSha,    \* the baseline file: the hash recorded for each path,
    knownStamp,  \* and the pair recorded with it
    pc,          \* where the cycle is: a Step, "idle", or "dead" when killed
    mode,        \* of this cycle
    expired,     \* limits.cycle_timeout has passed
    current,     \* the walk's entries,
    wstamp,      \* their pairs,
    curSha,      \* and their hashes
    todo,        \* entries still to hash, or targets the engine has not reached
    failed,      \* entries whose hashing failed
    targets,     \* what the engines are given
    waiting,     \* engines still to run
    engine,      \* the one that is running
    sight,       \* the content it read at each target
    voted,       \* AnyEngineVoted
    findings,    \* <<engine, path, hash>> of the reports
    confirmed,   \* <<path, hash>> of the verdicts still to be acted on
    truncated,   \* a walk hit MaxFiles
    row,         \* the status of the cycle's row in the scans table
    answered,    \* history: contents a voting engine gave its answer on
    edits,
    faults

site == <<disk, stamp, unreadable, edits>>
baseline == <<knownSha, knownStamp>>
walk == <<current, wstamp, curSha, failed, targets, truncated>>
reports == <<waiting, engine, sight, voted, findings, answered>>

vars == <<site, baseline, walk, reports, pc, mode, expired, todo, confirmed, row, faults>>

Version == 1 .. MaxEdits
Content == 0 .. MaxEdits

Running == pc \in Step

Fault(kind) == kind \in Faults /\ faults < MaxFaults /\ faults' = faults + 1

Readable(f) == disk[f] # 0 /\ f \notin unreadable

-----------------------------------------------------------------------------
(* The baseline's questions and its update (baseline.go).                  *)

NeedsHash(f, pair) == knownSha[f] = 0 \/ knownStamp[f] # pair

(* Compare and Targets: what is new, or has another hash. *)
Changed(f) == knownSha[f] = 0 \/ curSha[f] # knownSha[f]

(* Update: an entry takes the walk's pair with its hash; an entry without  *)
(* a hash leaves the recorded one; only the incremental cycle forgets the  *)
(* paths the walk no longer lists.                                         *)
Update ==
    LET written(f) == f \in current /\ curSha[f] # 0
        gone(f) == mode = "incremental" /\ f \notin current
    IN /\ knownSha' = [f \in File |-> IF written(f) THEN curSha[f]
                                      ELSE IF gone(f) THEN 0 ELSE knownSha[f]]
       /\ knownStamp' = [f \in File |-> IF written(f) THEN wstamp[f]
                                        ELSE IF gone(f) THEN 0 ELSE knownStamp[f]]

(* A row that is closed with the cycle's own context: past the deadline    *)
(* the update fails and its error is discarded.                            *)
Close(status) ==
    /\ row' = IF expired THEN row ELSE status
    /\ pc' = "idle"

-----------------------------------------------------------------------------
Init ==
    /\ disk = [f \in File |-> 0]
    /\ stamp = [f \in File |-> 0]
    /\ unreadable = {}
    /\ knownSha = [f \in File |-> 0]
    /\ knownStamp = [f \in File |-> 0]
    /\ pc = "idle"
    /\ mode \in Mode
    /\ expired = FALSE
    /\ current = {}
    /\ wstamp = [f \in File |-> 0]
    /\ curSha = [f \in File |-> 0]
    /\ todo = {}
    /\ failed = {}
    /\ targets = {}
    /\ waiting = {}
    /\ engine \in Engine
    /\ sight = [f \in File |-> 0]
    /\ voted = FALSE
    /\ findings = {}
    /\ confirmed = {}
    /\ truncated = FALSE
    /\ row = "none"
    /\ answered = [f \in File |-> {}]
    /\ edits = 0
    /\ faults = 0

(* Run: a cycle starts, with its row recorded as running. *)
Start(m) ==
    /\ pc \in {"idle", "dead"}
    /\ pc' = "walk"
    /\ mode' = m
    /\ expired' = FALSE
    /\ voted' = FALSE
    /\ findings' = {}
    /\ confirmed' = {}
    /\ row' = "running"
    /\ UNCHANGED <<site, baseline, walk, waiting, engine, sight, answered, todo, faults>>

-----------------------------------------------------------------------------
(* collectTargets.                                                         *)

Under(r, S) == {f \in S : RootOf[f] = r}

AtMost(limit, n) == IF limit > 0 /\ n > limit THEN limit ELSE n

(* Walk of every root: an inaccessible root is skipped, a root with too    *)
(* many files is cut short.  A path listed is read for its pair only.      *)
WalkRoots ==
    /\ pc = "walk"
    /\ ~expired
    /\ \E limit \in MaxFiles, open \in SUBSET Root,
          listed \in SUBSET {f \in File : disk[f] # 0} :
          /\ open # {}
          /\ open # Root => Fault("root")
          /\ open = Root => UNCHANGED faults
          /\ \A f \in listed : RootOf[f] \in open
          /\ \A r \in open : Cardinality(Under(r, listed)) =
                AtMost(limit, Cardinality(Under(r, {f \in File : disk[f] # 0})))
          /\ current' = listed
          /\ truncated' = \E r \in open, f \in File :
                              RootOf[f] = r /\ disk[f] # 0 /\ f \notin listed
          /\ wstamp' = [f \in File |-> IF f \in listed THEN stamp[f] ELSE 0]
          /\ curSha' = [f \in File |-> IF f \in listed THEN knownSha[f] ELSE 0]
          /\ todo' = {f \in listed : mode = "full" \/ NeedsHash(f, stamp[f])}
          /\ failed' = {}
          /\ targets' = {}
    /\ pc' = "hash"
    /\ UNCHANGED <<site, baseline, reports, mode, expired, confirmed, row>>

(* No root could be walked: the cycle fails, and says so while it can. *)
WalkNothing ==
    /\ pc = "walk"
    /\ \/ expired /\ UNCHANGED faults
       \/ ~expired /\ Fault("root")
    /\ Close("failed")
    /\ UNCHANGED <<site, baseline, walk, reports, mode, expired, todo, confirmed>>

(* HashEntries, one entry: an unreadable one is dropped and counted, and   *)
(* keeps the hash the baseline had for it.                                 *)
HashEntry(f) ==
    /\ pc = "hash"
    /\ ~expired
    /\ f \in todo
    /\ todo' = todo \ {f}
    /\ IF Readable(f)
       THEN curSha' = [curSha EXCEPT ![f] = disk[f]] /\ UNCHANGED failed
       ELSE failed' = failed \cup {f} /\ UNCHANGED curSha
    /\ UNCHANGED <<site, baseline, reports, pc, mode, expired, current, wstamp,
                   targets, truncated, confirmed, row, faults>>


(* The targets are chosen once hashing has ended, or has been cut short by *)
(* the deadline.  In a full cycle the hashed entries are written over the  *)
(* front of the list they are read from, so entries that failed may be     *)
(* overwritten ("lost"), as many as there are hashed ones.                 *)
ChooseTargets ==
    /\ pc = "hash"
    /\ todo = {} \/ expired
    /\ \E lost \in SUBSET failed :
          /\ mode = "incremental" => lost = {}
          /\ Cardinality(lost) <= Cardinality(current \ (failed \cup todo))
          /\ current' = current \ lost
    /\ targets' = {f \in current' : IF mode = "full" THEN curSha[f] # 0 ELSE Changed(f)}
    /\ waiting' = Engine
    /\ pc' = "engines"
    /\ UNCHANGED <<site, baseline, mode, expired, wstamp, curSha, failed, truncated,
                   engine, sight, voted, findings, answered, todo, confirmed, row, faults>>

-----------------------------------------------------------------------------
(* runEngines: probe, scan, parse, one engine after the other.             *)

(* The probe runs a binary, or walks the roots, with the cycle's context:  *)
(* past the deadline no engine is available.                               *)
Unavailable(e) ==
    /\ pc = "engines"
    /\ e \in waiting
    /\ waiting' = waiting \ {e}
    /\ \/ expired /\ UNCHANGED faults
       \/ ~expired /\ Fault("abstain")
    /\ UNCHANGED <<site, baseline, walk, pc, mode, expired, todo, engine, sight, voted,
                   findings, answered, confirmed, row>>

(* With no targets the engine is not run, and a completed report stands in. *)
NothingToScan(e) ==
    /\ pc = "engines"
    /\ e \in waiting
    /\ ~expired
    /\ targets = {}
    /\ waiting' = waiting \ {e}
    /\ voted' = TRUE
    /\ UNCHANGED <<site, baseline, walk, pc, mode, expired, todo, engine, sight,
                   findings, answered, confirmed, row, faults>>

StartEngine(e) ==
    /\ pc = "engines"
    /\ e \in waiting
    /\ ~expired
    /\ targets # {}
    /\ waiting' = waiting \ {e}
    /\ engine' = e
    /\ todo' = targets \cap Covers[e]
    /\ sight' = [f \in File |-> 0]
    /\ pc' = "read"
    /\ UNCHANGED <<site, baseline, walk, mode, expired, voted, findings, answered,
                   confirmed, row, faults>>

(* The engine opens one target it looks at: it sees what is there now. *)
ReadTarget(f) ==
    /\ pc = "read"
    /\ ~expired
    /\ f \in todo
    /\ todo' = todo \ {f}
    /\ sight' = [sight EXCEPT ![f] = IF Readable(f) THEN disk[f] ELSE 0]
    /\ UNCHANGED <<site, baseline, walk, pc, mode, expired, waiting, engine, voted,
                   findings, answered, confirmed, row, faults>>

EngineEnds ==
    /\ pc = "read"
    /\ todo = {}
    /\ pc' = "parse"
    /\ UNCHANGED <<site, baseline, walk, reports, mode, expired, todo, confirmed, row,
                   faults>>

(* The engine fails, in any batch: its whole report abstains (mergeReports). *)
EngineAbstains ==
    /\ pc = "read"
    /\ \/ expired /\ UNCHANGED faults
       \/ ~expired /\ Fault("abstain")
    /\ todo' = {}
    /\ pc' = "engines"
    /\ UNCHANGED <<site, baseline, walk, reports, mode, expired, confirmed, row>>

(* The engine stops at once with an exit code of its own.  exec.Run leaves *)
(* the meaning of the code to the adapter; a lenient one reads the empty   *)
(* output as "no rule matched".                                            *)
EngineExits ==
    /\ pc = "read"
    /\ ~expired
    /\ Fault("exit")
    /\ voted' = (voted \/ engine \in Lenient)
    /\ todo' = {}
    /\ pc' = "engines"
    /\ UNCHANGED <<site, baseline, walk, mode, expired, waiting, engine, sight,
                   findings, answered, confirmed, row>>

(* Parse: every file the engine flagged is hashed AFTER the scan, and that *)
(* hash goes into the finding; a flagged file that cannot be hashed any    *)
(* more is counted as vanished and dropped.                                *)
Parse ==
    /\ pc = "parse"
    /\ LET flagged == {f \in targets : sight[f] \in Malicious \ {0}}
           reported == {f \in flagged : Readable(f)}
       IN /\ findings' = findings \cup {<<engine, f, disk[f]>> : f \in reported}
          /\ answered' = [f \in File |->
                IF f \in targets /\ sight[f] # 0 /\ (f \in flagged => f \in reported)
                THEN answered[f] \cup {sight[f]} ELSE answered[f]]
    /\ voted' = TRUE
    /\ pc' = "engines"
    /\ UNCHANGED <<site, baseline, walk, mode, expired, todo, waiting, engine, sight,
                   confirmed, row, faults>>

EnginesDone ==
    /\ pc = "engines"
    /\ waiting = {}
    /\ pc' = "persist"
    /\ UNCHANGED <<site, baseline, walk, reports, mode, expired, todo, confirmed, row,
                   faults>>

-----------------------------------------------------------------------------
(* Consolidate, persist, act, save, finish.                                *)

Verdicts ==
    {x \in File \X Version :
        Cardinality({e \in Engine : <<e, x[1], x[2]>> \in findings}) >= Quorum}

(* Findings and verdicts are written; what may be acted on depends on the  *)
(* observation mode and the grace period ("allowed").                      *)
Persist ==
    /\ pc = "persist"
    /\ findings = {} \/ ~expired
    /\ \E allowed \in BOOLEAN : confirmed' = IF allowed THEN Verdicts ELSE {}
    /\ pc' = "act"
    /\ UNCHANGED <<site, baseline, walk, reports, mode, expired, todo, row, faults>>

PersistFails ==
    /\ pc = "persist"
    /\ findings # {}
    /\ \/ expired /\ UNCHANGED faults
       \/ ~expired /\ Fault("db")
    /\ Close("partial")
    /\ UNCHANGED <<site, baseline, walk, reports, mode, expired, todo, confirmed>>

(* Variant of QuarantineOne without the vault's second hash. *)
QuarantineOneBlindly(f, s) ==
    /\ pc = "act"
    /\ <<f, s>> \in confirmed
    /\ confirmed' = confirmed \ {<<f, s>>}
    /\ disk' = IF Readable(f) /\ ~expired THEN [disk EXCEPT ![f] = 0] ELSE disk
    /\ UNCHANGED <<stamp, unreadable, edits, baseline, walk, reports, pc, mode, expired,
                   todo, row, faults>>

(* quarantineOne: the vault takes the file if it still has the finding's   *)
(* hash; otherwise the action is rescan_needed or failed and nothing moves. *)
QuarantineOne(f, s) ==
    /\ pc = "act"
    /\ <<f, s>> \in confirmed
    /\ confirmed' = confirmed \ {<<f, s>>}
    /\ disk' = IF Readable(f) /\ disk[f] = s /\ ~expired THEN [disk EXCEPT ![f] = 0]
               ELSE disk
    /\ UNCHANGED <<stamp, unreadable, edits, baseline, walk, reports, pc, mode, expired,
                   todo, row, faults>>

(* The vault cannot take it (full disk, no permission): action failed. *)
QuarantineFails(f, s) ==
    /\ pc = "act"
    /\ <<f, s>> \in confirmed
    /\ Fault("disk")
    /\ confirmed' = confirmed \ {<<f, s>>}
    /\ UNCHANGED <<site, baseline, walk, reports, pc, mode, expired, todo, row>>

(* Variant that saves the baseline whoever voted. *)
SaveBaselineAlways ==
    /\ pc = "act"
    /\ confirmed = {}
    /\ \/ Update /\ UNCHANGED faults
       \/ Fault("disk") /\ UNCHANGED baseline
    /\ pc' = "finish"
    /\ UNCHANGED <<site, walk, reports, mode, expired, todo, confirmed, row>>

(* The baseline advances only if an engine voted; a failed save is logged. *)
SaveBaseline ==
    /\ pc = "act"
    /\ confirmed = {}
    /\ \/ voted /\ Update /\ UNCHANGED faults
       \/ voted /\ Fault("disk") /\ UNCHANGED baseline
       \/ ~voted /\ UNCHANGED <<baseline, faults>>
    /\ pc' = "finish"
    /\ UNCHANGED <<site, walk, reports, mode, expired, todo, confirmed, row>>

(* Variant that calls every cycle that got here completed. *)
FinishCompleted ==
    /\ pc = "finish"
    /\ Close("completed")
    /\ UNCHANGED <<site, baseline, walk, reports, mode, expired, todo, confirmed, faults>>

Finish ==
    /\ pc = "finish"
    /\ Close(IF truncated \/ ~voted THEN "partial" ELSE "completed")
    /\ UNCHANGED <<site, baseline, walk, reports, mode, expired, todo, confirmed, faults>>

-----------------------------------------------------------------------------
(* The deadline, the host, and the people who work on the site.            *)

Deadline ==
    /\ Running
    /\ ~expired
    /\ Fault("timeout")
    /\ expired' = TRUE
    /\ UNCHANGED <<site, baseline, walk, reports, pc, mode, todo, confirmed, row>>

Kill ==
    /\ Running
    /\ Fault("kill")
    /\ pc' = "dead"
    /\ UNCHANGED <<site, baseline, walk, reports, mode, expired, todo, confirmed, row>>

Edit == edits < MaxEdits /\ pc \notin Quiet /\ edits' = edits + 1

(* A content is written: a new one, one that came back after an engine has *)
(* answered for it (a restore, a revert), or, with Revert, any earlier one. *)
Write(f, v) ==
    /\ Edit
    /\ v = edits + 1 \/ v \in answered[f] \/ (Revert /\ v <= edits)
    /\ disk' = [disk EXCEPT ![f] = v]
    /\ stamp' = [stamp EXCEPT ![f] = edits + 1]
    /\ UNCHANGED <<unreadable, baseline, walk, reports, pc, mode, expired, todo,
                   confirmed, row, faults>>

Touch(f) ==
    /\ Edit
    /\ disk[f] # 0
    /\ stamp' = [stamp EXCEPT ![f] = edits + 1]
    /\ UNCHANGED <<disk, unreadable, baseline, walk, reports, pc, mode, expired, todo,
                   confirmed, row, faults>>

Delete(f) ==
    /\ Edit
    /\ disk[f] # 0
    /\ disk' = [disk EXCEPT ![f] = 0]
    /\ UNCHANGED <<stamp, unreadable, baseline, walk, reports, pc, mode, expired, todo,
                   confirmed, row, faults>>

(* A path stops being readable for this account, and becomes so again. *)
Lock(f) ==
    /\ f \notin unreadable
    /\ pc \notin Quiet
    /\ Fault("unreadable")
    /\ unreadable' = unreadable \cup {f}
    /\ UNCHANGED <<disk, stamp, edits, baseline, walk, reports, pc, mode, expired, todo,
                   confirmed, row>>

Unlock(f) ==
    /\ f \in unreadable
    /\ unreadable' = unreadable \ {f}
    /\ UNCHANGED <<disk, stamp, edits, baseline, walk, reports, pc, mode, expired, todo,
                   confirmed, row, faults>>

-----------------------------------------------------------------------------
Collect == WalkRoots \/ WalkNothing \/ (\E f \in File : HashEntry(f)) \/ ChooseTargets

RunEngines ==
    \/ \E e \in Engine : Unavailable(e) \/ NothingToScan(e) \/ StartEngine(e)
    \/ \E f \in File : ReadTarget(f)
    \/ EngineEnds \/ EngineAbstains \/ EngineExits \/ Parse \/ EnginesDone

Conclude ==
    \/ Persist \/ PersistFails \/ SaveBaseline \/ Finish
    \/ \E f \in File, s \in Version : QuarantineOne(f, s) \/ QuarantineFails(f, s)

Proceed == Collect \/ RunEngines \/ Conclude

People ==
    \E f \in File : (\E v \in Version : Write(f, v)) \/ Touch(f) \/ Delete(f)

Host == Deadline \/ Kill \/ \E f \in File : Lock(f) \/ Unlock(f)

Next == (\E m \in Mode : Start(m)) \/ Proceed \/ People \/ Host

Spec == Init /\ [][Next]_vars

(***************************************************************************)
(* A cycle that started goes on, cron or the daemon starts the next one,   *)
(* and the full cycle comes round again and again when it is scheduled at  *)
(* all.  Nothing forces an edit, a failure or a readable file.             *)
(***************************************************************************)
Fairness ==
    /\ WF_vars(Proceed)
    /\ \A m \in Mode : SF_vars(Start(m))

FairSpec == Spec /\ Fairness

-----------------------------------------------------------------------------
SiteType ==
    /\ disk \in [File -> Content]
    /\ stamp \in [File -> Content]
    /\ unreadable \subseteq File
    /\ edits \in Content
    /\ faults \in 0 .. MaxFaults

WalkType ==
    /\ knownSha \in [File -> Content]
    /\ knownStamp \in [File -> Content]
    /\ current \subseteq File
    /\ wstamp \in [File -> Content]
    /\ curSha \in [File -> Content]
    /\ todo \subseteq File
    /\ failed \subseteq File
    /\ targets \subseteq File

EngineType ==
    /\ waiting \subseteq Engine
    /\ engine \in Engine
    /\ sight \in [File -> Content]
    /\ findings \subseteq Engine \X File \X Version
    /\ confirmed \subseteq File \X Version
    /\ answered \in [File -> SUBSET Version]

ControlType ==
    /\ pc \in Step \cup {"idle", "dead"}
    /\ mode \in Mode
    /\ expired \in BOOLEAN
    /\ voted \in BOOLEAN
    /\ truncated \in BOOLEAN
    /\ row \in {"none", "running", "completed", "partial", "failed"}

TypeOK == SiteType /\ WalkType /\ EngineType /\ ControlType

(***************************************************************************)
(* A file the next incremental cycle will skip, because the baseline has   *)
(* its (size, mtime) pair or its hash, holds a content some voting engine  *)
(* gave an answer on: "writing it would make the next cycle believe it     *)
(* already knows the file" (baseline.go:169-170).                          *)
(***************************************************************************)
KnownIsAnswered ==
    \A f \in File :
        disk[f] # 0 /\ knownSha[f] # 0 /\ (knownStamp[f] = stamp[f] \/ knownSha[f] = disk[f])
            => disk[f] \in answered[f]

(***************************************************************************)
(* "completed" is a claim about every file the walk listed: unless it was  *)
(* changed since, some voting engine has answered for what it holds        *)
(* ("must never be recorded as completed", cycle.go:269-272).              *)
(***************************************************************************)
CompletedCovers ==
    [][ row # "completed" /\ row' = "completed" =>
          \A f \in current : disk[f] # 0 /\ stamp[f] = wstamp[f] => disk[f] \in answered[f] ]_vars

(***************************************************************************)
(* The automatic action takes a content off the site only after a voting   *)
(* engine has answered for that very content, not for what the file held   *)
(* some moments before (persist.go:188-189, "Re-scan instead of            *)
(* quarantining blindly").                                                 *)
(***************************************************************************)
TakesOnlyWhatWasAnswered ==
    [][ \A f \in File : pc = "act" /\ edits' = edits /\ disk[f] # 0 /\ disk'[f] = 0
            => disk[f] \in answered[f] ]_vars

(***************************************************************************)
(* A cycle that returns has closed its row: "finishing by our own decision *)
(* (with a partial report written) beats being killed halfway leaving no   *)
(* trace" (cycle.go:186-188).                                              *)
(***************************************************************************)
ReturnedRowIsClosed == pc = "idle" => row # "running"

=============================================================================
