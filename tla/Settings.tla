------------------------------- MODULE Settings -------------------------------
(***************************************************************************)
(* The configuration of internal/config: one TOML file, and the copies of  *)
(* it in the panel (edited under cfgMu), in the daemon (loaded once), in   *)
(* every `scan` that cron starts, and in a browser tab with the settings   *)
(* page open.  Whoever writes the file writes a whole copy over it.  What  *)
(* the copies decide is what a scan moves without being asked: the         *)
(* whitelist, the observation mode and the grace period.                   *)
(*                                                                         *)
(* Every file of Path is malware to the engines, so that only the          *)
(* configuration stands between it and the vault.                          *)
(***************************************************************************)
EXTENDS Naturals

CONSTANTS
    Cron,     \* processes cron starts for `sentinelhost scan`, one run each
    Panel,    \* the panel process
    Daemon,   \* the daemon process
    Page,     \* the browser tab on the settings page
    Path,     \* the files the user may whitelist
    Grace,    \* general.grace_period_days when it is on
    Days,     \* bound on the days that pass
    MaxEdits, \* bound on what the user does
    None,     \* no copy
    Broken    \* a file that does not parse or does not validate

Scanner == Cron \cup {Panel, Daemon}
Holder == Scanner \cup {Page}

ASSUME HoldersAssumption ==
    /\ Panel \notin Cron /\ Daemon \notin Cron \cup {Panel}
    /\ Page \notin Scanner
    /\ None \notin Holder
ASSUME BoundsAssumption == Grace \in Nat \ {0} /\ Days \in Nat \ {0} /\ MaxEdits \in Nat

(* What the modelled decisions read: verdict.whitelist, the negation of    *)
(* general.observation_mode, general.grace_period_days and first_run_at,   *)
(* where day 0 is Go's zero time.                                          *)
Config == [white : SUBSET Path, act : BOOLEAN, grace : {0, Grace}, first : 0 .. Days]

ASSUME SentinelsAssumption == None \notin Config /\ Broken \notin Config \cup {None}

VARIABLES
    file,     \* the TOML file
    copy,     \* the configuration each process or tab has, None without one
    pc,       \* where each scanner is
    lock,     \* who holds the instance lock
    started,  \* when the scan started
    suspects, \* the files a scan may act on once its verdicts are in
    taken,    \* files in the vault
    day,      \* the date, from day 1
    edits,    \* what the user has done so far
    missed,   \* per holder, the paths whitelisted in the file since its copy
    born      \* when the earliest scan that recorded itself started

memory == <<copy, missed>>
scan == <<pc, lock, started, suspects>>
vars == <<file, memory, scan, taken, day, edits, born>>

Step == {"off", "idle", "housekeeping", "judging", "acting", "record"}

(* config.Default(), with the roots `config init` adds. *)
Default == [white |-> {}, act |-> FALSE, grace |-> Grace, first |-> 0]

Init ==
    /\ file = Default
    /\ copy = [h \in Holder |-> None]
    /\ pc = [p \in Scanner |-> "off"]
    /\ lock = None
    /\ started = [p \in Scanner |-> 0]
    /\ suspects = [p \in Scanner |-> {}]
    /\ taken = {}
    /\ day = 1
    /\ edits = 0
    /\ missed = [h \in Holder |-> {}]
    /\ born = 0

Goto(p, l) == pc' = [pc EXCEPT ![p] = l]

Whitelisted(c) == IF c = Broken THEN {} ELSE c.white

(* SaveTo: encoded into a temporary file, read back, renamed over the old  *)
(* one; the whole of it or nothing.  Whoever else holds a copy has missed  *)
(* the paths that come in with it.                                         *)
Save(c, owners) ==
    /\ file' = c
    /\ missed' = [h \in Holder |->
                    IF h \in owners \/ copy[h] = None THEN {}
                    ELSE missed[h] \cup (Whitelisted(c) \ Whitelisted(file))]

(* Load: defaults, the file's keys over them, normalization. *)
LoadInto(h) ==
    /\ file # Broken
    /\ copy' = [copy EXCEPT ![h] = file]
    /\ missed' = [missed EXCEPT ![h] = {}]

(* The process is gone, and its copy with it. *)
Forget(h) ==
    /\ copy' = [copy EXCEPT ![h] = None]
    /\ missed' = [missed EXCEPT ![h] = {}]

-----------------------------------------------------------------------------
(* The gate of automatic action                                            *)

(* Variant in which "never ran" counts as "the grace period is over". *)
ZeroIsOver(c, d) == c.grace > 0 /\ d < c.first + c.grace

(* InGracePeriod: with no first cycle recorded, the window has not begun   *)
(* to run out.                                                             *)
InGracePeriod(c, d) == c.grace > 0 /\ (c.first = 0 \/ d < c.first + c.grace)

AutomaticActionAllowed(c, d) == c.act /\ ~InGracePeriod(c, d)

-----------------------------------------------------------------------------
(* A scan                                                                  *)

(* openApp, in a new process: Load, Validate.  A file that cannot be read  *)
(* ends the process before it has done anything.                           *)
Start(p) ==
    /\ pc[p] = "off"
    /\ LoadInto(p)
    /\ Goto(p, IF p \in Cron THEN "housekeeping" ELSE "idle")
    /\ UNCHANGED <<file, lock, started, suspects, taken, day, edits, born>>

(* The daemon's ticker and handleScanNow, which takes the read lock for    *)
(* housekeeping and scan together; cron's process has just loaded.         *)
Trigger(p) ==
    /\ pc[p] = "idle"
    /\ Goto(p, "housekeeping")
    /\ UNCHANGED <<file, memory, lock, started, suspects, taken, day, edits, born>>

(* Run returned an error: locked out, no roots, a failing step.  Cron's    *)
(* process ends, the others wait for the next occasion.                    *)
End(p) ==
    /\ started' = [started EXCEPT ![p] = 0]
    /\ IF p \in Cron THEN Forget(p) /\ Goto(p, "off")
                     ELSE Goto(p, "idle") /\ UNCHANGED memory

(* Run, up to the consolidation, which reads the whitelist. *)
Acquire(p) ==
    /\ pc[p] = "housekeeping"
    /\ \/ /\ lock = None
          /\ lock' = p
          /\ started' = [started EXCEPT ![p] = IF p \in Cron THEN day ELSE 0]
          /\ Goto(p, "judging")
          /\ UNCHANGED memory
       \/ End(p) /\ UNCHANGED lock
    /\ UNCHANGED <<file, suspects, taken, day, edits, born>>

(* Consolidate: a whitelisted path keeps its level and loses its action. *)
Judge(p) ==
    /\ pc[p] = "judging"
    /\ suspects' = [suspects EXCEPT ![p] = Path \ (copy[p].white \cup taken)]
    /\ Goto(p, "acting")
    /\ UNCHANGED <<file, memory, lock, started, taken, day, edits, born>>

(* act, finish and the release of the lock: one gate for the whole cycle.  *)
(* A simulation, or a vault that refuses, takes nothing.                   *)
Act(p) ==
    /\ pc[p] = "acting"
    /\ \/ /\ AutomaticActionAllowed(copy[p], day)
          /\ taken' = taken \cup suspects[p]
       \/ UNCHANGED taken
    /\ lock' = None
    /\ suspects' = [suspects EXCEPT ![p] = {}]
    /\ Goto(p, IF p \in Cron THEN "record" ELSE "idle")
    /\ UNCHANGED <<file, memory, started, day, edits, born>>

(* persist failed: Run returns its error, and cmdScan records nothing. *)
FailScan(p) ==
    /\ pc[p] = "acting"
    /\ lock' = None
    /\ suspects' = [suspects EXCEPT ![p] = {}]
    /\ End(p)
    /\ UNCHANGED <<file, taken, day, edits, born>>

Earlier(a, b) == IF a = 0 \/ b < a THEN b ELSE a

(* Variant that marks the first cycle in memory and never saves it. *)
RecordUnsaved(p) ==
    /\ pc[p] = "record"
    /\ End(p)
    /\ UNCHANGED <<file, lock, suspects, taken, day, edits, born>>

(* The end of cmdScan: a copy without a first cycle gets this one's start  *)
(* and is saved, as it was loaded before the cycle.                        *)
Record(p) ==
    /\ pc[p] = "record"
    /\ Goto(p, "off")
    /\ copy' = [copy EXCEPT ![p] = None]
    /\ \/ /\ copy[p].first = 0
          /\ Save([copy[p] EXCEPT !.first = started[p]], {p})
          /\ born' = Earlier(born, started[p])
       \/ /\ copy[p].first # 0
          /\ missed' = [missed EXCEPT ![p] = {}]
          /\ UNCHANGED <<file, born>>
    /\ started' = [started EXCEPT ![p] = 0]
    /\ UNCHANGED <<lock, suspects, taken, day, edits>>

(* The host kills a process: what it held is gone, its lock is found to be *)
(* a dead process's by the next one.  In "record" this is also what a      *)
(* failing Save amounts to.                                                *)
Kill(p) ==
    /\ pc[p] # "off"
    /\ edits < MaxEdits
    /\ edits' = edits + 1
    /\ Goto(p, "off")
    /\ Forget(p)
    /\ lock' = IF lock = p THEN None ELSE lock
    /\ started' = [started EXCEPT ![p] = 0]
    /\ suspects' = [suspects EXCEPT ![p] = {}]
    /\ UNCHANGED <<file, taken, day, born>>

-----------------------------------------------------------------------------
(* The user                                                                *)

(* Variant without the TryLock. *)
MayAlwaysMutate == pc[Panel] # "off"

(* mutateConfig gets the write lock: no scan of the panel holds the read   *)
(* lock.  Otherwise the request is refused with ErrBusy.                   *)
MayMutate == pc[Panel] = "idle"

(* What is published in memory is what went to the file. *)
Publish(c) ==
    /\ MayMutate
    /\ edits < MaxEdits
    /\ edits' = edits + 1
    /\ Save(c, {Panel})
    /\ copy' = [copy EXCEPT ![Panel] = c]
    /\ UNCHANGED <<scan, taken, day, born>>

(* handleDecide with "whitelist": appended to the panel's copy. *)
Whitelist(f) == Publish([copy[Panel] EXCEPT !.white = @ \cup {f}])

(* Variant in which a field the patch does not carry is emptied. *)
PutOtherTabEmptying == Publish([copy[Panel] EXCEPT !.white = {}])

(* handleConfigPut from the schedule or the alerts tab: a patch that       *)
(* touches none of these fields, and a save of everything.                 *)
PutOtherTab == Publish(copy[Panel])

(* handleConfigGet, when the settings page is opened or shown again. *)
OpenPage ==
    /\ pc[Panel] # "off"
    /\ copy' = [copy EXCEPT ![Page] = copy[Panel]]
    /\ missed' = [missed EXCEPT ![Page] = missed[Panel]]
    /\ UNCHANGED <<file, scan, taken, day, edits, born>>

(* handleConfigPut from the settings page: it sends the whole whitelist,   *)
(* the observation mode and the grace period as the page shows them after  *)
(* the user's change; then the page is loaded again.  An invalid value is  *)
(* refused before anything changes.                                        *)
PutSettings(w, a, g) ==
    /\ copy[Page] # None
    /\ MayMutate
    /\ edits < MaxEdits
    /\ edits' = edits + 1
    /\ LET c == [white |-> w, act |-> a, grace |-> g, first |-> copy[Panel].first]
       IN  /\ Save(c, {Panel, Page})
           /\ copy' = [copy EXCEPT ![Panel] = c, ![Page] = c]
    /\ UNCHANGED <<scan, taken, day, born>>

PutsSettings ==
    \E w \in SUBSET Path, a \in BOOLEAN, g \in {0, Grace} : PutSettings(w, a, g)

(* The user edits the TOML: any of the fields, well or not. *)
HandEdit(c) ==
    /\ edits < MaxEdits
    /\ edits' = edits + 1
    /\ Save(c, {})
    /\ UNCHANGED <<copy, scan, taken, day, born>>

HandEdits ==
    \/ HandEdit(Broken)
    \/ /\ file # Broken
       /\ \/ \E f \in Path : HandEdit([file EXCEPT !.white = @ \cup {f}])
          \/ HandEdit([file EXCEPT !.act = ~@])

(* `config init --force`: the defaults, whatever was there. *)
InitForce ==
    /\ edits < MaxEdits
    /\ edits' = edits + 1
    /\ Save(Default, {})
    /\ UNCHANGED <<copy, scan, taken, day, born>>

(* Vault.Restore of a file the user wants back. *)
PutBack(f) ==
    /\ f \in taken
    /\ edits < MaxEdits
    /\ edits' = edits + 1
    /\ taken' = taken \ {f}
    /\ UNCHANGED <<file, memory, scan, day, born>>

NextDay ==
    /\ day < Days
    /\ day' = day + 1
    /\ UNCHANGED <<file, memory, scan, taken, edits, born>>

User ==
    \/ \E f \in Path : Whitelist(f) \/ PutBack(f)
    \/ PutOtherTab \/ OpenPage \/ HandEdits \/ InitForce
    \/ PutsSettings

Scan(p) == Acquire(p) \/ Judge(p) \/ Act(p) \/ FailScan(p) \/ Record(p)

Next ==
    \/ \E p \in Scanner : Start(p) \/ Trigger(p) \/ Scan(p) \/ Kill(p)
    \/ User
    \/ NextDay

(* A scan that cron started and that got the lock goes on, and does not    *)
(* fail every time.                                                        *)
Fairness ==
    \A p \in Cron : WF_vars(Judge(p)) /\ SF_vars(Act(p)) /\ WF_vars(Record(p))

Spec == Init /\ [][Next]_vars /\ Fairness

-----------------------------------------------------------------------------
TypeOK ==
    /\ file \in Config \cup {Broken}
    /\ copy \in [Holder -> Config \cup {None}]
    /\ pc \in [Scanner -> Step]
    /\ \A p \in Scanner : pc[p] # "off" => copy[p] # None
    /\ lock \in Scanner \cup {None}
    /\ started \in [Scanner -> 0 .. Days]
    /\ suspects \in [Scanner -> SUBSET Path]
    /\ taken \subseteq Path
    /\ day \in 1 .. Days
    /\ edits \in 0 .. MaxEdits
    /\ missed \in [Holder -> SUBSET Path]
    /\ born \in 0 .. Days

(***************************************************************************)
(* A whitelisted path leaves the file only when the user takes it off the  *)
(* settings page that shows it, edits the file, or runs `config init       *)
(* --force`; or when the writer's copy is from before the path was put in: *)
(* the first scan's record, a panel behind a hand edit, a page loaded      *)
(* earlier.  Saving another tab never drops it (patch.go:8-11).            *)
(***************************************************************************)
OnlyStaleWritersDropPaths ==
    [][ \A f \in Whitelisted(file) \ Whitelisted(file') :
          \/ HandEdits \/ InitForce
          \/ \E p \in Cron : Record(p) /\ f \in missed[p]
          \/ f \in missed[Panel]
          \/ PutsSettings /\ f \in missed[Page] \cup copy[Page].white ]_vars

(***************************************************************************)
(* No automatic quarantine before the grace period has run since the       *)
(* earliest scan that was ever recorded, whichever copy, however old, the  *)
(* scan works with (config/defaults.go, InGracePeriod; DECISIONS D-007).   *)
(***************************************************************************)
NeverActsInGrace ==
    [][ taken' \subseteq taken
          \/ \E p \in Scanner :
                /\ lock = p
                /\ copy[p].grace = 0 \/ (born # 0 /\ day >= born + copy[p].grace) ]_vars

(***************************************************************************)
(* What a scan takes is off the whitelist and allowed by the configuration *)
(* that is in its memory when it acts, though the whitelist was read       *)
(* earlier: the panel's is not changed under a running scan (server.go,    *)
(* mutateConfig and withConfigRead).                                       *)
(***************************************************************************)
ScanHonoursItsCopy ==
    [][ \A f \in taken' \ taken :
          lock \in Scanner /\ f \notin copy[lock].white /\ copy[lock].act ]_vars

(***************************************************************************)
(* While cron's scans keep getting the lock, the first cycle is recorded   *)
(* in the end and stays recorded (config.go:56, scan.go:82-88), though the *)
(* panel may save a copy without it over the record; so the grace period   *)
(* does not last for ever.                                                 *)
(***************************************************************************)
FirstRunIsRecorded ==
    []<>(\E p \in Cron : pc[p] = "judging") => <>[](file # Broken => file.first # 0)
=============================================================================
