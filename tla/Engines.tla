------------------------------ MODULE Engines -------------------------------
(***************************************************************************)
(* One engine's turn in a cycle: probe it, run it over the targets in      *)
(* batches, read what it printed, hash what it flagged, merge the batches  *)
(* into the one report that votes or abstains (cycle.runEngines over       *)
(* adapter.SafeScanAndParse, exec.Runner and the four adapters).  Turns    *)
(* follow one another, of any engine, in one cycle or in the next: what    *)
(* they share is the disk, the cycle's context and the file AMWScan leaves *)
(* its report in.                                                          *)
(*                                                                         *)
(* pmf, maldet and amwscan are programs somebody else wrote: they flag the *)
(* files whose content is bad when they look.  wpchecksums is in-process   *)
(* (module WordPress).  Site files change while any of them runs.  The     *)
(* rows the panel shows of an engine (engine_state, scan_reports) and the  *)
(* log are left out; what Cycle says of the engines, in one step per file, *)
(* is here said of each adapter.                                           *)
(***************************************************************************)
EXTENDS WordPress, Integers, FiniteSetsExt

CONSTANTS
    Path,        \* the files the walk may hand to the engines
    Odd,         \* those with a control character, no line break, in the name
    BatchSize,   \* limits.batch_size
    Faults,      \* the kinds of failure the environment may inject
    MaxEdits,    \* bound on the files that are not as published
    MaxFaults,   \* bound on the failures in one turn
    Nothing      \* no report, no output, no file

FaultKind == {"probe", "prepare", "exit", "cut", "gate", "acted", "shield", "api", "unreadable"}

ASSUME PathAssumption == IsFiniteSet(WPFile) /\ Path \subseteq WPFile /\ Odd \subseteq Path
ASSUME EngineBounds == BatchSize \in Nat \ {0} /\ MaxEdits \in Nat /\ MaxFaults \in Nat
                          /\ Faults \subseteq FaultKind
ASSUME SearchFinds == DetectAll({}) # {}

VARIABLES
    disk,        \* the content of each file
    phase,       \* where the turn is
    engine,      \* whose turn it is
    targets,     \* what the cycle hands it
    todo,        \* targets, or installations, it has not reached
    batch,       \* the ones it is being run on
    saw,         \* what it saw in each file this turn
    out,         \* what it printed, before Parse
    reportFile,  \* AMWScan's report.log
    stock,       \* the inventories wpchecksums took
    partials,    \* the reports of the batches
    report,      \* the merged one
    cancelled,   \* the cycle's context is done
    blind,       \* history: files lost in a way the adapter cannot notice
    faults

vars == <<disk, phase, engine, targets, todo, batch, saw, out, reportFile, stock,
          partials, report, cancelled, blind, faults>>

turn == <<engine, targets, cancelled>>

Tool == {"pmf", "maldet", "amwscan"}
Engine == Tool \cup {"wpchecksums"}
ScopeAware == {"pmf", "maldet"}

Content == {"genuine", "bad", "gone"}
Fresh == [f \in WPFile |-> IF f \in Stray THEN "gone" ELSE "genuine"]
Disk == {d \in [WPFile -> Content] :
           /\ \A f \in Stray : d[f] # "genuine"
           /\ Cardinality({f \in WPFile : d[f] # Fresh[f]}) <= MaxEdits}

Unseen == [f \in WPFile |-> "unseen"]

Fault(kind) == kind \in Faults /\ faults < MaxFaults /\ faults' = faults + 1

(* What a tool printed: the hits it lists, how many it says there are (-1  *)
(* when it does not say), how many files it says it scanned, and how much  *)
(* of its usual heading is there.                                          *)
OutputType ==
    [listed : SUBSET Path, declared : -1 .. Cardinality(Path), files : SUBSET Path,
     head : {"whole", "half", "none"}, acted : BOOLEAN]

ASSUME NothingAssumption == Nothing \notin OutputType

Printed(hits, files) ==
    [listed |-> hits, declared |-> Cardinality(hits), files |-> files,
     head |-> "whole", acted |-> FALSE]

Init ==
    /\ disk \in Disk
    /\ phase = "done"
    /\ engine \in Engine
    /\ targets = {} /\ todo = {} /\ batch = {}
    /\ saw = Unseen
    /\ out = Nothing /\ reportFile = Nothing
    /\ stock = {} /\ partials = {}
    /\ report = Nothing
    /\ cancelled = FALSE
    /\ blind = {}
    /\ faults = 0

(* The next engine of the cycle, or the next cycle.  wpchecksums is not    *)
(* told the targets, only whether there are any.                           *)
TakeTurn(e, T) ==
    /\ phase = "done"
    /\ e = "wpchecksums" => T \in {{}, Path}
    /\ phase' = "probe" /\ engine' = e /\ targets' = T
    /\ todo' = {} /\ batch' = {} /\ saw' = Unseen /\ out' = Nothing
    /\ stock' = {} /\ partials' = {} /\ report' = Nothing /\ blind' = {} /\ faults' = 0
    /\ cancelled' \in {cancelled, FALSE}
    /\ UNCHANGED <<disk, reportFile>>

Ends(status) ==
    /\ partials' = partials \cup {FailedReport(status)}
    /\ phase' = "each"

(* The program or its rules are missing, it refuses to run, no WordPress   *)
(* can be read, the panicking probe is caught: no report at all.           *)
Unavailable ==
    /\ phase = "probe"
    /\ Fault("probe")
    /\ phase' = "done"
    /\ UNCHANGED <<turn, disk, todo, batch, saw, out, reportFile, stock, partials, report, blind>>

NothingToScan ==
    /\ phase = "probe" /\ targets = {}
    /\ report' = Blank("completed", {}, {}, {})
    /\ phase' = "done"
    /\ UNCHANGED <<turn, disk, todo, batch, saw, out, reportFile, stock, partials, blind, faults>>

RunBatches ==
    /\ phase = "probe" /\ targets # {}
    /\ todo' = targets
    /\ phase' = "each"
    /\ UNCHANGED <<turn, disk, batch, saw, out, reportFile, stock, partials, report, blind, faults>>

(* Batcher.Each looks at the context before every batch; an engine that    *)
(* cannot restrict itself to a list is run once, without that look.        *)
BatchesOf(e) == IF e \in ScopeAware
                THEN kSubset(IF Cardinality(todo) < BatchSize THEN Cardinality(todo) ELSE BatchSize,
                             todo)
                ELSE {todo}

NextBatch(b) ==
    /\ phase = "each" /\ todo # {}
    /\ engine \in ScopeAware => ~cancelled
    /\ b \in BatchesOf(engine)
    /\ batch' = b /\ todo' = todo \ b
    /\ phase' = "scan"
    /\ UNCHANGED <<turn, disk, saw, out, reportFile, stock, partials, report, blind, faults>>

EachIsCancelled ==
    /\ phase = "each" /\ todo # {} /\ engine \in ScopeAware /\ cancelled
    /\ todo' = {}
    /\ Ends("killed")
    /\ UNCHANGED <<turn, disk, batch, saw, out, reportFile, stock, report, blind, faults>>

(* Scan gives up before there is anything to run: no rules, no phar, the   *)
(* list of targets cannot be written, the old report cannot be removed.    *)
NotPrepared ==
    /\ phase = "scan" /\ engine \in Tool
    /\ Fault("prepare")
    /\ Ends("failed")
    /\ UNCHANGED <<turn, disk, todo, batch, saw, out, reportFile, stock, report, blind>>

(* Scan of amwscan removes the report of the last run; as it would be if   *)
(* that stayed where it was.                                               *)
KeptReport(old) == old

RemovedReport(old) == Nothing

Launch ==
    /\ phase = "scan" /\ engine \in Tool
    /\ reportFile' = IF engine = "amwscan" THEN RemovedReport(reportFile) ELSE reportFile
    /\ phase' = "tool"
    /\ UNCHANGED <<turn, disk, todo, batch, saw, out, stock, partials, report, blind, faults>>

(* The list holds the paths that fit on a line; amwscan walks the root.    *)
LooksAt == IF engine = "amwscan" THEN Path ELSE batch \ Odd

Hits == {f \in LooksAt : disk[f] = "bad"}

Look == saw' = [f \in WPFile |-> IF f \in LooksAt THEN disk[f] ELSE saw[f]]

(* The tool's output is complete; maldet's is in a session of its own.     *)
ToolFinishes ==
    /\ phase = "tool"
    /\ Look
    /\ out' = Printed(Hits, LooksAt)
    /\ reportFile' = IF engine = "amwscan" THEN out' ELSE reportFile
    /\ phase' = IF engine = "maldet" THEN "dump" ELSE "parse"
    /\ UNCHANGED <<turn, disk, todo, batch, stock, partials, report, blind, faults>>

(* Scan checks for the report, or for the id of maldet's.                  *)
HasOutput(text) == text # Nothing

(* It exits with a code of its own before it has looked at anything.       *)
(* exec.Run calls that completed.  maldet has printed no scan id then,     *)
(* and amwscan no report, unless it got as far as the report's first line; *)
(* of pmf the empty output reads like "nothing found".                     *)
ToolStops(wrote) ==
    /\ phase = "tool"
    /\ Fault("exit")
    /\ LET text == CASE engine = "pmf" -> Printed({}, {})
                     [] engine = "amwscan" -> IF wrote THEN Printed({}, {}) ELSE reportFile
                     [] OTHER -> Nothing
       IN IF ~HasOutput(text)
          THEN Ends("failed") /\ UNCHANGED <<out, blind>>
          ELSE /\ out' = text
               /\ blind' = IF text # Nothing /\ text.listed = {} THEN blind \cup batch ELSE blind
               /\ phase' = "parse" /\ UNCHANGED partials
    /\ reportFile' = IF engine = "amwscan" /\ wrote THEN Printed({}, {}) ELSE reportFile
    /\ UNCHANGED <<turn, disk, todo, batch, saw, stock, report>>

(* The capture limit, or a full disk under the report file, cuts the list  *)
(* of hits; nothing in yara's or AMWScan's format tells.                   *)
ToolIsCut(lost) ==
    /\ phase = "tool" /\ engine \in {"pmf", "amwscan"}
    /\ Fault("cut")
    /\ lost \in (SUBSET Hits) \ {{}}
    /\ Look
    /\ out' = Printed(Hits \ lost, LooksAt)
    /\ reportFile' = IF engine = "amwscan" THEN out' ELSE reportFile
    /\ blind' = blind \cup lost
    /\ phase' = "parse"
    /\ UNCHANGED <<turn, disk, todo, batch, stock, partials, report>>

(* maldet's public-scanning gate, closed since the probe.                  *)
Gate ==
    /\ phase = "tool" /\ engine = "maldet"
    /\ Fault("gate")
    /\ Ends("failed")
    /\ UNCHANGED <<turn, disk, todo, batch, saw, out, reportFile, stock, report, blind>>

(* maldet --report <id> dump.                                              *)
Dump ==
    /\ phase = "dump"
    /\ phase' = "parse"
    /\ UNCHANGED <<turn, disk, todo, batch, saw, out, reportFile, stock, partials, report, blind,
                   faults>>

DumpIsEmpty ==
    /\ phase = "dump"
    /\ Fault("exit")
    /\ Ends("failed")
    /\ UNCHANGED <<turn, disk, todo, batch, saw, out, reportFile, stock, report, blind>>

(* The dump breaks off within the list of hits, or already within the      *)
(* heading: after its second line it still looks like a report, and then   *)
(* it neither lists a hit nor says how many there are.                     *)
DumpIsCut(lost, head) ==
    /\ phase = "dump"
    /\ Fault("cut")
    /\ \/ head = "whole" /\ lost # {}
       \/ head # "whole" /\ lost = out.listed
    /\ lost \subseteq out.listed
    /\ out' = [listed |-> out.listed \ lost, head |-> head, acted |-> FALSE,
               declared |-> IF head = "whole" THEN out.declared ELSE -1,
               files |-> IF head = "whole" THEN out.files ELSE {}]
    /\ blind' = IF head = "half" THEN blind \cup batch ELSE blind
    /\ phase' = "parse"
    /\ UNCHANGED <<turn, disk, todo, batch, saw, reportFile, stock, partials, report>>

(* The host's maldet moved a file into its own quarantine all the same.    *)
HostActs(f) ==
    /\ phase = "dump" /\ f \in out.listed
    /\ Fault("acted")
    /\ disk' = [disk EXCEPT ![f] = "gone"]
    /\ disk' \in Disk
    /\ out' = [out EXCEPT !.acted = TRUE]
    /\ phase' = "parse"
    /\ UNCHANGED <<turn, todo, batch, saw, reportFile, stock, partials, report, blind>>

(* The process group is killed at the engine's timeout, or with the cycle. *)
DeadlineWaits ==
    /\ phase \in {"tool", "dump"}
    /\ UNCHANGED vars

Deadline ==
    /\ phase \in {"tool", "dump"}
    /\ Ends("timeout")
    /\ UNCHANGED <<turn, disk, todo, batch, saw, out, reportFile, stock, report, blind, faults>>

Killed ==
    /\ phase \in {"tool", "dump"} /\ cancelled
    /\ Ends("killed")
    /\ UNCHANGED <<turn, disk, todo, batch, saw, out, reportFile, stock, report, blind, faults>>

(* SafeScanAndParse catches a panic, and a report the schema refuses.      *)
Shielded ==
    /\ phase \in {"scan", "parse"}
    /\ Fault("shield")
    /\ Ends("failed")
    /\ UNCHANGED <<turn, disk, todo, batch, saw, out, reportFile, stock, report, blind>>

(* Every hit is hashed when the output is read, which is after the scan; a *)
(* file that is not there any more is counted.  As it would be without     *)
(* that count.                                                             *)
HashedSilently(rep, hits) == [rep EXCEPT !.findings = Local(hits, disk)]

Hashed(rep, hits) ==
    [rep EXCEPT !.findings = Local(hits, disk),
                !.skipped = @ \cup ({"vanished_before_hashing"} \X Missing(hits, disk))]

ParsePmf == Hashed(NewScanReport(batch, batch \cap Odd), out.listed)

(* allowedTargets: hits on files nobody asked about are only noted.        *)
Allowed(hits) == hits \cap batch

(* A header with a control character in its path opens no block.           *)
ParseAmwscan ==
    LET rep == NewScanReport(batch, {})
    IN Hashed([rep EXCEPT !.skipped = {"forged_report_path"} \X (out.listed \cap Odd)],
              Allowed(out.listed \ Odd))

(* Off-format, truncated, or the files were acted upon: no vote.  Where    *)
(* maldet says how many files it scanned, that is the number reported.     *)
ParseMaldet ==
    LET rep == NewScanReport(batch, batch \cap Odd)
    IN IF \/ out.head = "none" \/ out.acted
          \/ out.declared >= 0 /\ out.declared # Cardinality(out.listed)
       THEN FailedReport("failed")
       ELSE Hashed(IF out.files = {} THEN rep
                   ELSE [rep EXCEPT !.considered = out.files, !.scanned = out.files],
                   out.listed)

Parse ==
    /\ phase = "parse" /\ engine \in Tool
    /\ partials' = partials \cup {CASE engine = "pmf" -> ParsePmf
                                    [] engine = "amwscan" -> ParseAmwscan
                                    [] OTHER -> ParseMaldet}
    /\ phase' = "each"
    /\ UNCHANGED <<turn, disk, todo, batch, saw, out, reportFile, stock, report, blind, faults>>

(* Scan of wpchecksums: search, then every installation in turn.           *)
Search ==
    /\ phase = "scan" /\ engine = "wpchecksums"
    /\ \E lost \in SUBSET Site :
         /\ IF lost = {} THEN UNCHANGED faults ELSE Fault("unreadable")
         /\ batch' = DetectAll(lost)
    /\ IF batch' = {} THEN Ends("failed") ELSE phase' = "sites" /\ UNCHANGED partials
    /\ UNCHANGED <<turn, disk, todo, saw, out, reportFile, stock, report, blind>>

Inspected == {e.site : e \in stock}

(* The API answers about the core; it may be silent about a plugin, and a  *)
(* file may be unreadable.  Of a plugin's files and of stray ones nobody   *)
(* counts that.                                                            *)
InspectSite(s, silent, unread) ==
    /\ phase = "sites" /\ s \in batch \ Inspected /\ ~cancelled
    /\ CASE silent # {} -> Fault("api")
         [] unread # {} -> Fault("unreadable")
         [] OTHER -> UNCHANGED faults
    /\ stock' = stock \cup {ScanOne(s, disk, unread, silent)}
    /\ saw' = [f \in WPFile |-> IF SiteOf[f] = s THEN disk[f] ELSE saw[f]]
    /\ blind' = blind \cup {f \in unread : f \in Stray \/ PartOf[f] # "core"}
    /\ UNCHANGED <<turn, disk, phase, todo, batch, out, reportFile, partials, report>>

(* It does not answer, or the request is cancelled with the cycle.         *)
SiteIsUnusable(s) ==
    /\ phase = "sites" /\ s \in batch \ Inspected
    /\ IF cancelled THEN UNCHANGED faults ELSE Fault("api")
    /\ stock' = stock \cup {Unusable(s)}
    /\ UNCHANGED <<turn, disk, phase, todo, batch, saw, out, reportFile, partials, report, blind>>

SearchIsOver ==
    /\ phase = "sites" /\ Inspected = batch
    /\ IF \A e \in stock : ~e.usable THEN Ends("failed")
       ELSE phase' = "parse" /\ UNCHANGED partials
    /\ UNCHANGED <<turn, disk, todo, batch, saw, out, reportFile, stock, report, blind, faults>>

ParseStock ==
    /\ phase = "parse" /\ engine = "wpchecksums"
    /\ partials' = partials \cup {ParseInventory(stock)}
    /\ phase' = "each"
    /\ UNCHANGED <<turn, disk, todo, batch, saw, out, reportFile, stock, report, blind, faults>>

Merge ==
    /\ phase = "each" /\ todo = {}
    /\ report' = MergeReports(partials)
    /\ phase' = "done"
    /\ UNCHANGED <<turn, disk, todo, batch, saw, out, reportFile, stock, partials, blind, faults>>

(* The cycle's context ends, by its own timeout or with the process; again *)
(* it matters before the steps that look at it only.                       *)
Cancel ==
    /\ phase \in {"each", "tool", "dump", "sites"} /\ ~cancelled
    /\ cancelled' = TRUE
    /\ UNCHANGED <<disk, phase, engine, targets, todo, batch, saw, out, reportFile, stock, partials,
                   report, blind, faults>>

(* Somebody writes, replaces or removes a file of the site.  Only these    *)
(* steps read files: a change before another is one before the next.       *)
Edit(f, c) ==
    /\ phase \in {"tool", "sites", "parse"}
    /\ disk[f] # c
    /\ disk' = [disk EXCEPT ![f] = c]
    /\ disk' \in Disk
    /\ UNCHANGED <<phase, engine, targets, todo, batch, saw, out, reportFile, stock, partials,
                   report, cancelled, blind, faults>>

AtMostOne(S) == {{}} \cup {{x} : x \in S}

RunTool ==
    \/ Launch \/ ToolFinishes \/ Dump \/ Parse
    \/ NotPrepared \/ Gate \/ DumpIsEmpty
    \/ \E wrote \in BOOLEAN : ToolStops(wrote)
    \/ \E lost \in SUBSET Path :
         ToolIsCut(lost) \/ \E head \in {"whole", "half", "none"} : DumpIsCut(lost, head)
    \/ \E f \in Path : HostActs(f)

RunNative ==
    \/ Search \/ SearchIsOver \/ ParseStock
    \/ \E s \in Site :
         \/ SiteIsUnusable(s)
         \/ \E silent \in AtMostOne(PluginsOf(s)) : InspectSite(s, silent, {})
         \/ \E f \in WPFile : SiteOf[f] = s /\ InspectSite(s, {}, {f})

Advance ==
    \/ Unavailable \/ NothingToScan \/ RunBatches
    \/ \E b \in SUBSET targets : NextBatch(b)
    \/ EachIsCancelled \/ Shielded \/ Merge
    \/ RunNative

Outside ==
    \/ Cancel
    \/ \E f \in WPFile, c \in Content : Edit(f, c)

Next ==
    \/ \E e \in Engine, T \in SUBSET Path : TakeTurn(e, T)
    \/ Advance \/ RunTool \/ Deadline \/ Killed \/ Outside

Spec == Init /\ [][Next]_vars

(* The program goes on, and a process ends at its timeout at the latest;   *)
(* that a tool ends by itself is not assumed.                              *)
Fairness == WF_vars(Advance \/ Launch \/ Parse) /\ WF_vars(Deadline)

FairSpec == Spec /\ Fairness
-----------------------------------------------------------------------------
Hit == [file : WPFile, hash : Content \cup {"path"}]

ReportType ==
    [status : Status, findings : SUBSET Hit, clean : SUBSET Hit,
     considered : SUBSET WPFile, scanned : SUBSET WPFile,
     skipped : SUBSET ({"unscannable_path_name", "vanished_before_hashing", "forged_report_path",
                        "wordpress_not_verified", "plugin_without_checksum"}
                         \X (WPFile \cup Site \cup Plugin))]

(* Types, and what each phase has: an output to parse, inventories of the  *)
(* installations that were found, a report only once the turn is over.     *)
TypeOK ==
    /\ disk \in Disk
    /\ phase \in {"probe", "each", "scan", "tool", "dump", "sites", "parse", "done"}
    /\ engine \in Engine /\ targets \subseteq Path /\ todo \subseteq targets
    /\ batch \subseteq WPFile \cup Site
    /\ saw \in [WPFile -> Content \cup {"unseen"}]
    /\ out = Nothing \/ out \in OutputType
    /\ reportFile = Nothing \/ reportFile \in OutputType
    /\ \A e \in stock : e.site \in Site /\ e.usable \in BOOLEAN
    /\ \A p \in partials : p \in ReportType
    /\ report # Nothing => (phase = "done" /\ report \in ReportType)
    /\ cancelled \in BOOLEAN /\ blind \subseteq WPFile /\ faults \in 0 .. MaxFaults
    /\ (phase = "parse" /\ engine \in Tool) => out # Nothing

(* ------------------------------ properties ----------------------------- *)

Answered == report # Nothing /\ CountsAsVote(report)

(* What the engine has to report: content its rules know, and for          *)
(* wpchecksums an official file that is not there.                         *)
Wrong(f) == \/ saw[f] = "bad"
            \/ engine = "wpchecksums" /\ saw[f] = "gone" /\ f \notin Stray

Scope == IF engine = "wpchecksums"
         THEN {f \in WPFile : SiteOf[f] \in Inspected /\ f \in Executable}
         ELSE targets

(* The report says that the file was not looked at.                        *)
Counted(f) ==
    \/ f \in report.considered \ report.scanned
    \/ \E x \in {f, SiteOf[f], PartOf[f]} : \E r \in report.skipped : r[2] = x

(* A vote answers for everything that was asked: each file was looked at,  *)
(* and is a finding if it was wrong, or is counted as not looked at - in   *)
(* every batch and in every installation, whichever of them failed.  Only  *)
(* what no adapter can notice is excepted: a tool that exits without a     *)
(* word, output cut where the format does not tell, and an unreadable file *)
(* of a plugin.  (mergeReports, SafeScanAndParse, the four Parse.)         *)
AnswersForItsScope ==
    Answered => \A f \in Scope \ blind :
                  \/ Counted(f)
                  \/ saw[f] # "unseen" /\ (Wrong(f) => f \in Files(report.findings))

(* A finding names a file that this turn's run of the engine saw and found *)
(* wrong, and which the cycle had handed to it: never one of an earlier    *)
(* run's report, of a file outside the scope, or of a run that abstains.   *)
(* (Scan and Parse of amwscan, mergeReports.)                              *)
BlamesOnlyWhatItSaw ==
    report # Nothing =>
      \A h \in report.findings :
        Answered /\ Wrong(h.file) /\ (engine \in Tool => h.file \in targets)

(* What is declared clean, and so can never be quarantined, had the        *)
(* published content in the very read its hash was taken from; and an      *)
(* engine that abstains declares nothing.  (inventory, parseOne.)          *)
LegitimacyIsEarned ==
    report # Nothing =>
      \A c \in report.clean : Answered /\ c.hash = "genuine" /\ saw[c.file] = "genuine"

(* What a turn of this engine has to report, and what the cycle is told.   *)
Recognised ==
    IF engine = "wpchecksums"
    THEN {x \in WPFile \X Content : x[2] = "bad" \/ (x[2] = "gone" /\ x[1] \notin Stray)}
    ELSE targets \X {"bad"}

Told ==
    IF report = Nothing
    THEN [kind |-> "none", blamed |-> {}, cleared |-> {}, counted |-> {}]
    ELSE [kind |-> IF CountsAsVote(report) THEN "vote" ELSE "abstention",
          blamed |-> Files(report.findings), cleared |-> Files(report.clean),
          counted |-> {f \in WPFile : Counted(f)}]

Contract ==
    INSTANCE EngineTurn
        WITH File <- WPFile, Genuine <- "genuine", Unseen <- "unseen",
             running <- phase # "done", rules <- Recognised, asked <- Scope,
             seen <- saw, lost <- blind, answer <- Told

(***************************************************************************)
(* The probes, batches, processes, dumps, inventories and parsers of a     *)
(* turn amount to the steps of the contract: what a batch or an            *)
(* installation brought is not heard of before the turn is over and not    *)
(* changed after it, and nothing that was asked, or seen, in an earlier    *)
(* part of the turn is forgotten in a later one.  (runEngines,             *)
(* runEngineBatches, mergeReports.)                                        *)
(***************************************************************************)
ImplementsContract == Contract!Spec

(* A turn ends whatever the engine does: a tool that hangs is killed at    *)
(* its timeout, an API that is silent counts against its installation      *)
(* only, a cancelled cycle stops before the next batch.  (exec.Run,        *)
(* Batcher.Each, runEngines.)                                              *)
TurnEnds == phase = "probe" ~> phase = "done"

StepsLeft == [scan |-> 5, tool |-> 4, dump |-> 3, sites |-> 3, parse |-> 2, each |-> 1, done |-> 0]

(* Targets taken off the list, or the next phase for the same batch, or    *)
(* one more of the installations settled.  A change on disk and the        *)
(* cancellation are no steps of the turn, and undo nothing.                *)
Descent ==
    \/ phase = "probe" /\ phase' # "probe"
    \/ /\ phase' \in DOMAIN StepsLeft
       /\ \/ todo' \subseteq todo /\ todo' # todo
          \/ todo' = todo /\ StepsLeft[phase'] < StepsLeft[phase]
    \/ /\ UNCHANGED <<phase, todo, batch, partials>>
       /\ \/ stock \subseteq stock' /\ \E s \in batch \ Inspected : Inspected' = Inspected \cup {s}
          \/ UNCHANGED stock /\ (disk' # disk \/ (~cancelled /\ cancelled'))

(* Every step of a turn brings its end nearer, whatever fails or changes   *)
(* meanwhile: no batch is run twice, no installation asked for twice, and  *)
(* nothing that was done comes undone.  (Batcher.Each, runEngineBatches,   *)
(* Scan of wpchecksums.)                                                   *)
TurnDescends == [][phase # "done" => Descent]_vars
=============================================================================
