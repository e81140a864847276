--------------------------- MODULE EnginesProofs ----------------------------
(***************************************************************************)
(* Proofs about Engines, for any files, installations, plugins, batches,   *)
(* failures and edits: what the reports of a turn may say, and how a turn  *)
(* goes.                                                                   *)
(*                                                                         *)
(* First the operators: merging (MergedVote), reading a stock of an        *)
(* installation (StockTells, StockIsComplete, ScanIsLocal), hashing        *)
(* (HashedSound) and the five Parse.  Then the invariant, which follows a  *)
(* batch from the look at its files through the output to its report, and  *)
(* an inventory from the look at its installation to the judgement, one    *)
(* lemma per step.  Last, that a turn keeps the contract (EngineTurn) and   *)
(* that it descends.                                                       *)
(***************************************************************************)
EXTENDS Engines, FiniteSetTheorems, TLAPS

-----------------------------------------------------------------------------
(* What merging the reports of the batches keeps.                          *)

LEMMA WorstOf ==
    ASSUME NEW S \in SUBSET Status, S # {}
    PROVE  /\ WorstStatus(S) \in S
           /\ \A t \in S : Severity[t] <= Severity[WorstStatus(S)]
<1> DEFINE Worst(s) == s \in S /\ \A t \in S : Severity[t] <= Severity[s]
<1>1. \E s : Worst(s)
    <2> USE DEF Status, Severity
    <2>1. CASE "failed" \in S
        BY <2>1
    <2>2. CASE "failed" \notin S /\ "killed" \in S
        BY <2>2
    <2>3. CASE S \cap {"failed", "killed"} = {} /\ "timeout" \in S
        BY <2>3
    <2>4. CASE S \cap {"failed", "killed", "timeout"} = {} /\ "partial" \in S
        BY <2>4
    <2>5. CASE S = {"completed"}
        BY <2>5
    <2> QED
        BY <2>1, <2>2, <2>3, <2>4, <2>5
<1> QED
    BY <1>1 DEF WorstStatus

(* A merged report votes only if every batch did, and adds them up.        *)
LEMMA MergedVote ==
    ASSUME NEW P, \A p \in P : p.status \in Status, CountsAsVote(MergeReports(P))
    PROVE  /\ P # {} /\ MergeReports(P) = Sum(P)
           /\ \A p \in P : p.status = "completed"
<1>1. P # {} /\ MergeReports(P) = Sum(P) /\ CountsAsVote(Sum(P))
    BY DEF MergeReports, CountsAsVote, FailedReport, Blank, Sum
<1> DEFINE S == {p.status : p \in P}
<1>2. S \in SUBSET Status /\ S # {} /\ WorstStatus(S) = "completed"
    BY <1>1 DEF CountsAsVote, Sum
<1> HIDE DEF S
<1>3. \A t \in S : Severity[t] <= Severity["completed"]
    BY <1>2, WorstOf
<1>4. \A t \in S : t = "completed"
    BY <1>2, <1>3 DEF Status, Severity
<1> QED
    BY <1>1, <1>4 DEF S

(* A merged report that abstains neither blames nor clears.                *)
LEMMA MergedAbstention ==
    ASSUME NEW P, ~CountsAsVote(MergeReports(P))
    PROVE  MergeReports(P).findings = {} /\ MergeReports(P).clean = {}
BY DEF MergeReports, CountsAsVote, FailedReport, Blank, Sum

(* A batch that failed, was killed or ran out of time takes the vote from  *)
(* the whole: however many batches there are, the merged report votes just *)
(* if every batch completed, and then it has what all of them found and    *)
(* called clean; otherwise it has nothing of either.  (mergeReports.)      *)
THEOREM MergeIsAllOrNothing ==
    ASSUME NEW P, \A p \in P : p.status \in Status
    PROVE  /\ CountsAsVote(MergeReports(P)) <=> P # {} /\ \A p \in P : p.status = "completed"
           /\ CountsAsVote(MergeReports(P)) =>
                 /\ MergeReports(P).findings = UNION {p.findings : p \in P}
                 /\ MergeReports(P).clean = UNION {p.clean : p \in P}
           /\ ~CountsAsVote(MergeReports(P)) =>
                 MergeReports(P).findings = {} /\ MergeReports(P).clean = {}
<1>1. ASSUME P # {}, \A p \in P : p.status = "completed"
      PROVE  CountsAsVote(MergeReports(P))
    <2>1. {p.status : p \in P} = {"completed"}
        BY <1>1
    <2>2. {"completed"} \in SUBSET Status /\ {"completed"} # {}
        BY DEF Status
    <2>3. WorstStatus({"completed"}) \in {"completed"}
        BY <2>2, WorstOf
    <2>4. Sum(P).status = "completed"
        BY <2>1, <2>3 DEF Sum
    <2> QED
        BY <1>1, <2>4 DEF MergeReports, CountsAsVote
<1>2. ASSUME CountsAsVote(MergeReports(P))
      PROVE  /\ P # {} /\ \A p \in P : p.status = "completed"
             /\ MergeReports(P).findings = UNION {p.findings : p \in P}
             /\ MergeReports(P).clean = UNION {p.clean : p \in P}
    <2>1. P # {} /\ MergeReports(P) = Sum(P) /\ \A p \in P : p.status = "completed"
        BY <1>2, MergedVote
    <2>2. /\ Sum(P).findings = UNION {p.findings : p \in P}
          /\ Sum(P).clean = UNION {p.clean : p \in P}
        BY DEF Sum
    <2> QED
        BY <2>1, <2>2
<1>3. CountsAsVote(MergeReports(P)) <=> P # {} /\ \A p \in P : p.status = "completed"
    BY <1>1, <1>2
<1>4. ASSUME ~CountsAsVote(MergeReports(P))
      PROVE  MergeReports(P).findings = {} /\ MergeReports(P).clean = {}
    BY <1>4, MergedAbstention
<1> QED
    BY <1>2, <1>3, <1>4

LEMMA FailedType ==
    ASSUME NEW st \in Status
    PROVE  /\ FailedReport(st) \in ReportType /\ ~CountsAsVote(FailedReport(st))
           /\ FailedReport(st).findings = {} /\ FailedReport(st).clean = {}
BY DEF FailedReport, Blank, ReportType, Status, CountsAsVote

LEMMA MergedType ==
    ASSUME NEW P, \A p \in P : p \in ReportType
    PROVE  MergeReports(P) \in ReportType
<1>1. CASE P = {}
    BY <1>1, FailedType DEF MergeReports, Status
<1>2. CASE P # {}
    <2> DEFINE S == {p.status : p \in P}
    <2>1. S \in SUBSET Status /\ S # {}
        BY <1>2 DEF ReportType
    <2> HIDE DEF S
    <2>2. WorstStatus(S) \in Status
        BY <2>1, WorstOf
    <2>3. Sum(P) \in ReportType
        <3> DEFINE T == {"unscannable_path_name", "vanished_before_hashing",
                         "forged_report_path", "wordpress_not_verified",
                         "plugin_without_checksum"} \X (WPFile \cup Site \cup Plugin)
        <3> HIDE DEF T
        <3>0. ReportType = [status : Status, findings : SUBSET Hit, clean : SUBSET Hit,
                            considered : SUBSET WPFile, scanned : SUBSET WPFile,
                            skipped : SUBSET T]
            BY DEF ReportType, T
        <3>1. \A p \in P : /\ p.findings \subseteq Hit /\ p.clean \subseteq Hit
                           /\ p.considered \subseteq WPFile /\ p.scanned \subseteq WPFile
                           /\ p.skipped \subseteq T
            BY <3>0
        <3>2. UNION {p.findings : p \in P} \subseteq Hit
            BY <3>1
        <3>3. UNION {p.clean : p \in P} \subseteq Hit
            BY <3>1
        <3>4. UNION {p.considered : p \in P} \subseteq WPFile
            BY <3>1
        <3>5. UNION {p.scanned : p \in P} \subseteq WPFile
            BY <3>1
        <3>6. UNION {p.skipped : p \in P} \subseteq T
            BY <3>1
        <3> QED
            BY <2>2, <3>0, <3>2, <3>3, <3>4, <3>5, <3>6 DEF Sum, S
    <2> QED
        BY <1>2, <2>3 DEF MergeReports, ReportType
<1> QED
    BY <1>1, <1>2

-----------------------------------------------------------------------------
(* What a tool prints.                                                     *)

LEMMA PathFinite == IsFiniteSet(Path) /\ Cardinality(Path) \in Nat
BY PathAssumption, FS_Subset, FS_CardinalityType

LEMMA SmallerIsFewer ==
    ASSUME NEW S \in SUBSET Path
    PROVE  /\ IsFiniteSet(S) /\ Cardinality(S) \in Nat /\ Cardinality(S) <= Cardinality(Path)
           /\ \A T \in SUBSET S : T # S => Cardinality(T) # Cardinality(S)
<1>1. /\ IsFiniteSet(S) /\ Cardinality(S) \in Nat
      /\ Cardinality(S) <= Cardinality(Path)
    BY PathFinite, FS_Subset, FS_CardinalityType
<1>2. ASSUME NEW T \in SUBSET S, T # S PROVE Cardinality(T) # Cardinality(S)
    BY <1>1, <1>2, FS_Subset, FS_CardinalityType
<1> QED
    BY <1>1, <1>2

LEMMA PrintedType ==
    ASSUME NEW hits \in SUBSET Path, NEW files \in SUBSET Path
    PROVE  Printed(hits, files) \in OutputType
<1>1. Cardinality(hits) \in -1 .. Cardinality(Path)
    BY SmallerIsFewer, PathFinite
<1> QED
    BY <1>1 DEF Printed, OutputType

-----------------------------------------------------------------------------
(* The types, with what a tool printed at hand when it is read.            *)

Working == phase \in {"scan", "tool", "dump", "sites", "parse"}

Types ==
    /\ disk \in Disk
    /\ phase \in {"probe", "each", "scan", "tool", "dump", "sites", "parse", "done"}
    /\ engine \in Engine /\ targets \subseteq Path /\ todo \subseteq targets
    /\ batch \subseteq WPFile \cup Site
    /\ saw \in [WPFile -> Content \cup {"unseen"}]
    /\ \A f \in WPFile \cap Stray : saw[f] # "genuine"
    /\ out = Nothing \/ out \in OutputType
    /\ reportFile = Nothing \/ reportFile \in OutputType
    /\ \A p \in partials : p \in ReportType
    /\ report # Nothing => phase = "done" /\ report \in ReportType
    /\ cancelled \in BOOLEAN /\ blind \subseteq WPFile /\ faults \in 0 .. MaxFaults
    /\ phase \in {"dump", "parse"} /\ engine \in Tool => out \in OutputType

(* The order of a turn: what is in the batch is not to do any more, and    *)
(* an engine that cannot be given a list has a single batch.               *)
Orderly ==
    /\ phase = "probe" => todo = {} /\ stock = {} /\ partials = {}
    /\ phase \in {"tool", "dump"} => engine \in Tool
    /\ phase = "dump" => engine = "maldet"
    /\ phase = "sites" => engine = "wpchecksums"
    /\ Working /\ engine \in Tool => batch \subseteq targets \ todo
    /\ engine \notin ScopeAware =>
         /\ Working => todo = {} /\ partials = {}
         /\ phase = "each" /\ todo # {} => partials = {} /\ todo = targets
    /\ Working /\ engine = "amwscan" => batch = targets
    /\ phase = "tool" /\ engine = "amwscan" => reportFile = Nothing

(* The files of the batches that are over. *)
Past == targets \ (todo \cup (IF Working THEN batch ELSE {}))

(* Parse of maldet will take this output for off-format. *)
Doomed ==
    /\ engine = "maldet"
    /\ \/ out.head = "none" \/ out.acted
       \/ out.declared >= 0 /\ out.declared # Cardinality(out.listed)

(* What a tool printed is what it saw, unless that shows or nobody can tell. *)
OutputSound ==
    phase \in {"dump", "parse"} /\ engine \in Tool =>
        /\ \A f \in out.listed : f \in LooksAt /\ saw[f] = "bad"
        /\ phase = "dump" =>
             out.head = "whole" /\ out.declared = Cardinality(out.listed) /\ ~out.acted
        /\ \/ Doomed
           \/ \A f \in batch \ blind :
                \/ f \in Odd /\ engine # "amwscan"
                \/ saw[f] # "unseen" /\ (saw[f] = "bad" => f \in out.listed)

(* A report has something to say of a file. *)
Accounts(p, f) ==
    \/ \E r \in p.skipped : r[2] = f
    \/ saw[f] # "unseen" /\ (saw[f] = "bad" => f \in Files(p.findings))

PartialsSound ==
    engine \in Tool =>
        /\ \A p \in partials :
             p.clean = {} /\ \A h \in p.findings : h.file \in Past /\ saw[h.file] = "bad"
        /\ (partials = {} => phase \notin {"probe", "done"})
             /\ (\A p \in partials : p.status = "completed")
           => \A f \in Past \ blind : \E p \in partials : Accounts(p, f)

(* An inventory is of the files as this turn saw them. *)
Taken(e) ==
    \E unread \in SUBSET WPFile, silent \in SUBSET PluginsOf(e.site) :
        /\ e = ScanOne(e.site, saw, unread, silent)
        /\ \A f \in unread : f \in Stray \/ PartOf[f] # "core" => f \in blind
        /\ \A f \in WPFile : SiteOf[f] = e.site => saw[f] \in Content

StockSound ==
    /\ engine # "wpchecksums" => stock = {}
    /\ \A e \in stock : e.site \in Site /\ (e = Unusable(e.site) \/ Taken(e))
    /\ \A d \in stock, e \in stock : d.site = e.site => d = e

Abstains(p) == ~CountsAsVote(p) /\ p.findings = {} /\ p.clean = {}

NativeSound ==
    engine = "wpchecksums" =>
        \/ partials = {}
        \/ \E p \in partials : partials = {p} /\ (p = ParseInventory(stock) \/ Abstains(p))

ReportIs ==
    report # Nothing =>
        \/ report = MergeReports(partials) /\ todo = {}
        \/ report = Blank("completed", {}, {}, {}) /\ targets = {} /\ stock = {}

IInv ==
    /\ Types /\ Orderly /\ OutputSound /\ PartialsSound
    /\ StockSound /\ NativeSound /\ ReportIs

-----------------------------------------------------------------------------
(* What wpchecksums makes of an installation.                              *)

LEMMA LocalIs ==
    ASSUME NEW S, NEW d, NEW l \in Local(S, d)
    PROVE  /\ l.file \in S /\ d[l.file] # "gone" /\ l.hash = d[l.file]
           /\ l = [file |-> l.file, hash |-> l.hash]
BY DEF Local

LEMMA LocalHas ==
    ASSUME NEW S, NEW d, NEW f \in S, d[f] # "gone"
    PROVE  [file |-> f, hash |-> d[f]] \in Local(S, d) /\ f \in Files(Local(S, d))
BY DEF Local, Files

(* Taking stock of an installation reads the files of that installation.   *)
LEMMA ScanIsLocal ==
    ASSUME NEW s, NEW c, NEW d, NEW unread, NEW silent,
           \A f \in WPFile : SiteOf[f] = s => c[f] = d[f]
    PROVE  ScanOne(s, c, unread, silent) = ScanOne(s, d, unread, silent)
<1>1. \A S \in SUBSET {f \in WPFile : SiteOf[f] = s} :
          Local(S, c) = Local(S, d) /\ Missing(S, c) = Missing(S, d)
    BY Zenon DEF Local, Missing
<1>2. \A part : Known(s, part) \in SUBSET {f \in WPFile : SiteOf[f] = s}
    BY DEF Known, In
<1>3. \A part : TakeStock(s, part, c, unread) = TakeStock(s, part, d, unread)
    <2> TAKE part
    <2>1. Local(Known(s, part) \ unread, c) = Local(Known(s, part) \ unread, d)
        BY <1>1, <1>2
    <2>2. Missing(Known(s, part), c) = Missing(Known(s, part), d)
        BY <1>1, <1>2
    <2>3. (In(s, part) \cap Stray \cap Executable) \ unread
             \in SUBSET {f \in WPFile : SiteOf[f] = s}
        BY DEF In
    <2>4. ExtraFiles(s, part, c, unread) = ExtraFiles(s, part, d, unread)
        BY <1>1, <2>3 DEF ExtraFiles
    <2> QED
        BY <2>1, <2>2, <2>4 DEF TakeStock
<1>4. Unverifiable(s, c, silent) = Unverifiable(s, d, silent)
    <2>1. \A p : Missing(Known(s, p), c) = Missing(Known(s, p), d)
        BY <1>1, <1>2
    <2> QED
        BY <2>1 DEF Unverifiable
<1>5. ScanPlugins(s, c, unread, silent) = ScanPlugins(s, d, unread, silent)
    BY <1>3, <1>4 DEF ScanPlugins
<1> QED
    BY <1>3, <1>5 DEF ScanOne

LEMMA ScanOneIs ==
    ASSUME NEW s, NEW d, NEW unread, NEW silent
    PROVE  /\ ScanOne(s, d, unread, silent).site = s
           /\ ScanOne(s, d, unread, silent).core = TakeStock(s, "core", d, unread)
           /\ \A t \in ScanOne(s, d, unread, silent).add.plugins :
                 \E p : t = TakeStock(s, p, d, unread)
           /\ \A p \in PluginsOf(s) \ ScanOne(s, d, unread, silent).add.skipped :
                 TakeStock(s, p, d, unread) \in ScanOne(s, d, unread, silent).add.plugins
           /\ ScanOne(s, d, unread, silent).add.skipped = Unverifiable(s, d, silent)
BY DEF ScanOne, ScanPlugins

(* Every stock of an inventory is one of a part of its installation.       *)
LEMMA StockOfPart ==
    ASSUME NEW s, NEW d, NEW unread, NEW silent, NEW e, e = ScanOne(s, d, unread, silent),
           NEW t \in {e.core} \cup e.add.plugins
    PROVE  \E part : t = TakeStock(s, part, d, unread)
BY ScanOneIs

(* What one stock says is what this turn saw.                              *)
LEMMA StockTells ==
    ASSUME Types, NEW s \in Site, NEW part, NEW unread,
           NEW t, t = TakeStock(s, part, saw, unread),
           \A f \in WPFile : SiteOf[f] = s => saw[f] \in Content
    PROVE  /\ \A l \in t.local : /\ l \in Hit /\ l.hash = saw[l.file]
                                 /\ l.file \in Known(s, part) \ unread
           /\ \A l \in Altered(t) \cup t.extra : l \in Hit /\ saw[l.file] = "bad"
           /\ \A l \in t.extra : l.file \in In(s, part) \cap Stray
           /\ \A f \in t.missing : f \in WPFile \ Stray /\ saw[f] = "gone"
<1>1. Known(s, part) \subseteq WPFile \ Stray /\ \A f \in Known(s, part) : SiteOf[f] = s
    BY DEF Known, In
<1>2. ASSUME NEW l \in t.local
      PROVE  l \in Hit /\ l.hash = saw[l.file] /\ l.file \in Known(s, part) \ unread
    <2>1. l \in Local(Known(s, part) \ unread, saw)
        BY <1>2 DEF TakeStock
    <2>2. /\ l.file \in Known(s, part) \ unread /\ l.hash = saw[l.file]
          /\ l = [file |-> l.file, hash |-> l.hash]
        BY <2>1, LocalIs
    <2>3. saw[l.file] \in Content /\ l.file \in WPFile
        BY <2>2, <1>1
    <2> QED
        BY <2>2, <2>3 DEF Hit
<1>3. ASSUME NEW l \in t.local, l.hash # "genuine"
      PROVE  saw[l.file] = "bad"
    <2>1. l \in Local(Known(s, part) \ unread, saw)
        BY <1>3 DEF TakeStock
    <2>2. saw[l.file] # "gone"
        BY <2>1, LocalIs
    <2>3. saw[l.file] \in Content
        BY <1>2, <1>3, <1>1
    <2> QED
        BY <1>2, <1>3, <2>2, <2>3 DEF Content
<1>4. ASSUME NEW l \in t.extra
      PROVE  l \in Hit /\ saw[l.file] = "bad" /\ l.file \in In(s, part) \cap Stray
    <2>1. l \in Local((In(s, part) \cap Stray \cap Executable) \ unread, saw)
        BY <1>4 DEF TakeStock, ExtraFiles
    <2>2. /\ l.file \in In(s, part) \cap Stray /\ saw[l.file] # "gone" /\ l.hash = saw[l.file]
          /\ l = [file |-> l.file, hash |-> l.hash]
        BY <2>1, LocalIs
    <2>3. l.file \in WPFile \cap Stray /\ saw[l.file] \in Content
        BY <2>2 DEF In
    <2>4. saw[l.file] = "bad"
        BY <2>2, <2>3 DEF Content, Types
    <2> QED
        BY <2>2, <2>3, <2>4 DEF Hit
<1>5. ASSUME NEW f \in t.missing PROVE f \in WPFile \ Stray /\ saw[f] = "gone"
    BY <1>1 DEF TakeStock, Missing
<1> QED
    BY <1>2, <1>3, <1>4, <1>5 DEF Altered

(* And it tells of every file of the part that could be read.              *)
LEMMA StockIsComplete ==
    ASSUME NEW f \in WPFile, NEW unread,
           NEW t, t = TakeStock(SiteOf[f], PartOf[f], saw, unread)
    PROVE  /\ f \notin Stray /\ saw[f] = "gone" => f \in t.missing
           /\ f \notin Stray \cup unread /\ saw[f] = "bad" => f \in Files(Altered(t))
           /\ f \in (Stray \cap Executable) \ unread /\ saw[f] = "bad" => f \in Files(t.extra)
<1> DEFINE s == SiteOf[f]
           p == PartOf[f]
<1>1. f \in In(s, p)
    BY DEF In
<1>2. ASSUME f \notin Stray, saw[f] = "gone" PROVE f \in t.missing
    BY <1>1, <1>2 DEF TakeStock, Missing, Known
<1>3. ASSUME f \notin Stray \cup unread, saw[f] = "bad" PROVE f \in Files(Altered(t))
    <2>1. [file |-> f, hash |-> saw[f]] \in Local(Known(s, p) \ unread, saw)
        BY <1>1, <1>3, LocalHas DEF Known
    <2>2. [file |-> f, hash |-> saw[f]] \in Altered(t)
        BY <2>1, <1>3 DEF TakeStock, Altered
    <2> QED
        BY <2>2 DEF Files
<1>4. ASSUME f \in (Stray \cap Executable) \ unread, saw[f] = "bad" PROVE f \in Files(t.extra)
    <2>1. f \in Files(Local((In(s, p) \cap Stray \cap Executable) \ unread, saw))
        BY <1>1, <1>4, LocalHas
    <2> QED
        BY <2>1 DEF TakeStock, ExtraFiles
<1> QED
    BY <1>2, <1>3, <1>4

(* A judged installation was taken stock of.                               *)
LEMMA JudgedIsTaken ==
    ASSUME StockSound, NEW e \in stock, Judgeable(e)
    PROVE  \E s \in Site, unread \in SUBSET WPFile, silent \in SUBSET Plugin :
               /\ e.site = s /\ silent \subseteq PluginsOf(s)
               /\ e = ScanOne(s, saw, unread, silent)
               /\ \A f \in unread : f \in Stray \/ PartOf[f] # "core" => f \in blind
               /\ \A f \in WPFile : SiteOf[f] = s => saw[f] \in Content
<1>1. e.site \in Site /\ Taken(e)
    BY DEF StockSound, Judgeable, Unusable
<1>2. SUBSET PluginsOf(e.site) \subseteq SUBSET Plugin
    BY <1>1 DEF Plugin
<1> QED
    BY <1>1, <1>2 DEF Taken

(* What its stocks say is what this turn saw.                              *)
LEMMA InventoryTells ==
    ASSUME Types, StockSound, NEW e \in stock, Judgeable(e), NEW t \in {e.core} \cup e.add.plugins
    PROVE  /\ \A l \in t.local : l \in Hit /\ l.hash = saw[l.file]
           /\ \A l \in Altered(t) \cup t.extra : l \in Hit /\ saw[l.file] = "bad"
           /\ \A f \in t.missing : f \in WPFile \ Stray /\ saw[f] = "gone"
<1>1. PICK s \in Site, unread \in SUBSET WPFile, silent \in SUBSET Plugin :
          /\ e = ScanOne(s, saw, unread, silent)
          /\ \A f \in WPFile : SiteOf[f] = s => saw[f] \in Content
    BY JudgedIsTaken
<1>2. PICK part : t = TakeStock(s, part, saw, unread)
    <2>1. e = ScanOne(s, saw, unread, silent)
        BY <1>1
    <2> QED
        BY <2>1, ScanOneIs
<1>4. \A f \in WPFile : SiteOf[f] = s => saw[f] \in Content
    BY <1>1
<1>5. /\ \A l \in t.local : l \in Hit /\ l.hash = saw[l.file]
      /\ \A l \in Altered(t) \cup t.extra : l \in Hit /\ saw[l.file] = "bad"
      /\ \A f \in t.missing : f \in WPFile \ Stray /\ saw[f] = "gone"
    BY <1>2, <1>4, StockTells
<1> QED
    BY <1>5

LEMMA InventoryBlames ==
    ASSUME Types, StockSound, NEW e \in stock, Judgeable(e), NEW h \in Findings(e)
    PROVE  /\ h \in Hit
           /\ saw[h.file] = "bad" \/ (saw[h.file] = "gone" /\ h.file \notin Stray)
<1> DEFINE Stocks == {e.core} \cup e.add.plugins
<1>1. \/ \E t \in Stocks : h \in Altered(t) \cup t.extra
      \/ \E t \in Stocks : \E f \in t.missing : h = [file |-> f, hash |-> "path"]
    <2>1. \/ h \in UNION {Altered(t) \cup t.extra : t \in Stocks}
          \/ h \in Absences(e.core.missing \cap Executable)
          \/ h \in UNION {Absences(t.missing) : t \in e.add.plugins}
        BY Zenon DEF Findings
    <2> QED
        BY <2>1 DEF Absences
<1>2. CASE \E t \in Stocks : h \in Altered(t) \cup t.extra
    BY <1>2, InventoryTells
<1>3. CASE \E t \in Stocks : \E f \in t.missing : h = [file |-> f, hash |-> "path"]
    BY <1>3, InventoryTells DEF Hit
<1> QED
    BY <1>1, <1>2, <1>3

LEMMA InventoryClears ==
    ASSUME Types, StockSound, NEW e \in stock, Judgeable(e), NEW c \in Clean(e)
    PROVE  c \in Hit /\ c.hash = "genuine" /\ saw[c.file] = "genuine"
<1>1. PICK t \in {e.core} \cup e.add.plugins : c \in t.local \ Altered(t)
    BY DEF Clean
<1> QED
    BY <1>1, InventoryTells DEF Altered

(* An inventory calls scanned what it read, in its own installation.       *)
LEMMA ScannedWasRead ==
    ASSUME Types, StockSound, NEW s \in Site, NEW unread, NEW silent,
           NEW e, e = ScanOne(s, saw, unread, silent),
           \A g \in WPFile : SiteOf[g] = s => saw[g] \in Content,
           NEW f \in Scanned(e)
    PROVE  f \in WPFile /\ SiteOf[f] = s /\ (f \in Stray \/ f \notin unread)
<1>1. PICK t \in {e.core} \cup e.add.plugins : f \in Files(t.local) \cup Files(t.extra)
    BY Zenon DEF Scanned
<1>2. PICK part : t = TakeStock(s, part, saw, unread)
    BY <1>1, ScanOneIs
<1>3. PICK l \in t.local \cup t.extra : l.file = f
    BY <1>1 DEF Files
<1>4. \/ f \in Known(s, part) \ unread
      \/ f \in In(s, part) \cap Stray
    BY <1>2, <1>3, StockTells
<1> QED
    BY <1>4 DEF Known, In

(* It tells of every file of its installation, reports the wrong ones, and *)
(* otherwise names what it could not verify or leaves it uncounted.        *)
LEMMA InventoryAnswers ==
    ASSUME Types, StockSound, NEW e \in stock, Judgeable(e),
           NEW f \in (WPFile \cap Executable) \ blind, SiteOf[f] = e.site
    PROVE  /\ saw[f] # "unseen"
           /\ \/ PartOf[f] \in e.add.skipped
              \/ saw[f] = "bad" \/ (saw[f] = "gone" /\ f \notin Stray) => f \in Files(Findings(e))
              \/ f \in Considered(e) /\ \A d \in stock : Judgeable(d) => f \notin Scanned(d)
<1>1. PICK s \in Site, unread \in SUBSET WPFile, silent \in SUBSET Plugin :
          /\ e.site = s /\ e = ScanOne(s, saw, unread, silent)
          /\ \A g \in unread : g \in Stray \/ PartOf[g] # "core" => g \in blind
          /\ \A g \in WPFile : SiteOf[g] = s => saw[g] \in Content
    BY JudgedIsTaken
<1>2. saw[f] \in Content /\ saw[f] # "unseen"
    BY <1>1 DEF Content
<1> DEFINE t == TakeStock(s, PartOf[f], saw, unread)
<1>3. \/ PartOf[f] \in e.add.skipped
      \/ PartOf[f] = "core" /\ t = e.core
      \/ PartOf[f] # "core" /\ t \in e.add.plugins
    <2>1. e = ScanOne(s, saw, unread, silent)
        BY <1>1
    <2>2. /\ e.core = TakeStock(s, "core", saw, unread)
          /\ \A p \in PluginsOf(s) \ e.add.skipped : TakeStock(s, p, saw, unread) \in e.add.plugins
        BY <2>1, ScanOneIs
    <2>3. PartOf[f] \in {"core"} \cup PluginsOf(s)
        BY <1>1, SiteAssumption
    <2> QED
        BY <2>2, <2>3
<1>4. CASE PartOf[f] \in e.add.skipped
    BY <1>2, <1>4
<1>5. CASE PartOf[f] \notin e.add.skipped
    <2>1. t \in {e.core} \cup e.add.plugins
        BY <1>3, <1>5
    <2>2. SiteOf[f] = s
        BY <1>1
    <2>3. /\ f \notin Stray /\ saw[f] = "gone" => f \in t.missing
          /\ f \notin Stray \cup unread /\ saw[f] = "bad" => f \in Files(Altered(t))
          /\ f \in (Stray \cap Executable) \ unread /\ saw[f] = "bad" => f \in Files(t.extra)
        BY <2>2, StockIsComplete
    <2> HIDE DEF t
    <2>4. CASE saw[f] = "gone" /\ f \notin Stray
        <3>1. [file |-> f, hash |-> "path"] \in Findings(e)
            <4>1. [file |-> f, hash |-> "path"] \in Absences(t.missing \cap Executable)
                BY <2>3, <2>4 DEF Absences
            <4>2. [file |-> f, hash |-> "path"] \in Absences(t.missing)
                BY <2>3, <2>4 DEF Absences
            <4> QED
                BY <1>3, <1>5, <4>1, <4>2 DEF Findings
        <3> QED
            BY <1>2, <3>1 DEF Files
    <2>5. CASE saw[f] = "bad" /\ f \notin unread
        <3>1. f \in Files(Altered(t) \cup t.extra)
            BY <2>3, <2>5 DEF Files
        <3>2. Altered(t) \cup t.extra \subseteq Findings(e)
            BY <2>1 DEF Findings
        <3> QED
            BY <1>2, <3>1, <3>2 DEF Files
    <2>6. CASE saw[f] = "bad" /\ f \in unread
        <3>1. f \notin Stray /\ PartOf[f] = "core"
            BY <1>1, <2>6
        <3>2. f \in Considered(e)
            BY <1>1, <2>2, <3>1 DEF Considered, Known, In
        <3>3. ASSUME NEW d \in stock, Judgeable(d), f \in Scanned(d) PROVE FALSE
            <4>1. PICK s2 \in Site, unread2 \in SUBSET WPFile, silent2 \in SUBSET Plugin :
                      /\ d.site = s2 /\ d = ScanOne(s2, saw, unread2, silent2)
                      /\ \A g \in WPFile : SiteOf[g] = s2 => saw[g] \in Content
                BY <3>3, JudgedIsTaken
            <4>2. SiteOf[f] = s2
                BY <3>3, <4>1, ScannedWasRead
            <4>3. d = e
                BY <1>1, <2>2, <4>1, <4>2 DEF StockSound
            <4>4. f \notin unread
                BY <1>1, <3>1, <3>3, <4>3, ScannedWasRead
            <4> QED
                BY <2>6, <4>4
        <3> QED
            BY <1>2, <3>2, <3>3
    <2>7. saw[f] = "genuine" \/ saw[f] = "gone" \/ saw[f] = "bad"
        BY <1>2 DEF Content
    <2> QED
        BY <1>2, <2>4, <2>5, <2>6, <2>7
<1> QED
    BY <1>4, <1>5

-----------------------------------------------------------------------------
(* What Parse makes of the output of a tool.                               *)

Noted == {"unscannable_path_name", "vanished_before_hashing", "forged_report_path",
          "wordpress_not_verified", "plugin_without_checksum"} \X (WPFile \cup Site \cup Plugin)

LEMMA ReportTypeIs ==
    ReportType = [status : Status, findings : SUBSET Hit, clean : SUBSET Hit,
                  considered : SUBSET WPFile, scanned : SUBSET WPFile, skipped : SUBSET Noted]
BY DEF ReportType, Noted

LEMMA NewReportType ==
    ASSUME NEW asked \in SUBSET WPFile, NEW refused \in SUBSET WPFile
    PROVE  /\ NewScanReport(asked, refused) \in ReportType
           /\ NewScanReport(asked, refused).clean = {}
           /\ NewScanReport(asked, refused).findings = {}
           /\ NewScanReport(asked, refused).skipped = {"unscannable_path_name"} \X refused
<1>1. {"unscannable_path_name"} \X refused \subseteq Noted
    BY DEF Noted
<1> QED
    BY <1>1, ReportTypeIs DEF NewScanReport, Blank, Status

LEMMA HashedType ==
    ASSUME Types, NEW rep \in ReportType, NEW hits \in SUBSET Path
    PROVE  /\ Hashed(rep, hits) \in ReportType
           /\ Hashed(rep, hits).status = rep.status
           /\ Hashed(rep, hits).clean = rep.clean
           /\ Hashed(rep, hits).findings = Local(hits, disk)
           /\ Hashed(rep, hits).skipped
                = rep.skipped \cup ({"vanished_before_hashing"} \X Missing(hits, disk))
<1>1. disk \in [WPFile -> Content] /\ Path \subseteq WPFile
    BY PathAssumption DEF Types, Disk
<1>2. Local(hits, disk) \subseteq Hit
    BY <1>1, LocalIs DEF Hit
<1>3. {"vanished_before_hashing"} \X Missing(hits, disk) \subseteq Noted
    BY <1>1 DEF Missing, Noted
<1> QED
    BY <1>2, <1>3, ReportTypeIs DEF Hashed

(* Hashing accounts for every hit, and blames nothing else.                *)
LEMMA HashedSound ==
    ASSUME Types, NEW rep \in ReportType, NEW hits \in SUBSET Path
    PROVE  /\ \A h \in Hashed(rep, hits).findings : h.file \in hits
           /\ \A f \in hits : \/ f \in Files(Hashed(rep, hits).findings)
                              \/ \E r \in Hashed(rep, hits).skipped : r[2] = f
           /\ rep.skipped \subseteq Hashed(rep, hits).skipped
<1>1. /\ Hashed(rep, hits).findings = Local(hits, disk)
      /\ Hashed(rep, hits).skipped
           = rep.skipped \cup ({"vanished_before_hashing"} \X Missing(hits, disk))
    BY HashedType
<1>2. \A h \in Hashed(rep, hits).findings : h.file \in hits
    BY <1>1, LocalIs
<1>3. ASSUME NEW f \in hits
      PROVE  \/ f \in Files(Hashed(rep, hits).findings)
             \/ \E r \in Hashed(rep, hits).skipped : r[2] = f
    <2>1. CASE disk[f] # "gone"
        BY <1>1, <2>1, LocalHas
    <2>2. CASE disk[f] = "gone"
        <3>1. <<"vanished_before_hashing", f>> \in Hashed(rep, hits).skipped
            BY <1>1, <2>2 DEF Missing
        <3> QED
            BY <3>1
    <2> QED
        BY <2>1, <2>2
<1> QED
    BY <1>1, <1>2, <1>3

LEMMA ParsedPmf ==
    ASSUME Types, Orderly, OutputSound, phase = "parse", engine = "pmf"
    PROVE  /\ ParsePmf \in ReportType /\ ParsePmf.clean = {}
           /\ \A h \in ParsePmf.findings : h.file \in batch /\ saw[h.file] = "bad"
           /\ \A f \in batch \ blind : Accounts(ParsePmf, f)
<1> DEFINE rep == NewScanReport(batch, batch \cap Odd)
<1>1. /\ batch \subseteq WPFile /\ out.listed \in SUBSET Path /\ LooksAt = batch \ Odd
    BY PathAssumption DEF Types, Orderly, Working, Tool, OutputType, LooksAt
<1>2. /\ \A f \in out.listed : f \in batch \ Odd /\ saw[f] = "bad"
      /\ \A f \in batch \ blind :
            f \in Odd \/ (saw[f] # "unseen" /\ (saw[f] = "bad" => f \in out.listed))
    BY <1>1 DEF OutputSound, Tool, Doomed
<1>3. rep \in ReportType /\ rep.clean = {}
      /\ rep.skipped = {"unscannable_path_name"} \X (batch \cap Odd)
    BY <1>1, NewReportType
<1> HIDE DEF rep
<1>4. ParsePmf = Hashed(rep, out.listed)
    BY DEF ParsePmf, rep
<1>5. ASSUME NEW f \in batch \ blind PROVE Accounts(ParsePmf, f)
    <2>1. CASE f \in Odd
        <3>1. <<"unscannable_path_name", f>> \in ParsePmf.skipped
            BY <1>1, <1>3, <1>4, <2>1, HashedSound
        <3> QED
            BY <3>1 DEF Accounts
    <2>2. CASE f \notin Odd
        BY <1>1, <1>2, <1>3, <1>4, <2>2, HashedSound DEF Accounts
    <2> QED
        BY <2>1, <2>2
<1> QED
    BY <1>1, <1>2, <1>3, <1>4, <1>5, HashedType, HashedSound

LEMMA ParsedAmwscan ==
    ASSUME Types, Orderly, OutputSound, phase = "parse", engine = "amwscan"
    PROVE  /\ ParseAmwscan \in ReportType /\ ParseAmwscan.clean = {}
           /\ \A h \in ParseAmwscan.findings : h.file \in batch /\ saw[h.file] = "bad"
           /\ \A f \in batch \ blind : Accounts(ParseAmwscan, f)
<1> DEFINE new == NewScanReport(batch, {})
           rep == [new EXCEPT !.skipped = {"forged_report_path"} \X (out.listed \cap Odd)]
           hits == Allowed(out.listed \ Odd)
<1>1. /\ batch \subseteq WPFile /\ out.listed \in SUBSET Path
    BY PathAssumption DEF Types, Orderly, Working, Tool, OutputType
<1>2. /\ \A f \in out.listed : saw[f] = "bad"
      /\ \A f \in batch \ blind : saw[f] # "unseen" /\ (saw[f] = "bad" => f \in out.listed)
    BY <1>1 DEF OutputSound, Tool, Doomed
<1>3. new \in ReportType /\ new.clean = {}
    BY <1>1, NewReportType
<1>4. {"forged_report_path"} \X (out.listed \cap Odd) \subseteq Noted
    BY <1>1, PathAssumption DEF Noted
<1>5. /\ rep \in ReportType /\ rep.clean = {}
      /\ rep.skipped = {"forged_report_path"} \X (out.listed \cap Odd)
    <2> HIDE DEF new
    <2> QED
        BY <1>3, <1>4, ReportTypeIs
<1>6. hits \in SUBSET Path /\ hits = (out.listed \ Odd) \cap batch
    BY <1>1 DEF Allowed
<1> HIDE DEF rep, hits
<1>7. ParseAmwscan = Hashed(rep, hits)
    BY DEF ParseAmwscan, rep, hits
<1>8. ASSUME NEW f \in batch \ blind PROVE Accounts(ParseAmwscan, f)
    <2>1. CASE f \in out.listed \cap Odd
        <3>1. <<"forged_report_path", f>> \in ParseAmwscan.skipped
            BY <1>5, <1>6, <1>7, <2>1, HashedSound
        <3> QED
            BY <3>1 DEF Accounts
    <2>2. CASE f \in hits
        BY <1>2, <1>5, <1>6, <1>7, <2>2, HashedSound DEF Accounts
    <2>3. CASE f \notin out.listed
        BY <1>2, <2>3 DEF Accounts
    <2> QED
        BY <1>6, <2>1, <2>2, <2>3
<1> QED
    BY <1>2, <1>5, <1>6, <1>7, <1>8, HashedType, HashedSound

LEMMA ParsedMaldet ==
    ASSUME Types, Orderly, OutputSound, phase = "parse", engine = "maldet"
    PROVE  /\ ParseMaldet \in ReportType /\ ParseMaldet.clean = {}
           /\ \A h \in ParseMaldet.findings : h.file \in batch /\ saw[h.file] = "bad"
           /\ ParseMaldet.status = "completed" =>
                \A f \in batch \ blind : Accounts(ParseMaldet, f)
<1> DEFINE new == NewScanReport(batch, batch \cap Odd)
           rep == IF out.files = {} THEN new
                  ELSE [new EXCEPT !.considered = out.files, !.scanned = out.files]
<1>1. /\ batch \subseteq WPFile /\ out \in OutputType /\ out.listed \in SUBSET Path
      /\ out.files \subseteq WPFile /\ LooksAt = batch \ Odd
    BY PathAssumption DEF Types, Orderly, Working, Tool, OutputType, LooksAt
<1>2. new \in ReportType /\ new.clean = {}
      /\ new.skipped = {"unscannable_path_name"} \X (batch \cap Odd)
    BY <1>1, NewReportType
<1>3. rep \in ReportType /\ rep.clean = {}
      /\ rep.skipped = {"unscannable_path_name"} \X (batch \cap Odd)
    <2> HIDE DEF new
    <2> QED
        BY <1>1, <1>2, ReportTypeIs
<1> HIDE DEF rep
<1>4. ParseMaldet = IF Doomed THEN FailedReport("failed") ELSE Hashed(rep, out.listed)
    BY DEF ParseMaldet, Doomed, rep
<1>5. CASE Doomed
    BY <1>4, <1>5, FailedType DEF Status, CountsAsVote
<1>6. CASE ~Doomed
    <2>1. /\ \A f \in out.listed : f \in batch \ Odd /\ saw[f] = "bad"
          /\ \A f \in batch \ blind :
                f \in Odd \/ (saw[f] # "unseen" /\ (saw[f] = "bad" => f \in out.listed))
        BY <1>1, <1>6 DEF OutputSound, Tool
    <2>2. ASSUME NEW f \in batch \ blind PROVE Accounts(ParseMaldet, f)
        <3>1. CASE f \in Odd
            <4>1. <<"unscannable_path_name", f>> \in ParseMaldet.skipped
                BY <1>1, <1>3, <1>4, <1>6, <3>1, HashedSound
            <4> QED
                BY <4>1 DEF Accounts
        <3>2. CASE f \notin Odd
            BY <1>1, <1>3, <1>4, <1>6, <2>1, <3>2, HashedSound DEF Accounts
        <3> QED
            BY <3>1, <3>2
    <2> QED
        BY <1>1, <1>3, <1>4, <1>6, <2>1, <2>2, HashedType, HashedSound
<1> QED
    BY <1>5, <1>6

-----------------------------------------------------------------------------
(* What Parse of wpchecksums makes of the inventories.                     *)

Judged == {e \in stock : Judgeable(e)}

LEMMA InventoryIs ==
    ASSUME Judged # {}
    PROVE  /\ ParseInventory(stock).status = "completed"
           /\ ParseInventory(stock).findings = UNION {Findings(e) : e \in Judged}
           /\ ParseInventory(stock).clean = UNION {Clean(e) : e \in Judged}
           /\ ParseInventory(stock).considered = UNION {Considered(e) : e \in Judged}
           /\ ParseInventory(stock).scanned = UNION {Scanned(e) : e \in Judged}
           /\ ParseInventory(stock).skipped =
                ({"wordpress_not_verified"} \X {e.site : e \in stock \ Judged})
                  \cup ({"plugin_without_checksum"} \X (UNION {e.add.skipped : e \in Judged}))
BY DEF ParseInventory, Judged

LEMMA NoInventoryAbstains ==
    ASSUME Judged = {}
    PROVE  ParseInventory(stock) = FailedReport("failed")
BY DEF ParseInventory, Judged

LEMMA InventoryScope ==
    ASSUME Types, StockSound, NEW e \in Judged
    PROVE  /\ Considered(e) \subseteq WPFile /\ Scanned(e) \subseteq WPFile
           /\ e.site \in Site /\ e.add.skipped \subseteq Plugin
<1>1. PICK s \in Site, unread \in SUBSET WPFile, silent \in SUBSET Plugin :
          /\ e.site = s /\ silent \subseteq PluginsOf(s)
          /\ e = ScanOne(s, saw, unread, silent)
          /\ \A g \in WPFile : SiteOf[g] = s => saw[g] \in Content
    BY JudgedIsTaken DEF Judged
<1>2. Scanned(e) \subseteq WPFile
    BY <1>1, ScannedWasRead
<1>3. e.add.skipped = Unverifiable(s, saw, silent)
    BY <1>1, ScanOneIs
<1>4. PluginsOf(s) \subseteq Plugin
    BY Zenon DEF Plugin
<1>5. Unverifiable(s, saw, silent) \subseteq PluginsOf(s)
    <2>1. Beyond(s) \subseteq PluginsOf(s)
        BY DEF Beyond, PluginsOf
    <2> QED
        BY <1>1, <2>1 DEF Unverifiable
<1>6. Considered(e) \subseteq WPFile
    <2>1. ASSUME NEW t \in {e.core} \cup e.add.plugins
          PROVE  Files(t.local) \cup t.missing \subseteq WPFile
        <3>1. PICK part : t = TakeStock(s, part, saw, unread)
            BY <1>1, <2>1, ScanOneIs
        <3>2. /\ \A l \in t.local : l.file \in Known(s, part)
              /\ \A f \in t.missing : f \in WPFile
            BY <1>1, <3>1, StockTells
        <3> QED
            BY <3>2 DEF Files, Known, In
    <2> QED
        BY <2>1 DEF Considered, Known, In
<1> QED
    BY <1>1, <1>2, <1>3, <1>4, <1>5, <1>6

LEMMA InventoryType ==
    ASSUME Types, StockSound
    PROVE  ParseInventory(stock) \in ReportType
<1>1. CASE Judged = {}
    BY <1>1, NoInventoryAbstains, FailedType DEF Status
<1>2. CASE Judged # {}
    <2> DEFINE p == ParseInventory(stock)
    <2>1. UNION {Findings(e) : e \in Judged} \subseteq Hit
        BY InventoryBlames DEF Judged
    <2>2. UNION {Clean(e) : e \in Judged} \subseteq Hit
        BY InventoryClears DEF Judged
    <2>3. UNION {Considered(e) : e \in Judged} \subseteq WPFile
        BY InventoryScope
    <2>4. UNION {Scanned(e) : e \in Judged} \subseteq WPFile
        BY InventoryScope
    <2>5. {"wordpress_not_verified"} \X {e.site : e \in stock \ Judged} \subseteq Noted
        BY DEF StockSound, Noted
    <2>6. UNION {e.add.skipped : e \in Judged} \subseteq Plugin
        BY InventoryScope
    <2>7. {"plugin_without_checksum"} \X (UNION {e.add.skipped : e \in Judged}) \subseteq Noted
        BY <2>6 DEF Noted
    <2>8. ParseInventory(stock) =
            [status |-> "completed",
             findings |-> UNION {Findings(e) : e \in Judged},
             clean |-> UNION {Clean(e) : e \in Judged},
             considered |-> UNION {Considered(e) : e \in Judged},
             scanned |-> UNION {Scanned(e) : e \in Judged},
             skipped |-> ({"wordpress_not_verified"} \X {e.site : e \in stock \ Judged})
               \cup ({"plugin_without_checksum"} \X (UNION {e.add.skipped : e \in Judged}))]
        BY <1>2, Zenon DEF ParseInventory, Judged
    <2> QED
        BY <2>1, <2>2, <2>3, <2>4, <2>5, <2>7, <2>8, ReportTypeIs DEF Status
<1> QED
    BY <1>1, <1>2

-----------------------------------------------------------------------------
(* The invariant says what the properties ask.                             *)

LEMMA MergedOne ==
    ASSUME NEW p, p.status \in Status, CountsAsVote(MergeReports({p}))
    PROVE  /\ p.status = "completed"
           /\ MergeReports({p}).findings = p.findings
           /\ MergeReports({p}).clean = p.clean
           /\ MergeReports({p}).considered = p.considered
           /\ MergeReports({p}).scanned = p.scanned
           /\ MergeReports({p}).skipped = p.skipped
<1>1. MergeReports({p}) = Sum({p}) /\ p.status = "completed"
    BY MergedVote
<1>2. Sum({p}).findings = p.findings /\ Sum({p}).clean = p.clean
    <2>1. UNION {q.findings : q \in {p}} = p.findings /\ UNION {q.clean : q \in {p}} = p.clean
        OBVIOUS
    <2> QED
        BY <2>1 DEF Sum
<1>3. Sum({p}).considered = p.considered /\ Sum({p}).scanned = p.scanned
    <2>1. UNION {q.considered : q \in {p}} = p.considered /\ UNION {q.scanned : q \in {p}} = p.scanned
        OBVIOUS
    <2> QED
        BY <2>1 DEF Sum
<1>4. Sum({p}).skipped = p.skipped
    <2>1. UNION {q.skipped : q \in {p}} = p.skipped
        OBVIOUS
    <2> QED
        BY <2>1 DEF Sum
<1> QED
    BY <1>1, <1>2, <1>3, <1>4

(* The report of a tool that votes is that of batches that all worked, and *)
(* they are all of the targets.                                            *)
LEMMA VoteOfTool ==
    ASSUME IInv, Answered, engine \in Tool, report = MergeReports(partials)
    PROVE  /\ Past = targets
           /\ \A p \in partials : p.skipped \subseteq report.skipped
           /\ \A p \in partials : Files(p.findings) \subseteq Files(report.findings)
           /\ \A h \in report.findings : \E p \in partials : h \in p.findings
           /\ \A c \in report.clean : \E p \in partials : c \in p.clean
           /\ \A f \in targets \ blind : \E p \in partials : Accounts(p, f)
<1>1. report = MergeReports(partials) /\ todo = {} /\ phase = "done"
    BY DEF IInv, ReportIs, Answered, Types
<1>2. \A p \in partials : p.status \in Status
    BY ReportTypeIs DEF IInv, Types
<1>3. partials # {} /\ report = Sum(partials) /\ \A p \in partials : p.status = "completed"
    BY <1>1, <1>2, MergedVote DEF Answered
<1>4. Past = targets
    BY <1>1 DEF Past, Working
<1>5. \A f \in targets \ blind : \E p \in partials : Accounts(p, f)
    BY <1>3, <1>4 DEF IInv, PartialsSound
<1>6. /\ report.skipped = UNION {p.skipped : p \in partials}
      /\ report.findings = UNION {p.findings : p \in partials}
      /\ report.clean = UNION {p.clean : p \in partials}
    BY <1>3 DEF Sum
<1>7. \A p \in partials : p.findings \subseteq report.findings
    BY <1>6
<1>8. \A p \in partials : Files(p.findings) \subseteq Files(report.findings)
    BY <1>7 DEF Files
<1> QED
    BY <1>4, <1>5, <1>6, <1>8

(* The report of wpchecksums that votes is that of its inventories.        *)
LEMMA VoteOfNative ==
    ASSUME IInv, Answered, engine = "wpchecksums", report = MergeReports(partials)
    PROVE  /\ Judged # {}
           /\ report.findings = UNION {Findings(e) : e \in Judged}
           /\ report.clean = UNION {Clean(e) : e \in Judged}
           /\ report.considered = UNION {Considered(e) : e \in Judged}
           /\ report.scanned = UNION {Scanned(e) : e \in Judged}
           /\ report.skipped =
                ({"wordpress_not_verified"} \X {e.site : e \in stock \ Judged})
                  \cup ({"plugin_without_checksum"} \X (UNION {e.add.skipped : e \in Judged}))
<1>1. report = MergeReports(partials) /\ CountsAsVote(MergeReports(partials))
    BY DEF Answered
<1>2. \A p \in partials : p.status \in Status
    BY ReportTypeIs DEF IInv, Types
<1>3. partials # {} /\ \A p \in partials : p.status = "completed"
    BY <1>1, <1>2, MergedVote
<1>4. PICK p \in partials : partials = {p} /\ (p = ParseInventory(stock) \/ Abstains(p))
    BY <1>3 DEF IInv, NativeSound
<1>5. p = ParseInventory(stock)
    BY <1>3, <1>4 DEF Abstains, CountsAsVote
<1>6. Judged # {}
    BY <1>3, <1>5, NoInventoryAbstains, FailedType DEF Status, CountsAsVote
<1>7. /\ report.findings = p.findings /\ report.clean = p.clean
      /\ report.considered = p.considered /\ report.scanned = p.scanned
      /\ report.skipped = p.skipped
    BY <1>1, <1>2, <1>4, MergedOne
<1> QED
    BY <1>5, <1>6, <1>7, InventoryIs

LEMMA NothingAsked ==
    ASSUME IInv, report # Nothing, report # MergeReports(partials)
    PROVE  /\ targets = {} /\ stock = {} /\ report.findings = {} /\ report.clean = {}
BY DEF IInv, ReportIs, Blank

LEMMA NoVoteNoBlame ==
    ASSUME IInv, report # Nothing, ~Answered
    PROVE  report.findings = {} /\ report.clean = {}
BY NothingAsked, MergedAbstention DEF Answered

LEMMA EveryEngine == IInv => engine \in Tool \/ engine = "wpchecksums"
BY DEF IInv, Types, Engine

LEMMA StockOfNative == ASSUME IInv, engine \in Tool PROVE stock = {}
BY DEF IInv, StockSound, Tool

LEMMA TypesImplied == IInv => TypeOK
<1> SUFFICES ASSUME IInv PROVE TypeOK
    OBVIOUS
<1>1. ASSUME NEW e \in stock PROVE e.site \in Site /\ e.usable \in BOOLEAN
    <2>1. e.site \in Site /\ (e = Unusable(e.site) \/ Taken(e))
        BY DEF IInv, StockSound
    <2>2. ASSUME NEW s, e = Unusable(s) PROVE e.usable \in BOOLEAN
        BY <2>2 DEF Unusable
    <2>3. ASSUME NEW s, NEW unread, NEW silent, e = ScanOne(s, saw, unread, silent)
          PROVE  e.usable \in BOOLEAN
        BY <2>3 DEF ScanOne
    <2> QED
        BY <2>1, <2>2, <2>3 DEF Taken
<1>2. (phase = "parse" /\ engine \in Tool) => out # Nothing
    BY NothingAssumption DEF IInv, Types
<1> QED
    BY <1>1, <1>2 DEF IInv, Types, TypeOK

LEMMA AnswersImplied == IInv => AnswersForItsScope
<1> SUFFICES ASSUME IInv, Answered, NEW f \in Scope \ blind
             PROVE  \/ Counted(f)
                    \/ saw[f] # "unseen" /\ (Wrong(f) => f \in Files(report.findings))
    BY DEF AnswersForItsScope
<1>1. CASE engine \in Tool
    <2>1. f \in targets \ blind /\ report = MergeReports(partials)
        BY <1>1, NothingAsked DEF Scope, Tool, Answered
    <2>2. PICK p \in partials : Accounts(p, f)
        BY <1>1, <2>1, VoteOfTool
    <2>3. p.skipped \subseteq report.skipped /\ Files(p.findings) \subseteq Files(report.findings)
        BY <1>1, <2>1, VoteOfTool
    <2>4. CASE \E r \in p.skipped : r[2] = f
        BY <2>3, <2>4 DEF Counted
    <2>5. CASE saw[f] # "unseen" /\ (saw[f] = "bad" => f \in Files(p.findings))
        BY <1>1, <2>3, <2>5 DEF Wrong, Tool
    <2> QED
        BY <2>2, <2>4, <2>5 DEF Accounts
<1>2. CASE engine = "wpchecksums"
    <2>1. f \in (WPFile \cap Executable) \ blind /\ \E e \in stock : SiteOf[f] = e.site
        BY <1>2 DEF Scope, Inspected
    <2>2. PICK e \in stock : SiteOf[f] = e.site
        BY <2>1
    <2>0. report = MergeReports(partials)
        BY <2>2, NothingAsked DEF Answered
    <2>3. CASE ~Judgeable(e)
        <3>1. <<"wordpress_not_verified", e.site>> \in report.skipped
            BY <1>2, <2>0, <2>3, VoteOfNative DEF Judged
        <3> QED
            BY <2>2, <3>1 DEF Counted
    <2>4. CASE Judgeable(e)
        <3>1. Types /\ StockSound
            BY DEF IInv
        <3>2. e \in Judged
            BY <2>4 DEF Judged
        <3>3. /\ saw[f] # "unseen"
              /\ \/ PartOf[f] \in e.add.skipped
                 \/ saw[f] = "bad" \/ (saw[f] = "gone" /\ f \notin Stray) => f \in Files(Findings(e))
                 \/ f \in Considered(e) /\ \A d \in stock : Judgeable(d) => f \notin Scanned(d)
            BY <2>1, <2>2, <2>4, <3>1, InventoryAnswers
        <3>4. CASE PartOf[f] \in e.add.skipped
            <4>1. <<"plugin_without_checksum", PartOf[f]>> \in report.skipped
                BY <1>2, <2>0, <3>2, <3>4, VoteOfNative
            <4> QED
                BY <4>1 DEF Counted
        <3>5. CASE saw[f] = "bad" \/ (saw[f] = "gone" /\ f \notin Stray) => f \in Files(Findings(e))
            <4>1. Findings(e) \subseteq report.findings
                BY <1>2, <2>0, <3>2, VoteOfNative
            <4>2. Files(Findings(e)) \subseteq Files(report.findings)
                BY <4>1 DEF Files
            <4> QED
                BY <3>3, <3>5, <4>2 DEF Wrong
        <3>6. CASE f \in Considered(e) /\ \A d \in stock : Judgeable(d) => f \notin Scanned(d)
            <4>1. f \in report.considered
                BY <1>2, <2>0, <3>2, <3>6, VoteOfNative
            <4>2. f \notin report.scanned
                BY <1>2, <2>0, <3>6, VoteOfNative DEF Judged
            <4> QED
                BY <4>1, <4>2 DEF Counted
        <3> QED
            BY <3>3, <3>4, <3>5, <3>6
    <2> QED
        BY <2>3, <2>4
<1> QED
    BY <1>1, <1>2, EveryEngine

LEMMA BlamesImplied == IInv => BlamesOnlyWhatItSaw
<1> SUFFICES ASSUME IInv, report # Nothing, NEW h \in report.findings
             PROVE  Answered /\ Wrong(h.file) /\ (engine \in Tool => h.file \in targets)
    BY DEF BlamesOnlyWhatItSaw
<1>1. Answered /\ report = MergeReports(partials)
    BY NoVoteNoBlame, NothingAsked
<1>2. CASE engine \in Tool
    <2>1. PICK p \in partials : h \in p.findings
        BY <1>1, <1>2, VoteOfTool
    <2>2. Past = targets
        BY <1>1, <1>2, VoteOfTool
    <2> QED
        BY <1>1, <1>2, <2>1, <2>2 DEF IInv, PartialsSound, Wrong
<1>3. CASE engine = "wpchecksums"
    <2>1. PICK e \in Judged : h \in Findings(e)
        BY <1>1, <1>3, VoteOfNative
    <2>2. saw[h.file] = "bad" \/ (saw[h.file] = "gone" /\ h.file \notin Stray)
        BY <2>1, InventoryBlames DEF IInv, Judged
    <2> QED
        BY <1>1, <1>3, <2>2 DEF Wrong, Tool
<1> QED
    BY <1>2, <1>3, EveryEngine

LEMMA LegitimacyImplied == IInv => LegitimacyIsEarned
<1> SUFFICES ASSUME IInv, report # Nothing, NEW c \in report.clean
             PROVE  Answered /\ c.hash = "genuine" /\ saw[c.file] = "genuine"
    BY DEF LegitimacyIsEarned
<1>1. Answered /\ report = MergeReports(partials)
    BY NoVoteNoBlame, NothingAsked
<1>2. CASE engine \in Tool
    <2>1. PICK p \in partials : c \in p.clean
        BY <1>1, <1>2, VoteOfTool
    <2> QED
        BY <1>2, <2>1 DEF IInv, PartialsSound
<1>3. CASE engine = "wpchecksums"
    <2>1. PICK e \in Judged : c \in Clean(e)
        BY <1>1, <1>3, VoteOfNative
    <2> QED
        BY <1>1, <2>1, InventoryClears DEF IInv, Judged
<1> QED
    BY <1>2, <1>3, EveryEngine

-----------------------------------------------------------------------------
(* The steps.                                                              *)

LEMMA FaultCounts ==
    ASSUME Types, NEW kind, Fault(kind)
    PROVE  faults' \in 0 .. MaxFaults
BY EngineBounds DEF Types, Fault

LEMMA InitIInv == Init => IInv
<1> SUFFICES ASSUME Init PROVE IInv
    OBVIOUS
<1>1. Types
    <2>1. saw \in [WPFile -> Content \cup {"unseen"}] /\ \A f \in WPFile \cap Stray : saw[f] # "genuine"
        BY DEF Init, Unseen
    <2>2. faults \in 0 .. MaxFaults
        BY EngineBounds DEF Init
    <2> QED
        BY <2>1, <2>2 DEF Init, Types
<1>2. Orderly /\ OutputSound
    BY DEF Init, Orderly, OutputSound, Working
<1>3. PartialsSound /\ StockSound /\ NativeSound /\ ReportIs
    BY DEF Init, PartialsSound, StockSound, NativeSound, ReportIs
<1> QED
    BY <1>1, <1>2, <1>3 DEF IInv

(* What is written to the site, and the end of the cycle's context, touch  *)
(* nothing of the turn.                                                    *)
LEMMA OutsideKeeps ==
    ASSUME IInv, disk' \in Disk, cancelled' \in BOOLEAN,
           UNCHANGED <<phase, engine, targets, todo, batch, saw, out, reportFile, stock, partials,
                       report, blind, faults>>
    PROVE  IInv'
<1> USE DEF IInv
<1>1. Types'
    BY DEF Types
<1>2. Orderly' /\ (Working <=> Working') /\ Past' = Past
    BY DEF Orderly, Working, Past
<1>3. OutputSound'
    BY DEF OutputSound, LooksAt, Doomed
<1>4. PartialsSound'
    BY <1>2 DEF PartialsSound, Accounts
<1>5. StockSound'
    BY DEF StockSound, Taken
<1>6. NativeSound' /\ ReportIs'
    BY DEF NativeSound, ReportIs
<1> QED
    BY <1>1, <1>2, <1>3, <1>4, <1>5, <1>6

(* An engine that is through with a batch for nothing: whatever the reason,*)
(* the failed report stands for the batch.                                 *)
LEMMA EndsKeeps ==
    ASSUME IInv, NEW st \in Status, Ends(st),
           Working \/ (phase = "each" /\ engine \in ScopeAware),
           todo' = todo \/ todo' = {},
           batch' \subseteq WPFile \cup Site,
           reportFile' = Nothing \/ reportFile' \in OutputType,
           faults' \in 0 .. MaxFaults,
           UNCHANGED <<disk, engine, targets, saw, out, stock, report, cancelled, blind>>
    PROVE  IInv'
<1> USE DEF IInv
<1>0. phase' = "each" /\ partials' = partials \cup {FailedReport(st)} /\ report = Nothing
    BY DEF Ends, Types, Working
<1>f. /\ FailedReport(st) \in ReportType /\ ~CountsAsVote(FailedReport(st))
      /\ FailedReport(st).findings = {} /\ FailedReport(st).clean = {}
    BY FailedType
<1>1. Types'
    BY <1>0, <1>f DEF Types
<1>2. Orderly'
    BY <1>0 DEF Orderly, Working
<1>3. OutputSound'
    BY <1>0 DEF OutputSound
<1>4. PartialsSound'
    <2>1. Past \subseteq Past'
        BY <1>0 DEF Past, Working
    <2>2. FailedReport(st).status # "completed"
        BY <1>f DEF CountsAsVote
    <2> QED
        BY <1>0, <1>f, <2>1, <2>2 DEF PartialsSound
<1>5. StockSound'
    BY DEF StockSound, Taken
<1>6. NativeSound'
    <2>1. engine = "wpchecksums" => partials = {}
        BY DEF Orderly, ScopeAware
    <2> QED
        BY <1>0, <1>f, <2>1 DEF NativeSound, Abstains
<1>7. ReportIs'
    BY <1>0 DEF ReportIs
<1> QED
    BY <1>1, <1>2, <1>3, <1>4, <1>5, <1>6, <1>7

(* A tool at work: the batches that are over stay as they are.             *)
LEMMA ToolKeeps ==
    ASSUME IInv, engine \in Tool, Working, Working',
           UNCHANGED <<engine, targets, todo, batch, stock, partials, report>>,
           blind \subseteq blind',
           \A f \in Past : saw'[f] = saw[f]
    PROVE  PartialsSound' /\ StockSound' /\ NativeSound' /\ ReportIs' /\ report' = Nothing
<1> USE DEF IInv
<1>1. report = Nothing
    BY DEF Types, Working
<1>2. Past' = Past
    BY DEF Past
<1>3. PartialsSound'
    <2>2. \A p \in partials : p.clean = {}
        BY DEF PartialsSound
    <2>3. \A p \in partials : \A h \in p.findings : h.file \in Past' /\ saw'[h.file] = "bad"
        BY <1>2 DEF PartialsSound
    <2>4. phase \notin {"probe", "done"} /\ phase' \notin {"probe", "done"}
        BY DEF Working
    <2>5. ASSUME \A p \in partials : p.status = "completed", NEW f \in Past \ blind
          PROVE  \E p \in partials : Accounts(p, f)'
        <3>1. PICK p \in partials : Accounts(p, f)
            BY <2>4, <2>5 DEF PartialsSound
        <3>2. saw'[f] = saw[f]
            BY <2>5
        <3> QED
            BY <3>1, <3>2 DEF Accounts
    <2> QED
        BY <1>2, <2>2, <2>3, <2>4, <2>5 DEF PartialsSound
<1>4. StockSound' /\ NativeSound' /\ ReportIs'
    BY <1>1, StockOfNative DEF StockSound, NativeSound, ReportIs, Tool
<1> QED
    BY <1>1, <1>3, <1>4

LEMMA LookSparesThePast ==
    ASSUME IInv, phase = "tool", Look
    PROVE  /\ \A f \in Past : saw'[f] = saw[f]
           /\ \A f \in LooksAt : saw'[f] = disk[f]
           /\ saw' \in [WPFile -> Content \cup {"unseen"}]
           /\ \A f \in WPFile \cap Stray : saw'[f] # "genuine"
           /\ LooksAt \subseteq Path /\ Hits \subseteq LooksAt
<1> USE DEF IInv
<1>1. engine \in Tool /\ batch \subseteq targets /\ targets \subseteq Path /\ Path \subseteq WPFile
    BY PathAssumption DEF Types, Orderly, Working
<1>2. disk \in [WPFile -> Content] /\ \A f \in Stray : disk[f] # "genuine"
    BY DEF Types, Disk
<1>3. LooksAt \subseteq Path /\ LooksAt \cap Past = {}
    BY <1>1 DEF LooksAt, Past, Orderly, Working
<1>4. Past \subseteq WPFile
    BY <1>1 DEF Past
<1>5. saw' = [f \in WPFile |-> IF f \in LooksAt THEN disk[f] ELSE saw[f]]
    BY DEF Look
<1> QED
    BY <1>1, <1>2, <1>3, <1>4, <1>5 DEF Types, Hits

-----------------------------------------------------------------------------
LEMMA EndsSteps ==
    ASSUME IInv,
           EachIsCancelled \/ NotPrepared \/ Gate \/ DumpIsEmpty \/ Deadline \/ Killed \/ Shielded
    PROVE  IInv'
<1>0. /\ batch \subseteq WPFile \cup Site /\ faults \in 0 .. MaxFaults /\ Types
      /\ reportFile = Nothing \/ reportFile \in OutputType
    BY DEF IInv, Types
<1>1. CASE EachIsCancelled
    BY <1>0, <1>1, EndsKeeps DEF EachIsCancelled, Status, turn
<1>2. CASE NotPrepared
    BY <1>0, <1>2, EndsKeeps, FaultCounts DEF NotPrepared, Status, turn, Working
<1>3. CASE Gate
    BY <1>0, <1>3, EndsKeeps, FaultCounts DEF Gate, Status, turn, Working
<1>4. CASE DumpIsEmpty
    BY <1>0, <1>4, EndsKeeps, FaultCounts DEF DumpIsEmpty, Status, turn, Working
<1>5. CASE Deadline
    BY <1>0, <1>5, EndsKeeps DEF Deadline, Status, turn, Working
<1>6. CASE Killed
    BY <1>0, <1>6, EndsKeeps DEF Killed, Status, turn, Working
<1>7. CASE Shielded
    BY <1>0, <1>7, EndsKeeps, FaultCounts DEF Shielded, Status, turn, Working
<1> QED
    BY <1>1, <1>2, <1>3, <1>4, <1>5, <1>6, <1>7

LEMMA TakeTurnStep ==
    ASSUME IInv, NEW e \in Engine, NEW T \in SUBSET Path, TakeTurn(e, T)
    PROVE  IInv'
<1> USE DEF IInv, TakeTurn
<1>1. Types'
    <2>1. saw' \in [WPFile -> Content \cup {"unseen"}] /\ \A f \in WPFile \cap Stray : saw'[f] # "genuine"
        BY DEF Unseen
    <2>2. faults' \in 0 .. MaxFaults
        BY EngineBounds
    <2> QED
        BY <2>1, <2>2 DEF Types
<1>2. Orderly' /\ OutputSound'
    BY DEF Orderly, OutputSound, Working
<1>3. PartialsSound' /\ StockSound' /\ NativeSound' /\ ReportIs'
    BY DEF PartialsSound, StockSound, NativeSound, ReportIs
<1> QED
    BY <1>1, <1>2, <1>3

(* Between the probe and the first batch, and after the last.              *)
LEMMA ProbeSteps ==
    ASSUME IInv, Unavailable \/ NothingToScan \/ RunBatches
    PROVE  IInv'
<1> USE DEF IInv
<1>0. /\ phase = "probe" /\ phase' \in {"done", "each"} /\ partials = {} /\ stock = {}
      /\ report = Nothing /\ partials' = {} /\ stock' = {} /\ targets' = targets
      /\ phase' = "done" => todo' = {}
      /\ phase' = "each" => todo' = targets
    BY DEF Unavailable, NothingToScan, RunBatches, Types, Orderly, turn
<1>1. Types'
    <2>1. Blank("completed", {}, {}, {}) \in ReportType
        BY DEF Blank, ReportType, Status
    <2>2. faults' \in 0 .. MaxFaults
        BY FaultCounts DEF Unavailable, NothingToScan, RunBatches, Types
    <2> QED
        BY <1>0, <2>1, <2>2 DEF Unavailable, NothingToScan, RunBatches, turn, Types
<1>2. Orderly' /\ OutputSound'
    BY <1>0 DEF Orderly, OutputSound, Working
<1>3. PartialsSound'
    BY <1>0 DEF PartialsSound, Past, Working
<1>4. StockSound' /\ NativeSound'
    BY <1>0 DEF StockSound, NativeSound
<1>5. ReportIs'
    BY <1>0 DEF Unavailable, NothingToScan, RunBatches, ReportIs, turn
<1> QED
    BY <1>1, <1>2, <1>3, <1>4, <1>5

LEMMA BatchStep ==
    ASSUME IInv, NEW b \in SUBSET targets, NextBatch(b)
    PROVE  IInv'
<1> USE DEF IInv, NextBatch, turn
<1>0. /\ phase = "each" /\ phase' = "scan" /\ b \subseteq todo /\ report = Nothing
      /\ engine \notin ScopeAware => b = todo /\ todo = targets /\ partials = {}
    BY DEF Types, Orderly, BatchesOf, kSubset
<1>1. Types'
    BY <1>0, PathAssumption DEF Types
<1>2. Orderly' /\ OutputSound'
    BY <1>0 DEF Orderly, OutputSound, Working, ScopeAware, Tool, Types
<1>3. PartialsSound'
    <2>1. Past' = Past
        BY <1>0 DEF Past, Working, Types
    <2> QED
        BY <1>0, <2>1 DEF PartialsSound, Accounts
<1>4. StockSound'
    BY DEF StockSound, Taken
<1>5. NativeSound' /\ ReportIs'
    BY <1>0 DEF NativeSound, ReportIs
<1> QED
    BY <1>1, <1>2, <1>3, <1>4, <1>5

LEMMA MergeStep ==
    ASSUME IInv, Merge
    PROVE  IInv'
<1> USE DEF IInv, Merge, turn
<1>1. Types'
    BY MergedType DEF Types
<1>2. Orderly' /\ OutputSound'
    BY DEF Orderly, OutputSound, Working
<1>3. PartialsSound'
    <2>1. Past' = Past
        BY DEF Past, Working
    <2> QED
        BY <2>1 DEF PartialsSound, Accounts
<1>4. StockSound'
    BY DEF StockSound, Taken
<1>5. NativeSound' /\ ReportIs'
    BY DEF NativeSound, ReportIs
<1> QED
    BY <1>1, <1>2, <1>3, <1>4, <1>5

LEMMA LaunchStep ==
    ASSUME IInv, Launch
    PROVE  IInv'
<1> USE DEF IInv, Launch, turn
<1>0. PartialsSound' /\ StockSound' /\ NativeSound' /\ ReportIs' /\ report' = Nothing
    BY ToolKeeps DEF Working
<1>1. Types'
    BY <1>0 DEF Types, RemovedReport
<1>2. Orderly' /\ OutputSound'
    BY DEF Orderly, OutputSound, Working, RemovedReport
<1> QED
    BY <1>0, <1>1, <1>2

-----------------------------------------------------------------------------
LEMMA ToolFinishesStep ==
    ASSUME IInv, ToolFinishes
    PROVE  IInv'
<1> USE DEF IInv, ToolFinishes, turn
<1>1. /\ \A f \in Past : saw'[f] = saw[f]
      /\ \A f \in LooksAt : saw'[f] = disk[f]
      /\ saw' \in [WPFile -> Content \cup {"unseen"}]
      /\ \A f \in WPFile \cap Stray : saw'[f] # "genuine"
      /\ LooksAt \subseteq Path /\ Hits \subseteq LooksAt
    BY LookSparesThePast
<1>2. engine \in Tool
    BY DEF Orderly
<1>3. PartialsSound' /\ StockSound' /\ NativeSound' /\ ReportIs' /\ report' = Nothing
    BY <1>1, <1>2, ToolKeeps DEF Working
<1>4. out' = Printed(Hits, LooksAt) /\ out' \in OutputType
    BY <1>1, PrintedType
<1>5. Types'
    BY <1>1, <1>3, <1>4 DEF Types
<1>6. Orderly'
    BY <1>2 DEF Orderly, Working
<1>7. OutputSound'
    <2>1. /\ out'.listed = Hits /\ out'.head = "whole" /\ out'.acted = FALSE
          /\ out'.declared = Cardinality(Hits)
        BY <1>4 DEF Printed
    <2>2. LooksAt' = LooksAt
        BY DEF LooksAt
    <2>3. ASSUME NEW f \in batch'
          PROVE  \/ f \in Odd /\ engine' # "amwscan"
                 \/ saw'[f] # "unseen" /\ (saw'[f] = "bad" => f \in Hits)
        <3>1. f \in Path
            BY <1>2, <2>3 DEF Orderly, Working, Types
        <3>2. CASE f \in LooksAt
            <4>1. disk[f] \in Content
                BY <3>1, PathAssumption DEF Types, Disk
            <4> QED
                BY <1>1, <3>2, <4>1 DEF Hits, Content
        <3>3. CASE f \notin LooksAt
            BY <2>3, <3>1, <3>3 DEF LooksAt
        <3> QED
            BY <3>2, <3>3
    <2>4. \A f \in Hits : f \in LooksAt /\ saw'[f] = "bad"
        BY <1>1 DEF Hits
    <2> QED
        BY <2>1, <2>2, <2>3, <2>4 DEF OutputSound
<1> QED
    BY <1>3, <1>5, <1>6, <1>7

LEMMA ToolStopsStep ==
    ASSUME IInv, NEW wrote \in BOOLEAN, ToolStops(wrote)
    PROVE  IInv'
<1> USE DEF IInv
<1> DEFINE text == CASE engine = "pmf" -> Printed({}, {})
                     [] engine = "amwscan" -> IF wrote THEN Printed({}, {}) ELSE reportFile
                     [] OTHER -> Nothing
<1>1. /\ phase = "tool" /\ engine \in Tool /\ faults' \in 0 .. MaxFaults
      /\ engine = "amwscan" => reportFile = Nothing
    BY FaultCounts DEF ToolStops, Orderly
<1>2. Printed({}, {}) \in OutputType /\ Printed({}, {}) # Nothing
    BY PrintedType, NothingAssumption
<1>3. text = Nothing \/ text = Printed({}, {})
    BY <1>1
<1>4. reportFile' = Nothing \/ reportFile' \in OutputType
    BY <1>2 DEF ToolStops, Types
<1> HIDE DEF text
<1>5. CASE text = Nothing
    <2>1. Ends("failed") /\ UNCHANGED <<out, blind>>
        BY <1>5 DEF ToolStops, text, HasOutput
    <2> QED
        BY <1>1, <1>4, <2>1, EndsKeeps DEF ToolStops, turn, Status, Working, Types
<1>6. CASE text = Printed({}, {})
    <2>1. out' = Printed({}, {}) /\ blind' = blind \cup batch /\ phase' = "parse" /\ partials' = partials
        <3>1. text # Nothing /\ text.listed = {}
            BY <1>2, <1>6 DEF Printed
        <3> QED
            BY <1>6, <3>1 DEF ToolStops, text, HasOutput
    <2>2. UNCHANGED <<turn, disk, todo, batch, saw, stock, report>>
        BY DEF ToolStops
    <2>3. PartialsSound' /\ StockSound' /\ NativeSound' /\ ReportIs' /\ report' = Nothing
        BY <1>1, <2>1, <2>2, ToolKeeps DEF Working, turn
    <2>4. Types'
        <3>1. blind' \subseteq WPFile
            BY <1>1, <2>1, PathAssumption DEF Types, Orderly, Working
        <3> QED
            BY <1>1, <1>2, <1>4, <2>1, <2>2, <2>3, <3>1 DEF Types, turn
    <2>5. Orderly'
        BY <1>1, <2>1, <2>2 DEF Orderly, Working, turn
    <2>6. OutputSound'
        <3>1. out'.listed = {}
            BY <2>1 DEF Printed
        <3> QED
            BY <2>1, <2>2, <3>1 DEF OutputSound
    <2> QED
        BY <2>3, <2>4, <2>5, <2>6
<1> QED
    BY <1>3, <1>5, <1>6

LEMMA ToolIsCutStep ==
    ASSUME IInv, NEW lost \in SUBSET Path, ToolIsCut(lost)
    PROVE  IInv'
<1> USE DEF IInv
<1>0. /\ phase = "tool" /\ engine \in {"pmf", "amwscan"} /\ Fault("cut") /\ lost \subseteq Hits /\ Look
      /\ out' = Printed(Hits \ lost, LooksAt) /\ blind' = blind \cup lost /\ phase' = "parse"
      /\ reportFile' = IF engine = "amwscan" THEN out' ELSE reportFile
      /\ UNCHANGED <<turn, disk, todo, batch, stock, partials, report>>
    BY DEF ToolIsCut
<1>1. /\ \A f \in Past : saw'[f] = saw[f]
      /\ \A f \in LooksAt : saw'[f] = disk[f]
      /\ saw' \in [WPFile -> Content \cup {"unseen"}]
      /\ \A f \in WPFile \cap Stray : saw'[f] # "genuine"
      /\ LooksAt \subseteq Path /\ Hits \subseteq LooksAt
    BY <1>0, LookSparesThePast
<1>2. engine \in Tool
    BY <1>0 DEF Tool
<1>3. PartialsSound' /\ StockSound' /\ NativeSound' /\ ReportIs' /\ report' = Nothing
    BY <1>0, <1>1, <1>2, ToolKeeps DEF Working, turn
<1>4. out' \in OutputType
    BY <1>0, <1>1, PrintedType
<1>5. Types'
    <2>1. blind' \subseteq WPFile /\ faults' \in 0 .. MaxFaults
        BY <1>0, FaultCounts, PathAssumption DEF Types
    <2> QED
        BY <1>0, <1>1, <1>3, <1>4, <2>1 DEF Types, turn
<1>6. Orderly'
    BY <1>0, <1>2 DEF Orderly, Working, turn
<1>7. OutputSound'
    <2>1. out'.listed = Hits \ lost
        BY <1>0 DEF Printed
    <2>2. LooksAt' = LooksAt
        BY <1>0 DEF LooksAt, turn
    <2>3. ASSUME NEW f \in (batch \ blind)'
          PROVE  \/ f \in Odd /\ engine' # "amwscan"
                 \/ saw'[f] # "unseen" /\ (saw'[f] = "bad" => f \in Hits \ lost)
        <3>1. f \in Path /\ f \in batch /\ f \notin lost
            BY <1>0, <1>2, <2>3 DEF Orderly, Working, Types
        <3>2. CASE f \in LooksAt
            <4>1. disk[f] \in Content
                BY <3>1, PathAssumption DEF Types, Disk
            <4> QED
                BY <1>1, <3>1, <3>2, <4>1 DEF Hits, Content
        <3>3. CASE f \notin LooksAt
            BY <1>0, <3>1, <3>3 DEF LooksAt, turn
        <3> QED
            BY <3>2, <3>3
    <2>4. \A f \in Hits : f \in LooksAt /\ saw'[f] = "bad"
        BY <1>1 DEF Hits
    <2> QED
        BY <1>0, <2>1, <2>2, <2>3, <2>4 DEF OutputSound
<1> QED
    BY <1>3, <1>5, <1>6, <1>7

LEMMA DumpStep ==
    ASSUME IInv, Dump
    PROVE  IInv'
<1> USE DEF IInv, Dump, turn
<1>0. engine = "maldet"
    BY DEF Orderly
<1>1. PartialsSound' /\ StockSound' /\ NativeSound' /\ ReportIs' /\ report' = Nothing
    BY <1>0, ToolKeeps DEF Working, Tool
<1>2. Types' /\ Orderly'
    BY <1>0, <1>1 DEF Types, Orderly, Working, Tool
<1>3. OutputSound'
    BY <1>0 DEF OutputSound, LooksAt, Doomed, Tool
<1> QED
    BY <1>1, <1>2, <1>3

LEMMA DumpIsCutStep ==
    ASSUME IInv, NEW lost \in SUBSET Path, NEW head \in {"whole", "half", "none"},
           DumpIsCut(lost, head)
    PROVE  IInv'
<1> USE DEF IInv
<1>0. /\ phase = "dump" /\ phase' = "parse" /\ Fault("cut") /\ lost \subseteq out.listed
      /\ head = "whole" => lost # {}
      /\ head # "whole" => lost = out.listed
      /\ out' = [listed |-> out.listed \ lost, head |-> head, acted |-> FALSE,
                 declared |-> IF head = "whole" THEN out.declared ELSE -1,
                 files |-> IF head = "whole" THEN out.files ELSE {}]
      /\ blind' = IF head = "half" THEN blind \cup batch ELSE blind
      /\ UNCHANGED <<turn, disk, todo, batch, saw, reportFile, stock, partials, report>>
    BY DEF DumpIsCut
<1>1. engine = "maldet" /\ engine \in Tool
    BY <1>0 DEF Orderly, Tool
<1>2. PartialsSound' /\ StockSound' /\ NativeSound' /\ ReportIs' /\ report' = Nothing
    BY <1>0, <1>1, ToolKeeps DEF Working, turn
<1>3. out \in OutputType
    BY <1>0, <1>1 DEF Types
<1>4. out' \in OutputType
    <2>1. -1 \in -1 .. Cardinality(Path)
        BY PathFinite
    <2> QED
        BY <1>0, <1>3, <2>1 DEF OutputType
<1>5. Types'
    <2>1. blind' \subseteq WPFile /\ faults' \in 0 .. MaxFaults
        BY <1>0, <1>1, FaultCounts, PathAssumption DEF Types, Orderly, Working
    <2> QED
        BY <1>0, <1>2, <1>4, <2>1 DEF Types, turn
<1>6. Orderly'
    BY <1>0, <1>1 DEF Orderly, Working, turn
<1>7. OutputSound'
    <2>1. \A f \in out'.listed : f \in LooksAt' /\ saw'[f] = "bad"
        <3>1. out'.listed \subseteq out.listed /\ LooksAt' = LooksAt
            BY <1>0 DEF LooksAt, turn
        <3> QED
            BY <1>0, <1>1, <3>1 DEF OutputSound
    <2>2. CASE head = "whole"
        <3>1. out.listed \in SUBSET Path
            BY <1>3 DEF OutputType
        <3>2. Cardinality(out.listed \ lost) # Cardinality(out.listed)
            BY <1>0, <2>2, <3>1, SmallerIsFewer
        <3>3. out.declared = Cardinality(out.listed) /\ Cardinality(out.listed) >= 0
            BY <1>0, <1>1, <3>1, SmallerIsFewer DEF OutputSound
        <3>4. Doomed'
            BY <1>0, <1>1, <2>2, <3>2, <3>3 DEF Doomed, turn
        <3> QED
            BY <1>0, <2>1, <3>4 DEF OutputSound
    <2>3. CASE head = "none"
        <3>1. Doomed'
            BY <1>0, <1>1, <2>3 DEF Doomed, turn
        <3> QED
            BY <1>0, <2>1, <3>1 DEF OutputSound
    <2>4. CASE head = "half"
        <3>1. (batch \ blind)' = {}
            BY <1>0, <2>4
        <3> QED
            BY <1>0, <2>1, <3>1 DEF OutputSound
    <2> QED
        BY <2>2, <2>3, <2>4
<1> QED
    BY <1>2, <1>5, <1>6, <1>7

LEMMA HostActsStep ==
    ASSUME IInv, NEW f \in Path, HostActs(f)
    PROVE  IInv'
<1> USE DEF IInv
<1>0. /\ phase = "dump" /\ phase' = "parse" /\ Fault("acted") /\ disk' \in Disk
      /\ out' = [out EXCEPT !.acted = TRUE]
      /\ UNCHANGED <<turn, todo, batch, saw, reportFile, stock, partials, report, blind>>
    BY DEF HostActs
<1>1. engine = "maldet" /\ engine \in Tool
    BY <1>0 DEF Orderly, Tool
<1>2. PartialsSound' /\ StockSound' /\ NativeSound' /\ ReportIs' /\ report' = Nothing
    BY <1>0, <1>1, ToolKeeps DEF Working, turn
<1>3. out \in OutputType
    BY <1>0, <1>1 DEF Types
<1>4. out' \in OutputType /\ out'.listed = out.listed /\ out'.acted
    BY <1>0, <1>3 DEF OutputType
<1>5. Types'
    <2>1. faults' \in 0 .. MaxFaults
        BY <1>0, FaultCounts
    <2> QED
        BY <1>0, <1>2, <1>4, <2>1 DEF Types, turn
<1>6. Orderly'
    BY <1>0, <1>1 DEF Orderly, Working, turn
<1>7. OutputSound'
    <2>1. \A g \in out'.listed : g \in LooksAt' /\ saw'[g] = "bad"
        BY <1>0, <1>1, <1>4 DEF OutputSound, LooksAt, turn
    <2>2. Doomed'
        BY <1>0, <1>1, <1>4 DEF Doomed, turn
    <2> QED
        BY <1>0, <2>1, <2>2 DEF OutputSound
<1> QED
    BY <1>2, <1>5, <1>6, <1>7

LEMMA ParseStep ==
    ASSUME IInv, Parse
    PROVE  IInv'
<1> USE DEF IInv
<1> DEFINE parsed == CASE engine = "pmf" -> ParsePmf
                       [] engine = "amwscan" -> ParseAmwscan
                       [] OTHER -> ParseMaldet
<1>p. PICK p : p = parsed
    OBVIOUS
<1>0. /\ phase = "parse" /\ phase' = "each" /\ engine \in Tool /\ partials' = partials \cup {p}
      /\ UNCHANGED <<turn, disk, todo, batch, saw, out, reportFile, stock, report, blind, faults>>
    BY <1>p, Zenon DEF Parse
<1>1. /\ p \in ReportType /\ p.clean = {}
      /\ \A h \in p.findings : h.file \in batch /\ saw[h.file] = "bad"
      /\ p.status = "completed" => \A f \in batch \ blind : Accounts(p, f)
    <2>1. CASE engine = "pmf"
        BY <1>p, <1>0, <2>1, ParsedPmf
    <2>2. CASE engine = "amwscan"
        BY <1>p, <1>0, <2>2, ParsedAmwscan
    <2>3. CASE engine = "maldet"
        BY <1>p, <1>0, <2>3, ParsedMaldet
    <2> QED
        BY <1>0, <2>1, <2>2, <2>3 DEF Tool
<1> HIDE DEF parsed
<1>2. report = Nothing
    BY <1>0 DEF Types
<1>3. Types'
    BY <1>0, <1>1, <1>2 DEF Types, turn
<1>4. Orderly' /\ OutputSound'
    <2>1. engine \notin ScopeAware => todo = {}
        BY <1>0 DEF Orderly, Working
    <2> QED
        BY <1>0, <2>1 DEF Orderly, OutputSound, Working, turn
<1>5. PartialsSound'
    <2>1. Past' = Past \cup batch /\ batch \subseteq targets
        BY <1>0 DEF Past, Working, turn, Orderly
    <2>2. \A q \in partials' : q.clean = {} /\ \A h \in q.findings : h.file \in Past' /\ saw'[h.file] = "bad"
        BY <1>0, <1>1, <2>1 DEF PartialsSound
    <2>3. ASSUME \A q \in partials' : q.status = "completed", NEW f \in (Past \ blind)'
          PROVE  \E q \in partials' : Accounts(q, f)'
        <3>1. CASE f \in batch
            <4>1. Accounts(p, f)
                BY <1>0, <1>1, <2>3, <3>1
            <4>2. Accounts(p, f)'
                BY <1>0, <4>1 DEF Accounts
            <4> QED
                BY <1>0, <4>2
        <3>2. CASE f \in Past \ batch
            <4>1. PICK q \in partials : Accounts(q, f)
                BY <1>0, <2>3, <3>2 DEF PartialsSound
            <4>2. Accounts(q, f)'
                BY <1>0, <4>1 DEF Accounts
            <4> QED
                BY <1>0, <4>2
        <3> QED
            BY <2>1, <2>3, <3>1, <3>2
    <2> QED
        BY <2>2, <2>3 DEF PartialsSound
<1>6. StockSound' /\ NativeSound' /\ ReportIs'
    BY <1>0, <1>2, StockOfNative DEF StockSound, NativeSound, ReportIs, turn, Tool
<1> QED
    BY <1>3, <1>4, <1>5, <1>6

-----------------------------------------------------------------------------
(* The steps of wpchecksums.                                               *)

LEMMA SearchStep ==
    ASSUME IInv, Search
    PROVE  IInv'
<1> USE DEF IInv
<1>0. /\ phase = "scan" /\ engine = "wpchecksums"
      /\ UNCHANGED <<turn, disk, todo, saw, out, reportFile, stock, report, blind>>
      /\ IF batch' = {} THEN Ends("failed") ELSE phase' = "sites" /\ UNCHANGED partials
    BY DEF Search
<1>1. faults' \in 0 .. MaxFaults /\ \E lost : batch' = DetectAll(lost)
    <2>1. PICK lost : /\ IF lost = {} THEN UNCHANGED faults ELSE Fault("unreadable")
                      /\ batch' = DetectAll(lost)
        BY DEF Search
    <2> QED
        BY <2>1, FaultCounts DEF Types
<1>2. batch' \subseteq Site
    BY <1>1 DEF DetectAll, Site
<1>3. CASE batch' = {}
    BY <1>0, <1>1, <1>2, <1>3, EndsKeeps DEF turn, Status, Working, Types
<1>4. CASE batch' # {}
    <2>0. phase' = "sites" /\ partials' = partials /\ report = Nothing
        BY <1>0, <1>4 DEF Types
    <2>1. Types'
        BY <1>0, <1>1, <1>2, <2>0 DEF Types, turn, Tool
    <2>2. Orderly' /\ OutputSound'
        BY <1>0, <2>0 DEF Orderly, OutputSound, Working, Tool, turn, ScopeAware
    <2>3. PartialsSound' /\ StockSound'
        BY <1>0, <2>0 DEF PartialsSound, StockSound, Taken, Tool, turn
    <2>4. NativeSound' /\ ReportIs'
        BY <1>0, <2>0 DEF Orderly, Working, ScopeAware, NativeSound, ReportIs, turn
    <2> QED
        BY <2>1, <2>2, <2>3, <2>4
<1> QED
    BY <1>3, <1>4

(* Another inventory: what the earlier ones say of their own installations *)
(* stands.                                                                 *)
LEMMA StockGrows ==
    ASSUME StockSound, engine = "wpchecksums", engine' = engine,
           NEW s \in Site \ Inspected, NEW e, e.site = s, e = Unusable(s) \/ Taken(e)',
           stock' = stock \cup {e}, blind \subseteq blind',
           \A f \in WPFile : SiteOf[f] # s => saw'[f] = saw[f]
    PROVE  StockSound'
<1>1. ASSUME NEW d \in stock, Taken(d) PROVE Taken(d)'
    <2>1. PICK unread \in SUBSET WPFile, silent \in SUBSET PluginsOf(d.site) :
              /\ d = ScanOne(d.site, saw, unread, silent)
              /\ \A f \in unread : f \in Stray \/ PartOf[f] # "core" => f \in blind
              /\ \A f \in WPFile : SiteOf[f] = d.site => saw[f] \in Content
        BY <1>1, Zenon DEF Taken
    <2>2. d.site # s
        BY DEF Inspected
    <2>3. \A f \in WPFile : SiteOf[f] = d.site => saw[f] = saw'[f]
        BY <2>2
    <2>4. d = ScanOne(d.site, saw', unread, silent)
        BY <2>1, <2>3, ScanIsLocal
    <2>5. \A f \in WPFile : SiteOf[f] = d.site => saw'[f] \in Content
        BY <2>1, <2>3
    <2> QED
        BY <2>1, <2>4, <2>5, Zenon DEF Taken
<1>2. \A d \in stock' : d.site \in Site /\ (d = Unusable(d.site) \/ Taken(d)')
    BY <1>1 DEF StockSound
<1>3. \A c \in stock', d \in stock' : c.site = d.site => c = d
    BY DEF StockSound, Inspected
<1> QED
    BY <1>2, <1>3 DEF StockSound

(* While wpchecksums takes stock there is no report yet.                   *)
LEMMA NativeWorks ==
    ASSUME IInv, phase = "sites"
    PROVE  engine = "wpchecksums" /\ todo = {} /\ partials = {} /\ report = Nothing
BY DEF IInv, Types, Orderly, Working, ScopeAware

LEMMA InspectSiteStep ==
    ASSUME IInv, NEW s \in Site, NEW silent \in SUBSET PluginsOf(s), NEW unread \in SUBSET WPFile,
           InspectSite(s, silent, unread)
    PROVE  IInv'
<1> USE DEF IInv
<1> DEFINE e == ScanOne(s, disk, unread, silent)
<1>0. /\ phase = "sites" /\ s \in Site \ Inspected
      /\ stock' = stock \cup {e}
      /\ saw' = [f \in WPFile |-> IF SiteOf[f] = s THEN disk[f] ELSE saw[f]]
      /\ blind' = blind \cup {f \in unread : f \in Stray \/ PartOf[f] # "core"}
      /\ UNCHANGED <<turn, disk, phase, todo, batch, out, reportFile, partials, report>>
    BY DEF InspectSite
<1>1. engine = "wpchecksums" /\ todo = {} /\ partials = {} /\ report = Nothing
    BY <1>0, NativeWorks
<1>2. disk \in [WPFile -> Content] /\ \A f \in Stray : disk[f] # "genuine"
    BY DEF Types, Disk
<1>3. Types'
    <2>1. saw' \in [WPFile -> Content \cup {"unseen"}]
        BY <1>0, <1>2 DEF Types
    <2>2. \A f \in WPFile \cap Stray : saw'[f] # "genuine"
        BY <1>0, <1>2 DEF Types
    <2>3. faults' \in 0 .. MaxFaults
        BY FaultCounts DEF InspectSite, Types
    <2>4. blind' \subseteq WPFile
        BY <1>0 DEF Types
    <2> QED
        BY <1>0, <1>1, <2>1, <2>2, <2>3, <2>4 DEF Types, turn
<1>4. Orderly' /\ OutputSound'
    BY <1>0, <1>1 DEF Orderly, OutputSound, Working, turn, Tool
<1>5. PartialsSound' /\ NativeSound' /\ ReportIs'
    BY <1>0, <1>1 DEF PartialsSound, NativeSound, ReportIs, turn, Tool
<1>6. StockSound'
    <2>1. e.site = s
        BY ScanOneIs
    <2>2. \A f \in WPFile : SiteOf[f] = s => saw'[f] = disk[f] /\ saw'[f] \in Content
        BY <1>0, <1>2
    <2>3. e = ScanOne(s, saw', unread, silent)
        BY <2>2, ScanIsLocal
    <2>4. \A f \in unread : f \in Stray \/ PartOf[f] # "core" => f \in blind'
        BY <1>0
    <2>5. \A f \in WPFile : SiteOf[f] # s => saw'[f] = saw[f]
        BY <1>0
    <2>6. PICK d : d = e
        OBVIOUS
    <2> HIDE DEF e
    <2>7. d.site = s /\ d = ScanOne(d.site, saw', unread, silent)
        BY <2>1, <2>3, <2>6
    <2>8. Taken(d)'
        BY <2>2, <2>4, <2>7, Zenon DEF Taken
    <2> QED
        BY <1>0, <1>1, <2>5, <2>6, <2>7, <2>8, StockGrows DEF turn
<1> QED
    BY <1>3, <1>4, <1>5, <1>6

LEMMA SiteIsUnusableStep ==
    ASSUME IInv, NEW s \in Site, SiteIsUnusable(s)
    PROVE  IInv'
<1> USE DEF IInv
<1>0. /\ phase = "sites" /\ s \in Site \ Inspected
      /\ stock' = stock \cup {Unusable(s)}
      /\ UNCHANGED <<turn, disk, phase, todo, batch, saw, out, reportFile, partials, report, blind>>
    BY DEF SiteIsUnusable
<1>1. engine = "wpchecksums" /\ todo = {} /\ partials = {} /\ report = Nothing
    BY <1>0, NativeWorks
<1>2. Types'
    <2>1. faults' \in 0 .. MaxFaults
        BY FaultCounts DEF SiteIsUnusable, Types
    <2> QED
        BY <1>0, <1>1, <2>1 DEF Types, turn
<1>3. Orderly' /\ OutputSound'
    BY <1>0, <1>1 DEF Orderly, OutputSound, Working, turn, Tool
<1>4. PartialsSound' /\ NativeSound' /\ ReportIs'
    BY <1>0, <1>1 DEF PartialsSound, NativeSound, ReportIs, turn, Tool
<1>5. StockSound'
    <2>1. Unusable(s).site = s
        BY DEF Unusable
    <2> QED
        BY <1>0, <1>1, <2>1, StockGrows DEF turn
<1> QED
    BY <1>2, <1>3, <1>4, <1>5

LEMMA SearchIsOverStep ==
    ASSUME IInv, SearchIsOver
    PROVE  IInv'
<1> USE DEF IInv
<1>0. /\ phase = "sites"
      /\ IF \A e \in stock : ~e.usable THEN Ends("failed") ELSE phase' = "parse" /\ UNCHANGED partials
      /\ UNCHANGED <<turn, disk, todo, batch, saw, out, reportFile, stock, report, blind, faults>>
    BY DEF SearchIsOver
<1>1. engine = "wpchecksums" /\ todo = {} /\ partials = {} /\ report = Nothing
    BY <1>0, NativeWorks
<1>2. CASE Ends("failed")
    BY <1>0, <1>2, EndsKeeps DEF turn, Status, Working, Types
<1>3. CASE phase' = "parse" /\ partials' = partials
    <2>1. Types'
        BY <1>0, <1>1, <1>3 DEF Types, turn, Tool
    <2>2. Orderly' /\ OutputSound'
        BY <1>0, <1>1, <1>3 DEF Orderly, OutputSound, Working, turn, Tool
    <2>3. PartialsSound' /\ NativeSound' /\ ReportIs'
        BY <1>0, <1>1, <1>3 DEF PartialsSound, NativeSound, ReportIs, turn, Tool
    <2>4. StockSound'
        BY <1>0 DEF StockSound, Taken, turn
    <2> QED
        BY <2>1, <2>2, <2>3, <2>4
<1> QED
    BY <1>0, <1>2, <1>3

LEMMA ParseStockStep ==
    ASSUME IInv, ParseStock
    PROVE  IInv'
<1> USE DEF IInv
<1>p. PICK p : p = ParseInventory(stock)
    OBVIOUS
<1>0. /\ phase = "parse" /\ phase' = "each" /\ engine = "wpchecksums" /\ partials' = partials \cup {p}
      /\ UNCHANGED <<turn, disk, todo, batch, saw, out, reportFile, stock, report, blind, faults>>
    BY <1>p DEF ParseStock
<1>1. partials = {} /\ todo = {} /\ report = Nothing
    BY <1>0 DEF Orderly, Working, ScopeAware, Types
<1>2. p \in ReportType
    BY <1>p, InventoryType
<1>3. Types'
    BY <1>0, <1>1, <1>2 DEF Types, turn
<1>4. Orderly' /\ OutputSound' /\ PartialsSound' /\ ReportIs'
    BY <1>0, <1>1 DEF Orderly, OutputSound, PartialsSound, ReportIs, Working, Tool, turn
<1>5. StockSound'
    BY <1>0 DEF StockSound, Taken, turn
<1>6. NativeSound'
    <2>1. partials' = {p} /\ p = ParseInventory(stock')
        BY <1>p, <1>0, <1>1
    <2> QED
        BY <2>1 DEF NativeSound
<1> QED
    BY <1>3, <1>4, <1>5, <1>6

-----------------------------------------------------------------------------
(* Every step keeps the invariant.                                         *)
LEMMA Inductive == IInv /\ [Next]_vars => IInv'
<1> SUFFICES ASSUME IInv, [Next]_vars PROVE IInv'
    OBVIOUS
<1>1. ASSUME NEW e \in Engine, NEW T \in SUBSET Path, TakeTurn(e, T) PROVE IInv'
    BY <1>1, TakeTurnStep
<1>2. CASE Advance
    <2>1. CASE Unavailable \/ NothingToScan \/ RunBatches
        BY <2>1, ProbeSteps
    <2>2. ASSUME NEW b \in SUBSET targets, NextBatch(b) PROVE IInv'
        BY <2>2, BatchStep
    <2>3. CASE EachIsCancelled \/ Shielded
        BY <2>3, EndsSteps
    <2>4. CASE Merge
        BY <2>4, MergeStep
    <2>5. CASE RunNative
        <3>1. CASE Search \/ SearchIsOver \/ ParseStock
            BY <3>1, SearchStep, SearchIsOverStep, ParseStockStep
        <3>2. ASSUME NEW s \in Site, SiteIsUnusable(s) PROVE IInv'
            BY <3>2, SiteIsUnusableStep
        <3>3. ASSUME NEW s \in Site, NEW silent \in AtMostOne(PluginsOf(s)),
                     InspectSite(s, silent, {})
              PROVE  IInv'
            <4>1. silent \in SUBSET PluginsOf(s) /\ {} \in SUBSET WPFile
                BY DEF AtMostOne
            <4> QED
                BY <3>3, <4>1, InspectSiteStep
        <3>4. ASSUME NEW s \in Site, NEW f \in WPFile, InspectSite(s, {}, {f}) PROVE IInv'
            <4>1. {} \in SUBSET PluginsOf(s) /\ {f} \in SUBSET WPFile
                OBVIOUS
            <4> QED
                BY <3>4, <4>1, InspectSiteStep
        <3> QED
            BY <2>5, <3>1, <3>2, <3>3, <3>4 DEF RunNative
    <2> QED
        BY <1>2, <2>1, <2>2, <2>3, <2>4, <2>5 DEF Advance
<1>3. CASE RunTool
    <2>1. CASE Launch \/ ToolFinishes \/ Dump \/ Parse
        BY <2>1, LaunchStep, ToolFinishesStep, DumpStep, ParseStep
    <2>2. CASE NotPrepared \/ Gate \/ DumpIsEmpty
        BY <2>2, EndsSteps
    <2>3. ASSUME NEW wrote \in BOOLEAN, ToolStops(wrote) PROVE IInv'
        BY <2>3, ToolStopsStep
    <2>4. ASSUME NEW lost \in SUBSET Path, ToolIsCut(lost) PROVE IInv'
        BY <2>4, ToolIsCutStep
    <2>5. ASSUME NEW lost \in SUBSET Path, NEW head \in {"whole", "half", "none"},
                 DumpIsCut(lost, head)
          PROVE  IInv'
        BY <2>5, DumpIsCutStep
    <2>6. ASSUME NEW f \in Path, HostActs(f) PROVE IInv'
        BY <2>6, HostActsStep
    <2> QED
        BY <1>3, <2>1, <2>2, <2>3, <2>4, <2>5, <2>6 DEF RunTool
<1>4. CASE Deadline \/ Killed
    BY <1>4, EndsSteps
<1>5. CASE Outside
    <2>1. CASE Cancel
        BY <2>1, OutsideKeeps DEF Cancel, IInv, Types
    <2>2. ASSUME NEW f \in WPFile, NEW c \in Content, Edit(f, c) PROVE IInv'
        BY <2>2, OutsideKeeps DEF Edit, IInv, Types
    <2> QED
        BY <1>5, <2>1, <2>2 DEF Outside
<1>6. CASE UNCHANGED vars
    BY <1>6, OutsideKeeps DEF vars, IInv, Types
<1> QED
    BY <1>1, <1>2, <1>3, <1>4, <1>5, <1>6 DEF Next

LEMMA Invariance == Spec => []IInv
<1>1. Init => IInv
    BY InitIInv
<1>2. IInv /\ [Next]_vars => IInv'
    BY Inductive
<1> QED
    BY <1>1, <1>2, PTL DEF Spec

(* Types, and what each phase of a turn has: an output where one is read,  *)
(* a report only when the turn is over.  (runEngines, SafeScanAndParse.)   *)
THEOREM EnginesTypeOK == Spec => []TypeOK
BY Invariance, TypesImplied, PTL

(* A vote answers for every file that was asked, in every batch and every  *)
(* installation, whichever of them failed: for any number of files,        *)
(* batches, installations, plugins, failures and edits, and any sequence   *)
(* of turns.  (mergeReports, SafeScanAndParse, the four Parse.)            *)
THEOREM EnginesAnswerForTheirScope == Spec => []AnswersForItsScope
BY Invariance, AnswersImplied, PTL

(* Whatever a finding names was handed to this engine, and seen wrong by   *)
(* it, in this very turn.  (Scan and Parse of amwscan, mergeReports.)      *)
THEOREM EnginesBlameOnlyWhatTheySaw == Spec => []BlamesOnlyWhatItSaw
BY Invariance, BlamesImplied, PTL

(* A file is declared clean only on a read that found the published        *)
(* content.  (inventory, parseOne.)                                        *)
THEOREM EnginesClearOnlyWhatTheyRead == Spec => []LegitimacyIsEarned
BY Invariance, LegitimacyImplied, PTL

-----------------------------------------------------------------------------
(* A turn keeps the contract.                                              *)

Sound ==
    IInv /\ AnswersForItsScope /\ BlamesOnlyWhatItSaw /\ LegitimacyIsEarned

LEMMA SoundAlways == Spec => []Sound
<1>1. IInv => Sound
    BY AnswersImplied, BlamesImplied, LegitimacyImplied DEF Sound
<1> QED
    BY Invariance, <1>1, PTL

LEMMA RulesType ==
    ASSUME Types
    PROVE  Recognised \subseteq WPFile \X Content /\ Scope \subseteq WPFile
<1>1. targets \subseteq WPFile
    BY PathAssumption DEF Types
<1>2. Recognised \subseteq WPFile \X Content
    BY <1>1 DEF Recognised, Content
<1>3. Scope \subseteq WPFile
    BY <1>1 DEF Scope
<1> QED
    BY <1>2, <1>3

(* Steps between two looks are nothing to the cycle.                       *)
LEMMA UnheardOf ==
    ASSUME UNCHANGED <<disk, engine, targets, stock, saw, blind, report>>,
           phase # "done", phase' # "done"
    PROVE  UNCHANGED Contract!contract
<1>1. Recognised' = Recognised
    BY DEF Recognised
<1>2. Scope' = Scope
    BY DEF Scope, Inspected
<1>3. Told' = Told
    BY DEF Told, Counted
<1> QED
    BY <1>1, <1>2, <1>3 DEF Contract!contract, Contract!turn

LEMMA LooksOnly ==
    ASSUME Types, Types', phase # "done", phase' # "done",
           UNCHANGED <<disk, engine, targets, report>>,
           \A f \in WPFile : saw'[f] \in {saw[f], disk[f]},
           blind \subseteq blind', stock \subseteq stock'
    PROVE  Contract!Look
<1>1. Recognised' = Recognised
    BY DEF Recognised
<1>2. Told' = Told
    BY DEF Told, Counted
<1>3. Scope \subseteq Scope'
    <2>1. Inspected \subseteq Inspected'
        BY DEF Inspected
    <2> QED
        BY <2>1 DEF Scope
<1>4. Scope' \subseteq WPFile
    <2>1. targets' \subseteq WPFile
        BY PathAssumption DEF Types
    <2> QED
        BY <2>1 DEF Scope
<1>5. saw' \in [WPFile -> Content \cup {"unseen"}] /\ blind' \subseteq WPFile
    BY DEF Types
<1> QED
    BY <1>1, <1>2, <1>3, <1>4, <1>5 DEF Contract!Look

LEMMA ChangesOnly ==
    ASSUME disk' \in Disk, phase # "done", phase' # "done",
           UNCHANGED <<engine, targets, stock, saw, blind, report>>
    PROVE  Contract!Change
<1>1. Recognised' = Recognised
    BY DEF Recognised
<1>2. Scope' = Scope
    BY DEF Scope, Inspected
<1>3. Told' = Told
    BY DEF Told, Counted
<1>4. disk' \in [WPFile -> Content]
    BY DEF Disk
<1> QED
    BY <1>1, <1>2, <1>3, <1>4 DEF Contract!Change, Contract!turn

LEMMA TakeTurnBegins ==
    ASSUME IInv, NEW e \in Engine, NEW T \in SUBSET Path, TakeTurn(e, T)
    PROVE  Contract!Begin
<1>1. Told' = Contract!Silence
    BY DEF TakeTurn, Told, Contract!Silence
<1>2. targets' \subseteq WPFile
    BY PathAssumption DEF TakeTurn
<1>3. Recognised' \subseteq WPFile \X Content
    BY <1>2 DEF Recognised, Content
<1>4. Scope' \subseteq WPFile
    BY <1>2 DEF Scope
<1> QED
    BY <1>1, <1>3, <1>4 DEF TakeTurn, Unseen, Contract!Begin

(* What the report says is an answer the contract allows.                  *)
TellsRightly ==
    Told = Contract!Silence \/ Contract!Abstention(Told) \/ Contract!Vote(Told)

LEMMA ReportIsAnswer ==
    ASSUME Sound
    PROVE  TellsRightly
<1>1. CASE report = Nothing
    BY <1>1 DEF Told, Contract!Silence, TellsRightly
<1>2. CASE report # Nothing /\ ~CountsAsVote(report)
    <2>1. report.findings = {} /\ report.clean = {}
        BY <1>2, NoVoteNoBlame DEF Sound, Answered
    <2>2. Files({}) = {}
        BY DEF Files
    <2> QED
        BY <1>2, <2>1, <2>2 DEF Told, Contract!Abstention, TellsRightly
<1>3. CASE report # Nothing /\ CountsAsVote(report)
    <2>1. /\ Told.kind = "vote"
          /\ Told.blamed = Files(report.findings)
          /\ Told.cleared = Files(report.clean)
          /\ Told.counted = {f \in WPFile : Counted(f)}
        BY <1>3 DEF Told
    <2>2. report \in ReportType /\ saw \in [WPFile -> Content \cup {"unseen"}]
        BY <1>3 DEF Sound, IInv, Types
    <2>3. ASSUME NEW f \in Told.blamed PROVE f \in WPFile /\ Contract!Alarming(f)
        <3>1. PICK h \in report.findings : h.file = f
            BY <2>1, <2>3 DEF Files
        <3>2. f \in WPFile
            BY <2>2, <3>1 DEF ReportType, Hit
        <3>3. Wrong(f) /\ (engine \in Tool => f \in targets)
            BY <1>3, <3>1 DEF Sound, BlamesOnlyWhatItSaw
        <3>4. engine \in Tool \/ engine = "wpchecksums"
            BY EveryEngine DEF Sound
        <3>5. <<f, saw[f]>> \in Recognised
            BY <3>2, <3>3, <3>4 DEF Recognised, Wrong, Content, Tool
        <3> QED
            BY <3>2, <3>5 DEF Contract!Alarming
    <2>4. ASSUME NEW f \in Told.cleared PROVE f \in WPFile /\ saw[f] = "genuine"
        <3>1. PICK c \in report.clean : c.file = f
            BY <2>1, <2>4 DEF Files
        <3>2. f \in WPFile
            BY <2>2, <3>1 DEF ReportType, Hit
        <3> QED
            BY <1>3, <3>1, <3>2 DEF Sound, LegitimacyIsEarned
    <2>5. ASSUME NEW f \in Scope \ blind
          PROVE  f \in Told.counted
                   \/ (saw[f] # "unseen" /\ (Contract!Alarming(f) => f \in Told.blamed))
        <3>1. f \in WPFile
            BY <2>5, RulesType DEF Sound, IInv
        <3>2. \/ Counted(f)
              \/ saw[f] # "unseen" /\ (Wrong(f) => f \in Files(report.findings))
            BY <1>3, <2>5 DEF Sound, AnswersForItsScope, Answered
        <3>3. Contract!Alarming(f) => Wrong(f)
            BY DEF Contract!Alarming, Recognised, Wrong
        <3> QED
            BY <2>1, <3>1, <3>2, <3>3
    <2> QED
        BY <2>1, <2>3, <2>4, <2>5 DEF Contract!Vote, TellsRightly
<1> QED
    BY <1>1, <1>2, <1>3

LEMMA FinishesOnly ==
    ASSUME TellsRightly', phase # "done", phase' = "done",
           UNCHANGED <<disk, engine, targets, stock, saw, blind>>
    PROVE  Contract!Finish
<1>1. Recognised' = Recognised
    BY DEF Recognised
<1>2. Scope' = Scope
    BY DEF Scope, Inspected
<1>3. CASE (Told = Contract!Silence)'
    BY <1>1, <1>2, <1>3 DEF Contract!Finish, Contract!turn, Contract!Silence
<1>4. CASE Contract!Abstention(Told)'
    BY <1>1, <1>2, <1>4 DEF Contract!Finish, Contract!turn, Contract!Abstention
<1>5. CASE Contract!Vote(Told)'
    BY <1>1, <1>2, <1>5 DEF Contract!Finish, Contract!turn, Contract!Vote, Contract!Alarming
<1> QED
    BY <1>3, <1>4, <1>5 DEF TellsRightly

LEMMA ToolRefines ==
    ASSUME IInv, IInv', RunTool
    PROVE  [Contract!Next]_(Contract!contract)
<1> USE DEF IInv, Contract!Next
<1>1. CASE Launch \/ Dump \/ Parse \/ NotPrepared \/ Gate \/ DumpIsEmpty
    BY <1>1, UnheardOf DEF Launch, Dump, Parse, NotPrepared, Gate, DumpIsEmpty, Ends, turn
<1>2. CASE ToolFinishes
    BY <1>2, LooksOnly DEF ToolFinishes, Look, turn
<1>3. ASSUME NEW wrote \in BOOLEAN, ToolStops(wrote) PROVE Contract!Look
    BY <1>3, LooksOnly DEF ToolStops, Ends, turn
<1>4. ASSUME NEW lost \in SUBSET Path, ToolIsCut(lost) PROVE Contract!Look
    BY <1>4, LooksOnly DEF ToolIsCut, Look, turn
<1>5. ASSUME NEW lost \in SUBSET Path, NEW head \in {"whole", "half", "none"},
             DumpIsCut(lost, head)
      PROVE  Contract!Look
    BY <1>5, LooksOnly DEF DumpIsCut, turn
<1>6. ASSUME NEW f \in Path, HostActs(f) PROVE Contract!Change
    BY <1>6, ChangesOnly DEF HostActs, turn
<1> QED
    BY <1>1, <1>2, <1>3, <1>4, <1>5, <1>6 DEF RunTool

LEMMA NativeRefines ==
    ASSUME IInv, IInv', RunNative
    PROVE  [Contract!Next]_(Contract!contract)
<1> USE DEF IInv, Contract!Next
<1>1. CASE Search \/ SearchIsOver \/ ParseStock
    BY <1>1, UnheardOf DEF Search, SearchIsOver, ParseStock, Ends, turn
<1>2. ASSUME NEW s \in Site, SiteIsUnusable(s) PROVE Contract!Look
    BY <1>2, LooksOnly DEF SiteIsUnusable, turn
<1>3. ASSUME NEW s \in Site, NEW silent, NEW unread, InspectSite(s, silent, unread)
      PROVE  Contract!Look
    <2>1. \A f \in WPFile : saw'[f] \in {saw[f], disk[f]}
        BY <1>3 DEF InspectSite
    <2> QED
        BY <1>3, <2>1, LooksOnly DEF InspectSite, turn
<1> QED
    BY <1>1, <1>2, <1>3 DEF RunNative

(* Every step of a turn is a step of the contract, or none.                *)
LEMMA ContractStep ==
    ASSUME IInv, IInv', TellsRightly', [Next]_vars
    PROVE  [Contract!Next]_(Contract!contract)
<1> USE DEF IInv, Contract!Next
<1>1. ASSUME NEW e \in Engine, NEW T \in SUBSET Path, TakeTurn(e, T) PROVE Contract!Begin
    BY <1>1, TakeTurnBegins
<1>2. CASE Unavailable \/ NothingToScan \/ Merge
    BY <1>2, FinishesOnly DEF Unavailable, NothingToScan, Merge, turn
<1>3. CASE RunBatches \/ EachIsCancelled \/ Shielded
    BY <1>3, UnheardOf DEF RunBatches, EachIsCancelled, Shielded, Ends, turn
<1>4. ASSUME NEW b \in SUBSET targets, NextBatch(b) PROVE UNCHANGED Contract!contract
    BY <1>4, UnheardOf DEF NextBatch, turn
<1>5. CASE Deadline \/ Killed
    BY <1>5, UnheardOf DEF Deadline, Killed, Ends, turn
<1>6. CASE Cancel
    BY <1>6, UnheardOf DEF Cancel
<1>7. ASSUME NEW f \in WPFile, NEW c \in Content, Edit(f, c) PROVE Contract!Change
    BY <1>7, ChangesOnly DEF Edit
<1>8. CASE UNCHANGED vars
    <2>1. Recognised' = Recognised /\ Scope' = Scope /\ Told' = Told
        BY <1>8 DEF vars, Recognised, Scope, Inspected, Told, Counted
    <2> QED
        BY <1>8, <2>1 DEF vars, Contract!contract, Contract!turn
<1> QED
    BY <1>1, <1>2, <1>3, <1>4, <1>5, <1>6, <1>7, <1>8, ToolRefines, NativeRefines
       DEF Next, Advance, Outside

LEMMA ContractBegins ==
    ASSUME Init
    PROVE  Contract!Init
<1>1. Told = Contract!Silence
    BY DEF Init, Told, Contract!Silence
<1>2. Recognised \subseteq WPFile \X Content /\ Scope = {}
    BY DEF Init, Recognised, Scope, Inspected, Content
<1>3. disk \in [WPFile -> Content]
    BY DEF Init, Disk
<1> QED
    BY <1>1, <1>2, <1>3 DEF Init, Unseen, Contract!Init

(* Whatever its batches, processes, dumps, inventories and parsers do, in  *)
(* any order and with any failures, the cycle sees of an engine's turn the *)
(* steps of the contract and nothing else.  (runEngines, runEngineBatches, *)
(* SafeScanAndParse, mergeReports.)                                        *)
THEOREM EnginesKeepTheContract == Spec => ImplementsContract
<1>1. Spec => [](IInv /\ TellsRightly)
    BY Invariance, SoundAlways, ReportIsAnswer, PTL
<1> QED
    BY <1>1, ContractBegins, ContractStep, PTL DEF Spec, ImplementsContract, Contract!Spec

-----------------------------------------------------------------------------
(* A turn goes one way.                                                    *)

(* The phases in which the next thing happens to the same batch.           *)
LEMMA NextForTheBatch ==
    ASSUME todo' = todo,
           \/ phase = "scan" /\ phase' \in {"tool", "sites", "each"}
           \/ phase = "tool" /\ phase' \in {"dump", "parse", "each"}
           \/ phase \in {"dump", "sites"} /\ phase' \in {"parse", "each"}
           \/ phase = "parse" /\ phase' = "each"
           \/ phase = "each" /\ phase' = "done"
    PROVE  Descent
<1>1. phase' \in DOMAIN StepsLeft
    BY DEF StepsLeft
<1>2. StepsLeft[phase'] < StepsLeft[phase]
    <2>1. CASE phase = "scan"
        BY <2>1 DEF StepsLeft
    <2>2. CASE phase = "tool"
        BY <2>2 DEF StepsLeft
    <2>3. CASE phase \in {"dump", "sites"}
        BY <2>3 DEF StepsLeft
    <2>4. CASE phase \in {"parse", "each"}
        BY <2>4 DEF StepsLeft
    <2> QED
        BY <2>1, <2>2, <2>3, <2>4
<1> QED
    BY <1>1, <1>2 DEF Descent

(* A batch has something of the list in it, for the size is not zero.      *)
LEMMA BatchShortensTheList ==
    ASSUME IInv, NEW b \in SUBSET targets, NextBatch(b)
    PROVE  Descent
<1>1. todo # {} /\ todo' = todo \ b /\ phase' = "scan"
    BY DEF NextBatch
<1>2. b \subseteq todo /\ b # {}
    <2>1. CASE engine \in ScopeAware
        <3> DEFINE k == IF Cardinality(todo) < BatchSize THEN Cardinality(todo) ELSE BatchSize
        <3>1. todo \in SUBSET Path
            BY DEF IInv, Types
        <3>2. IsFiniteSet(todo) /\ Cardinality(todo) \in Nat /\ Cardinality(todo) # 0
            BY <1>1, <3>1, SmallerIsFewer, FS_EmptySet
        <3>3. b \in SUBSET todo /\ Cardinality(b) = k
            BY <2>1 DEF NextBatch, BatchesOf, kSubset
        <3>4. k # 0
            BY <3>2, EngineBounds
        <3> HIDE DEF k
        <3> QED
            BY <3>3, <3>4, FS_EmptySet
    <2>2. CASE engine \notin ScopeAware
        BY <1>1, <2>2 DEF NextBatch, BatchesOf
    <2> QED
        BY <2>1, <2>2
<1>3. todo' \subseteq todo /\ todo' # todo
    BY <1>1, <1>2
<1> QED
    BY <1>1, <1>3 DEF Descent, StepsLeft

(* An installation is settled once, whatever became of it.                 *)
LEMMA SettlesOneMore ==
    ASSUME NEW s \in Site, s \in batch \ Inspected,
           NEW e, e.site = s, stock' = stock \cup {e},
           UNCHANGED <<phase, todo, batch, partials>>
    PROVE  Descent
<1>1. Inspected' = Inspected \cup {s}
    BY DEF Inspected
<1> QED
    BY <1>1 DEF Descent

LEMMA ToolDescends ==
    ASSUME RunTool
    PROVE  Descent
<1>1. CASE Launch
    BY <1>1, NextForTheBatch DEF Launch
<1>2. CASE NotPrepared
    BY <1>2, NextForTheBatch DEF NotPrepared, Ends
<1>3. CASE ToolFinishes
    BY <1>3, NextForTheBatch DEF ToolFinishes
<1>4. ASSUME NEW wrote \in BOOLEAN, ToolStops(wrote) PROVE Descent
    <2>1. phase = "tool" /\ todo' = todo /\ phase' \in {"parse", "each"}
        BY <1>4 DEF ToolStops, Ends
    <2> QED
        BY <2>1, NextForTheBatch
<1>5. ASSUME NEW lost \in SUBSET Path, ToolIsCut(lost) PROVE Descent
    BY <1>5, NextForTheBatch DEF ToolIsCut
<1>6. CASE Gate
    BY <1>6, NextForTheBatch DEF Gate, Ends
<1>7. CASE Dump \/ DumpIsEmpty
    BY <1>7, NextForTheBatch DEF Dump, DumpIsEmpty, Ends
<1>8. ASSUME NEW lost \in SUBSET Path, NEW head \in {"whole", "half", "none"},
             DumpIsCut(lost, head)
      PROVE  Descent
    BY <1>8, NextForTheBatch DEF DumpIsCut
<1>9. ASSUME NEW f \in Path, HostActs(f) PROVE Descent
    BY <1>9, NextForTheBatch DEF HostActs
<1>10. CASE Parse
    BY <1>10, NextForTheBatch DEF Parse
<1> QED
    BY <1>1, <1>2, <1>3, <1>4, <1>5, <1>6, <1>7, <1>8, <1>9, <1>10 DEF RunTool

LEMMA NativeDescends ==
    ASSUME RunNative
    PROVE  Descent
<1>1. CASE Search
    <2>1. phase = "scan" /\ todo' = todo /\ phase' \in {"sites", "each"}
        BY <1>1 DEF Search, Ends
    <2> QED
        BY <2>1, NextForTheBatch
<1>2. CASE SearchIsOver
    <2>1. phase = "sites" /\ todo' = todo /\ phase' \in {"parse", "each"}
        BY <1>2 DEF SearchIsOver, Ends
    <2> QED
        BY <2>1, NextForTheBatch
<1>3. CASE ParseStock
    BY <1>3, NextForTheBatch DEF ParseStock
<1>4. ASSUME NEW s \in Site, SiteIsUnusable(s) PROVE Descent
    <2>1. Unusable(s).site = s
        BY DEF Unusable
    <2> QED
        BY <1>4, <2>1, SettlesOneMore DEF SiteIsUnusable
<1>5. ASSUME NEW s \in Site, NEW silent, NEW unread, InspectSite(s, silent, unread)
      PROVE  Descent
    <2>1. ScanOne(s, disk, unread, silent).site = s
        BY ScanOneIs
    <2> QED
        BY <1>5, <2>1, SettlesOneMore DEF InspectSite
<1> QED
    BY <1>1, <1>2, <1>3, <1>4, <1>5 DEF RunNative

LEMMA EveryStepDescends ==
    ASSUME IInv, Next, phase # "done"
    PROVE  Descent
<1>1. ASSUME NEW e \in Engine, NEW T \in SUBSET Path, TakeTurn(e, T) PROVE FALSE
    BY <1>1 DEF TakeTurn
<1>2. CASE Unavailable \/ NothingToScan \/ RunBatches
    BY <1>2 DEF Unavailable, NothingToScan, RunBatches, Descent
<1>3. ASSUME NEW b \in SUBSET targets, NextBatch(b) PROVE Descent
    BY <1>3, BatchShortensTheList
<1>4. CASE EachIsCancelled
    <2>1. todo # {} /\ todo' = {} /\ phase' = "each"
        BY <1>4 DEF EachIsCancelled, Ends
    <2> QED
        BY <2>1 DEF Descent, StepsLeft
<1>5. CASE Shielded
    BY <1>5, NextForTheBatch DEF Shielded, Ends
<1>6. CASE Merge
    BY <1>6, NextForTheBatch DEF Merge
<1>7. CASE Deadline \/ Killed
    BY <1>7, NextForTheBatch DEF Deadline, Killed, Ends
<1>8. CASE Cancel
    BY <1>8 DEF Cancel, Descent
<1>9. ASSUME NEW f \in WPFile, NEW c \in Content, Edit(f, c) PROVE Descent
    <2>1. disk' # disk
        BY <1>9 DEF Edit, IInv, Types, Disk
    <2> QED
        BY <1>9, <2>1 DEF Edit, Descent
<1> QED
    BY <1>1, <1>2, <1>3, <1>4, <1>5, <1>6, <1>7, <1>8, <1>9, ToolDescends, NativeDescends
       DEF Next, Advance, Outside

(* Whatever fails, and however often files change, every step of a turn    *)
(* takes it nearer to its end: what TurnEnds adds is only that some step   *)
(* is taken.  (Batcher.Each, runEngineBatches, Scan of wpchecksums.)       *)
THEOREM EnginesTurnDescends == Spec => TurnDescends
<1>1. ASSUME IInv, [Next]_vars
      PROVE  [phase # "done" => Descent]_vars
    BY <1>1, EveryStepDescends
<1>2. IInv /\ [Next]_vars => [phase # "done" => Descent]_vars
    BY <1>1
<1> QED
    BY <1>2, Invariance, PTL DEF Spec, TurnDescends
=============================================================================
