----------------------------- MODULE WordPress ------------------------------
(***************************************************************************)
(* The native engine (internal/adapter/wpchecksums): it looks for          *)
(* WordPress installations, asks WordPress.org what the files of each      *)
(* should be, takes stock of what they are, and judges the difference.  It *)
(* is the one engine that declares files clean, and a file so declared is  *)
(* never quarantined.                                                      *)
(*                                                                         *)
(* Operators only: module Engines says when each is used and what the disk *)
(* holds by then.  The API lists every known file with the hash of its     *)
(* "genuine" content.  The search walks the directories in one step.       *)
(***************************************************************************)
EXTENDS Reports, Sequences

CONSTANTS
    SiteOrder,      \* the installations below the roots, the shallowest first
    Linked,         \* those that lie behind a symlinked directory
    MaxInstalls,    \* DefaultMaxInstalls
    WPFile,         \* the files that matter to this engine,
    SiteOf,         \* the installation each lies in,
    PartOf,         \* "core" or the plugin it lies in
    Stray,          \* those WordPress.org knows nothing of
    Executable,     \* those with an extension the web server runs
    PluginOrder,    \* the plugins of each installation, sorted by slug
    Published,      \* those with a version WordPress.org has checksums for
    MaxPlugins,     \* maxPlugins
    CorePercent,    \* maxMissingRatio, in percent
    PluginPercent   \* maxMissingRatioPlugin, in percent

Site == {SiteOrder[i] : i \in DOMAIN SiteOrder}
PluginsOf(s) == {PluginOrder[s][i] : i \in DOMAIN PluginOrder[s]}
Plugin == UNION {PluginsOf(s) : s \in Site}

ASSUME SiteAssumption == /\ SiteOrder \in Seq(Site) /\ Linked \subseteq Site
                         /\ \A s \in Site : PluginOrder[s] \in Seq(PluginsOf(s))
                         /\ SiteOf \in [WPFile -> Site]
                         /\ \A f \in WPFile : PartOf[f] \in {"core"} \cup PluginsOf(SiteOf[f])
ASSUME LimitAssumption == {MaxInstalls, MaxPlugins, CorePercent, PluginPercent} \subseteq Nat

In(s, part) == {f \in WPFile : SiteOf[f] = s /\ PartOf[f] = part}
Known(s, part) == In(s, part) \ Stray

(* DetectAll: a symlink is never entered, an installation whose version    *)
(* file cannot be read is not one, and the search stops at MaxInstalls.    *)
DetectAll(unreadable) ==
    LET open == {i \in DOMAIN SiteOrder : SiteOrder[i] \notin Linked \cup unreadable}
    IN {SiteOrder[i] : i \in {j \in open : Cardinality({k \in open : k <= j}) <= MaxInstalls}}

Local(files, disk) == {[file |-> f, hash |-> disk[f]] : f \in {g \in files : disk[g] # "gone"}}
Files(local) == {l.file : l \in local}
Missing(files, disk) == {f \in files : disk[f] = "gone"}

TooManyMissing(missing, known, percent) ==
    Cardinality(missing) * 100 > percent * Cardinality(known)

(* extraFiles, extraPluginFiles: the executable files nobody listed.       *)
ExtraFiles(s, part, disk, unread) == Local((In(s, part) \cap Stray \cap Executable) \ unread, disk)

(* inventory, pluginInventory: the listed files that can be read, and the  *)
(* listed ones that are not there.                                         *)
TakeStock(s, part, disk, unread) ==
    [local |-> Local(Known(s, part) \ unread, disk),
     missing |-> Missing(Known(s, part), disk),
     extra |-> ExtraFiles(s, part, disk, unread)]

(* scanPlugins: the first MaxPlugins are asked about, and each that cannot *)
(* be verified is noted with its reason.                                   *)
Beyond(s) == {PluginOrder[s][i] : i \in {j \in DOMAIN PluginOrder[s] : j > MaxPlugins}}

Unverifiable(s, disk, unanswered) ==
    Beyond(s) \cup unanswered \cup (PluginsOf(s) \ Published)
      \cup {p \in PluginsOf(s) :
              TooManyMissing(Missing(Known(s, p), disk), Known(s, p), PluginPercent)}

ScanPlugins(s, disk, unread, unanswered) ==
    LET skipped == Unverifiable(s, disk, unanswered)
    IN [plugins |-> {TakeStock(s, p, disk, unread) : p \in PluginsOf(s) \ skipped},
        skipped |-> skipped]

(* scanOne, when the API answers about the core and when it does not.      *)
Unusable(s) == [site |-> s, usable |-> FALSE]

ScanOne(s, disk, unread, unanswered) ==
    [site |-> s, usable |-> TRUE,
     core |-> TakeStock(s, "core", disk, unread),
     add |-> ScanPlugins(s, disk, unread, unanswered)]

(* parseOne refuses an installation of which too much is absent.           *)
Judgeable(entry) ==
    /\ entry.usable
    /\ ~TooManyMissing(entry.core.missing, Known(entry.site, "core"), CorePercent)

Altered(stock) == {l \in stock.local : l.hash # "genuine"}

(* A missing file has no hash: the finding is keyed by its path.           *)
Absences(files) == {[file |-> f, hash |-> "path"] : f \in files}

(* parseOne with parsePlugins.  A missing core file is a finding if the    *)
(* web server would run it; of a plugin every missing file is.             *)
Findings(entry) ==
    LET stocks == {entry.core} \cup entry.add.plugins
    IN (UNION {Altered(t) \cup t.extra : t \in stocks})
         \cup Absences(entry.core.missing \cap Executable)
         \cup (UNION {Absences(t.missing) : t \in entry.add.plugins})

(* As it would be if every listed file that is there were as published.    *)
CleanIfPresent(entry) == UNION {t.local : t \in {entry.core} \cup entry.add.plugins}

Clean(entry) == UNION {t.local \ Altered(t) : t \in {entry.core} \cup entry.add.plugins}

Considered(entry) ==
    Known(entry.site, "core") \cup (UNION {Files(t.local) \cup t.missing : t \in entry.add.plugins})

Scanned(entry) ==
    UNION {Files(t.local) \cup Files(t.extra) : t \in {entry.core} \cup entry.add.plugins}

(* Parse: what could not be judged is counted, unless it is everything.    *)
ParseInventory(payload) ==
    LET judged == {e \in payload : Judgeable(e)}
    IN IF judged = {} THEN FailedReport("failed")
       ELSE [status |-> "completed",
             findings |-> UNION {Findings(e) : e \in judged},
             clean |-> UNION {Clean(e) : e \in judged},
             considered |-> UNION {Considered(e) : e \in judged},
             scanned |-> UNION {Scanned(e) : e \in judged},
             skipped |-> ({"wordpress_not_verified"} \X {e.site : e \in payload \ judged})
                           \cup ({"plugin_without_checksum"} \X (UNION {e.add.skipped : e \in judged}))]
=============================================================================
