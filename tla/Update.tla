------------------------------- MODULE Update -------------------------------
(***************************************************************************)
(* Replacing the binary: internal/selfupdate's Install, reached from the   *)
(* panel (web/update.go) and from `sentinelhost update`, the roll-back     *)
(* (cmd/sentinelhost/update.go) and the panel's restart.  Request handlers *)
(* and command-line processes work on the same three names with no lock    *)
(* between them; every rename, removal and execution is an action.         *)
(*                                                                         *)
(* A binary stands for its version.  Verification of the signature and the *)
(* temporary file are one step: what fails there touches none of the names.*)
(***************************************************************************)
EXTENDS Naturals

CONSTANTS
    Version,   \* the releases there are, in their order
    Handler,   \* the panel's concurrent request handlers
    Cli,       \* processes started from the command line
    None,      \* no file, no process, no answer
    Failed,    \* the answer of a release API that could not be asked
    Faults     \* the kinds of failure the environment produces

Worker == Handler \cup Cli
FaultKind == {"kill", "fetch", "probe", "rename"}

ASSUME VersionAssumption == 
    /\ Version \subseteq Nat
    /\ None \notin Version /\ Failed \notin Version \cup {None}
ASSUME WorkersAssumption == Handler \cap Cli = {}
ASSUME FaultsAssumption == Faults \subseteq FaultKind

VARIABLES
    binary,     \* the file at targetPath
    prev,       \* at targetPath.prev
    aside,      \* at targetPath.rollback-tmp
    published,  \* what the release API calls the latest release
    cache,      \* updateCached: nothing, an error, or a release
    panel,      \* the version in the panel's memory, None when it is down
    pc,         \* the next call of each worker
    offer,      \* the release it is to install, then its temporary file
    base,       \* the version a command-line process was started as
    blind,      \* handlers at work that could not ask the binary on disk
    late,       \* workers whose files another one has changed since they began
    cut         \* an operation ended for good between its two renames

names == <<binary, prev, aside>>
vars == <<names, published, cache, panel, pc, offer, base, blind, late, cut>>

Maybe == Version \cup {None}

InstallSteps == {"stage", "drop", "aside", "place", "putback"}
RollbackSteps == {"b_stat", "b_aside", "b_restore", "b_undo", "b_keep"}
Steps == {"idle", "compare", "ask", "confirm", "forget"} \cup InstallSteps \cup RollbackSteps

(* Between the two renames of an installation or of a roll-back. *)
Between == {"place", "putback", "b_restore", "b_undo"}

Init ==
    /\ binary \in Version
    /\ prev \in Maybe
    /\ aside = None
    /\ published \in Version
    /\ cache = None
    /\ panel \in {None, binary}
    /\ pc = [w \in Worker |-> "idle"]
    /\ offer = [w \in Worker |-> None]
    /\ base = [c \in Cli |-> None]
    /\ blind = {}
    /\ late = {}
    /\ cut = FALSE

Goto(w, l) == pc' = [pc EXCEPT ![w] = l]
IsNewer(v, offered) == offered > v

(* The operation of w returns, with or without an error. *)
Done(w) ==
    /\ Goto(w, "idle")
    /\ offer' = [offer EXCEPT ![w] = None]
    /\ base' = IF w \in Cli THEN [base EXCEPT ![w] = None] ELSE base
    /\ blind' = blind \ {w}

Continue(w, l) == Goto(w, l) /\ UNCHANGED <<offer, base, blind>>

-----------------------------------------------------------------------------
(* The panel's handlers                                                    *)

(* What cachedLatest leaves in the cache when it has to ask. *)
Fetched == {published} \cup (IF "fetch" \in Faults THEN {Failed} ELSE {})

(* GET /api/update: fills an empty cache; with ?force=1 any cache. *)
UpdateStatus ==
    /\ panel # None
    /\ cache' \in Fetched
    /\ UNCHANGED <<names, published, panel, pc, offer, base, blind, cut>>

CacheExpires ==
    /\ cache # None
    /\ cache' = None
    /\ UNCHANGED <<names, published, panel, pc, offer, base, blind, cut>>

(* POST /api/update: cachedLatest, under its mutex. *)
Apply(h) ==
    /\ panel # None /\ pc[h] = "idle"
    /\ cache' \in (IF cache # None THEN {cache} ELSE Fetched)
    /\ \/ /\ cache' = Failed
          /\ UNCHANGED <<pc, offer, blind>>
       \/ /\ cache' # Failed
          /\ Goto(h, "compare")
          /\ offer' = [offer EXCEPT ![h] = cache']
          /\ blind' = blind \ {h}
    /\ UNCHANGED <<names, published, panel, base, cut>>

(* Variant that compares with the process instead of the disk. *)
CompareWithRunning(h) ==
    /\ pc[h] = "compare"
    /\ \/ IsNewer(panel, offer[h]) /\ Continue(h, "stage")
       \/ ~IsNewer(panel, offer[h]) /\ Done(h)
    /\ UNCHANGED <<names, published, cache, panel, cut>>

(* The binary is executed; it may not be there, or not answer in time. *)
OnDiskVersion == {binary} \cup (IF "probe" \in Faults THEN {None} ELSE {})

(* When the binary tells nothing the version in memory stands in for it. *)
Compare(h) ==
    /\ pc[h] = "compare"
    /\ \E seen \in OnDiskVersion :
          LET installed == IF seen = None THEN panel ELSE seen IN
          \/ /\ IsNewer(installed, offer[h])
             /\ Goto(h, "stage")
             /\ blind' = IF seen = None THEN blind \cup {h} ELSE blind
             /\ UNCHANGED <<offer, base>>
          \/ /\ ~IsNewer(installed, offer[h])
             /\ Done(h)
    /\ UNCHANGED <<names, published, cache, panel, cut>>

(* After a successful installation the cache is emptied. *)
Forget(h) ==
    /\ pc[h] = "forget"
    /\ cache' = None
    /\ Done(h)
    /\ UNCHANGED <<names, published, panel, cut>>

-----------------------------------------------------------------------------
(* `sentinelhost update` and `update --rollback`                           *)

CliStart(c) ==
    /\ pc[c] = "idle" /\ binary # None
    /\ base' = [base EXCEPT ![c] = binary]
    /\ \E l \in {"ask", "b_stat"} : Goto(c, l)
    /\ UNCHANGED <<names, published, cache, panel, offer, blind, cut>>

(* latestRelease and IsNewer against the version this process was built as; *)
(* it ends here when there is nothing newer, on an error and with --check.  *)
CliAsk(c) ==
    /\ pc[c] = "ask"
    /\ \/ /\ IsNewer(base[c], published)
          /\ offer' = [offer EXCEPT ![c] = published]
          /\ Goto(c, "confirm")
          /\ UNCHANGED <<base, blind>>
       \/ Done(c)
    /\ UNCHANGED <<names, published, cache, panel, cut>>

(* The prompt may wait as long as the user likes. *)
CliConfirm(c) ==
    /\ pc[c] = "confirm"
    /\ Continue(c, "stage") \/ Done(c)
    /\ UNCHANGED <<names, published, cache, panel, cut>>

-----------------------------------------------------------------------------
(* Install                                                                 *)

(* Download, Verify, CreateTemp, Write, Chmod. *)
Stage(w) ==
    /\ pc[w] = "stage"
    /\ Continue(w, "drop") \/ ("fetch" \in Faults /\ Done(w))
    /\ UNCHANGED <<names, published, cache, panel, cut>>

(* os.Remove(previous), its error ignored. *)
DropPrev(w) ==
    /\ pc[w] = "drop"
    /\ prev' \in {None} \cup (IF "rename" \in Faults THEN {prev} ELSE {})
    /\ Continue(w, "aside")
    /\ UNCHANGED <<binary, aside, published, cache, panel, cut>>

(* Variant that deletes the current binary instead of keeping it. *)
SetAsideByDeleting(w) ==
    /\ pc[w] = "aside"
    /\ \/ /\ binary # None
          /\ binary' = None
          /\ Continue(w, "place")
       \/ /\ binary = None \/ "rename" \in Faults
          /\ Done(w)
          /\ UNCHANGED binary
    /\ UNCHANGED <<prev, aside, published, cache, panel, cut>>

(* os.Rename(targetPath, previous). *)
SetAside(w) ==
    /\ pc[w] = "aside"
    /\ \/ /\ binary # None
          /\ prev' = binary
          /\ binary' = None
          /\ Continue(w, "place")
       \/ /\ binary = None \/ "rename" \in Faults
          /\ Done(w)
          /\ UNCHANGED <<binary, prev>>
    /\ UNCHANGED <<aside, published, cache, panel, cut>>

(* Variant that only reports the failure of the second rename. *)
PlaceOrGiveUp(w) ==
    /\ pc[w] = "place"
    /\ \/ /\ binary' = offer[w]
          /\ IF w \in Handler THEN Continue(w, "forget") ELSE Done(w)
       \/ /\ "rename" \in Faults
          /\ Done(w)
          /\ UNCHANGED binary
    /\ UNCHANGED <<prev, aside, published, cache, panel, cut>>

(* os.Rename(tmpName, targetPath). *)
Place(w) ==
    /\ pc[w] = "place"
    /\ \/ /\ binary' = offer[w]
          /\ IF w \in Handler THEN Continue(w, "forget") ELSE Done(w)
       \/ /\ "rename" \in Faults
          /\ Continue(w, "putback")
          /\ UNCHANGED binary
    /\ UNCHANGED <<prev, aside, published, cache, panel, cut>>

(* os.Rename(previous, targetPath), its error ignored. *)
PutBack(w) ==
    /\ pc[w] = "putback"
    /\ \/ /\ prev # None
          /\ binary' = prev
          /\ prev' = None
          /\ UNCHANGED cut
       \/ /\ prev = None \/ "rename" \in Faults
          /\ cut' = TRUE
          /\ UNCHANGED <<binary, prev>>
    /\ Done(w)
    /\ UNCHANGED <<aside, published, cache, panel>>

-----------------------------------------------------------------------------
(* rollBack: a swap through a third name                                   *)

RollStat(c) ==
    /\ pc[c] = "b_stat"
    /\ \/ prev # None /\ Continue(c, "b_aside")
       \/ prev = None /\ Done(c)
    /\ UNCHANGED <<names, published, cache, panel, cut>>

(* os.Rename(self, tmp). *)
RollAside(c) ==
    /\ pc[c] = "b_aside"
    /\ \/ /\ binary # None
          /\ aside' = binary
          /\ binary' = None
          /\ Continue(c, "b_restore")
       \/ /\ binary = None \/ "rename" \in Faults
          /\ Done(c)
          /\ UNCHANGED <<binary, aside>>
    /\ UNCHANGED <<prev, published, cache, panel, cut>>

(* os.Rename(prev, self). *)
RollRestore(c) ==
    /\ pc[c] = "b_restore"
    /\ \/ /\ prev # None
          /\ binary' = prev
          /\ prev' = None
          /\ Continue(c, "b_keep")
       \/ /\ prev = None \/ "rename" \in Faults
          /\ Continue(c, "b_undo")
          /\ UNCHANGED <<binary, prev>>
    /\ UNCHANGED <<aside, published, cache, panel, cut>>

(* os.Rename(tmp, self), its error ignored. *)
RollUndo(c) ==
    /\ pc[c] = "b_undo"
    /\ \/ /\ aside # None
          /\ binary' = aside
          /\ aside' = None
          /\ UNCHANGED cut
       \/ /\ aside = None \/ "rename" \in Faults
          /\ cut' = TRUE
          /\ UNCHANGED <<binary, aside>>
    /\ Done(c)
    /\ UNCHANGED <<prev, published, cache, panel>>

(* Variant that overwrites instead of swapping. *)
RollKeepNothing(c) ==
    /\ pc[c] = "b_keep"
    /\ aside' = None
    /\ Done(c)
    /\ UNCHANGED <<binary, prev, published, cache, panel, cut>>

(* os.Rename(tmp, prev); its failure leaves the binary at tmp. *)
RollKeep(c) ==
    /\ pc[c] = "b_keep"
    /\ \/ /\ aside # None
          /\ prev' = aside
          /\ aside' = None
       \/ /\ aside = None \/ "rename" \in Faults
          /\ UNCHANGED <<prev, aside>>
    /\ Done(c)
    /\ UNCHANGED <<binary, published, cache, panel, cut>>

-----------------------------------------------------------------------------
(* The panel's process, the releases, the host                             *)

(* All handlers of the process end where they are. *)
PanelEnds ==
    /\ panel # None
    /\ panel' = None
    /\ cache' = None
    /\ pc' = [w \in Worker |-> IF w \in Handler THEN "idle" ELSE pc[w]]
    /\ offer' = [w \in Worker |-> IF w \in Handler THEN None ELSE offer[w]]
    /\ blind' = {}
    /\ cut' = (cut \/ \E h \in Handler : pc[h] \in Between)
    /\ UNCHANGED <<names, published, base>>

(* POST /api/restart: Shutdown makes ListenAndServe return at once, and the *)
(* process exits without waiting for the requests in flight.                *)
PanelStops == PanelEnds

(* The next visit makes the bridge start the binary on disk. *)
PanelStarts ==
    /\ panel = None /\ binary # None
    /\ panel' = binary
    /\ UNCHANGED <<names, published, cache, pc, offer, base, blind, cut>>

Kill(c) ==
    /\ "kill" \in Faults
    /\ pc[c] # "idle"
    /\ Done(c)
    /\ cut' = (cut \/ pc[c] \in Between)
    /\ UNCHANGED <<names, published, cache, panel>>

(* A release appears, or the latest one is withdrawn. *)
Publish(v) ==
    /\ published # v
    /\ published' = v
    /\ UNCHANGED <<names, cache, panel, pc, offer, base, blind, cut>>

Install(w) == Stage(w) \/ DropPrev(w) \/ SetAside(w) \/ Place(w) \/ PutBack(w)

RollBack(c) ==
    RollStat(c) \/ RollAside(c) \/ RollRestore(c) \/ RollUndo(c) \/ RollKeep(c)

Step ==
    \/ UpdateStatus \/ CacheExpires \/ PanelStops \/ PanelStarts
    \/ \E h \in Handler : Apply(h) \/ Compare(h) \/ Forget(h)
    \/ \E c \in Cli : CliStart(c) \/ CliAsk(c) \/ CliConfirm(c) \/ RollBack(c) \/ Kill(c)
    \/ \E w \in Worker : Install(w)
    \/ \E v \in Version : Publish(v)

(* For the properties: w's files were changed by another one. *)
Lateness ==
    late' = {w \in Worker :
        /\ pc[w] # "idle" /\ pc'[w] # "idle"
        /\ w \in late \/ (names' # names /\ pc'[w] = pc[w])}

Next == Step /\ Lateness

Spec == Init /\ [][Next]_vars

-----------------------------------------------------------------------------
TypeOK ==
    /\ binary \in Maybe /\ prev \in Maybe /\ aside \in Maybe
    /\ published \in Version
    /\ cache \in Maybe \cup {Failed}
    /\ panel \in Maybe
    /\ pc \in [Worker -> Steps]
    /\ offer \in [Worker -> Maybe]
    /\ base \in [Cli -> Maybe]
    /\ late \subseteq Worker /\ blind \subseteq Handler
    /\ cut \in BOOLEAN

(***************************************************************************)
(* Whatever handlers and processes do to the three names at the same time, *)
(* a path without a binary belongs to an operation that is between its two *)
(* renames and will fill it, or to one that ended right there ("Put it     *)
(* back rather than leaving the account with no scanner at all",           *)
(* selfupdate.go).                                                         *)
(***************************************************************************)
AlwaysInstalled ==
    binary = None => cut \/ \E w \in Worker : pc[w] \in Between

(* Somewhere there is a binary to run or to go back to. *)
SomeBinary == binary # None \/ prev # None \/ aside # None

(***************************************************************************)
(* The last binary of the account is destroyed in one way only: Install    *)
(* removes .prev without looking whether there is a binary in place, which *)
(* there is not when another operation is between its renames or has ended *)
(* there.                                                                  *)
(***************************************************************************)
LastBinaryGoesByDropOnly ==
    [][ SomeBinary /\ ~SomeBinary'
          => \E w \in Worker : pc[w] = "drop" /\ pc'[w] = "aside" /\ binary = None ]_vars

(***************************************************************************)
(* "Refusing to move sideways or backwards is the point" (IsNewer), and    *)
(* "two clicks of Install destroyed the only way back" (handleUpdateApply):*)
(* what an installation puts in place is newer than what it has kept as    *)
(* the way back, unless another operation changed the files in between or  *)
(* the handler could not ask the binary on disk for its version.           *)
(***************************************************************************)
UpgradeWithWayBack ==
    [][ \A w \in Worker :
          pc[w] = "place" /\ pc'[w] \in {"idle", "forget"} /\ binary' # binary
            => \/ prev # None /\ binary' > prev
               \/ w \in late \cup blind ]_vars

(***************************************************************************)
(* "Swap rather than overwrite, so a rollback is itself reversible"        *)
(* (update.go): a roll-back that comes to its end has kept the version it  *)
(* left, unless another operation worked on the files at the same time or  *)
(* the last rename failed.                                                 *)
(***************************************************************************)
RollbackIsReversible ==
    [][ \A c \in Cli :
          pc[c] = "b_keep" /\ pc'[c] = "idle"
            => prev' = base[c] \/ aside' = base[c] \/ c \in late ]_vars

(***************************************************************************)
(* Both directions keep a way back: Install (selfupdate.go:171-243) and    *)
(* the roll-back of the command line (update.go:110 on).                   *)
(***************************************************************************)
WayBackIsKept == UpgradeWithWayBack /\ RollbackIsReversible
=============================================================================
