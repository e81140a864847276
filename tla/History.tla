-------------------------------- MODULE History --------------------------------
(***************************************************************************)
(* The history of one file: the rows cycles write about themselves and     *)
(* about the file (store/scans.go, store/verdicts.go), the decisions the   *)
(* user takes in the panel on those rows while cycles run (web/api.go),    *)
(* and the maintenance that cron, the daemon and the panel run outside the *)
(* instance lock (housekeeping): it closes what a killed cycle left open   *)
(* and mails the daily digest (alert/digest.go).  No transaction spans two *)
(* statements, and no handler looks at a row again before it writes it.    *)
(*                                                                         *)
(* Time is in half days: the even ones are the mornings, up to digest_at,  *)
(* the odd ones the rest of the day.                                       *)
(***************************************************************************)
EXTENDS Integers

CONSTANTS
    Cycle,     \* the cycles, numbered in the order they run in
    Keeper,    \* the processes that run the maintenance
    Start,     \* the half day it all begins in
    Budget,    \* bound on the half days, the user's acts and the faults together
    None

ASSUME CycleAssumption == Cycle \subseteq Nat
ASSUME TimeAssumption == Start \in Nat \ {0, 1}
ASSUME BudgetAssumption == Budget \in Nat

VARIABLES
    now,       \* the time
    live,      \* the cycle that holds the instance lock
    step,      \* how far each cycle is
    row,       \* scans.status: none, running, "ended" for any outcome of the
               \* cycle's own, or killed
    created,   \* verdicts.created_at, set when the verdict is formed
    verdict,   \* the rest of the verdict's row, None before it is inserted
    item,      \* what the vault holds under this verdict
    there,     \* whether the file is at its path
    dec,       \* the decision a request of the panel is carrying out
    pc,        \* where each maintenance is
    listed,    \* the interrupted cycles it has listed
    look,      \* when it looked whether the digest is due
    window,    \* the verdicts of the digest it is mailing
    last,      \* settings.last_digest_at
    spent,     \* what has been spent of the budget
    caught,    \* cycles that a maintenance listed while they were alive
    unwritten, \* verdicts whose row could not be written after the vault's move
    told,      \* verdicts a mailed digest reported
    late       \* verdicts inserted when a digest had already looked past them

cycles == <<live, step, row>>
digest == <<look, window, last, told>>
keepers == <<pc, listed, digest>>
vars == <<now, cycles, created, verdict, item, there, dec, keepers, spent, caught,
          unwritten, late>>

(* "judged" and later are for a cycle with a finding to write down; "dead" *)
(* is a cycle that ended without closing its row.                          *)
Step == {"unborn", "scanning", "judged", "acting", "moved", "finishing", "done", "dead"}
RowStatus == {"none", "running", "ended", "killed"}

(* "recommended" stands for every way the cycle leaves the file where it   *)
(* is (rescan_needed, failed), "ignored" for the user's and the whitelist. *)
(* found: the level is above clean.                                        *)
Action == {"none", "recommended", "quarantined", "ignored"}
Verdict == [found : BOOLEAN, action : Action, ref : BOOLEAN, ack : BOOLEAN]

ASSUME NoneAssumption == None \notin Cycle /\ None \notin Verdict

Idle == [at |-> "idle", on |-> None]
Decision == [at : {"idle", "move", "mark", "ignore", "ack"}, on : Cycle \cup {None}]

Day(t) == t \div 2
Closes(t) == 2 * Day(t) + 1

Init ==
    /\ now = Start
    /\ live = None
    /\ step = [c \in Cycle |-> "unborn"]
    /\ row = [c \in Cycle |-> "none"]
    /\ created = [c \in Cycle |-> 0]
    /\ verdict = [c \in Cycle |-> None]
    /\ item = [c \in Cycle |-> "none"]
    /\ there = TRUE
    /\ dec = Idle
    /\ pc = [k \in Keeper |-> "off"]
    /\ listed = [k \in Keeper |-> {}]
    /\ look = [k \in Keeper |-> 0]
    /\ window = [k \in Keeper |-> {}]
    /\ last = 0
    /\ spent = 0
    /\ caught = {}
    /\ unwritten = {}
    /\ told = {}
    /\ late = {}

(* Time passes, the user acts, a process is killed or a write fails. *)
Spends == spent < Budget /\ spent' = spent + 1

End == Start + Budget

Goes(c, s) == step' = [step EXCEPT ![c] = s]

(* UpdateVerdictAction: the action and the vault reference, whatever was   *)
(* there; acknowledged_by_user is another column.                          *)
Write(c, a, r) ==
    verdict' = [verdict EXCEPT ![c] =
                  [found |-> @.found, action |-> a, ref |-> r, ack |-> @.ack]]

-----------------------------------------------------------------------------
(* The cycle, from its row to its row                                      *)

(* StartScan, under the instance lock. *)
Begin(c) ==
    /\ live = None /\ step[c] = "unborn"
    /\ \A d \in Cycle : d < c => step[d] \in {"done", "dead"}
    /\ live' = c
    /\ Goes(c, "scanning")
    /\ row' = [row EXCEPT ![c] = "running"]
    /\ UNCHANGED <<now, created, verdict, item, there, dec, keepers, spent, caught,
                   unwritten, late>>

(* Consolidate: if the file is there and an engine speaks of it, a verdict *)
(* exists from here on, clean or not; its row does not.                    *)
Judge(c) ==
    /\ live = c /\ step[c] = "scanning"
    /\ \/ /\ there
          /\ created' = [created EXCEPT ![c] = now]
          /\ Goes(c, "judged")
       \/ Goes(c, "finishing") /\ UNCHANGED created
    /\ UNCHANGED <<now, live, row, verdict, item, there, dec, keepers, spent, caught,
                   unwritten, late>>

Fresh(f, a) == [found |-> f, action |-> a, ref |-> FALSE, ack |-> FALSE]

(* A digest has looked at the time of this verdict, or is mailing one that *)
(* did.                                                                    *)
Looked(c) ==
    \/ created[c] < last
    \/ \E k \in Keeper : pc[k] \in {"mail", "record"} /\ created[c] < look[k]

(* SaveVerdict: the row is the cycle's own, for its id has the scan's in   *)
(* it.                                                                     *)
Insert(c, v) ==
    /\ verdict' = [verdict EXCEPT ![c] = v]
    /\ late' = IF Looked(c) THEN late \cup {c} ELSE late

(* Variant in which a verdict is kept per file: the row of an earlier      *)
(* cycle is written over.                                                  *)
PersistOver(c) ==
    /\ live = c /\ step[c] = "judged"
    /\ verdict' = [d \in Cycle |-> IF d = c \/ verdict[d] # None THEN Fresh(TRUE, "none") ELSE None]
    /\ Goes(c, "acting")
    /\ UNCHANGED <<now, live, row, created, item, there, dec, keepers, spent, caught,
                   unwritten, late>>

(* persist, when every write succeeds; act follows for a confirmed verdict *)
(* that the whitelist has not set aside, and passes by any other.          *)
Persist(c) ==
    /\ live = c /\ step[c] = "judged"
    /\ \/ Insert(c, Fresh(TRUE, "none")) /\ Goes(c, "acting")
       \/ Goes(c, "finishing")
          /\ \E v \in {Fresh(TRUE, "none"), Fresh(TRUE, "ignored"), Fresh(FALSE, "none")} :
                Insert(c, v)
    /\ UNCHANGED <<now, live, row, created, item, there, dec, keepers, spent, caught,
                   unwritten>>

(* Some write failed, the verdict's or a finding's: nothing is acted on,   *)
(* and the row is closed as partial.                                       *)
PersistFails(c) ==
    /\ live = c /\ step[c] = "judged"
    /\ Spends
    /\ Insert(c, Fresh(TRUE, "none")) \/ UNCHANGED <<verdict, late>>
    /\ Goes(c, "finishing")
    /\ UNCHANGED <<now, live, row, created, item, there, dec, keepers, caught, unwritten>>

(* act, in observation mode, the grace period or a simulation, and the two *)
(* ways the vault refuses: the file has changed, or it cannot be moved.    *)
(* The copy the cycle judged is what counts, not what the row says now.    *)
Refuse(c) ==
    /\ live = c /\ step[c] = "acting"
    /\ Write(c, "recommended", FALSE)
    /\ Goes(c, "finishing")
    /\ UNCHANGED <<now, live, row, created, item, there, dec, keepers, spent, caught,
                   unwritten, late>>

(* quarantineOne: the vault takes the file and records the item. *)
Move(c) ==
    /\ live = c /\ step[c] = "acting"
    /\ there
    /\ there' = FALSE
    /\ item' = [item EXCEPT ![c] = "held"]
    /\ Goes(c, "moved")
    /\ UNCHANGED <<now, live, row, created, verdict, dec, keepers, spent, caught,
                   unwritten, late>>

(* Variant that leaves the reference out of the verdict. *)
MarkUnnamed(c) ==
    /\ live = c /\ step[c] = "moved"
    /\ Write(c, "quarantined", FALSE)
    /\ Goes(c, "finishing")
    /\ UNCHANGED <<now, live, row, created, item, there, dec, keepers, spent, caught,
                   unwritten, late>>

(* quarantineOne: the verdict's row follows. *)
Mark(c) ==
    /\ live = c /\ step[c] = "moved"
    /\ Write(c, "quarantined", TRUE)
    /\ Goes(c, "finishing")
    /\ UNCHANGED <<now, live, row, created, item, there, dec, keepers, spent, caught,
                   unwritten, late>>

(* Its error is ignored. *)
MarkFails(c) ==
    /\ live = c /\ step[c] = "moved"
    /\ Spends
    /\ unwritten' = unwritten \cup {c}
    /\ Goes(c, "finishing")
    /\ UNCHANGED <<now, live, row, created, verdict, item, there, dec, keepers, caught,
                   late>>

(* finish: FinishScan sets the status of this row, whatever it is; then    *)
(* the lock is released.                                                   *)
Finish(c) ==
    /\ live = c /\ step[c] = "finishing"
    /\ live' = None
    /\ Goes(c, "done")
    /\ row' = [row EXCEPT ![c] = "ended"]
    /\ UNCHANGED <<now, created, verdict, item, there, dec, keepers, spent, caught,
                   unwritten, late>>

(* Its error is ignored too: past the cycle's deadline, for one, nothing   *)
(* can be written with the cycle's context.                                *)
FinishFails(c) ==
    /\ live = c /\ step[c] = "finishing"
    /\ Spends
    /\ live' = None
    /\ Goes(c, "dead")
    /\ UNCHANGED <<now, row, created, verdict, item, there, dec, keepers, caught,
                   unwritten, late>>

(* The host kills the process that runs the cycle. *)
KillCycle(c) ==
    /\ live = c
    /\ Spends
    /\ live' = None
    /\ Goes(c, "dead")
    /\ unwritten' = IF step[c] = "moved" THEN unwritten \cup {c} ELSE unwritten
    /\ UNCHANGED <<now, row, created, verdict, item, there, dec, keepers, caught, late>>

-----------------------------------------------------------------------------
(* The user's decisions                                                    *)

(* handleDecide, up to its switch: the verdict exists.  The page's buttons *)
(* are there while its copy of the row is not acknowledged, and a page can *)
(* be old, so any row can be decided on, whatever has become of it.  A     *)
(* whitelisting that cannot be written to the configuration (ErrBusy)      *)
(* touches no row.                                                         *)
Decide(c, w) ==
    /\ dec.at = "idle"
    /\ verdict[c] # None
    /\ Spends
    /\ dec' = [at |-> w, on |-> c]
    /\ UNCHANGED <<now, cycles, created, verdict, item, there, keepers, caught, unwritten,
                   late>>

(* Vault.Quarantine for the request, which ends when the vault refuses.    *)
DecideMove ==
    /\ dec.at = "move"
    /\ \/ /\ there
          /\ there' = FALSE
          /\ item' = [item EXCEPT ![dec.on] = "held"]
          /\ dec' = [at |-> "mark", on |-> dec.on]
       \/ /\ dec' = Idle
          /\ UNCHANGED <<item, there>>
    /\ UNCHANGED <<now, cycles, created, verdict, keepers, spent, caught, unwritten, late>>

(* UpdateVerdictAction, for the file now in the vault or for the one that  *)
(* is to be left alone: then the reference is erased.                      *)
DecideWrite ==
    /\ \/ dec.at = "mark" /\ Write(dec.on, "quarantined", TRUE)
       \/ dec.at = "ignore" /\ Write(dec.on, "ignored", FALSE)
    /\ dec' = [at |-> "ack", on |-> dec.on]
    /\ UNCHANGED <<now, cycles, created, item, there, keepers, spent, caught, unwritten,
                   late>>

(* AcknowledgeVerdict. *)
DecideAck ==
    /\ dec.at = "ack"
    /\ verdict' = [verdict EXCEPT ![dec.on] =
                     [found |-> @.found, action |-> @.action, ref |-> @.ref, ack |-> TRUE]]
    /\ dec' = Idle
    /\ UNCHANGED <<now, cycles, created, item, there, keepers, spent, caught, unwritten,
                   late>>

(* The panel is killed, or a write fails and the error is ignored. *)
DecisionIsCut ==
    /\ dec.at # "idle"
    /\ Spends
    /\ unwritten' = IF dec.at = "move" THEN unwritten ELSE unwritten \cup {dec.on}
    /\ dec' = Idle
    /\ UNCHANGED <<now, cycles, created, verdict, item, there, keepers, caught, late>>

(* handleRestore, handlePurge and the command line: the file goes back, or *)
(* its copy goes for good.  The verdict is not touched.                    *)
Leave(c) ==
    /\ item[c] = "held"
    /\ Spends
    /\ item' = [item EXCEPT ![c] = "none"]
    /\ there' \in {there, TRUE}
    /\ UNCHANGED <<now, cycles, created, verdict, dec, keepers, caught, unwritten,
                   late>>

-----------------------------------------------------------------------------
(* The maintenance                                                         *)

(* Variant without the conditions on status and finished_at. *)
ListAll(k) ==
    /\ pc[k] = "off"
    /\ listed' = [listed EXCEPT ![k] = {c \in Cycle : row[c] # "none"}]
    /\ caught' = caught \cup {c \in Cycle : row[c] = "running" /\ live = c}
    /\ pc' = [pc EXCEPT ![k] = "recover"]
    /\ UNCHANGED <<now, cycles, created, verdict, item, there, dec, digest, spent,
                   unwritten, late>>

(* InterruptedScans: the rows that are running, whoever is running them. *)
List(k) ==
    /\ pc[k] = "off"
    /\ listed' = [listed EXCEPT ![k] = {c \in Cycle : row[c] = "running"}]
    /\ caught' = caught \cup {c \in Cycle : row[c] = "running" /\ live = c}
    /\ pc' = [pc EXCEPT ![k] = "recover"]
    /\ UNCHANGED <<now, cycles, created, verdict, item, there, dec, digest, spent,
                   unwritten, late>>

(* Variant that stops at the first row it cannot close, and for good. *)
RecoverNone(k, c) ==
    /\ pc[k] = "recover" /\ c \in listed[k]
    /\ listed' = [listed EXCEPT ![k] = {}]
    /\ UNCHANGED <<now, cycles, created, verdict, item, there, dec, pc, digest, spent,
                   caught, unwritten, late>>

(* FinishScan with "killed", by the row's id alone. *)
Recover(k, c) ==
    /\ pc[k] = "recover" /\ c \in listed[k]
    /\ row' = [row EXCEPT ![c] = "killed"]
    /\ listed' = [listed EXCEPT ![k] = @ \ {c}]
    /\ UNCHANGED <<now, live, step, created, verdict, item, there, dec, pc, digest,
                   spent, caught, unwritten, late>>

(* A row that cannot be closed does not keep the others from it. *)
RecoverFails(k, c) ==
    /\ pc[k] = "recover" /\ c \in listed[k]
    /\ Spends
    /\ listed' = [listed EXCEPT ![k] = @ \ {c}]
    /\ UNCHANGED <<now, cycles, created, verdict, item, there, dec, pc, digest, caught,
                   unwritten, late>>

(* SendDigestIfDue: after today's closing time, and once. *)
Due == now >= Closes(now) /\ last < Closes(now)

Begins == IF last > Closes(now) - 2 THEN last ELSE Closes(now) - 2

Rows == {c \in Cycle : verdict[c] # None}

(* ListVerdicts with Since and Until, before it keeps a row per file. *)
InWindow == {c \in Rows : created[c] \in Begins .. now}

(* The newest row of the file stands for the others; a clean one leaves    *)
(* nothing to mail.                                                        *)
Relevant == \E c \in InWindow : verdict[c].found /\ \A d \in InWindow : d <= c

(* The decision and the query.                                             *)
Look(k) ==
    /\ pc[k] = "recover" /\ listed[k] = {}
    /\ \/ /\ Due /\ Relevant
          /\ look' = [look EXCEPT ![k] = now]
          /\ window' = [window EXCEPT ![k] = InWindow]
          /\ pc' = [pc EXCEPT ![k] = "mail"]
       \/ /\ ~(Due /\ Relevant)
          /\ pc' = [pc EXCEPT ![k] = "off"]
          /\ UNCHANGED <<look, window>>
    /\ UNCHANGED <<now, cycles, created, verdict, item, there, dec, listed, last, spent,
                   caught, unwritten, told, late>>

(* mailer.Send; a failure leaves the digest due. *)
Mail(k) ==
    /\ pc[k] = "mail"
    /\ \/ /\ told' = told \cup window[k]
          /\ pc' = [pc EXCEPT ![k] = "record"]
          /\ UNCHANGED look
       \/ /\ pc' = [pc EXCEPT ![k] = "off"]
          /\ look' = [look EXCEPT ![k] = 0]
          /\ UNCHANGED told
    /\ window' = [window EXCEPT ![k] = {}]
    /\ UNCHANGED <<now, cycles, created, verdict, item, there, dec, listed, last,
                   spent, caught, unwritten, late>>

(* Variant with the time it is now. *)
RecordNow(k) ==
    /\ pc[k] = "record"
    /\ last' = now
    /\ look' = [look EXCEPT ![k] = 0]
    /\ pc' = [pc EXCEPT ![k] = "off"]
    /\ UNCHANGED <<now, cycles, created, verdict, item, there, dec, listed, window,
                   spent, caught, unwritten, told, late>>

(* SetSetting(last_digest_at), with the time of the look. *)
RecordDigest(k) ==
    /\ pc[k] = "record"
    /\ last' = look[k]
    /\ look' = [look EXCEPT ![k] = 0]
    /\ pc' = [pc EXCEPT ![k] = "off"]
    /\ UNCHANGED <<now, cycles, created, verdict, item, there, dec, listed, window,
                   spent, caught, unwritten, told, late>>

(* The host kills the process, or the setting cannot be written. *)
KillKeeper(k) ==
    /\ pc[k] # "off"
    /\ Spends
    /\ pc' = [pc EXCEPT ![k] = "off"]
    /\ listed' = [listed EXCEPT ![k] = {}]
    /\ look' = [look EXCEPT ![k] = 0]
    /\ window' = [window EXCEPT ![k] = {}]
    /\ UNCHANGED <<now, cycles, created, verdict, item, there, dec, last, caught,
                   unwritten, told, late>>

Tick ==
    /\ Spends
    /\ now' = now + 1
    /\ UNCHANGED <<cycles, created, verdict, item, there, dec, keepers, caught, unwritten,
                   late>>

-----------------------------------------------------------------------------
Run(c) ==
    \/ Begin(c) \/ Judge(c) \/ Persist(c) \/ PersistFails(c) \/ Refuse(c)
    \/ Move(c) \/ Mark(c) \/ MarkFails(c) \/ Finish(c) \/ FinishFails(c) \/ KillCycle(c)

Panel ==
    \/ \E c \in Cycle : Leave(c) \/ \E w \in {"move", "ignore"} : Decide(c, w)
    \/ DecideMove \/ DecideWrite \/ DecideAck \/ DecisionIsCut

Recovers(k) == \E c \in Cycle : Recover(k, c)

Keep(k) ==
    \/ List(k) \/ Recovers(k) \/ Look(k) \/ Mail(k) \/ RecordDigest(k) \/ KillKeeper(k)
    \/ \E c \in Cycle : RecoverFails(k, c)

Next ==
    \/ \E c \in Cycle : Run(c)
    \/ Panel
    \/ \E k \in Keeper : Keep(k)
    \/ Tick

(* Cron and the daemon run the maintenance again and again. *)
Fairness ==
    \A k \in Keeper :
        WF_vars(List(k)) /\ WF_vars(Recovers(k)) /\ WF_vars(Look(k)) /\ WF_vars(Mail(k))
            /\ WF_vars(RecordDigest(k))

Spec == Init /\ [][Next]_vars /\ Fairness

-----------------------------------------------------------------------------
TypeOK ==
    /\ now \in Start .. End
    /\ live \in Cycle \cup {None}
    /\ step \in [Cycle -> Step]
    /\ row \in [Cycle -> RowStatus]
    /\ created \in [Cycle -> {0} \cup Start .. End]
    /\ verdict \in [Cycle -> Verdict \cup {None}]
    /\ item \in [Cycle -> {"none", "held"}]
    /\ there \in BOOLEAN
    /\ dec \in Decision
    /\ pc \in [Keeper -> {"off", "recover", "mail", "record"}]
    /\ listed \in [Keeper -> SUBSET Cycle]
    /\ look \in [Keeper -> {0} \cup Start .. End]
    /\ window \in [Keeper -> SUBSET Cycle]
    /\ last \in {0} \cup Start .. End
    /\ spent \in 0 .. Budget /\ now <= Start + spent
    /\ caught \subseteq Cycle /\ unwritten \subseteq Cycle
    /\ told \subseteq Cycle /\ late \subseteq Cycle
    /\ dec.at # "idle" => dec.on \in Cycle /\ verdict[dec.on] # None
    /\ \A c \in Cycle :
          step[c] \in {"acting", "moved"} => verdict[c] # None

(***************************************************************************)
(* A row that says "killed" is that of a cycle that ended without closing  *)
(* it, or of one that a maintenance listed while it was still running: the *)
(* maintenance runs outside the lock, and its FinishScan has no condition. *)
(***************************************************************************)
KilledRowIsDead ==
    \A c \in Cycle : row[c] = "killed" => step[c] = "dead" \/ c \in caught

(***************************************************************************)
(* An interrupted cycle does not stay "running" in the history ("leaving   *)
(* it that way forever would make the history lie by omission",            *)
(* housekeeping.go:128-131), though a maintenance may be killed or fail in *)
(* the middle of closing rows.                                             *)
(***************************************************************************)
InterruptedIsClosed ==
    \A c \in Cycle :
        step[c] = "dead" /\ row[c] = "running" ~> row[c] = "killed"

(* Somebody has moved the file and not yet brought the verdict up to date. *)
BeingWritten(c) == step[c] = "moved" \/ (dec.on = c /\ dec.at \in {"mark", "ignore", "ack"})

(***************************************************************************)
(* A file in the vault is found through its verdict: unless the user has   *)
(* decided on that verdict, its row says "quarantined" with the reference, *)
(* whatever the cycle and the panel do to it at the same time; but not     *)
(* when the process died, or the database refused, between the vault's     *)
(* record and this one (persist.go:182, api.go:332).                       *)
(***************************************************************************)
HeldIsOnRecord ==
    \A c \in Cycle \ unwritten :
        item[c] = "held" /\ ~BeingWritten(c)
            => verdict[c].ack \/ (verdict[c].action = "quarantined" /\ verdict[c].ref)

(***************************************************************************)
(* What the user decided about a finding stands: it is changed by another  *)
(* decision, or by the finding's own cycle when the decision came while    *)
(* it was acting on it; never by a later cycle that finds the same file    *)
(* (verdicts.go, SaveVerdict: "deleting the previous one would destroy the *)
(* history the user relies on").                                           *)
(***************************************************************************)
DecisionStands ==
    [][ \A c \in Cycle :
          verdict[c] # None /\ verdict[c].ack /\ verdict'[c] # verdict[c]
            => dec.on = c \/ (live = c /\ step[c] \in {"acting", "moved"}) ]_vars

(***************************************************************************)
(* Nothing is skipped by the digests (digest.go:76-83): a verdict older    *)
(* than the last digest was mailed in one, by its own row or a newer one;  *)
(* unless it was older than the one day a digest looks back over, or its   *)
(* row came into the database after a digest had looked at that time.      *)
(***************************************************************************)
FoundIsTold ==
    \A c \in Rows :
        created[c] < last /\ c \notin told => c \in late \/ created[c] < Closes(last) - 2
=============================================================================
