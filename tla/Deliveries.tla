----------------------------- MODULE Deliveries -----------------------------
(***************************************************************************)
(* The alert queue: internal/alert's Dispatcher over the deliveries table  *)
(* of internal/store.  Dispatch records a delivery and makes its first     *)
(* attempt; RetryPending, called by the maintenance of every process that  *)
(* starts a scan, reads the pending rows and attempts each of them.  Cron, *)
(* the daemon and the panel run them with nothing between them but the     *)
(* database: no row is claimed, and no update looks at the status it       *)
(* overwrites.                                                             *)
(*                                                                         *)
(* Reading the rows, sending, and recording the answer are separate        *)
(* actions, and a worker can be killed between them.                       *)
(***************************************************************************)
EXTENDS Naturals, FiniteSets

CONSTANTS
    Row,          \* delivery ids, numbered in the order of created_at
    Email,        \* the rows whose channel is e-mail; the others are webhooks
    Worker,       \* the processes that dispatch and retry
    None,         \* stands for "no row in progress"
    MaxAttempts,  \* webhook.MaxAttempts
    Batch,        \* LIMIT of the pending query
    MaxFaults     \* bound on kills and failing database writes

ASSUME RowAssumption == Row \subseteq Nat /\ Email \subseteq Row /\ None \notin Row
ASSUME BoundAssumption == MaxAttempts \in Nat \ {0} /\ Batch \in Nat /\ MaxFaults \in Nat

VARIABLES
    status,       \* deliveries.status of each row
    attempts,     \* deliveries.attempts
    next,         \* deliveries.next_attempt_at: NULL, to come, or past
    configured,   \* the webhook is still enabled in the configuration
    hand,         \* per worker: the listed rows it has not reached yet
    read,         \* per worker: the attempts of those rows, as listed
    cur,          \* per worker: the row being sent or recorded
    try,          \* per worker: the number of that attempt
    answer,       \* per worker: what came back, "none" before the send
    accepted,     \* history: how often the destination has taken each row
    shared,       \* history: rows that two workers have had at once
    unrecorded,   \* history: rows taken whose answer the database never saw
    faults        \* faults injected so far

table == <<status, attempts, next>>
local == <<hand, read, cur, try, answer>>
history == <<accepted, shared, unrecorded>>
vars == <<table, configured, local, history, faults>>

Settled == {"delivered", "failed"}
(* "lost": the INSERT failed, so the delivery never had a row. *)
Status == {"absent", "lost", "pending"} \cup Settled
Answer == {"none", "ok", "refused", "broken"}

-----------------------------------------------------------------------------
Init ==
    /\ status = [r \in Row |-> "absent"]
    /\ attempts = [r \in Row |-> 0]
    /\ next = [r \in Row |-> "null"]
    /\ configured = TRUE
    /\ hand = [w \in Worker |-> {}]
    /\ read = [w \in Worker |-> [r \in Row |-> 0]]
    /\ cur = [w \in Worker |-> None]
    /\ try = [w \in Worker |-> 0]
    /\ answer = [w \in Worker |-> "none"]
    /\ accepted = [r \in Row |-> 0]
    /\ shared = {}
    /\ unrecorded = {}
    /\ faults = 0

Fault == faults < MaxFaults /\ faults' = faults + 1

(* The worker is neither in an attempt nor in the loop of RetryPending. *)
Idle(w) == cur[w] = None /\ hand[w] = {}

(* Row r is in w's list, or w is attempting it. *)
InHand(w, r) == r \in hand[w] \/ cur[w] = r

(* w begins attempt number n of row r. *)
Start(w, r, n) ==
    /\ cur' = [cur EXCEPT ![w] = r]
    /\ try' = [try EXCEPT ![w] = n]
    /\ UNCHANGED answer

Done(w) ==
    /\ cur' = [cur EXCEPT ![w] = None]
    /\ try' = [try EXCEPT ![w] = 0]
    /\ answer' = [answer EXCEPT ![w] = "none"]

(***************************************************************************)
(* RecordAttempt: one unconditional UPDATE of the row, if there is one.    *)
(* No next attempt and no success means that the chances are used up.      *)
(***************************************************************************)
RecordAttempt(r, ok, again) ==
    IF status[r] \in {"absent", "lost"}
    THEN UNCHANGED table
    ELSE /\ status' = [status EXCEPT ![r] =
                         IF ok THEN "delivered" ELSE IF again THEN "pending" ELSE "failed"]
         /\ attempts' = [attempts EXCEPT ![r] = @ + 1]
         /\ next' = [next EXCEPT ![r] = IF ~ok /\ again THEN "later" ELSE "null"]

(* Variant of Backoff that counts the retries without the first attempt. *)
BackoffShort(r, n) == r \notin Email /\ n >= 1 /\ n + 1 < MaxAttempts

(* webhook.Backoff(n) > 0, after n attempts of a webhook.  An e-mail is    *)
(* attempted once.                                                         *)
Backoff(r, n) == r \notin Email /\ n >= 1 /\ n < MaxAttempts

-----------------------------------------------------------------------------
(* Dispatch, for one channel: the row is written before anything is sent.  *)

Fresh(r) == status[r] = "absent" /\ \A s \in Row : s < r => status[s] # "absent"

Enqueue(w, r) ==
    /\ Idle(w) /\ Fresh(r)
    /\ status' = [status EXCEPT ![r] = "pending"]
    /\ Start(w, r, 1)
    /\ UNCHANGED <<attempts, next, configured, hand, read, history, faults>>

(* The INSERT fails: a webhook is given up, an e-mail is sent all the same. *)
EnqueueFails(w, r) ==
    /\ Idle(w) /\ Fresh(r)
    /\ Fault
    /\ status' = [status EXCEPT ![r] = "lost"]
    /\ IF r \in Email THEN Start(w, r, 1) ELSE UNCHANGED <<cur, try, answer>>
    /\ UNCHANGED <<attempts, next, configured, hand, read, history>>

-----------------------------------------------------------------------------
(* RetryPending.                                                           *)

(* Variant of Ready that resumes whatever has not failed. *)
ReadyUnfailed == {r \in Row : status[r] \in {"pending", "delivered"} /\ next[r] # "later"}

Ready == {r \in Row : status[r] = "pending" /\ next[r] # "later"}

(* Variant of PendingDeliveries that takes the newest rows first. *)
NewestDeliveries == {r \in Ready : Cardinality({s \in Ready : s > r}) < Batch}

(* The oldest rows that are ready, up to the LIMIT, whatever their channel. *)
PendingDeliveries == {r \in Ready : Cardinality({s \in Ready : s < r}) < Batch}

(* The list is read once; e-mail rows in it are passed over. *)
List(w) ==
    /\ Idle(w)
    /\ LET rows == PendingDeliveries \ Email IN
         /\ hand' = [hand EXCEPT ![w] = rows]
         /\ read' = [read EXCEPT ![w] = [r \in Row |-> IF r \in rows THEN attempts[r] ELSE 0]]
         /\ shared' = shared \cup {r \in rows : \E v \in Worker : InHand(v, r)}
    /\ UNCHANGED <<table, configured, cur, try, answer, accepted, unrecorded, faults>>

(* The next row of the list: the oldest one left. *)
Head(w, r) == cur[w] = None /\ r \in hand[w] /\ \A s \in hand[w] : r <= s

(* Variant of Drop that leaves the row in the list. *)
DropNothing(w, r) == UNCHANGED <<hand, read>>

Drop(w, r) ==
    /\ hand' = [hand EXCEPT ![w] = @ \ {r}]
    /\ read' = [read EXCEPT ![w][r] = 0]

Take(w, r) ==
    /\ Head(w, r)
    /\ Drop(w, r)
    /\ Start(w, r, read[w][r] + 1)
    /\ UNCHANGED <<table, configured, history, faults>>

(* The webhook is no longer in the configuration: the row is closed.  A    *)
(* process that loaded the configuration before may still Take it.         *)
Close(w, r) ==
    /\ Head(w, r)
    /\ ~configured
    /\ Drop(w, r)
    /\ RecordAttempt(r, FALSE, FALSE)
    /\ UNCHANGED <<configured, cur, try, answer, history, faults>>

-----------------------------------------------------------------------------
(* One attempt.                                                            *)

Sending(w) == cur[w] # None /\ answer[w] = "none"

Reply(w, a) == answer' = [answer EXCEPT ![w] = a]

(* The history counts to two: "more than once" is all that is asked. *)
Accept(r) == accepted' = [accepted EXCEPT ![r] = IF @ = 0 THEN 1 ELSE 2]

(* Deliver, or the mailer: taken, refused, or taken with the answer lost   *)
(* to the ten-second limit.  A request that cannot even be built needs a   *)
(* webhook the user has edited.                                            *)
Deliver(w) ==
    /\ Sending(w)
    /\ \/ /\ Reply(w, "ok") /\ Accept(cur[w])
          /\ UNCHANGED unrecorded
       \/ /\ Reply(w, "refused")
          /\ UNCHANGED <<accepted, unrecorded>>
       \/ /\ Reply(w, "refused") /\ Accept(cur[w])
          /\ unrecorded' = unrecorded \cup {cur[w]}
       \/ /\ ~configured /\ cur[w] \notin Email
          /\ Reply(w, "broken")
          /\ UNCHANGED <<accepted, unrecorded>>
    /\ UNCHANGED <<table, configured, hand, read, cur, try, shared, faults>>

Answered(w) == cur[w] # None /\ answer[w] # "none"

Record(w) ==
    /\ Answered(w)
    /\ RecordAttempt(cur[w], answer[w] = "ok",
                     answer[w] = "refused" /\ Backoff(cur[w], try[w]))
    /\ Done(w)
    /\ UNCHANGED <<configured, hand, read, history, faults>>

(* An answer that never reaches the database. *)
Forget(w) ==
    unrecorded' = IF answer[w] = "ok" THEN unrecorded \cup {cur[w]} ELSE unrecorded

(* The UPDATE fails, or the cycle's deadline has cancelled its context.    *)
RecordFails(w) ==
    /\ Answered(w)
    /\ Fault
    /\ Forget(w)
    /\ Done(w)
    /\ UNCHANGED <<table, configured, hand, read, accepted, shared>>

-----------------------------------------------------------------------------
(* The host, the clock and the user.                                       *)

Kill(w) ==
    /\ ~Idle(w)
    /\ Fault
    /\ Forget(w)
    /\ Done(w)
    /\ hand' = [hand EXCEPT ![w] = {}]
    /\ read' = [read EXCEPT ![w] = [r \in Row |-> 0]]
    /\ UNCHANGED <<table, configured, accepted, shared>>

(* The backoff of a row runs out. *)
Elapse(r) ==
    /\ next[r] = "later"
    /\ next' = [next EXCEPT ![r] = "past"]
    /\ UNCHANGED <<status, attempts, configured, local, history, faults>>

(* The user disables or removes the webhook, for good. *)
Unconfigure ==
    /\ configured
    /\ configured' = FALSE
    /\ UNCHANGED <<table, local, history, faults>>

-----------------------------------------------------------------------------
(* A list without rows changes nothing. *)
Retry(w) == List(w) /\ hand'[w] # {}

Proceed(w) == Deliver(w) \/ Record(w) \/ \E r \in Row : Take(w, r) \/ Close(w, r)

Next ==
    \/ \E w \in Worker :
         \/ Retry(w) \/ Proceed(w) \/ RecordFails(w) \/ Kill(w)
         \/ \E r \in Row : Enqueue(w, r) \/ EnqueueFails(w, r)
    \/ \E r \in Row : Elapse(r)
    \/ Unconfigure

Spec == Init /\ [][Next]_vars

(***************************************************************************)
(* A process that has begun an attempt or a list goes on with it, the      *)
(* clock advances, and maintenance is run again and again: by cron, or by  *)
(* the daemon's ticker.  Nothing forces an alert, a fault, or a change of  *)
(* the configuration, and nothing forces a destination ever to accept.     *)
(***************************************************************************)
Fairness ==
    /\ \A w \in Worker : WF_vars(Proceed(w)) /\ WF_vars(Retry(w))
    /\ \A r \in Row : WF_vars(Elapse(r))

FairSpec == Spec /\ Fairness

-----------------------------------------------------------------------------
TypeOK ==
    /\ status \in [Row -> Status]
    /\ attempts \in [Row -> Nat]
    /\ next \in [Row -> {"null", "later", "past"}]
    /\ configured \in BOOLEAN
    /\ hand \in [Worker -> SUBSET Row]
    /\ read \in [Worker -> [Row -> Nat]]
    /\ cur \in [Worker -> Row \cup {None}]
    /\ try \in [Worker -> Nat]
    /\ answer \in [Worker -> Answer]
    /\ accepted \in [Row -> Nat]
    /\ shared \subseteq Row
    /\ unrecorded \subseteq Row
    /\ faults \in 0 .. MaxFaults

(***************************************************************************)
(* What the panel's "last delivery" column says is true at both ends: a    *)
(* row reads delivered only if its destination has taken it, and a webhook *)
(* reads failed only after MaxAttempts recorded attempts, unless the user  *)
(* took the webhook away (webhook.go MaxAttempts; RecordAttempt's "the     *)
(* chances are used up").  It has to hold although every worker counts     *)
(* from the number it listed and the counter moves under it.               *)
(***************************************************************************)
SettledIsEarned ==
    \A r \in Row :
      /\ status[r] = "delivered" => accepted[r] >= 1
      /\ status[r] = "failed" /\ r \notin Email =>
           attempts[r] >= MaxAttempts \/ ~configured

(***************************************************************************)
(* Where duplicates come from.  The destination is promised a stable id to *)
(* be idempotent on; this says when it needs it: it takes a row twice only *)
(* if two workers had the row at once, or if the answer to a send it took  *)
(* never reached the database (a kill, a failed write, the time limit).    *)
(***************************************************************************)
DuplicateHasACause ==
    \A r \in Row : accepted[r] > 1 => r \in shared \cup unrecorded

(***************************************************************************)
(* A settled row is reopened, or changes its outcome, only under two       *)
(* workers that had it at once: RecordAttempt itself would overwrite a     *)
(* delivered row with a late failure.                                      *)
(***************************************************************************)
SettledUnlessShared ==
    [][ \A r \in Row :
          status[r] \in Settled /\ status'[r] # status[r] => r \in shared ]_vars

(***************************************************************************)
(* Every webhook delivery that has a row is settled in the end, whatever   *)
(* its destination does, through kills at any point ("the pending delivery *)
(* is resumed in the next cycle instead of being lost", dispatcher.go).    *)
(* E-mail rows are left out because nothing resumes them; they also take   *)
(* up the LIMIT, so this needs fewer abandoned e-mails than Batch.         *)
(***************************************************************************)
WebhookSettles ==
    \A r \in Row \ Email : status[r] = "pending" ~> status[r] \in Settled

=============================================================================
