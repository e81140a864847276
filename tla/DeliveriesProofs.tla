-------------------------- MODULE DeliveriesProofs --------------------------
(***************************************************************************)
(* Proofs about Deliveries, for any rows, workers, number of attempts,     *)
(* LIMIT and number of faults.                                             *)
(***************************************************************************)
EXTENDS Deliveries, TLAPS

USE DEF Settled, Status, Answer

(* Every worker step, for a given worker. *)
WorkerStep(w) ==
    \/ List(w) \/ Deliver(w) \/ Record(w) \/ RecordFails(w) \/ Kill(w)
    \/ \E r \in Row : \/ Take(w, r) \/ Close(w, r)
                      \/ Enqueue(w, r) \/ EnqueueFails(w, r)

LEMMA NextCases ==
    ASSUME Next
    PROVE  (\E w \in Worker : WorkerStep(w)) \/ (\E r \in Row : Elapse(r)) \/ Unconfigure
BY DEF Next, WorkerStep, Proceed, Retry

-----------------------------------------------------------------------------
(* Types.                                                                  *)

(***************************************************************************)
(* RecordAttempt, as a relation between states: either the row does not    *)
(* exist, or it gets one of three statuses and its counter goes up by one. *)
(***************************************************************************)
Recorded(r) ==
    \/ status[r] \in {"absent", "lost"} /\ UNCHANGED table
    \/ /\ status[r] \notin {"absent", "lost"}
       /\ \E s \in {"delivered", "pending", "failed"} : status' = [status EXCEPT ![r] = s]
       /\ attempts' = [attempts EXCEPT ![r] = @ + 1]
       /\ \E n \in {"null", "later"} : next' = [next EXCEPT ![r] = n]

LEMMA RecordTypes ==
    ASSUME TypeOK, NEW r \in Row, Recorded(r)
    PROVE  /\ status' \in [Row -> Status]
           /\ attempts' \in [Row -> Nat]
           /\ next' \in [Row -> {"null", "later", "past"}]
<1>1. CASE status[r] \in {"absent", "lost"} /\ UNCHANGED table
  BY <1>1 DEF TypeOK, table
<1>2. CASE ~(status[r] \in {"absent", "lost"} /\ UNCHANGED table)
  <2>1. status' \in [Row -> Status]
    BY <1>2 DEF TypeOK, Recorded
  <2>2. attempts' \in [Row -> Nat]
    BY <1>2 DEF TypeOK, Recorded
  <2>3. next' \in [Row -> {"null", "later", "past"}]
    BY <1>2 DEF TypeOK, Recorded
  <2> QED
    BY <2>1, <2>2, <2>3
<1> QED
  BY <1>1, <1>2

LEMMA CloseRecords ==
    ASSUME NEW w \in Worker, NEW r \in Row, Close(w, r)
    PROVE  Recorded(r)
BY DEF Close, RecordAttempt, Recorded

(* Record is at some row; what it writes there depends on the answer. *)
LEMMA RecordCases ==
    ASSUME TypeOK, NEW w \in Worker, Record(w)
    PROVE  \E r \in Row :
             /\ cur[w] = r
             /\ Recorded(r)
             /\ status[r] \notin {"absent", "lost"} =>
                  /\ answer[w] = "ok" => status'[r] = "delivered"
                  /\ answer[w] # "ok" => status'[r] \in {"pending", "failed"}
                  /\ answer[w] = "refused" /\ status'[r] = "failed" => ~Backoff(r, try[w])
<1>1. PICK r \in Row : cur[w] = r
  BY DEF Record, Answered, TypeOK
<1>2. RecordAttempt(r, answer[w] = "ok", answer[w] = "refused" /\ Backoff(r, try[w]))
  BY <1>1 DEF Record
<1>3. CASE status[r] \in {"absent", "lost"}
  BY <1>1, <1>2, <1>3 DEF RecordAttempt, Recorded
<1>4. CASE status[r] \notin {"absent", "lost"}
  <2>1. CASE answer[w] = "ok"
    BY <1>1, <1>2, <1>4, <2>1 DEF RecordAttempt, Recorded, TypeOK
  <2>2. CASE answer[w] # "ok" /\ answer[w] = "refused" /\ Backoff(r, try[w])
    BY <1>1, <1>2, <1>4, <2>2 DEF RecordAttempt, Recorded, TypeOK
  <2>3. CASE answer[w] # "ok" /\ ~(answer[w] = "refused" /\ Backoff(r, try[w]))
    BY <1>1, <1>2, <1>4, <2>3 DEF RecordAttempt, Recorded, TypeOK
  <2> QED
    BY <2>1, <2>2, <2>3
<1> QED
  BY <1>3, <1>4

(* A worker with no row in progress has no answer to record. *)
RestIsBlank == \A w \in Worker : cur[w] = None => answer[w] = "none"

Typed == TypeOK /\ RestIsBlank

LEMMA FaultTypes ==
    ASSUME TypeOK, Fault
    PROVE  faults' \in 0 .. MaxFaults
BY BoundAssumption DEF TypeOK, Fault

LEMMA TypeStep ==
    ASSUME Typed, [Next]_vars
    PROVE  TypeOK'
<1> USE RowAssumption, BoundAssumption DEF Typed
<1>1. CASE UNCHANGED vars
  BY <1>1 DEF TypeOK, vars, table, local, history
<1>2. ASSUME NEW w \in Worker, NEW r \in Row, Enqueue(w, r) PROVE TypeOK'
  <2>1. cur' \in [Worker -> Row \cup {None}] /\ try' \in [Worker -> Nat] /\ answer' = answer
    BY <1>2 DEF TypeOK, Enqueue, Start
  <2>2. status' \in [Row -> Status]
    BY <1>2 DEF TypeOK, Enqueue, Status
  <2> QED
    BY <1>2, <2>1, <2>2 DEF TypeOK, Enqueue, history
<1>3. ASSUME NEW w \in Worker, NEW r \in Row, EnqueueFails(w, r) PROVE TypeOK'
  <2>1. cur' \in [Worker -> Row \cup {None}] /\ try' \in [Worker -> Nat]
    BY <1>3 DEF TypeOK, EnqueueFails, Start
  <2>2. answer' \in [Worker -> Answer]
    BY <1>3 DEF TypeOK, EnqueueFails, Start
  <2>3. status' \in [Row -> Status]
    BY <1>3 DEF TypeOK, EnqueueFails
  <2>4. faults' \in 0 .. MaxFaults
    BY <1>3, FaultTypes DEF EnqueueFails
  <2> QED
    BY <1>3, <2>1, <2>2, <2>3, <2>4 DEF TypeOK, EnqueueFails, history
<1>4. ASSUME NEW w \in Worker, List(w) PROVE TypeOK'
  BY <1>4 DEF TypeOK, List, PendingDeliveries, Ready, table
<1>5. ASSUME NEW w \in Worker, NEW r \in Row, Take(w, r) PROVE TypeOK'
  BY <1>5 DEF TypeOK, Take, Drop, Start, Head, table, history
<1>6. ASSUME NEW w \in Worker, NEW r \in Row, Close(w, r) PROVE TypeOK'
  BY <1>6, CloseRecords, RecordTypes DEF TypeOK, Close, Drop, history
<1>7. ASSUME NEW w \in Worker, Deliver(w) PROVE TypeOK'
  <2>1. answer' \in [Worker -> Answer]
    BY <1>7 DEF TypeOK, Deliver, Reply
  <2>2. accepted' \in [Row -> Nat]
    BY <1>7 DEF TypeOK, Deliver, Sending, Accept
  <2>3. unrecorded' \subseteq Row
    BY <1>7 DEF TypeOK, Deliver, Sending
  <2> QED
    BY <1>7, <2>1, <2>2, <2>3 DEF TypeOK, Deliver, table
<1>8. ASSUME NEW w \in Worker, Record(w) PROVE TypeOK'
  <2>1. PICK r \in Row : Recorded(r)
    BY <1>8, RecordCases
  <2> QED
    BY <1>8, <2>1, RecordTypes DEF TypeOK, Record, Done, history
<1>9. ASSUME NEW w \in Worker, RecordFails(w) PROVE TypeOK'
  <2>1. unrecorded' \subseteq Row
    BY <1>9 DEF TypeOK, RecordFails, Answered, Forget
  <2>2. faults' \in 0 .. MaxFaults
    BY <1>9, FaultTypes DEF RecordFails
  <2> QED
    BY <1>9, <2>1, <2>2 DEF TypeOK, RecordFails, Done, table
<1>10. ASSUME NEW w \in Worker, Kill(w) PROVE TypeOK'
  <2>1. hand' \in [Worker -> SUBSET Row] /\ read' \in [Worker -> [Row -> Nat]]
    BY <1>10 DEF TypeOK, Kill
  <2>2. unrecorded' \subseteq Row
    BY <1>10 DEF TypeOK, RestIsBlank, Kill, Forget
  <2>3. faults' \in 0 .. MaxFaults
    BY <1>10, FaultTypes DEF Kill
  <2> QED
    BY <1>10, <2>1, <2>2, <2>3 DEF TypeOK, Kill, Done, table
<1>11. ASSUME NEW r \in Row, Elapse(r) PROVE TypeOK'
  BY <1>11 DEF TypeOK, Elapse, local, history
<1>12. CASE Unconfigure
  BY <1>12 DEF TypeOK, Unconfigure, table, local, history
<1> QED
  BY <1>1, <1>2, <1>3, <1>4, <1>5, <1>6, <1>7, <1>8, <1>9, <1>10, <1>11, <1>12, NextCases
  DEF WorkerStep

LEMMA BlankStep ==
    ASSUME Typed, [Next]_vars
    PROVE  RestIsBlank'
<1> USE DEF Typed, TypeOK, RestIsBlank
<1>1. CASE UNCHANGED vars
  BY <1>1 DEF vars, local
<1>2. ASSUME NEW w \in Worker, WorkerStep(w) PROVE RestIsBlank'
  <2>1. CASE List(w)
    BY <2>1 DEF List
  <2>2. CASE Deliver(w)
    BY <2>2 DEF Deliver, Sending, Reply
  <2>3. CASE Record(w) \/ RecordFails(w) \/ Kill(w)
    BY <2>3 DEF Record, RecordFails, Kill, Done
  <2>4. ASSUME NEW r \in Row, Take(w, r) \/ Enqueue(w, r) PROVE RestIsBlank'
    BY <2>4, RowAssumption DEF Take, Head, Enqueue, Idle, Start
  <2>5. ASSUME NEW r \in Row, Close(w, r) PROVE RestIsBlank'
    BY <2>5 DEF Close
  <2>6. ASSUME NEW r \in Row, EnqueueFails(w, r) PROVE RestIsBlank'
    BY <2>6, RowAssumption DEF EnqueueFails, Idle, Start
  <2> QED
    BY <1>2, <2>1, <2>2, <2>3, <2>4, <2>5, <2>6 DEF WorkerStep
<1>3. ASSUME NEW r \in Row, Elapse(r) PROVE RestIsBlank'
  BY <1>3 DEF Elapse, local
<1>4. CASE Unconfigure
  BY <1>4 DEF Unconfigure, local
<1> QED
  BY <1>1, <1>2, <1>3, <1>4, NextCases

LEMMA TypedHolds == Spec => []Typed
<1>1. Init => Typed
  BY RowAssumption, BoundAssumption DEF Init, Typed, TypeOK, RestIsBlank
<1>2. Typed /\ [Next]_vars => Typed'
  BY TypeStep, BlankStep DEF Typed
<1> QED
  BY <1>1, <1>2, PTL DEF Spec

(***************************************************************************)
(* The table, the workers and the histories keep their types.              *)
(***************************************************************************)
THEOREM DeliveriesTypeOK == Spec => []TypeOK
<1>1. Typed => TypeOK
  BY DEF Typed
<1> QED
  BY <1>1, TypedHolds, PTL

-----------------------------------------------------------------------------
(***************************************************************************)
(* A status is earned.  The counters a worker read may be old, but never   *)
(* ahead of the table, and what it is about to record is true.             *)
(***************************************************************************)
CountsAgree ==
    \A w \in Worker : \A r \in Row :
        /\ r \in hand[w] => read[w][r] <= attempts[r]
        /\ cur[w] = r => try[w] >= 1 /\ try[w] <= attempts[r] + 1

AnswerIsTrue ==
    \A w \in Worker :
        /\ answer[w] = "ok" => accepted[cur[w]] >= 1
        /\ answer[w] = "broken" => ~configured

Earned == Typed /\ CountsAgree /\ AnswerIsTrue /\ SettledIsEarned

LEMMA CountsStep ==
    ASSUME Typed, CountsAgree, [Next]_vars
    PROVE  CountsAgree'
<1> USE RowAssumption DEF Typed, TypeOK, CountsAgree
<1>1. CASE UNCHANGED vars
  BY <1>1 DEF vars, table, local, history
<1>2. ASSUME NEW w \in Worker, List(w) PROVE CountsAgree'
  BY <1>2 DEF List, PendingDeliveries, Ready, table
<1>3. ASSUME NEW w \in Worker, Deliver(w) PROVE CountsAgree'
  BY <1>3 DEF Deliver, Sending, Reply, Accept, table
<1>4. ASSUME NEW w \in Worker, Record(w) PROVE CountsAgree'
  <2>1. PICK r \in Row : cur[w] = r /\ Recorded(r)
    BY <1>4, RecordCases
  <2>2. attempts'[r] >= attempts[r] /\ \A q \in Row \ {r} : attempts'[q] = attempts[q]
    BY <2>1 DEF Recorded, table
  <2> QED
    BY <1>4, <2>1, <2>2, TypeStep DEF Record, Done, history
<1>5. ASSUME NEW w \in Worker, RecordFails(w) PROVE CountsAgree'
  BY <1>5 DEF RecordFails, Answered, Forget, Done, table
<1>6. ASSUME NEW w \in Worker, Kill(w) PROVE CountsAgree'
  BY <1>6 DEF Kill, Idle, Forget, Done, table
<1>7. ASSUME NEW w \in Worker, NEW r \in Row, Take(w, r) PROVE CountsAgree'
  BY <1>7 DEF Take, Head, Drop, Start, table, history
<1>8. ASSUME NEW w \in Worker, NEW r \in Row, Close(w, r) PROVE CountsAgree'
  <2>1. Recorded(r)
    BY <1>8, CloseRecords
  <2>2. \A q \in Row : attempts'[q] >= attempts[q]
    BY <2>1 DEF Recorded, table
  <2>3. \A v \in Worker, q \in Row :
           q \in hand'[v] => q \in hand[v] /\ read'[v][q] = read[v][q]
    BY <1>8 DEF Close, Drop
  <2> QED
    BY <1>8, <2>2, <2>3, TypeStep DEF Close
<1>9. ASSUME NEW w \in Worker, NEW r \in Row, Enqueue(w, r) PROVE CountsAgree'
  BY <1>9 DEF Enqueue, Idle, Fresh, Start, history
<1>10. ASSUME NEW w \in Worker, NEW r \in Row, EnqueueFails(w, r) PROVE CountsAgree'
  BY <1>10 DEF EnqueueFails, Idle, Fresh, Start, history
<1>11. ASSUME NEW r \in Row, Elapse(r) PROVE CountsAgree'
  BY <1>11 DEF Elapse, local, history
<1>12. CASE Unconfigure
  BY <1>12 DEF Unconfigure, table, local, history
<1> QED
  BY <1>1, <1>2, <1>3, <1>4, <1>5, <1>6, <1>7, <1>8, <1>9, <1>10, <1>11, <1>12, NextCases DEF WorkerStep

LEMMA AnswerStep ==
    ASSUME Typed, AnswerIsTrue, [Next]_vars
    PROVE  AnswerIsTrue'
<1> USE RowAssumption DEF Typed, TypeOK, RestIsBlank, AnswerIsTrue
<1>1. CASE UNCHANGED vars
  BY <1>1 DEF vars, table, local, history
<1>2. ASSUME NEW w \in Worker, List(w) PROVE AnswerIsTrue'
  BY <1>2 DEF List, PendingDeliveries, Ready, table
<1>3. ASSUME NEW w \in Worker, Deliver(w) PROVE AnswerIsTrue'
  <2>1. cur[w] \in Row /\ UNCHANGED <<cur, configured>>
    BY <1>3 DEF Deliver, Sending
  <2>2. \A r \in Row : accepted'[r] = accepted[r] \/ accepted'[r] >= 1
    BY <1>3 DEF Deliver, Accept
  <2>3. answer'[w] = "ok" => accepted'[cur[w]] >= 1
    BY <1>3, <2>1 DEF Deliver, Reply, Accept
  <2>4. answer'[w] = "broken" => ~configured
    BY <1>3 DEF Deliver, Reply
  <2>5. \A v \in Worker \ {w} : answer'[v] = answer[v]
    BY <1>3 DEF Deliver, Reply
  <2>6. ASSUME NEW v \in Worker, answer'[v] = "ok" PROVE accepted'[cur'[v]] >= 1
    <3>1. CASE v = w
      BY <2>1, <2>3, <2>6, <3>1
    <3>2. CASE v # w
      <4>1. answer[v] = "ok" /\ cur[v] \in Row /\ accepted[cur[v]] >= 1
        BY <2>5, <2>6, <3>2
      <4> QED
        BY <2>1, <2>2, <4>1
    <3> QED
      BY <3>1, <3>2
  <2>7. ASSUME NEW v \in Worker, answer'[v] = "broken" PROVE ~configured'
    BY <2>1, <2>4, <2>5, <2>7
  <2> QED
    BY <2>6, <2>7
<1>4. ASSUME NEW w \in Worker, Record(w) PROVE AnswerIsTrue'
  BY <1>4 DEF Record, Done, history
<1>5. ASSUME NEW w \in Worker, RecordFails(w) PROVE AnswerIsTrue'
  BY <1>5 DEF RecordFails, Answered, Forget, Done, table
<1>6. ASSUME NEW w \in Worker, Kill(w) PROVE AnswerIsTrue'
  BY <1>6 DEF Kill, Idle, Forget, Done, table
<1>7. ASSUME NEW w \in Worker, NEW r \in Row, Take(w, r) PROVE AnswerIsTrue'
  BY <1>7 DEF Take, Head, Drop, Start, table, history
<1>8. ASSUME NEW w \in Worker, NEW r \in Row, Close(w, r) PROVE AnswerIsTrue'
  BY <1>8 DEF Close, Head, Drop, history
<1>9. ASSUME NEW w \in Worker, NEW r \in Row, Enqueue(w, r) PROVE AnswerIsTrue'
  BY <1>9 DEF Enqueue, Idle, Fresh, Start, history
<1>10. ASSUME NEW w \in Worker, NEW r \in Row, EnqueueFails(w, r) PROVE AnswerIsTrue'
  BY <1>10 DEF EnqueueFails, Idle, Fresh, Start, history
<1>11. ASSUME NEW r \in Row, Elapse(r) PROVE AnswerIsTrue'
  BY <1>11 DEF Elapse, local, history
<1>12. CASE Unconfigure
  BY <1>12 DEF Unconfigure, table, local, history
<1> QED
  BY <1>1, <1>2, <1>3, <1>4, <1>5, <1>6, <1>7, <1>8, <1>9, <1>10, <1>11, <1>12, NextCases DEF WorkerStep

LEMMA EarnedStep ==
    ASSUME Typed, CountsAgree, AnswerIsTrue, SettledIsEarned, [Next]_vars
    PROVE  SettledIsEarned'
<1> USE RowAssumption DEF Typed, TypeOK, CountsAgree, AnswerIsTrue, SettledIsEarned
<1>1. CASE UNCHANGED vars
  BY <1>1 DEF vars, table, local, history
<1>2. ASSUME NEW w \in Worker, List(w) PROVE SettledIsEarned'
  BY <1>2 DEF List, PendingDeliveries, Ready, table
<1>3. ASSUME NEW w \in Worker, Deliver(w) PROVE SettledIsEarned'
  BY <1>3 DEF Deliver, Sending, Reply, Accept, table
<1>4. ASSUME NEW w \in Worker, Record(w) PROVE SettledIsEarned'
  <2>1. PICK r \in Row :
           /\ cur[w] = r
           /\ Recorded(r)
           /\ status[r] \notin {"absent", "lost"} =>
                /\ answer[w] = "ok" => status'[r] = "delivered"
                /\ answer[w] # "ok" => status'[r] \in {"pending", "failed"}
                /\ answer[w] = "refused" /\ status'[r] = "failed" => ~Backoff(r, try[w])
    BY <1>4, RecordCases
  <2>2. \A q \in Row \ {r} : status'[q] = status[q] /\ attempts'[q] = attempts[q]
    BY <2>1 DEF Recorded, table
  <2>3. CASE status[r] \in {"absent", "lost"}
    BY <1>4, <2>1, <2>2, <2>3 DEF Recorded, table, Record, history
  <2>4. CASE status[r] \notin {"absent", "lost"}
    <3>1. status'[r] = "delivered" => accepted[r] >= 1
      BY <1>4, <2>1, <2>4 DEF Record, Answered
    <3>2. ASSUME status'[r] = "failed", r \notin Email, configured
          PROVE  attempts'[r] >= MaxAttempts
      <4>1. ~Backoff(r, try[w])
        BY <1>4, <2>1, <2>4, <3>2 DEF Record, Answered
      <4>2. try[w] >= MaxAttempts
        BY <2>1, <3>2, <4>1, BoundAssumption DEF Backoff
      <4> QED
        BY <2>1, <2>4, <4>2, BoundAssumption DEF Recorded
    <3> QED
      BY <1>4, <2>2, <3>1, <3>2 DEF Record, history
  <2> QED
    BY <2>3, <2>4
<1>5. ASSUME NEW w \in Worker, RecordFails(w) PROVE SettledIsEarned'
  BY <1>5 DEF RecordFails, Answered, Forget, Done, table
<1>6. ASSUME NEW w \in Worker, Kill(w) PROVE SettledIsEarned'
  BY <1>6 DEF Kill, Idle, Forget, Done, table
<1>7. ASSUME NEW w \in Worker, NEW r \in Row, Take(w, r) PROVE SettledIsEarned'
  BY <1>7 DEF Take, Head, Drop, Start, table, history
<1>8. ASSUME NEW w \in Worker, NEW r \in Row, Close(w, r) PROVE SettledIsEarned'
  <2>1. Recorded(r)
    BY <1>8, CloseRecords
  <2>2. status'[r] # "delivered" \/ status'[r] = status[r]
    BY <1>8 DEF Close, RecordAttempt, table
  <2>3. \A q \in Row \ {r} : status'[q] = status[q] /\ attempts'[q] = attempts[q]
    BY <2>1 DEF Recorded, table
  <2> QED
    BY <1>8, <2>2, <2>3 DEF Close, history
<1>9. ASSUME NEW w \in Worker, NEW r \in Row, Enqueue(w, r) PROVE SettledIsEarned'
  BY <1>9 DEF Enqueue, Idle, Fresh, Start, history
<1>10. ASSUME NEW w \in Worker, NEW r \in Row, EnqueueFails(w, r) PROVE SettledIsEarned'
  BY <1>10 DEF EnqueueFails, Idle, Fresh, Start, history
<1>11. ASSUME NEW r \in Row, Elapse(r) PROVE SettledIsEarned'
  BY <1>11 DEF Elapse, local, history
<1>12. CASE Unconfigure
  BY <1>12 DEF Unconfigure, table, local, history
<1> QED
  BY <1>1, <1>2, <1>3, <1>4, <1>5, <1>6, <1>7, <1>8, <1>9, <1>10, <1>11, <1>12, NextCases DEF WorkerStep

LEMMA EarnedHolds == Spec => []Earned
<1>1. Init => Earned
  <2>1. Init => Typed
    BY RowAssumption, BoundAssumption DEF Init, Typed, TypeOK, RestIsBlank
  <2>2. Init => CountsAgree
    BY RowAssumption DEF Init, CountsAgree
  <2>3. Init => AnswerIsTrue /\ SettledIsEarned
    BY DEF Init, AnswerIsTrue, SettledIsEarned
  <2> QED
    BY <2>1, <2>2, <2>3 DEF Earned
<1>2. Earned /\ [Next]_vars => Earned'
  BY TypeStep, BlankStep, CountsStep, AnswerStep, EarnedStep DEF Earned, Typed
<1> QED
  BY <1>1, <1>2, PTL DEF Spec

(***************************************************************************)
(* A row that reads delivered was taken by its destination, and a webhook  *)
(* that reads failed had its MaxAttempts, whatever the workers interleave. *)
(***************************************************************************)
THEOREM DeliveriesEarned == Spec => []SettledIsEarned
<1>1. Earned => SettledIsEarned
  BY DEF Earned
<1> QED
  BY <1>1, EarnedHolds, PTL

-----------------------------------------------------------------------------
(***************************************************************************)
(* A row that no two workers have shared and whose answers were recorded   *)
(* is in one pair of hands while it is open, and its one acceptance is     *)
(* either on its way to the table or in it, with nobody left to resend.    *)
(***************************************************************************)
OneHand ==
    \A r \in Row \ shared : \A v, w \in Worker : InHand(v, r) /\ InHand(w, r) => v = w

NotTwice == \A w \in Worker : cur[w] \notin hand[w]

HeldIsOpen ==
    \A r \in Row \ shared : \A w \in Worker :
        InHand(w, r) => status[r] \in {"pending", "lost"}

OnItsWay(r) == \E w \in Worker : cur[w] = r /\ answer[w] = "ok"

PutAway(r) == status[r] \in {"delivered", "lost"} /\ \A w \in Worker : ~InHand(w, r)

TakenIsKnown ==
    \A r \in Row \ (shared \cup unrecorded) :
        accepted[r] >= 1 => OnItsWay(r) \/ PutAway(r)

Tracked ==
    /\ Typed
    /\ OneHand
    /\ NotTwice
    /\ HeldIsOpen
    /\ TakenIsKnown
    /\ DuplicateHasACause

LEMMA TwiceStep ==
    ASSUME Typed, OneHand, NotTwice, HeldIsOpen, [Next]_vars
    PROVE  NotTwice'
<1> USE RowAssumption DEF Typed, TypeOK, RestIsBlank, InHand, NotTwice
<1>1. CASE UNCHANGED vars
  BY <1>1 DEF vars, table, local, history
<1>2. ASSUME NEW w \in Worker, List(w) PROVE NotTwice'
  <2>1. hand'[w] \subseteq Row
    BY <1>2 DEF List, PendingDeliveries, Ready
  <2>2. cur'[w] = None /\ \A v \in Worker \ {w} : cur'[v] = cur[v] /\ hand'[v] = hand[v]
    BY <1>2 DEF List, Idle
  <2> QED
    BY <2>1, <2>2
<1>3. ASSUME NEW w \in Worker, Deliver(w) PROVE NotTwice'
  BY <1>3 DEF Deliver, Sending, Reply, Accept, table
<1>4. ASSUME NEW w \in Worker, Record(w) PROVE NotTwice'
  BY <1>4 DEF Record, Done, history
<1>5. ASSUME NEW w \in Worker, RecordFails(w) PROVE NotTwice'
  BY <1>5 DEF RecordFails, Answered, Forget, Done, table
<1>6. ASSUME NEW w \in Worker, Kill(w) PROVE NotTwice'
  BY <1>6 DEF Kill, Idle, Forget, Done, table
<1>7. ASSUME NEW w \in Worker, NEW r \in Row, Take(w, r) PROVE NotTwice'
  BY <1>7 DEF Take, Head, Drop, Start, table, history
<1>8. ASSUME NEW w \in Worker, NEW r \in Row, Close(w, r) PROVE NotTwice'
  BY <1>8 DEF Close, Head, Drop, history
<1>9. ASSUME NEW w \in Worker, NEW r \in Row, Enqueue(w, r) PROVE NotTwice'
  BY <1>9 DEF Enqueue, Idle, Fresh, Start, history
<1>10. ASSUME NEW w \in Worker, NEW r \in Row, EnqueueFails(w, r) PROVE NotTwice'
  BY <1>10 DEF EnqueueFails, Idle, Fresh, Start, history
<1>11. ASSUME NEW r \in Row, Elapse(r) PROVE NotTwice'
  BY <1>11 DEF Elapse, local, history
<1>12. CASE Unconfigure
  BY <1>12 DEF Unconfigure, table, local, history
<1> QED
  BY <1>1, <1>2, <1>3, <1>4, <1>5, <1>6, <1>7, <1>8, <1>9, <1>10, <1>11, <1>12, NextCases DEF WorkerStep

LEMMA OneHandStep ==
    ASSUME Typed, OneHand, NotTwice, HeldIsOpen, [Next]_vars
    PROVE  OneHand'
<1> USE RowAssumption DEF Typed, TypeOK, RestIsBlank, InHand, OneHand, NotTwice, HeldIsOpen
<1>1. CASE UNCHANGED vars
  BY <1>1 DEF vars, table, local, history
<1>2. ASSUME NEW w \in Worker, List(w) PROVE OneHand'
  BY <1>2 DEF List, PendingDeliveries, Ready, table
<1>3. ASSUME NEW w \in Worker, Deliver(w) PROVE OneHand'
  BY <1>3 DEF Deliver, Sending, Reply, Accept, table
<1>4. ASSUME NEW w \in Worker, Record(w) PROVE OneHand'
  BY <1>4 DEF Record, Done, history
<1>5. ASSUME NEW w \in Worker, RecordFails(w) PROVE OneHand'
  BY <1>5 DEF RecordFails, Answered, Forget, Done, table
<1>6. ASSUME NEW w \in Worker, Kill(w) PROVE OneHand'
  BY <1>6 DEF Kill, Idle, Forget, Done, table
<1>7. ASSUME NEW w \in Worker, NEW r \in Row, Take(w, r) PROVE OneHand'
  BY <1>7 DEF Take, Head, Drop, Start, table, history
<1>8. ASSUME NEW w \in Worker, NEW r \in Row, Close(w, r) PROVE OneHand'
  BY <1>8 DEF Close, Head, Drop, history
<1>9. ASSUME NEW w \in Worker, NEW r \in Row, Enqueue(w, r) PROVE OneHand'
  BY <1>9 DEF Enqueue, Idle, Fresh, Start, history
<1>10. ASSUME NEW w \in Worker, NEW r \in Row, EnqueueFails(w, r) PROVE OneHand'
  BY <1>10 DEF EnqueueFails, Idle, Fresh, Start, history
<1>11. ASSUME NEW r \in Row, Elapse(r) PROVE OneHand'
  BY <1>11 DEF Elapse, local, history
<1>12. CASE Unconfigure
  BY <1>12 DEF Unconfigure, table, local, history
<1> QED
  BY <1>1, <1>2, <1>3, <1>4, <1>5, <1>6, <1>7, <1>8, <1>9, <1>10, <1>11, <1>12, NextCases DEF WorkerStep

LEMMA OpenStep ==
    ASSUME Typed, OneHand, NotTwice, HeldIsOpen, [Next]_vars
    PROVE  HeldIsOpen'
<1> USE RowAssumption DEF Typed, TypeOK, RestIsBlank, InHand, OneHand, NotTwice, HeldIsOpen
<1>1. CASE UNCHANGED vars
  BY <1>1 DEF vars, table, local, history
<1>2. ASSUME NEW w \in Worker, List(w) PROVE HeldIsOpen'
  <2>1. \A q \in Row : q \in hand'[w] => status[q] = "pending"
    BY <1>2 DEF List, PendingDeliveries, Ready
  <2>2. \A v \in Worker \ {w} : hand'[v] = hand[v]
    BY <1>2 DEF List
  <2>3. shared \subseteq shared' /\ UNCHANGED <<status, cur>>
    BY <1>2 DEF List, table
  <2> QED
    BY <2>1, <2>2, <2>3
<1>3. ASSUME NEW w \in Worker, Deliver(w) PROVE HeldIsOpen'
  BY <1>3 DEF Deliver, Sending, Reply, Accept, table
<1>4. ASSUME NEW w \in Worker, Record(w) PROVE HeldIsOpen'
  <2>1. PICK r \in Row : cur[w] = r /\ Recorded(r)
    BY <1>4, RecordCases
  <2>2. \A q \in Row \ {r} : status'[q] = status[q]
    BY <2>1 DEF Recorded, table
  <2>3. \A v \in Worker \ {w} : ~InHand(v, r) \/ r \in shared
    BY <2>1
  <2>4. ~InHand(w, r)' /\ \A v \in Worker, q \in Row : InHand(v, q)' => InHand(v, q)
    BY <1>4, <2>1 DEF Record, Done
  <2> QED
    BY <1>4, <2>2, <2>3, <2>4 DEF Record, Done, history
<1>5. ASSUME NEW w \in Worker, RecordFails(w) PROVE HeldIsOpen'
  BY <1>5 DEF RecordFails, Answered, Forget, Done, table
<1>6. ASSUME NEW w \in Worker, Kill(w) PROVE HeldIsOpen'
  BY <1>6 DEF Kill, Idle, Forget, Done, table
<1>7. ASSUME NEW w \in Worker, NEW r \in Row, Take(w, r) PROVE HeldIsOpen'
  BY <1>7 DEF Take, Head, Drop, Start, table, history
<1>8. ASSUME NEW w \in Worker, NEW r \in Row, Close(w, r) PROVE HeldIsOpen'
  <2>1. Recorded(r)
    BY <1>8, CloseRecords
  <2>2. \A q \in Row \ {r} : status'[q] = status[q]
    BY <2>1 DEF Recorded, table
  <2>3. InHand(w, r) /\ \A v \in Worker \ {w} : ~InHand(v, r) \/ r \in shared
    BY <1>8 DEF Close, Head
  <2>4. ~InHand(w, r)' /\ \A v \in Worker, q \in Row : InHand(v, q)' => InHand(v, q)
    BY <1>8 DEF Close, Head, Drop
  <2> QED
    BY <1>8, <2>2, <2>3, <2>4 DEF Close, history
<1>9. ASSUME NEW w \in Worker, NEW r \in Row, Enqueue(w, r) PROVE HeldIsOpen'
  BY <1>9 DEF Enqueue, Idle, Fresh, Start, history
<1>10. ASSUME NEW w \in Worker, NEW r \in Row, EnqueueFails(w, r) PROVE HeldIsOpen'
  BY <1>10 DEF EnqueueFails, Idle, Fresh, Start, history
<1>11. ASSUME NEW r \in Row, Elapse(r) PROVE HeldIsOpen'
  BY <1>11 DEF Elapse, local, history
<1>12. CASE Unconfigure
  BY <1>12 DEF Unconfigure, table, local, history
<1> QED
  BY <1>1, <1>2, <1>3, <1>4, <1>5, <1>6, <1>7, <1>8, <1>9, <1>10, <1>11, <1>12, NextCases DEF WorkerStep

LEMMA KnownStep ==
    ASSUME Typed, OneHand, NotTwice, HeldIsOpen, TakenIsKnown, [Next]_vars
    PROVE  TakenIsKnown'
<1> USE RowAssumption DEF Typed, TypeOK, RestIsBlank, InHand, OneHand, NotTwice, HeldIsOpen, TakenIsKnown, OnItsWay, PutAway
<1>1. CASE UNCHANGED vars
  BY <1>1 DEF vars, table, local, history
<1>2. ASSUME NEW w \in Worker, List(w) PROVE TakenIsKnown'
  <2> SUFFICES ASSUME NEW q \in Row \ (shared' \cup unrecorded'), accepted'[q] >= 1
               PROVE  OnItsWay(q)' \/ PutAway(q)'
    BY DEF TakenIsKnown
  <2>1. OnItsWay(q) \/ PutAway(q)
    BY <1>2 DEF List
  <2>2. CASE OnItsWay(q)
    BY <1>2, <2>2 DEF List
  <2>3. CASE PutAway(q)
    <3>1. q \notin hand'[w]
      BY <1>2, <2>3 DEF List, PendingDeliveries, Ready
    <3> QED
      BY <1>2, <2>3, <3>1 DEF List, table
  <2> QED
    BY <2>1, <2>2, <2>3
<1>3. ASSUME NEW w \in Worker, Deliver(w) PROVE TakenIsKnown'
  <2> SUFFICES ASSUME NEW q \in Row \ (shared' \cup unrecorded'), accepted'[q] >= 1
               PROVE  OnItsWay(q)' \/ PutAway(q)'
    BY DEF TakenIsKnown
  <2>1. cur[w] \in Row /\ answer[w] = "none" /\ UNCHANGED <<cur, hand, status, shared>>
    BY <1>3 DEF Deliver, Sending, table
  <2>2. unrecorded \subseteq unrecorded' /\ \A v \in Worker \ {w} : answer'[v] = answer[v]
    BY <1>3 DEF Deliver, Reply
  <2>3. CASE q = cur[w]
    <3>1. ~OnItsWay(q) /\ ~PutAway(q)
      BY <2>1, <2>2, <2>3
    <3>2. accepted[q] = 0
      BY <2>1, <2>2, <3>1
    <3>3. answer'[w] = "ok"
      BY <1>3, <2>3, <3>2 DEF Deliver, Reply, Accept
    <3> QED
      BY <2>1, <2>3, <3>3
  <2>4. CASE q # cur[w]
    <3>1. accepted'[q] = accepted[q]
      BY <1>3, <2>1, <2>4 DEF Deliver, Accept
    <3>2. OnItsWay(q) \/ PutAway(q)
      BY <2>1, <2>2, <3>1
    <3>3. CASE OnItsWay(q)
      <4>1. PICK v \in Worker : cur[v] = q /\ answer[v] = "ok"
        BY <3>3
      <4> QED
        BY <2>1, <2>2, <2>4, <4>1
    <3>4. CASE PutAway(q)
      BY <2>1, <3>4
    <3> QED
      BY <3>2, <3>3, <3>4
  <2> QED
    BY <2>3, <2>4
<1>4. ASSUME NEW w \in Worker, Record(w) PROVE TakenIsKnown'
  <2> SUFFICES ASSUME NEW q \in Row \ (shared' \cup unrecorded'), accepted'[q] >= 1
               PROVE  OnItsWay(q)' \/ PutAway(q)'
    BY DEF TakenIsKnown
  <2>1. PICK r \in Row :
           /\ cur[w] = r
           /\ Recorded(r)
           /\ status[r] \notin {"absent", "lost"} =>
                /\ answer[w] = "ok" => status'[r] = "delivered"
                /\ answer[w] # "ok" => status'[r] \in {"pending", "failed"}
                /\ answer[w] = "refused" /\ status'[r] = "failed" => ~Backoff(r, try[w])
    BY <1>4, RecordCases
  <2>2. UNCHANGED <<hand, accepted, shared, unrecorded>>
    BY <1>4 DEF Record, history
  <2>3. cur'[w] = None /\ \A v \in Worker \ {w} : cur'[v] = cur[v] /\ answer'[v] = answer[v]
    BY <1>4 DEF Record, Done
  <2>4. OnItsWay(q) \/ PutAway(q)
    BY <2>2
  <2>5. CASE q = r
    <3>1. ~PutAway(q) /\ answer[w] = "ok"
      BY <2>1, <2>2, <2>4, <2>5
    <3>2. \A v \in Worker : ~InHand(v, q)'
      BY <2>1, <2>2, <2>3, <2>5
    <3>3. status'[q] \in {"delivered", "lost"}
      <4>1. status[q] \in {"pending", "lost"}
        BY <2>1, <2>2, <2>5
      <4> QED
        BY <2>1, <2>5, <3>1, <4>1 DEF Recorded, table
    <3> QED
      BY <3>2, <3>3
  <2>6. CASE q # r
    <3>1. status'[q] = status[q]
      BY <2>1, <2>6 DEF Recorded, table
    <3>2. CASE OnItsWay(q)
      <4>1. PICK v \in Worker : cur[v] = q /\ answer[v] = "ok"
        BY <3>2
      <4> QED
        BY <2>1, <2>3, <2>6, <4>1
    <3>3. CASE PutAway(q)
      BY <2>2, <2>3, <3>1, <3>3
    <3> QED
      BY <2>4, <3>2, <3>3
  <2> QED
    BY <2>5, <2>6
<1>5. ASSUME NEW w \in Worker, RecordFails(w) PROVE TakenIsKnown'
  <2> SUFFICES ASSUME NEW q \in Row \ (shared' \cup unrecorded'), accepted'[q] >= 1
               PROVE  OnItsWay(q)' \/ PutAway(q)'
    BY DEF TakenIsKnown
  <2>1. UNCHANGED <<status, accepted, shared>> /\ unrecorded \subseteq unrecorded'
    BY <1>5 DEF RecordFails, Forget, table
  <2>2. cur'[w] = None /\ \A v \in Worker \ {w} : cur'[v] = cur[v] /\ answer'[v] = answer[v]
    BY <1>5 DEF RecordFails, Done
  <2>3. \A v \in Worker : hand'[v] \subseteq hand[v]
    BY <1>5 DEF RecordFails
  <2>4. ~(cur[w] = q /\ answer[w] = "ok")
    BY <1>5 DEF RecordFails, Forget
  <2>5. OnItsWay(q) \/ PutAway(q)
    BY <2>1
  <2>6. CASE OnItsWay(q)
    <3>1. PICK v \in Worker : cur[v] = q /\ answer[v] = "ok"
      BY <2>6
    <3> QED
      BY <2>2, <2>4, <3>1
  <2>7. CASE PutAway(q)
    BY <2>1, <2>2, <2>3, <2>7
  <2> QED
    BY <2>5, <2>6, <2>7
<1>6. ASSUME NEW w \in Worker, Kill(w) PROVE TakenIsKnown'
  <2> SUFFICES ASSUME NEW q \in Row \ (shared' \cup unrecorded'), accepted'[q] >= 1
               PROVE  OnItsWay(q)' \/ PutAway(q)'
    BY DEF TakenIsKnown
  <2>1. UNCHANGED <<status, accepted, shared>> /\ unrecorded \subseteq unrecorded'
    BY <1>6 DEF Kill, Forget, table
  <2>2. cur'[w] = None /\ \A v \in Worker \ {w} : cur'[v] = cur[v] /\ answer'[v] = answer[v]
    BY <1>6 DEF Kill, Done
  <2>3. \A v \in Worker : hand'[v] \subseteq hand[v]
    BY <1>6 DEF Kill
  <2>4. ~(cur[w] = q /\ answer[w] = "ok")
    BY <1>6 DEF Kill, Forget
  <2>5. OnItsWay(q) \/ PutAway(q)
    BY <2>1
  <2>6. CASE OnItsWay(q)
    <3>1. PICK v \in Worker : cur[v] = q /\ answer[v] = "ok"
      BY <2>6
    <3> QED
      BY <2>2, <2>4, <3>1
  <2>7. CASE PutAway(q)
    BY <2>1, <2>2, <2>3, <2>7
  <2> QED
    BY <2>5, <2>6, <2>7
<1>7. ASSUME NEW w \in Worker, NEW r \in Row, Take(w, r) PROVE TakenIsKnown'
  <2> SUFFICES ASSUME NEW q \in Row \ (shared' \cup unrecorded'), accepted'[q] >= 1
               PROVE  OnItsWay(q)' \/ PutAway(q)'
    BY DEF TakenIsKnown
  <2>1. UNCHANGED <<accepted, shared, unrecorded, answer>>
    BY <1>7 DEF Take, Drop, Start, history
  <2>2. OnItsWay(q) \/ PutAway(q)
    BY <2>1
  <2>3. cur[w] = None /\ answer[w] = "none"
    BY <1>7 DEF Take, Head
  <2>4. q # r
    BY <1>7, <2>1, <2>2, <2>3 DEF Take, Head
  <2>5. status'[q] = status[q]
    BY <1>7 DEF Take, table
  <2>6. \A v \in Worker : cur'[v] = q <=> cur[v] = q
    BY <1>7, <2>3, <2>4 DEF Take, Drop, Start
  <2>7. \A v \in Worker : hand'[v] \subseteq hand[v]
    BY <1>7 DEF Take, Drop, Start
  <2> QED
    BY <2>1, <2>2, <2>5, <2>6, <2>7
<1>8. ASSUME NEW w \in Worker, NEW r \in Row, Close(w, r) PROVE TakenIsKnown'
  <2> SUFFICES ASSUME NEW q \in Row \ (shared' \cup unrecorded'), accepted'[q] >= 1
               PROVE  OnItsWay(q)' \/ PutAway(q)'
    BY DEF TakenIsKnown
  <2>1. UNCHANGED <<accepted, shared, unrecorded, answer>>
    BY <1>8 DEF Close, Drop, history
  <2>2. OnItsWay(q) \/ PutAway(q)
    BY <2>1
  <2>3. cur[w] = None /\ answer[w] = "none"
    BY <1>8 DEF Close, Head
  <2>4. q # r
    BY <1>8, <2>1, <2>2, <2>3 DEF Close, Head
  <2>5. status'[q] = status[q]
    BY <1>8, <2>4, CloseRecords DEF Recorded, table
  <2>6. \A v \in Worker : cur'[v] = q <=> cur[v] = q
    BY <1>8, <2>3, <2>4 DEF Close, Drop
  <2>7. \A v \in Worker : hand'[v] \subseteq hand[v]
    BY <1>8 DEF Close, Drop
  <2> QED
    BY <2>1, <2>2, <2>5, <2>6, <2>7
<1>9. ASSUME NEW w \in Worker, NEW r \in Row, Enqueue(w, r) PROVE TakenIsKnown'
  <2> SUFFICES ASSUME NEW q \in Row \ (shared' \cup unrecorded'), accepted'[q] >= 1
               PROVE  OnItsWay(q)' \/ PutAway(q)'
    BY DEF TakenIsKnown
  <2>1. UNCHANGED <<accepted, shared, unrecorded, answer>>
    BY <1>9 DEF Enqueue, Start, history
  <2>2. OnItsWay(q) \/ PutAway(q)
    BY <2>1
  <2>3. cur[w] = None /\ answer[w] = "none"
    BY <1>9 DEF Enqueue, Idle
  <2>4. q # r
    BY <1>9, <2>1, <2>2 DEF Enqueue, Fresh
  <2>5. status'[q] = status[q]
    BY <1>9, <2>4 DEF Enqueue
  <2>6. \A v \in Worker : cur'[v] = q <=> cur[v] = q
    BY <1>9, <2>3, <2>4 DEF Enqueue, Start
  <2>7. \A v \in Worker : hand'[v] \subseteq hand[v]
    BY <1>9 DEF Enqueue, Start
  <2> QED
    BY <2>1, <2>2, <2>5, <2>6, <2>7
<1>10. ASSUME NEW w \in Worker, NEW r \in Row, EnqueueFails(w, r) PROVE TakenIsKnown'
  <2> SUFFICES ASSUME NEW q \in Row \ (shared' \cup unrecorded'), accepted'[q] >= 1
               PROVE  OnItsWay(q)' \/ PutAway(q)'
    BY DEF TakenIsKnown
  <2>1. UNCHANGED <<accepted, shared, unrecorded, answer>>
    BY <1>10 DEF EnqueueFails, Start, history
  <2>2. OnItsWay(q) \/ PutAway(q)
    BY <2>1
  <2>3. cur[w] = None /\ answer[w] = "none"
    BY <1>10 DEF EnqueueFails, Idle
  <2>4. q # r
    BY <1>10, <2>1, <2>2 DEF EnqueueFails, Fresh
  <2>5. status'[q] = status[q]
    BY <1>10, <2>4 DEF EnqueueFails
  <2>6. \A v \in Worker : cur'[v] = q <=> cur[v] = q
    BY <1>10, <2>3, <2>4 DEF EnqueueFails, Start
  <2>7. \A v \in Worker : hand'[v] \subseteq hand[v]
    BY <1>10 DEF EnqueueFails, Start
  <2> QED
    BY <2>1, <2>2, <2>5, <2>6, <2>7
<1>11. ASSUME NEW r \in Row, Elapse(r) PROVE TakenIsKnown'
  BY <1>11 DEF Elapse, local, history
<1>12. CASE Unconfigure
  BY <1>12 DEF Unconfigure, table, local, history
<1> QED
  BY <1>1, <1>2, <1>3, <1>4, <1>5, <1>6, <1>7, <1>8, <1>9, <1>10, <1>11, <1>12, NextCases DEF WorkerStep

LEMMA OnceStep ==
    ASSUME Tracked, [Next]_vars
    PROVE  DuplicateHasACause'
<1> USE DEF Tracked, DuplicateHasACause, Typed, TypeOK
<1>1. SUFFICES ASSUME NEW q \in Row, accepted'[q] > 1, q \notin shared' \cup unrecorded'
               PROVE  FALSE
  OBVIOUS
<1>2. shared \subseteq shared' /\ unrecorded \subseteq unrecorded'
  <2>1. ASSUME NEW w \in Worker, WorkerStep(w)
        PROVE  shared \subseteq shared' /\ unrecorded \subseteq unrecorded'
    BY <2>1 DEF WorkerStep, List, Deliver, Record, RecordFails, Kill, Take, Close, Enqueue,
                EnqueueFails, Forget, history
  <2>2. CASE Unconfigure \/ \E r \in Row : Elapse(r)
    BY <2>2 DEF Unconfigure, Elapse, history
  <2>3. CASE UNCHANGED vars
    BY <2>3 DEF vars, history
  <2> QED
    BY <2>1, <2>2, <2>3, NextCases
<1>3. accepted[q] <= 1
  BY <1>1, <1>2
<1>4. PICK w \in Worker : Deliver(w)
  <2>1. \A w \in Worker : WorkerStep(w) /\ ~Deliver(w) => accepted' = accepted
    BY DEF WorkerStep, List, Record, RecordFails, Kill, Take, Close, Enqueue, EnqueueFails, history
  <2>2. Unconfigure \/ (\E r \in Row : Elapse(r)) => accepted' = accepted
    BY DEF Unconfigure, Elapse, history
  <2>3. UNCHANGED vars => accepted' = accepted
    BY DEF vars, history
  <2>4. accepted' # accepted
    BY <1>1, <1>3
  <2> QED
    BY <2>1, <2>2, <2>3, <2>4, NextCases
<1>5. q = cur[w] /\ accepted[q] >= 1
  BY <1>1, <1>3, <1>4 DEF Deliver, Sending, Accept
<1>6. OnItsWay(q) \/ PutAway(q)
  BY <1>1, <1>2, <1>5 DEF TakenIsKnown
<1>7. CASE OnItsWay(q)
  BY <1>1, <1>2, <1>4, <1>5, <1>7 DEF OnItsWay, OneHand, InHand, Deliver, Sending
<1>8. CASE PutAway(q)
  BY <1>5, <1>8 DEF PutAway, InHand
<1> QED
  BY <1>6, <1>7, <1>8

LEMMA TrackedHolds == Spec => []Tracked
<1>1. Init => Tracked
  <2>1. Init => Typed
    BY RowAssumption, BoundAssumption DEF Init, Typed, TypeOK, RestIsBlank
  <2>2. Init => OneHand /\ NotTwice /\ HeldIsOpen
    BY RowAssumption DEF Init, OneHand, NotTwice, HeldIsOpen, InHand
  <2>3. Init => TakenIsKnown /\ DuplicateHasACause
    BY DEF Init, TakenIsKnown, DuplicateHasACause
  <2> QED
    BY <2>1, <2>2, <2>3 DEF Tracked
<1>2. Tracked /\ [Next]_vars => Tracked'
  BY TypeStep, BlankStep, TwiceStep, OneHandStep, OpenStep, KnownStep, OnceStep
  DEF Tracked, Typed
<1> QED
  BY <1>1, <1>2, PTL DEF Spec

(***************************************************************************)
(* A destination takes a delivery twice only if two workers had it at once *)
(* or the answer to a send it took never reached the table.                *)
(***************************************************************************)
THEOREM DeliveriesDuplicates == Spec => []DuplicateHasACause
<1>1. Tracked => DuplicateHasACause
  BY DEF Tracked
<1> QED
  BY <1>1, TrackedHolds, PTL

(***************************************************************************)
(* A settled row changes its status only if two workers had it at once.    *)
(***************************************************************************)
THEOREM DeliveriesSettledUnlessShared == Spec => SettledUnlessShared
<1> DEFINE Reopens ==
      \A r \in Row : status[r] \in Settled /\ status'[r] # status[r] => r \in shared
<1>1. Tracked /\ [Next]_vars => Reopens
  <2> SUFFICES ASSUME Tracked, [Next]_vars, NEW q \in Row \ shared, status[q] \in Settled
               PROVE  status'[q] = status[q]
    OBVIOUS
  <2> USE DEF Tracked, Typed, TypeOK, HeldIsOpen, InHand
  <2>1. ASSUME NEW w \in Worker, WorkerStep(w) PROVE status'[q] = status[q]
    <3>1. CASE Record(w)
      <4>1. PICK r \in Row : cur[w] = r /\ Recorded(r)
        BY <3>1, RecordCases
      <4>2. q # r
        BY <4>1
      <4> QED
        BY <4>1, <4>2 DEF Recorded, table
    <3>2. ASSUME NEW r \in Row, Close(w, r) PROVE status'[q] = status[q]
      <4>1. Recorded(r) /\ q # r
        BY <3>2, CloseRecords DEF Close, Head
      <4> QED
        BY <4>1 DEF Recorded, table
    <3>3. ASSUME NEW r \in Row, Enqueue(w, r) \/ EnqueueFails(w, r)
          PROVE  status'[q] = status[q]
      BY <3>3 DEF Enqueue, EnqueueFails, Fresh
    <3>4. ASSUME NEW r \in Row, Take(w, r) PROVE status'[q] = status[q]
      BY <3>4 DEF Take, table
    <3>5. CASE List(w) \/ Deliver(w) \/ RecordFails(w) \/ Kill(w)
      BY <3>5 DEF List, Deliver, RecordFails, Kill, table
    <3> QED
      BY <2>1, <3>1, <3>2, <3>3, <3>4, <3>5 DEF WorkerStep
  <2>2. CASE Unconfigure \/ \E r \in Row : Elapse(r)
    BY <2>2 DEF Unconfigure, Elapse, table
  <2>3. CASE UNCHANGED vars
    BY <2>3 DEF vars, table
  <2> QED
    BY <2>1, <2>2, <2>3, NextCases
<1>2. Tracked /\ [Next]_vars => [Reopens]_vars
  BY <1>1
<1> QED
  BY <1>2, TrackedHolds, PTL DEF Spec, SettledUnlessShared

=============================================================================
