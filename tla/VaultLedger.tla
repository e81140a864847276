------------------------------ MODULE VaultLedger ------------------------------
(***************************************************************************)
(* What the quarantine promises about its items, whoever runs it and       *)
(* however its steps interleave: a file is taken into custody once, under  *)
(* a reference nobody had; while it is there the copy is the one that was  *)
(* taken; custody ends once, by giving the file back or by a purge, and    *)
(* a purge waits for the retention unless somebody asked for it.  Vault    *)
(* implements this ledger.                                                 *)
(***************************************************************************)
CONSTANTS Ref, Path, Content, Absent

VARIABLES
    status,     \* where the item of a reference stands
    origin,     \* where it was taken from
    sha,        \* what was taken
    copy,       \* what the vault can give back, Absent outside of custody
    retention,  \* whether the time it must be kept is "running" or "over"
    asked       \* whether somebody is purging it whatever its retention

record == <<origin, sha>>
ledger == <<status, record, copy, retention, asked>>

Init ==
    /\ status = [r \in Ref |-> "none"]
    /\ origin = [r \in Ref |-> Absent]
    /\ sha = [r \in Ref |-> Absent]
    /\ copy = [r \in Ref |-> Absent]
    /\ retention = [r \in Ref |-> "never"]
    /\ asked = [r \in Ref |-> FALSE]

Becomes(r, s) == status' = [status EXCEPT ![r] = s]

(* The file is recorded and its copy complete, in one step. *)
Take(r, f, c) ==
    /\ status[r] = "none"
    /\ Becomes(r, "quarantined")
    /\ origin' = [origin EXCEPT ![r] = f]
    /\ sha' = [sha EXCEPT ![r] = c]
    /\ copy' = [copy EXCEPT ![r] = c]
    /\ \E t \in {"never", "running"} : retention' = [retention EXCEPT ![r] = t]
    /\ UNCHANGED asked

GiveBack(r) ==
    /\ status[r] = "quarantined"
    /\ Becomes(r, "restored")
    /\ copy' = [copy EXCEPT ![r] = Absent]
    /\ UNCHANGED <<record, retention, asked>>

(* Whoever asked may still be at it when somebody else's purge came first. *)
Purge(r) ==
    /\ status[r] = "quarantined"
    /\ retention[r] = "over" \/ asked[r]
    /\ Becomes(r, "purged")
    /\ copy' = [copy EXCEPT ![r] = Absent]
    /\ asked' \in {asked, [asked EXCEPT ![r] = FALSE]}
    /\ UNCHANGED <<record, retention>>

(* Somebody starts a forced purge, or gives one up. *)
Ask(r) ==
    /\ asked' = [asked EXCEPT ![r] = ~@]
    /\ UNCHANGED <<status, record, copy, retention>>

RetentionEnds(r) ==
    /\ retention[r] = "running"
    /\ retention' = [retention EXCEPT ![r] = "over"]
    /\ UNCHANGED <<status, record, copy, asked>>

Next ==
    \E r \in Ref :
        \/ \E f \in Path, c \in Content : Take(r, f, c)
        \/ GiveBack(r) \/ Purge(r) \/ Ask(r) \/ RetentionEnds(r)

Spec == Init /\ [][Next]_ledger
=============================================================================
