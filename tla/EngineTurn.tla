----------------------------- MODULE EngineTurn ------------------------------
(***************************************************************************)
(* What the cycle is promised of an engine's turn, whichever engine it is  *)
(* and however its batches, processes and parsers go: while the turn lasts *)
(* files are looked at as they are on disk at that moment, and nothing is  *)
(* said; it ends with no answer, an abstention that names no file, or a    *)
(* vote, which is given once and answers for everything that was asked.    *)
(* Engines implements this.                                                *)
(***************************************************************************)
CONSTANTS
    File, Content,
    Genuine,     \* the content that is as published
    Unseen       \* of a file that has not been looked at

VARIABLES
    disk,        \* the content of each file
    running,     \* a turn is under way
    rules,       \* <<file, content>> pairs that this turn has to report
    asked,       \* the files a vote of this turn answers for
    seen,        \* what was seen in each file
    lost,        \* files nobody can know were missed
    answer       \* what the cycle is told

turn == <<rules, asked, seen, lost>>
contract == <<disk, running, turn, answer>>

Silence == [kind |-> "none", blamed |-> {}, cleared |-> {}, counted |-> {}]

Alarming(f) == <<f, seen[f]>> \in rules

Abstention(a) == a.kind = "abstention" /\ a.blamed = {} /\ a.cleared = {}

(* It blames what it saw to be wrong, clears what it saw to be genuine,    *)
(* and of the rest of what it was asked says that it was not looked at.    *)
Vote(a) ==
    /\ a.kind = "vote"
    /\ \A f \in a.blamed : f \in File /\ Alarming(f)
    /\ \A f \in a.cleared : f \in File /\ seen[f] = Genuine
    /\ \A f \in asked \ lost :
         f \in a.counted \/ (seen[f] # Unseen /\ (Alarming(f) => f \in a.blamed))

Init ==
    /\ disk \in [File -> Content]
    /\ ~running
    /\ rules \subseteq File \X Content
    /\ asked = {} /\ lost = {}
    /\ seen = [f \in File |-> Unseen]
    /\ answer = Silence

Begin ==
    /\ ~running /\ running'
    /\ rules' \subseteq File \X Content
    /\ asked' \subseteq File
    /\ seen' = [f \in File |-> Unseen]
    /\ lost' = {}
    /\ answer' = Silence
    /\ UNCHANGED disk

(* More may turn out to be asked, or to be lost, but never less. *)
Look ==
    /\ running
    /\ seen' \in [File -> Content \cup {Unseen}]
    /\ \A f \in File : seen'[f] \in {seen[f], disk[f]}
    /\ asked \subseteq asked' /\ asked' \subseteq File
    /\ lost \subseteq lost' /\ lost' \subseteq File
    /\ UNCHANGED <<disk, running, rules, answer>>

Change ==
    /\ disk' \in [File -> Content]
    /\ UNCHANGED <<running, turn, answer>>

Finish ==
    /\ running /\ ~running'
    /\ answer' = Silence \/ Abstention(answer') \/ Vote(answer')
    /\ UNCHANGED <<disk, turn>>

Next == Begin \/ Look \/ Change \/ Finish

Spec == Init /\ [][Next]_contract
=============================================================================
