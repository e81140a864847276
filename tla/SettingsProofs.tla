---------------------------- MODULE SettingsProofs -----------------------------
(***************************************************************************)
(* What holds of the configuration and its copies for any number of scans  *)
(* started by cron, any paths, any grace period and any number of edits.   *)
(***************************************************************************)
EXTENDS Settings, TLAPS

USE HoldersAssumption, BoundsAssumption, SentinelsAssumption

(* A cycle of cron's knows when it started, and only cron's record it. *)
StartedIsADay ==
    \A p \in Scanner :
        /\ pc[p] = "record" => p \in Cron
        /\ p \in Cron /\ pc[p] \in {"judging", "acting", "record"} => started[p] # 0

(* Whoever judges or acts holds the lock. *)
ScanHoldsLock == \A p \in Scanner : pc[p] \in {"judging", "acting"} => lock = p

(* The verdicts of a scan respect the whitelist that is in its memory. *)
SuspectsAreListedNowhere ==
    \A p \in Scanner : pc[p] = "acting" => suspects[p] \cap copy[p].white = {}

(* No copy knows of a first cycle before the earliest recorded one. *)
FirstIsBorn ==
    \A c \in {file} \cup {copy[h] : h \in Holder} :
        c \in Config /\ c.first # 0 => born # 0 /\ born <= c.first

(* What a copy lacks of the file's whitelist came in after it was made. *)
Explained ==
    \A h \in Holder :
        copy[h] # None => Whitelisted(file) \subseteq copy[h].white \cup missed[h]

IInv ==
    /\ TypeOK /\ StartedIsADay /\ ScanHoldsLock /\ SuspectsAreListedNowhere
    /\ FirstIsBorn /\ Explained

-----------------------------------------------------------------------------
(* Records of the type Config are compared and changed field by field.     *)

LEMMA ConfigFields ==
    ASSUME NEW c \in Config
    PROVE  /\ c.white \subseteq Path /\ c.act \in BOOLEAN
           /\ c.grace \in {0, Grace} /\ c.first \in 0 .. Days
           /\ c # None /\ c # Broken
BY DEF Config

LEMMA DefaultIsConfig == Default \in Config
BY DEF Default, Config

LEMMA ConfigWithFirst ==
    ASSUME NEW c \in Config, NEW d \in 0 .. Days
    PROVE  /\ [c EXCEPT !.first = d] \in Config
           /\ [c EXCEPT !.first = d].first = d
           /\ [c EXCEPT !.first = d].white = c.white
BY DEF Config

LEMMA ConfigWithPath ==
    ASSUME NEW c \in Config, NEW f \in Path
    PROVE  /\ [c EXCEPT !.white = @ \cup {f}] \in Config
           /\ [c EXCEPT !.white = @ \cup {f}].first = c.first
           /\ [c EXCEPT !.white = @ \cup {f}].white = c.white \cup {f}
BY DEF Config

LEMMA ConfigWithAct ==
    ASSUME NEW c \in Config
    PROVE  /\ [c EXCEPT !.act = ~@] \in Config
           /\ [c EXCEPT !.act = ~@].first = c.first
BY DEF Config

LEMMA ConfigWithPage ==
    ASSUME NEW c \in Config, NEW w \in SUBSET Path, NEW a \in BOOLEAN,
           NEW g \in {0, Grace}
    PROVE  [white |-> w, act |-> a, grace |-> g, first |-> c.first] \in Config
BY DEF Config

(* What the user writes into the file is a configuration whose record of   *)
(* the first cycle is the file's or none.                                  *)
LEMMA HandEditIsConfig ==
    ASSUME TypeOK, HandEdits
    PROVE  \E c \in Config \cup {Broken} :
              /\ HandEdit(c)
              /\ c \in Config => file # Broken /\ c.first = file.first
<1>1. CASE HandEdit(Broken)
    BY <1>1
<1>2. CASE file # Broken /\ \E f \in Path : HandEdit([file EXCEPT !.white = @ \cup {f}])
    <2>1. PICK f \in Path : HandEdit([file EXCEPT !.white = @ \cup {f}])
        BY <1>2
    <2>2. file \in Config
        BY <1>2 DEF TypeOK
    <2> QED
        BY <1>2, <2>1, <2>2, ConfigWithPath
<1>3. CASE file # Broken /\ HandEdit([file EXCEPT !.act = ~@])
    <2>1. file \in Config
        BY <1>3 DEF TypeOK
    <2> QED
        BY <1>3, <2>1, ConfigWithAct
<1> QED
    BY <1>1, <1>2, <1>3 DEF HandEdits

-----------------------------------------------------------------------------
(* Every save keeps the types of the file and of what was missed.          *)

LEMMA SaveType ==
    ASSUME TypeOK, NEW c \in Config \cup {Broken}, NEW owners, Save(c, owners)
    PROVE  file' \in Config \cup {Broken} /\ missed' \in [Holder -> SUBSET Path]
<1>1. Whitelisted(c) \subseteq Path
    BY ConfigFields DEF Whitelisted
<1> QED
    BY <1>1 DEF TypeOK, Save

LEMMA ForgetType ==
    ASSUME TypeOK, NEW p \in Scanner, Forget(p)
    PROVE  copy' \in [Holder -> Config \cup {None}] /\ missed' \in [Holder -> SUBSET Path]
BY DEF TypeOK, Forget, Holder

LEMMA ScanType ==
    ASSUME TypeOK, NEW p \in Scanner, Start(p) \/ Trigger(p) \/ Scan(p) \/ Kill(p)
    PROVE  TypeOK'
<1> USE DEF TypeOK, memory, Goto, Step, Holder
<1>1. CASE Start(p)
    BY <1>1 DEF Start, LoadInto
<1>2. CASE Trigger(p)
    BY <1>2 DEF Trigger
<1>3. CASE Acquire(p)
    <2>1. CASE End(p) /\ UNCHANGED lock
        BY <1>3, <2>1, ForgetType DEF Acquire, End, Forget
    <2>2. CASE ~(End(p) /\ UNCHANGED lock)
        BY <1>3, <2>2 DEF Acquire
    <2> QED
        BY <2>1, <2>2
<1>4. CASE Judge(p)
    BY <1>4 DEF Judge
<1>5. CASE Act(p)
    BY <1>5 DEF Act
<1>6. CASE FailScan(p)
    BY <1>6, ForgetType DEF FailScan, End, Forget
<1>7. CASE Record(p)
    <2>0. copy[p] \in Config /\ started[p] \in 0 .. Days
        BY <1>7 DEF Record
    <2>1. CASE copy[p].first = 0
        <3>1. [copy[p] EXCEPT !.first = started[p]] \in Config
            BY <2>0, ConfigWithFirst
        <3>2. file' \in Config \cup {Broken} /\ missed' \in [Holder -> SUBSET Path]
            BY <1>7, <2>1, <3>1, SaveType DEF Record
        <3>3. born' \in 0 .. Days
            BY <1>7, <2>0, <2>1 DEF Record, Earlier
        <3>4. /\ UNCHANGED <<lock, suspects, taken, day, edits>>
              /\ started' = [started EXCEPT ![p] = 0]
              /\ copy' = [copy EXCEPT ![p] = None] /\ pc' = [pc EXCEPT ![p] = "off"]
            BY <1>7 DEF Record
        <3> QED
            BY <3>2, <3>3, <3>4
    <2>2. CASE copy[p].first # 0
        BY <1>7, <2>2 DEF Record
    <2> QED
        BY <2>1, <2>2
<1>8. CASE Kill(p)
    BY <1>8, ForgetType DEF Kill, Forget
<1> QED
    BY <1>1, <1>2, <1>3, <1>4, <1>5, <1>6, <1>7, <1>8 DEF Scan

LEMMA PublishType ==
    ASSUME TypeOK, NEW c \in Config, Publish(c)
    PROVE  TypeOK'
BY SaveType DEF TypeOK, Publish, scan, Holder, Scanner

LEMMA UserType ==
    ASSUME TypeOK, User \/ NextDay \/ UNCHANGED vars
    PROVE  TypeOK'
<1>0. MayMutate => copy[Panel] \in Config
    BY DEF TypeOK, MayMutate, Holder, Scanner
<1>1. ASSUME NEW f \in Path, Whitelist(f) PROVE TypeOK'
    BY <1>0, <1>1, ConfigWithPath, PublishType DEF Whitelist, Publish
<1>2. CASE PutOtherTab
    BY <1>0, <1>2, PublishType DEF PutOtherTab, Publish
<1>3. CASE PutsSettings
    <2>1. PICK w \in SUBSET Path, a \in BOOLEAN, g \in {0, Grace} : PutSettings(w, a, g)
        BY <1>3 DEF PutsSettings
    <2> DEFINE c == [white |-> w, act |-> a, grace |-> g, first |-> copy[Panel].first]
    <2>1a. copy[Panel] \in Config
        BY <1>0, <2>1 DEF PutSettings
    <2>2. c \in Config
        BY <2>1a, ConfigWithPage
    <2>3. /\ Save(c, {Panel, Page}) /\ copy' = [copy EXCEPT ![Panel] = c, ![Page] = c]
          /\ edits < MaxEdits /\ edits' = edits + 1 /\ UNCHANGED <<scan, taken, day, born>>
        BY <2>1 DEF PutSettings
    <2> HIDE DEF c
    <2> QED
        BY <2>2, <2>3, SaveType DEF TypeOK, scan, Holder, Scanner
<1>4. CASE OpenPage
    BY <1>4 DEF TypeOK, OpenPage, scan, Holder, Scanner
<1>5. CASE HandEdits
    <2>1. PICK c \in Config \cup {Broken} : HandEdit(c)
        BY <1>5, HandEditIsConfig
    <2> QED
        BY <2>1, SaveType DEF TypeOK, HandEdit, scan
<1>6. CASE InitForce
    BY <1>6, DefaultIsConfig, SaveType DEF TypeOK, InitForce, scan
<1>7. ASSUME NEW f \in Path, PutBack(f) PROVE TypeOK'
    BY <1>7 DEF TypeOK, PutBack, memory, scan
<1>8. CASE NextDay
    BY <1>8 DEF TypeOK, NextDay, memory, scan
<1>9. CASE UNCHANGED vars
    BY <1>9 DEF TypeOK, vars, memory, scan
<1> QED
    BY <1>1, <1>2, <1>3, <1>4, <1>5, <1>6, <1>7, <1>8, <1>9 DEF User

LEMMA TypeStep ==
    ASSUME TypeOK, [Next]_vars
    PROVE  TypeOK'
BY ScanType, UserType DEF Next

LEMMA InitTypeOK == Init => TypeOK
BY DefaultIsConfig DEF Init, TypeOK, Step

(* In every behaviour the file, the copies and the scans keep their types, *)
(* and a process that runs has a configuration.                            *)
THEOREM SettingsTypeOK == Spec => []TypeOK
BY InitTypeOK, TypeStep, PTL DEF Spec

-----------------------------------------------------------------------------
(* The user's actions leave scans, lock and vault contents to the scans.   *)

LEMMA UserLeavesScans ==
    ASSUME User \/ NextDay \/ UNCHANGED vars
    PROVE  /\ UNCHANGED <<pc, lock, started, suspects, born>>
           /\ taken' \subseteq taken
BY DEF User, NextDay, vars, scan, memory, Whitelist, PutOtherTab, Publish, PutsSettings,
       PutSettings, OpenPage, HandEdits, HandEdit, InitForce, PutBack

LEMMA StartedStep ==
    ASSUME IInv, [Next]_vars
    PROVE  StartedIsADay'
<1>0. TypeOK /\ StartedIsADay
    BY DEF IInv
<1>1. ASSUME NEW p \in Scanner, Start(p) \/ Trigger(p) \/ Scan(p) \/ Kill(p)
      PROVE  StartedIsADay'
    BY <1>0, <1>1
    DEF TypeOK, StartedIsADay, Start, Trigger, Scan, Kill, Acquire, Judge, Act, FailScan,
        Record, End, Goto, Scanner
<1>2. CASE User \/ NextDay \/ UNCHANGED vars
    BY <1>0, <1>2, UserLeavesScans DEF StartedIsADay
<1> QED
    BY <1>1, <1>2 DEF Next

LEMMA LockStep ==
    ASSUME IInv, [Next]_vars
    PROVE  ScanHoldsLock'
<1>0. TypeOK /\ ScanHoldsLock
    BY DEF IInv
<1>1. ASSUME NEW p \in Scanner, Start(p) \/ Trigger(p) \/ Scan(p) \/ Kill(p)
      PROVE  ScanHoldsLock'
    <2> USE <1>0 DEF TypeOK, ScanHoldsLock, Goto
    <2>1. CASE Start(p) \/ Trigger(p)
        BY <2>1 DEF Start, Trigger
    <2>2. CASE Acquire(p)
        BY <2>2 DEF Acquire, End, Holder
    <2>3. CASE Judge(p) \/ Act(p) \/ FailScan(p) \/ Record(p)
        BY <2>3 DEF Judge, Act, FailScan, Record, End
    <2>4. CASE Kill(p)
        BY <2>4 DEF Kill
    <2> QED
        BY <1>1, <2>1, <2>2, <2>3, <2>4 DEF Scan
<1>2. CASE User \/ NextDay \/ UNCHANGED vars
    BY <1>0, <1>2, UserLeavesScans DEF ScanHoldsLock
<1> QED
    BY <1>1, <1>2 DEF Next

(* While a scan of the panel is under way, the panel's copy does not move: *)
(* MayMutate; the other copies are their processes' own.                   *)
LEMMA CopiesOfScans ==
    ASSUME TypeOK, User \/ NextDay \/ UNCHANGED vars, NEW p \in Scanner, pc[p] = "acting"
    PROVE  copy'[p] = copy[p]
<1>1. ASSUME NEW c, Publish(c) PROVE copy'[p] = copy[p]
    BY <1>1 DEF Publish, MayMutate, TypeOK
<1>2. CASE PutsSettings
    <2>1. PICK w \in SUBSET Path, a \in BOOLEAN, g \in {0, Grace} : PutSettings(w, a, g)
        BY <1>2 DEF PutsSettings
    <2>2. PICK c : copy' = [copy EXCEPT ![Panel] = c, ![Page] = c]
        BY <2>1 DEF PutSettings
    <2>3. p # Panel /\ p # Page
        BY <2>1 DEF PutSettings, MayMutate
    <2> QED
        BY <2>2, <2>3 DEF TypeOK, Holder
<1>3. CASE OpenPage
    BY <1>3 DEF OpenPage, TypeOK
<1> QED
    BY <1>1, <1>2, <1>3
    DEF User, NextDay, vars, memory, Whitelist, PutOtherTab, HandEdits, HandEdit,
        InitForce, PutBack

LEMMA SuspectsStep ==
    ASSUME IInv, [Next]_vars
    PROVE  SuspectsAreListedNowhere'
<1>0. TypeOK /\ SuspectsAreListedNowhere
    BY DEF IInv
<1>1. ASSUME NEW p \in Scanner, Start(p) \/ Trigger(p) \/ Scan(p) \/ Kill(p)
      PROVE  SuspectsAreListedNowhere'
    <2> USE <1>0 DEF TypeOK, SuspectsAreListedNowhere, Goto, memory, Holder
    <2>1. CASE Start(p) \/ Trigger(p)
        BY <2>1 DEF Start, Trigger, LoadInto
    <2>2. CASE Acquire(p) \/ FailScan(p)
        BY <2>2 DEF Acquire, FailScan, End, Forget
    <2>3. CASE Judge(p)
        BY <2>3 DEF Judge
    <2>4. CASE Act(p)
        BY <2>4 DEF Act
    <2>5. CASE Record(p) \/ Kill(p)
        BY <2>5 DEF Record, Kill, Forget
    <2> QED
        BY <1>1, <2>1, <2>2, <2>3, <2>4, <2>5 DEF Scan
<1>2. CASE User \/ NextDay \/ UNCHANGED vars
    BY <1>0, <1>2, UserLeavesScans, CopiesOfScans DEF SuspectsAreListedNowhere
<1> QED
    BY <1>1, <1>2 DEF Next

-----------------------------------------------------------------------------
(* A copy is loaded from the file, or from the panel's; what is written is *)
(* a copy, or a file whose record of the first cycle is unchanged or gone. *)

LEMMA SaveKeepsBorn ==
    ASSUME FirstIsBorn, TypeOK, NEW c \in Config \cup {Broken}, file' = c,
           UNCHANGED born,
           \A h \in Holder : copy'[h] \in {None, c} \cup {copy[g] : g \in Holder},
           c \in Config => c.first \in {0} \cup {x.first : x \in {file} \cap Config}
                                \cup {copy[h].first : h \in {g \in Holder : copy[g] # None}}
    PROVE  FirstIsBorn'
<1>1. c \in Config /\ c.first # 0 => born # 0 /\ born <= c.first
    BY DEF FirstIsBorn, TypeOK
<1>2. ASSUME NEW h \in Holder, copy'[h] \in Config, copy'[h].first # 0
      PROVE  born # 0 /\ born <= copy'[h].first
    BY <1>1, <1>2 DEF FirstIsBorn
<1> QED
    BY <1>1, <1>2 DEF FirstIsBorn

LEMMA CopyKeepsBorn ==
    ASSUME FirstIsBorn, UNCHANGED <<file, born>>,
           \A h \in Holder : copy'[h] \in {None, file} \cup {copy[g] : g \in Holder}
    PROVE  FirstIsBorn'
<1>1. ASSUME NEW c \in {file'} \cup {copy'[h] : h \in Holder}
      PROVE  c \in {file, None} \cup {copy[h] : h \in Holder}
    BY <1>1
<1>2. ASSUME NEW c \in {file'} \cup {copy'[h] : h \in Holder}, c \in Config, c.first # 0
      PROVE  born # 0 /\ born <= c.first
    <2>1. c # None
        BY <1>2
    <2>2. c \in {file} \cup {copy[h] : h \in Holder}
        BY <1>1, <1>2, <2>1
    <2> QED
        BY <1>2, <2>2 DEF FirstIsBorn
<1> QED
    BY <1>2 DEF FirstIsBorn

LEMMA ScanBorn ==
    ASSUME IInv, NEW p \in Scanner, Start(p) \/ Trigger(p) \/ Scan(p) \/ Kill(p)
    PROVE  FirstIsBorn'
<1>0. TypeOK /\ StartedIsADay /\ FirstIsBorn /\ p \in Holder
    BY DEF IInv, Holder
<1>1. CASE Start(p)
    BY <1>0, <1>1, CopyKeepsBorn DEF Start, LoadInto, TypeOK
<1>2. CASE Trigger(p) \/ Judge(p) \/ Act(p)
    BY <1>0, <1>2, CopyKeepsBorn DEF Trigger, Judge, Act, memory
<1>3. CASE Acquire(p) \/ FailScan(p) \/ Kill(p)
    BY <1>0, <1>3, CopyKeepsBorn
    DEF Acquire, FailScan, Kill, End, Forget, memory, TypeOK
<1>4. CASE Record(p)
    <2>1. CASE copy[p].first # 0
        BY <1>0, <1>4, <2>1, CopyKeepsBorn DEF Record, TypeOK
    <2>2. CASE copy[p].first = 0
        <3> DEFINE c == [copy[p] EXCEPT !.first = started[p]]
        <3>1. copy[p] \in Config /\ started[p] \in 0 .. Days /\ started[p] # 0
            BY <1>0, <1>4 DEF TypeOK, Record, StartedIsADay
        <3>2. c.first = started[p] /\ file' = c /\ born' = Earlier(born, started[p])
            BY <1>4, <2>2, <3>1, ConfigWithFirst DEF Record, Save
        <3>3. /\ born' \in 0 .. Days /\ born' # 0 /\ born' <= started[p]
              /\ born # 0 => born' <= born
            BY <1>0, <3>1, <3>2 DEF Earlier, TypeOK
        <3>4. \A h \in Holder : copy'[h] \in {None, copy[h]}
            BY <1>0, <1>4 DEF Record, TypeOK
        <3> HIDE DEF c
        <3>5. ASSUME NEW h \in Holder, copy'[h] \in Config, copy'[h].first # 0
              PROVE  born' <= copy'[h].first
            <4>1. copy[h] \in Config /\ copy[h].first # 0 /\ copy'[h] = copy[h]
                BY <3>4, <3>5
            <4>2. born # 0 /\ born <= copy[h].first /\ copy[h].first \in 0 .. Days
                BY <1>0, <4>1, ConfigFields DEF FirstIsBorn
            <4> QED
                BY <1>0, <3>1, <3>3, <4>1, <4>2 DEF TypeOK
        <3> QED
            BY <3>2, <3>3, <3>5 DEF FirstIsBorn
    <2> QED
        BY <2>1, <2>2
<1> QED
    BY <1>1, <1>2, <1>3, <1>4 DEF Scan

LEMMA UserBorn ==
    ASSUME IInv, User \/ NextDay \/ UNCHANGED vars
    PROVE  FirstIsBorn'
<1>0. TypeOK /\ FirstIsBorn /\ Panel \in Holder /\ Page \in Holder
    BY DEF IInv, Holder, Scanner
<1>1. MayMutate => copy[Panel] \in Config
    BY <1>0 DEF TypeOK, MayMutate, Scanner
<1>2. ASSUME NEW c \in Config, Publish(c), c.first = copy[Panel].first PROVE FirstIsBorn'
    <2>1. copy[Panel] # None /\ UNCHANGED born /\ file' = c
            /\ copy' = [copy EXCEPT ![Panel] = c]
        BY <1>1, <1>2, ConfigFields DEF Publish, Save
    <2>2. \A h \in Holder : copy'[h] \in {None, c} \cup {copy[g] : g \in Holder}
        BY <1>0, <2>1 DEF TypeOK
    <2> QED
        BY <1>0, <1>2, <2>1, <2>2, SaveKeepsBorn
<1>3. ASSUME NEW f \in Path, Whitelist(f) PROVE FirstIsBorn'
    <2>1. copy[Panel] \in Config
        BY <1>1, <1>3 DEF Whitelist, Publish
    <2> QED
        BY <1>2, <1>3, <2>1, ConfigWithPath DEF Whitelist
<1>4. CASE PutOtherTab
    BY <1>1, <1>2, <1>4 DEF PutOtherTab, Publish
<1>5. CASE PutsSettings
    <2>1. PICK w \in SUBSET Path, a \in BOOLEAN, g \in {0, Grace} : PutSettings(w, a, g)
        BY <1>5 DEF PutsSettings
    <2> DEFINE c == [white |-> w, act |-> a, grace |-> g, first |-> copy[Panel].first]
    <2>1a. copy[Panel] \in Config
        BY <1>1, <2>1 DEF PutSettings
    <2>2. c \in Config /\ c.first = copy[Panel].first /\ copy[Panel] # None
        BY <2>1a, ConfigWithPage, ConfigFields
    <2>3. /\ file' = c /\ copy' = [copy EXCEPT ![Panel] = c, ![Page] = c]
          /\ UNCHANGED born
        BY <2>1 DEF PutSettings, Save
    <2> HIDE DEF c
    <2>4. \A h \in Holder : copy'[h] \in {None, c} \cup {copy[k] : k \in Holder}
        BY <1>0, <2>3 DEF TypeOK
    <2> QED
        BY <1>0, <2>2, <2>3, <2>4, SaveKeepsBorn
<1>6. CASE OpenPage
    BY <1>0, <1>6, CopyKeepsBorn DEF OpenPage, TypeOK
<1>7. CASE HandEdits
    <2>1. PICK c \in Config \cup {Broken} :
             HandEdit(c) /\ (c \in Config => file # Broken /\ c.first = file.first)
        BY <1>0, <1>7, HandEditIsConfig
    <2>2. c \in Config => c.first \in {x.first : x \in {file} \cap Config}
        BY <1>0, <2>1 DEF TypeOK
    <2> QED
        BY <1>0, <2>1, <2>2, SaveKeepsBorn DEF HandEdit, Save
<1>8. CASE InitForce
    BY <1>0, <1>8, SaveKeepsBorn, DefaultIsConfig DEF InitForce, Save, Default
<1>9. CASE NextDay \/ UNCHANGED vars \/ \E f \in Path : PutBack(f)
    BY <1>0, <1>9, CopyKeepsBorn DEF NextDay, vars, memory, PutBack
<1> QED
    BY <1>3, <1>4, <1>5, <1>6, <1>7, <1>8, <1>9 DEF User

LEMMA BornStep ==
    ASSUME IInv, [Next]_vars
    PROVE  FirstIsBorn'
BY ScanBorn, UserBorn DEF Next

-----------------------------------------------------------------------------
(* A new content of the file is explained to every holder: its owners have *)
(* it, and the others have missed what came in.                            *)

LEMMA SaveExplains ==
    ASSUME TypeOK, Explained, NEW c \in Config \cup {Broken}, NEW owners \in SUBSET Holder,
           Save(c, owners),
           \A h \in Holder :
              IF h \in owners THEN copy'[h] \in {c, None} ELSE copy'[h] = copy[h]
    PROVE  Explained'
<1>1. ASSUME NEW h \in Holder, copy'[h] # None
      PROVE  Whitelisted(c) \subseteq copy'[h].white \cup missed'[h]
    <2>1. CASE h \in owners
        <3>1. copy'[h] = c
            BY <1>1, <2>1
        <3>2. Whitelisted(c) \subseteq c.white
            BY <1>1, <3>1, ConfigFields DEF Whitelisted
        <3> QED
            BY <3>1, <3>2
    <2>2. CASE h \notin owners
        BY <1>1, <2>2 DEF Explained, Save
    <2> QED
        BY <2>1, <2>2
<1> QED
    BY <1>1 DEF Explained, Save, Whitelisted

LEMMA MemoryKeepsExplained ==
    ASSUME TypeOK, Explained, UNCHANGED file,
           \A h \in Holder :
              \/ copy'[h] = None
              \/ copy'[h] = file /\ file \in Config
              \/ \E g \in Holder : copy'[h] = copy[g] /\ missed'[h] = missed[g]
    PROVE  Explained'
<1>1. ASSUME NEW h \in Holder, copy'[h] # None
      PROVE  Whitelisted(file) \subseteq copy'[h].white \cup missed'[h]
    <2>1. CASE copy'[h] = file /\ file \in Config
        BY <2>1, ConfigFields DEF Whitelisted
    <2>2. CASE \E g \in Holder : copy'[h] = copy[g] /\ missed'[h] = missed[g]
        BY <1>1, <2>2 DEF Explained
    <2> QED
        BY <1>1, <2>1, <2>2
<1> QED
    BY <1>1 DEF Explained, Whitelisted

LEMMA ScanExplained ==
    ASSUME IInv, NEW p \in Scanner, Start(p) \/ Trigger(p) \/ Scan(p) \/ Kill(p)
    PROVE  Explained'
<1>0. TypeOK /\ Explained /\ p \in Holder
    BY DEF IInv, Holder
<1>1. CASE Start(p)
    BY <1>0, <1>1, MemoryKeepsExplained DEF Start, LoadInto, TypeOK
<1>2. CASE Trigger(p) \/ Judge(p) \/ Act(p)
    BY <1>0, <1>2, MemoryKeepsExplained DEF Trigger, Judge, Act, memory
<1>3. CASE Acquire(p) \/ FailScan(p) \/ Kill(p)
    BY <1>0, <1>3, MemoryKeepsExplained
    DEF Acquire, FailScan, Kill, End, Forget, memory, TypeOK
<1>4. CASE Record(p)
    <2>1. CASE copy[p].first # 0
        BY <1>0, <1>4, <2>1, MemoryKeepsExplained DEF Record, TypeOK
    <2>2. CASE copy[p].first = 0
        <3> DEFINE c == [copy[p] EXCEPT !.first = started[p]]
        <3>1. c \in Config
            BY <1>0, <1>4, ConfigWithFirst DEF TypeOK, Record
        <3>2. Save(c, {p}) /\ copy' = [copy EXCEPT ![p] = None]
            BY <1>4, <2>2 DEF Record
        <3> HIDE DEF c
        <3> QED
            BY <1>0, <3>1, <3>2, SaveExplains DEF TypeOK
    <2> QED
        BY <2>1, <2>2
<1> QED
    BY <1>1, <1>2, <1>3, <1>4 DEF Scan

LEMMA UserExplained ==
    ASSUME IInv, User \/ NextDay \/ UNCHANGED vars
    PROVE  Explained'
<1>0. TypeOK /\ Explained /\ Panel \in Holder /\ Page \in Holder
    BY DEF IInv, Holder, Scanner
<1>1. MayMutate => copy[Panel] \in Config
    BY <1>0 DEF TypeOK, MayMutate, Scanner
<1>2. ASSUME NEW c \in Config, Publish(c) PROVE Explained'
    <2>1. Save(c, {Panel}) /\ copy' = [copy EXCEPT ![Panel] = c]
        BY <1>2 DEF Publish
    <2> QED
        BY <1>0, <2>1, SaveExplains DEF TypeOK
<1>3. ASSUME NEW f \in Path, Whitelist(f) PROVE Explained'
    <2>1. copy[Panel] \in Config
        BY <1>1, <1>3 DEF Whitelist, Publish
    <2> QED
        BY <1>2, <1>3, <2>1, ConfigWithPath DEF Whitelist
<1>4. CASE PutOtherTab
    BY <1>1, <1>2, <1>4 DEF PutOtherTab, Publish
<1>5. CASE PutsSettings
    <2>1. PICK w \in SUBSET Path, a \in BOOLEAN, g \in {0, Grace} : PutSettings(w, a, g)
        BY <1>5 DEF PutsSettings
    <2> DEFINE c == [white |-> w, act |-> a, grace |-> g, first |-> copy[Panel].first]
    <2>2. copy[Panel] \in Config
        BY <1>1, <2>1 DEF PutSettings
    <2>3. c \in Config
        BY <2>2, ConfigWithPage
    <2>4. Save(c, {Panel, Page}) /\ copy' = [copy EXCEPT ![Panel] = c, ![Page] = c]
        BY <2>1 DEF PutSettings
    <2> HIDE DEF c
    <2> QED
        BY <1>0, <2>3, <2>4, SaveExplains DEF TypeOK
<1>6. CASE OpenPage
    BY <1>0, <1>6, MemoryKeepsExplained DEF OpenPage, TypeOK
<1>7. CASE HandEdits
    <2>1. PICK c \in Config \cup {Broken} : HandEdit(c)
        BY <1>0, <1>7, HandEditIsConfig
    <2> QED
        BY <1>0, <2>1, SaveExplains DEF HandEdit
<1>8. CASE InitForce
    BY <1>0, <1>8, SaveExplains, DefaultIsConfig DEF InitForce
<1>9. CASE NextDay \/ UNCHANGED vars \/ \E f \in Path : PutBack(f)
    BY <1>0, <1>9, MemoryKeepsExplained DEF NextDay, vars, memory, PutBack
<1> QED
    BY <1>3, <1>4, <1>5, <1>6, <1>7, <1>8, <1>9 DEF User

-----------------------------------------------------------------------------
(* The inductive invariant                                                 *)

LEMMA InitIInv == Init => IInv
<1>1. ASSUME Init PROVE StartedIsADay /\ ScanHoldsLock /\ SuspectsAreListedNowhere
    BY <1>1 DEF Init, StartedIsADay, ScanHoldsLock, SuspectsAreListedNowhere
<1>2. ASSUME Init PROVE FirstIsBorn
    BY <1>2, SentinelsAssumption DEF Init, FirstIsBorn, Default
<1>3. ASSUME Init PROVE Explained
    BY <1>3 DEF Init, Explained
<1> QED
    BY <1>1, <1>2, <1>3, InitTypeOK DEF IInv

LEMMA IInvStep ==
    ASSUME IInv, [Next]_vars
    PROVE  IInv'
<1>1. TypeOK'
    BY TypeStep DEF IInv
<1>2. Explained'
    BY ScanExplained, UserExplained DEF Next
<1> QED
    BY <1>1, <1>2, StartedStep, LockStep, SuspectsStep, BornStep DEF IInv

LEMMA IInvAlways == Spec => []IInv
BY InitIInv, IInvStep, PTL DEF Spec

(* Only the act of a scan puts files in the vault.                         *)
LEMMA OnlyActTakes ==
    ASSUME [Next]_vars, ~(taken' \subseteq taken)
    PROVE  \E p \in Scanner :
              /\ Act(p) /\ AutomaticActionAllowed(copy[p], day)
              /\ taken' = taken \cup suspects[p]
<1>1. PICK p \in Scanner : Start(p) \/ Trigger(p) \/ Scan(p) \/ Kill(p)
    BY UserLeavesScans DEF Next
<1>2. Act(p)
    BY <1>1 DEF Start, Trigger, Scan, Kill, Acquire, Judge, FailScan, Record
<1> QED
    BY <1>2 DEF Act

LEMMA GraceStep ==
    ASSUME IInv, [Next]_vars, ~(taken' \subseteq taken)
    PROVE  \E p \in Scanner :
              /\ lock = p
              /\ copy[p].grace = 0 \/ (born # 0 /\ day >= born + copy[p].grace)
<1>1. PICK p \in Scanner : Act(p) /\ AutomaticActionAllowed(copy[p], day)
    BY OnlyActTakes
<1>2. lock = p /\ copy[p] \in Config
    BY <1>1 DEF IInv, ScanHoldsLock, TypeOK, Act, Holder
<1>3. copy[p].grace \in Nat /\ copy[p].first \in Nat /\ born \in Nat /\ day \in Nat
    BY <1>2, ConfigFields DEF IInv, TypeOK
<1>4. ASSUME copy[p].grace # 0
      PROVE  copy[p].first # 0 /\ day >= copy[p].first + copy[p].grace
    BY <1>1, <1>3, <1>4 DEF AutomaticActionAllowed, InGracePeriod
<1>5. copy[p].first # 0 => born # 0 /\ born <= copy[p].first
    BY <1>2 DEF IInv, FirstIsBorn, Holder
<1>6. copy[p].grace # 0 => born # 0 /\ day >= born + copy[p].grace
    BY <1>3, <1>4, <1>5
<1> QED
    BY <1>2, <1>6

(* However old the copy a scan works with, it takes nothing before the     *)
(* grace period has run since the earliest recorded scan: no copy knows of *)
(* an earlier one.                                                         *)
THEOREM SettingsNeverActsInGrace == Spec => NeverActsInGrace
<1>1. IInv /\ [Next]_vars =>
        [taken' \subseteq taken
          \/ \E p \in Scanner :
                /\ lock = p
                /\ copy[p].grace = 0 \/ (born # 0 /\ day >= born + copy[p].grace)]_vars
    BY GraceStep
<1> QED
    BY <1>1, IInvAlways, PTL DEF Spec, NeverActsInGrace

(* A scan takes what its own copy allows when it takes it: no request of   *)
(* the panel gets in between its reading of the whitelist and its act.     *)
THEOREM SettingsScanHonoursItsCopy == Spec => ScanHonoursItsCopy
<1>1. IInv /\ [Next]_vars =>
        [\A f \in taken' \ taken :
            lock \in Scanner /\ f \notin copy[lock].white /\ copy[lock].act]_vars
    <2> SUFFICES ASSUME IInv, [Next]_vars, NEW f \in taken' \ taken
                 PROVE  lock \in Scanner /\ f \notin copy[lock].white /\ copy[lock].act
        OBVIOUS
    <2>1. PICK p \in Scanner : /\ Act(p) /\ AutomaticActionAllowed(copy[p], day)
                              /\ taken' = taken \cup suspects[p]
        BY OnlyActTakes
    <2>2. lock = p /\ suspects[p] \cap copy[p].white = {}
        BY <2>1 DEF IInv, ScanHoldsLock, SuspectsAreListedNowhere, Act
    <2> QED
        BY <2>1, <2>2 DEF AutomaticActionAllowed
<1> QED
    BY <1>1, IInvAlways, PTL DEF Spec, ScanHonoursItsCopy

LEMMA DropStep ==
    ASSUME IInv, [Next]_vars, NEW f \in Whitelisted(file) \ Whitelisted(file')
    PROVE  \/ HandEdits \/ InitForce
           \/ \E p \in Cron : Record(p) /\ f \in missed[p]
           \/ f \in missed[Panel]
           \/ PutsSettings /\ f \in missed[Page] \cup copy[Page].white
<1>0. TypeOK /\ Explained /\ StartedIsADay /\ Panel \in Holder /\ Page \in Holder
    BY DEF IInv, Holder, Scanner
<1>1. ASSUME NEW c \in Config, Publish(c), copy[Panel].white \subseteq c.white
      PROVE  f \in missed[Panel]
    <2>1. copy[Panel] # None
        BY <1>0, <1>1 DEF TypeOK, Publish, MayMutate, Scanner
    <2>2. Whitelisted(file') = c.white
        BY <1>1, ConfigFields DEF Publish, Save, Whitelisted
    <2> QED
        BY <1>0, <1>1, <2>1, <2>2 DEF Explained
<1>2. MayMutate => copy[Panel] \in Config
    BY <1>0 DEF TypeOK, MayMutate, Scanner
<1>3. ASSUME NEW g \in Path, Whitelist(g) PROVE f \in missed[Panel]
    <2>1. copy[Panel] \in Config
        BY <1>2, <1>3 DEF Whitelist, Publish
    <2> QED
        BY <1>1, <1>3, <2>1, ConfigWithPath DEF Whitelist
<1>4. CASE PutOtherTab
    BY <1>1, <1>2, <1>4 DEF PutOtherTab, Publish
<1>5. CASE PutsSettings
    <2>1. copy[Page] # None
        BY <1>5 DEF PutsSettings, PutSettings
    <2> QED
        BY <1>0, <1>5, <2>1 DEF Explained
<1>6. ASSUME NEW p \in Scanner, Record(p)
      PROVE  p \in Cron /\ f \in missed[p]
    <2>0. p \in Cron /\ copy[p] \in Config
        BY <1>0, <1>6 DEF StartedIsADay, Record, TypeOK, Holder
    <2>1. copy[p].first = 0
        BY <1>6 DEF Record
    <2> DEFINE c == [copy[p] EXCEPT !.first = started[p]]
    <2>1a. c \in Config /\ c.white = copy[p].white
        BY <1>0, <2>0, ConfigWithFirst DEF TypeOK
    <2>1b. file' = c
        BY <1>6, <2>1 DEF Record, Save
    <2> HIDE DEF c
    <2>2. Whitelisted(file') = copy[p].white
        BY <2>1a, <2>1b, ConfigFields DEF Whitelisted
    <2>3. copy[p] # None
        BY <2>0, ConfigFields
    <2> QED
        BY <1>0, <2>0, <2>2, <2>3 DEF Explained, Holder
<1>7. ASSUME NEW p \in Scanner, Start(p) \/ Trigger(p) \/ Scan(p) \/ Kill(p), ~Record(p)
      PROVE  FALSE
    BY <1>7 DEF Start, LoadInto, Trigger, Scan, Kill, Acquire, Judge, Act, FailScan, Whitelisted
<1>8. CASE OpenPage \/ NextDay \/ UNCHANGED vars \/ \E g \in Path : PutBack(g)
    BY <1>8 DEF OpenPage, NextDay, vars, PutBack, Whitelisted
<1> QED
    BY <1>3, <1>4, <1>5, <1>6, <1>7, <1>8 DEF Next, User

(* Whatever leaves the whitelist of the file was taken off by the user or  *)
(* was never seen by the copy that was written over it.                    *)
THEOREM SettingsOnlyStaleWritersDropPaths == Spec => OnlyStaleWritersDropPaths
<1>1. IInv /\ [Next]_vars =>
        [\A f \in Whitelisted(file) \ Whitelisted(file') :
          \/ HandEdits \/ InitForce
          \/ \E p \in Cron : Record(p) /\ f \in missed[p]
          \/ f \in missed[Panel]
          \/ PutsSettings /\ f \in missed[Page] \cup copy[Page].white]_vars
    BY DropStep
<1> QED
    BY <1>1, IInvAlways, PTL DEF Spec, OnlyStaleWritersDropPaths
=============================================================================
