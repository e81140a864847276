---------------------------- MODULE UpdateProofs ----------------------------
(***************************************************************************)
(* Proofs about Update, for any releases, handlers and processes.          *)
(***************************************************************************)
EXTENDS Update, TLAPS

USE VersionAssumption DEF Maybe, Worker, Steps, InstallSteps, RollbackSteps

(* Every step a worker takes of its own. *)
WorkerStep(w) ==
    \/ w \in Handler /\ (Apply(w) \/ Compare(w) \/ Forget(w))
    \/ w \in Cli /\ (CliStart(w) \/ CliAsk(w) \/ CliConfirm(w) \/ RollBack(w) \/ Kill(w))
    \/ Install(w)

(* The steps that belong to no worker and end none. *)
WorldStep ==
    \/ UpdateStatus \/ CacheExpires \/ PanelStarts
    \/ \E v \in Version : Publish(v)

LEMMA StepCases ==
    ASSUME Step
    PROVE  (\E w \in Worker : WorkerStep(w)) \/ WorldStep \/ PanelEnds
BY DEF Step, WorkerStep, WorldStep, PanelStops

-----------------------------------------------------------------------------
(* Types.                                                                  *)

LocalTypes ==
    /\ pc \in [Worker -> Steps]
    /\ offer \in [Worker -> Maybe]
    /\ base \in [Cli -> Maybe]
    /\ blind \subseteq Handler

(* What a step of w leaves alone, and what it may do to its own variables. *)
Own(w) ==
    /\ \E l \in Steps : pc' = [pc EXCEPT ![w] = l]
    /\ \E o \in Maybe : offer' = [offer EXCEPT ![w] = o]
    /\ base' = base \/ \E b \in Maybe : base' = [base EXCEPT ![w] = b]
    /\ blind' = blind \/ blind' = blind \ {w} \/ (w \in Handler /\ blind' = blind \cup {w})

(* The three names and the shared variables hold what they may hold. *)
SharedTypes ==
    /\ binary \in Maybe /\ prev \in Maybe /\ aside \in Maybe
    /\ published \in Version
    /\ cache \in Maybe \cup {Failed}
    /\ panel \in Maybe
    /\ cut \in BOOLEAN

LEMMA DoneIsOwn ==
    ASSUME TypeOK, NEW w \in Worker, Done(w)
    PROVE  Own(w)
<1>1. \E l \in Steps : pc' = [pc EXCEPT ![w] = l]
  BY DEF Done, Goto
<1>2. \E o \in Maybe : offer' = [offer EXCEPT ![w] = o]
  BY DEF Done
<1>3. base' = base \/ \E b \in Maybe : base' = [base EXCEPT ![w] = b]
  BY DEF Done
<1> QED
  BY <1>1, <1>2, <1>3 DEF Own, Done

LEMMA ContinueIsOwn ==
    ASSUME TypeOK, NEW w \in Worker, NEW l \in Steps, Continue(w, l)
    PROVE  Own(w)
<1>1. offer' = [offer EXCEPT ![w] = offer[w]] /\ offer[w] \in Maybe
  BY DEF TypeOK, Continue
<1> QED
  BY <1>1 DEF Own, Continue, Goto

LEMMA OwnTypes ==
    ASSUME TypeOK, NEW w \in Worker, Own(w)
    PROVE  LocalTypes'
<1>1. pc' \in [Worker -> Steps]
  BY DEF TypeOK, Own
<1>2. offer' \in [Worker -> Maybe]
  BY DEF TypeOK, Own
<1>3. base' \in [Cli -> Maybe]
  BY DEF TypeOK, Own
<1>4. blind' \subseteq Handler
  BY DEF TypeOK, Own
<1> QED
  BY <1>1, <1>2, <1>3, <1>4 DEF LocalTypes

LEMMA WorkerIsOwn ==
    ASSUME TypeOK, NEW w \in Worker, WorkerStep(w)
    PROVE  Own(w)
<1> USE DoneIsOwn, ContinueIsOwn
<1>1. CASE w \in Handler /\ Apply(w)
  <2>1. CASE cache' = Failed
    <3>1. pc' = [pc EXCEPT ![w] = pc[w]] /\ offer' = [offer EXCEPT ![w] = offer[w]]
      BY <1>1, <2>1 DEF Apply, TypeOK
    <3> QED
      BY <1>1, <2>1, <3>1 DEF Apply, Own, TypeOK
  <2>2. CASE cache' # Failed
    <3>1. cache' \in Maybe
      BY <1>1, <2>2 DEF Apply, Fetched, TypeOK
    <3> QED
      BY <1>1, <2>2, <3>1 DEF Apply, Goto, Own
  <2> QED
    BY <2>1, <2>2
<1>2. CASE w \in Handler /\ Compare(w)
  <2>1. CASE Done(w)
    BY <2>1
  <2>2. CASE ~Done(w)
    <3>1. offer' = [offer EXCEPT ![w] = offer[w]] /\ offer[w] \in Maybe
      BY <1>2, <2>2 DEF Compare, OnDiskVersion, TypeOK
    <3> QED
      BY <1>2, <2>2, <3>1 DEF Compare, OnDiskVersion, Goto, Own
  <2> QED
    BY <2>1, <2>2
<1>3. CASE w \in Handler /\ Forget(w)
  BY <1>3 DEF Forget
<1>4. CASE w \in Cli /\ CliStart(w)
  <2>1. offer' = [offer EXCEPT ![w] = offer[w]] /\ offer[w] \in Maybe /\ binary \in Maybe
    BY <1>4 DEF CliStart, names, TypeOK
  <2> QED
    BY <1>4, <2>1 DEF CliStart, Goto, Own
<1>5. CASE w \in Cli /\ CliAsk(w)
  <2>1. CASE Done(w)
    BY <2>1
  <2>2. CASE ~Done(w)
    BY <1>5, <2>2 DEF CliAsk, Goto, Own, TypeOK
  <2> QED
    BY <2>1, <2>2
<1>6. CASE w \in Cli /\ CliConfirm(w)
  BY <1>6 DEF CliConfirm
<1>7. CASE w \in Cli /\ RollBack(w)
  BY <1>7 DEF RollBack, RollStat, RollAside, RollRestore, RollUndo, RollKeep
<1>8. CASE w \in Cli /\ Kill(w)
  BY <1>8 DEF Kill
<1>9. CASE Install(w)
  BY <1>9 DEF Install, Stage, DropPrev, SetAside, Place, PutBack
<1> QED
  BY <1>1, <1>2, <1>3, <1>4, <1>5, <1>6, <1>7, <1>8, <1>9 DEF WorkerStep

(* A worker changes the shared variables to what they may hold. *)
LEMMA WorkerSharedTypes ==
    ASSUME TypeOK, NEW w \in Worker, WorkerStep(w)
    PROVE  SharedTypes'
<1>1. CASE w \in Handler /\ (Apply(w) \/ Compare(w) \/ Forget(w))
  BY <1>1 DEF Apply, Compare, Forget, Fetched, names, TypeOK, SharedTypes
<1>2. CASE w \in Cli /\ (CliStart(w) \/ CliAsk(w) \/ CliConfirm(w))
  BY <1>2 DEF CliStart, CliAsk, CliConfirm, names, TypeOK, SharedTypes
<1>3. CASE w \in Cli /\ Kill(w)
  <2>1. cut' \in BOOLEAN
    BY <1>3 DEF Kill
  <2>2. UNCHANGED <<names, published, cache, panel>>
    BY <1>3 DEF Kill
  <2> QED
    BY <2>1, <2>2 DEF names, TypeOK, SharedTypes
<1>4. CASE w \in Cli /\ RollBack(w)
  BY <1>4 DEF RollBack, RollStat, RollAside, RollRestore, RollUndo, RollKeep, names, TypeOK, SharedTypes
<1>5. CASE Install(w)
  BY <1>5 DEF Install, Stage, DropPrev, SetAside, Place, PutBack, names, TypeOK, SharedTypes
<1> QED
  BY <1>1, <1>2, <1>3, <1>4, <1>5 DEF WorkerStep

LEMMA PanelEndsTypes ==
    ASSUME TypeOK, PanelEnds
    PROVE  LocalTypes' /\ SharedTypes'
<1>1. pc' \in [Worker -> Steps]
  BY DEF TypeOK, PanelEnds
<1>2. offer' \in [Worker -> Maybe]
  BY DEF TypeOK, PanelEnds
<1>3. base' \in [Cli -> Maybe] /\ blind' \subseteq Handler
  BY DEF TypeOK, PanelEnds
<1>4. cut' \in BOOLEAN
  BY DEF PanelEnds
<1>5. /\ UNCHANGED <<names, published>>
      /\ panel' = None /\ cache' = None
  BY DEF PanelEnds
<1> QED
  BY <1>1, <1>2, <1>3, <1>4, <1>5 DEF names, TypeOK, LocalTypes, SharedTypes

LEMMA WorldTypes ==
    ASSUME TypeOK, WorldStep
    PROVE  LocalTypes' /\ SharedTypes'
BY DEF WorldStep, UpdateStatus, CacheExpires, PanelStarts, Publish, Fetched, names,
   TypeOK, LocalTypes, SharedTypes

LEMMA TypeStep ==
    ASSUME TypeOK, [Next]_vars
    PROVE  TypeOK'
<1>1. CASE UNCHANGED vars
  BY <1>1 DEF vars, names, TypeOK
<1>2. CASE Next
  <2>1. LocalTypes' /\ SharedTypes'
    BY <1>2, StepCases, WorkerIsOwn, OwnTypes, WorkerSharedTypes, PanelEndsTypes, WorldTypes DEF Next
  <2>2. late' \subseteq Worker
    BY <1>2 DEF Next, Lateness
  <2> QED
    BY <2>1, <2>2 DEF LocalTypes, SharedTypes, TypeOK
<1> QED
  BY <1>1, <1>2

LEMMA TypeInit == Init => TypeOK
<1> SUFFICES ASSUME Init PROVE TypeOK
  OBVIOUS
<1>1. pc \in [Worker -> Steps] /\ offer \in [Worker -> Maybe] /\ base \in [Cli -> Maybe]
  BY DEF Init
<1> QED
  BY <1>1 DEF Init, TypeOK

(***************************************************************************)
(* The names, the panel's cache and every worker's offer hold releases or  *)
(* nothing, whatever the release API answers: an error in the cache is     *)
(* never taken for a release (handleUpdateApply).                          *)
(***************************************************************************)
THEOREM UpdateTypeOK == Spec => []TypeOK
<1>1. Init => TypeOK
  BY TypeInit
<1>2. TypeOK /\ [Next]_vars => TypeOK'
  BY TypeStep
<1> QED
  BY <1>1, <1>2, PTL DEF Spec

-----------------------------------------------------------------------------
(* What a worker knows.                                                    *)

LEMMA OthersStay ==
    ASSUME TypeOK, NEW w \in Worker, NEW v \in Worker, v # w, Own(w)
    PROVE  /\ pc'[v] = pc[v] /\ offer'[v] = offer[v]
           /\ v \in Cli => base'[v] = base[v]
           /\ v \in blind' <=> v \in blind
BY DEF TypeOK, Own

LEMMA DoneIsIdle ==
    ASSUME TypeOK, NEW w \in Worker, Done(w)
    PROVE  pc'[w] = "idle"
BY DEF TypeOK, Done, Goto

LEMMA ContinueKeeps ==
    ASSUME TypeOK, NEW w \in Worker, NEW l \in Steps, Continue(w, l)
    PROVE  /\ pc'[w] = l /\ offer'[w] = offer[w]
           /\ UNCHANGED <<base, blind>>
BY DEF TypeOK, Continue, Goto

(* There is a release in hand from the comparison to the second rename. *)
Holding == {"compare", "confirm", "stage", "drop", "aside", "place"}

OfferReady == \A w \in Worker : pc[w] \in Holding => offer[w] \in Version

LEMMA OfferOwn ==
    ASSUME TypeOK, OfferReady, NEW w \in Worker, WorkerStep(w), pc'[w] \in Holding
    PROVE  offer'[w] \in Version
<1> USE DoneIsIdle, ContinueKeeps DEF Holding
<1>1. CASE w \in Handler /\ Apply(w)
  <2>1. CASE cache' = Failed
    BY <1>1, <2>1 DEF Apply, OfferReady
  <2>2. CASE cache' # Failed
    <3>1. cache' \in Version
      BY <1>1, <2>2 DEF Apply, Fetched, TypeOK
    <3> QED
      BY <1>1, <2>2, <3>1 DEF Apply, TypeOK
  <2> QED
    BY <2>1, <2>2
<1>2. CASE w \in Handler /\ (Compare(w) \/ Forget(w))
  BY <1>2 DEF Compare, Forget, OfferReady
<1>3. CASE w \in Cli /\ CliStart(w)
  <2>1. pc'[w] \in {"ask", "b_stat"}
    BY <1>3 DEF CliStart, Goto, TypeOK
  <2> QED
    BY <2>1
<1>4. CASE w \in Cli /\ CliAsk(w)
  BY <1>4 DEF CliAsk, TypeOK
<1>5. CASE w \in Cli /\ (CliConfirm(w) \/ Kill(w))
  BY <1>5 DEF CliConfirm, Kill, OfferReady
<1>6. CASE w \in Cli /\ RollBack(w)
  BY <1>6 DEF RollBack, RollStat, RollAside, RollRestore, RollUndo, RollKeep
<1>7. CASE Install(w)
  BY <1>7 DEF Install, Stage, DropPrev, SetAside, Place, PutBack, OfferReady
<1> QED
  BY <1>1, <1>2, <1>3, <1>4, <1>5, <1>6, <1>7 DEF WorkerStep

LEMMA OfferStep ==
    ASSUME TypeOK, OfferReady, [Next]_vars
    PROVE  OfferReady'
<1>1. CASE UNCHANGED vars
  BY <1>1 DEF vars, OfferReady
<1>2. ASSUME NEW w \in Worker, WorkerStep(w) PROVE OfferReady'
  BY <1>2, OfferOwn, OthersStay, WorkerIsOwn DEF OfferReady
<1>3. CASE WorldStep
  BY <1>3 DEF WorldStep, UpdateStatus, CacheExpires, PanelStarts, Publish, OfferReady
<1>4. CASE PanelEnds
  BY <1>4 DEF PanelEnds, OfferReady, Holding
<1> QED
  BY <1>1, <1>2, <1>3, <1>4, StepCases DEF Next

-----------------------------------------------------------------------------
(* There is always a binary.                                               *)

(* w leaves the stretch between two renames only with a binary in place or *)
(* by being cut, and takes the binary away only by entering it.            *)
LEMMA InstalledOwn ==
    ASSUME TypeOK, OfferReady, AlwaysInstalled, NEW w \in Worker, WorkerStep(w), binary' = None
    PROVE  \/ cut'
           \/ pc'[w] \in Between
           \/ \E v \in Worker : v # w /\ pc[v] \in Between
<1> USE DoneIsIdle, ContinueKeeps DEF Between
<1>1. CASE w \in Handler /\ (Apply(w) \/ Compare(w) \/ Forget(w))
  BY <1>1 DEF Apply, Compare, Forget, names, AlwaysInstalled
<1>2. CASE w \in Cli /\ (CliStart(w) \/ CliAsk(w) \/ CliConfirm(w))
  BY <1>2 DEF CliStart, CliAsk, CliConfirm, names, AlwaysInstalled
<1>3. CASE w \in Cli /\ Kill(w)
  BY <1>3 DEF Kill, names, AlwaysInstalled
<1>4. CASE w \in Cli /\ RollBack(w)
  BY <1>4 DEF RollBack, RollStat, RollAside, RollRestore, RollUndo, RollKeep, names, AlwaysInstalled
<1>5. CASE Install(w)
  BY <1>5 DEF Install, Stage, DropPrev, SetAside, Place, PutBack, names, AlwaysInstalled, OfferReady, Holding
<1> QED
  BY <1>1, <1>2, <1>3, <1>4, <1>5 DEF WorkerStep

LEMMA InstalledStep ==
    ASSUME TypeOK, OfferReady, AlwaysInstalled, [Next]_vars
    PROVE  AlwaysInstalled'
<1>1. CASE UNCHANGED vars
  BY <1>1 DEF vars, names, AlwaysInstalled
<1>2. ASSUME NEW w \in Worker, WorkerStep(w) PROVE AlwaysInstalled'
  BY <1>2, InstalledOwn, OthersStay, WorkerIsOwn DEF AlwaysInstalled
<1>3. CASE WorldStep
  BY <1>3 DEF WorldStep, UpdateStatus, CacheExpires, PanelStarts, Publish, names, AlwaysInstalled
<1>4. CASE PanelEnds
  BY <1>4 DEF PanelEnds, names, AlwaysInstalled
<1> QED
  BY <1>1, <1>2, <1>3, <1>4, StepCases DEF Next

IInv == TypeOK /\ OfferReady /\ AlwaysInstalled

LEMMA InstalledInvariant == Spec => []IInv
<1>1. Init => IInv
  BY TypeInit DEF Init, OfferReady, AlwaysInstalled, IInv, Holding
<1>2. IInv /\ [Next]_vars => IInv'
  BY TypeStep, OfferStep, InstalledStep DEF IInv
<1> QED
  BY <1>1, <1>2, PTL DEF Spec

(***************************************************************************)
(* A path without a binary belongs to an operation between its two renames *)
(* or to one that ended there (Install, rollBack), for any number of       *)
(* handlers and processes at once and any of the failures.                 *)
(***************************************************************************)
THEOREM UpdateAlwaysInstalled == Spec => []AlwaysInstalled
BY InstalledInvariant, PTL DEF IInv

-----------------------------------------------------------------------------
(* The last binary.                                                        *)

LEMMA LastBinaryStep ==
    ASSUME TypeOK, OfferReady, [Next]_vars, SomeBinary, ~SomeBinary'
    PROVE  \E w \in Worker : pc[w] = "drop" /\ pc'[w] = "aside" /\ binary = None
<1> USE DEF SomeBinary
<1>1. CASE UNCHANGED vars
  BY <1>1 DEF vars, names
<1>2. ASSUME NEW w \in Worker, WorkerStep(w)
      PROVE  pc[w] = "drop" /\ pc'[w] = "aside" /\ binary = None
  <2>1. CASE w \in Handler /\ (Apply(w) \/ Compare(w) \/ Forget(w))
    BY <2>1 DEF Apply, Compare, Forget, names
  <2>2. CASE w \in Cli /\ (CliStart(w) \/ CliAsk(w) \/ CliConfirm(w) \/ Kill(w))
    BY <2>2 DEF CliStart, CliAsk, CliConfirm, Kill, names
  <2>3. CASE w \in Cli /\ RollBack(w)
    BY <2>3 DEF RollBack, RollStat, RollAside, RollRestore, RollUndo, RollKeep, names
  <2>4. CASE DropPrev(w)
    BY <2>4, ContinueKeeps DEF DropPrev
  <2>5. CASE Stage(w) \/ SetAside(w) \/ Place(w) \/ PutBack(w)
    BY <2>5 DEF Stage, SetAside, Place, PutBack, names, OfferReady, Holding
  <2> QED
    BY <1>2, <2>1, <2>2, <2>3, <2>4, <2>5 DEF WorkerStep, Install
<1>3. CASE WorldStep
  BY <1>3 DEF WorldStep, UpdateStatus, CacheExpires, PanelStarts, Publish, names
<1>4. CASE PanelEnds
  BY <1>4 DEF PanelEnds, names
<1> QED
  BY <1>1, <1>2, <1>3, <1>4, StepCases DEF Next

(***************************************************************************)
(* The last of the three files disappears in one step only: Install's      *)
(* removal of .prev (os.Remove(previous)) while no binary is in place.     *)
(***************************************************************************)
THEOREM UpdateLastBinaryGoesByDropOnly == Spec => LastBinaryGoesByDropOnly
<1>1. IInv /\ [Next]_vars
        => [SomeBinary /\ ~SomeBinary'
              => \E w \in Worker : pc[w] = "drop" /\ pc'[w] = "aside" /\ binary = None]_vars
  BY LastBinaryStep DEF IInv
<1> QED
  BY <1>1, InstalledInvariant, PTL DEF Spec, LastBinaryGoesByDropOnly

-----------------------------------------------------------------------------
(* The way back.                                                           *)

(* As long as nobody else touched the files, what was compared is what is  *)
(* in place, and then what is kept.                                        *)
KnowsItUpgrades(w) ==
    w \notin late \cup blind =>
      /\ pc[w] \in {"stage", "drop", "aside"} => binary \in Version /\ offer[w] > binary
      /\ pc[w] = "place" => prev \in Version /\ offer[w] > prev

(* A process from the command line is still the binary in place, or the    *)
(* one it has set aside.                                                   *)
KnowsItself(c) ==
    c \notin late =>
      /\ pc[c] \in {"ask", "confirm", "stage", "drop", "aside", "b_stat", "b_aside"}
            => base[c] = binary /\ binary \in Version
      /\ pc[c] = "confirm" => offer[c] > base[c]
      /\ pc[c] \in {"b_restore", "b_keep"} => aside = base[c]

Knowing ==
    /\ \A w \in Worker : KnowsItUpgrades(w)
    /\ \A c \in Cli : KnowsItself(c)

(* What a step leaves to a worker that did not take it. *)
LEMMA OthersKnow ==
    ASSUME TypeOK, Knowing, NEW w \in Worker, NEW v \in Worker, v # w, Own(w), Lateness
    PROVE  KnowsItUpgrades(v)' /\ (v \in Cli => KnowsItself(v)')
<1>1. /\ pc'[v] = pc[v] /\ offer'[v] = offer[v]
      /\ v \in Cli => base'[v] = base[v]
      /\ v \in blind' <=> v \in blind
  BY OthersStay
<1>2. CASE pc[v] = "idle"
  BY <1>1, <1>2 DEF KnowsItUpgrades, KnowsItself
<1>3. CASE pc[v] # "idle" /\ (v \in late \/ names' # names)
  <2>1. v \in late'
    BY <1>1, <1>3 DEF Lateness
  <2> QED
    BY <2>1 DEF KnowsItUpgrades, KnowsItself
<1>4. CASE pc[v] # "idle" /\ v \notin late /\ names' = names
  <2>1. UNCHANGED <<binary, prev, aside>>
    BY <1>4 DEF names
  <2>2. KnowsItUpgrades(v) /\ (v \in Cli => KnowsItself(v))
    BY DEF Knowing
  <2> QED
    BY <1>1, <1>4, <2>1, <2>2 DEF KnowsItUpgrades, KnowsItself
<1> QED
  BY <1>2, <1>3, <1>4

(* One's own steps do not lift one's lateness, except by starting anew. *)
LEMMA StaysLate ==
    ASSUME NEW w \in Worker, pc[w] # "idle", pc'[w] # "idle", w \notin late', Lateness
    PROVE  w \notin late
BY DEF Lateness

(* What a worker knows after its own step. *)
LEMMA OwnKnows ==
    ASSUME TypeOK, Knowing, NEW w \in Worker, WorkerStep(w), Lateness
    PROVE  KnowsItUpgrades(w)' /\ (w \in Cli => KnowsItself(w)')
<1> USE DoneIsIdle, ContinueKeeps, StaysLate, WorkersAssumption
    DEF Goto, KnowsItUpgrades, KnowsItself
<1>0. KnowsItUpgrades(w) /\ (w \in Cli => KnowsItself(w))
  BY DEF Knowing
<1>1. CASE Apply(w) /\ w \in Handler
  BY <1>0, <1>1 DEF Apply, TypeOK
<1>2. CASE Compare(w) /\ w \in Handler
  <2>1. UNCHANGED <<binary, prev, aside>> /\ w \notin Cli
    BY <1>2 DEF Compare, names
  <2>2. CASE Done(w)
    BY <2>1, <2>2
  <2>3. CASE ~Done(w) /\ w \notin blind'
    <3>1. binary \in Version /\ offer[w] > binary
      BY <1>2, <2>3 DEF Compare, OnDiskVersion, IsNewer, TypeOK
    <3>2. pc'[w] = "stage" /\ UNCHANGED offer
      BY <1>2, <2>3 DEF Compare, TypeOK
    <3> QED
      BY <2>1, <3>1, <3>2
  <2>4. CASE ~Done(w) /\ w \in blind'
    BY <2>1, <2>4
  <2> QED
    BY <2>2, <2>3, <2>4
<1>3. CASE Forget(w) /\ w \in Handler
  BY <1>0, <1>3 DEF Forget, TypeOK
<1>4. CASE CliStart(w) /\ w \in Cli
  BY <1>0, <1>4 DEF CliStart, names, TypeOK
<1>5. CASE CliAsk(w) /\ w \in Cli
  BY <1>0, <1>5 DEF CliAsk, IsNewer, names, TypeOK
<1>6. CASE CliConfirm(w) /\ w \in Cli
  BY <1>0, <1>6 DEF CliConfirm, names, TypeOK
<1>7. CASE Kill(w) /\ w \in Cli
  BY <1>0, <1>7 DEF Kill, TypeOK
<1>8. CASE RollStat(w) /\ w \in Cli
  BY <1>0, <1>8 DEF RollStat, names, TypeOK
<1>9. CASE RollAside(w) /\ w \in Cli
  BY <1>0, <1>9 DEF RollAside, TypeOK
<1>10. CASE RollRestore(w) /\ w \in Cli
  BY <1>0, <1>10 DEF RollRestore, TypeOK
<1>11. CASE RollUndo(w) /\ w \in Cli
  BY <1>0, <1>11 DEF RollUndo, TypeOK
<1>12. CASE RollKeep(w) /\ w \in Cli
  BY <1>0, <1>12 DEF RollKeep, TypeOK
<1>13. CASE Stage(w)
  BY <1>0, <1>13 DEF Stage, names, TypeOK
<1>14. CASE DropPrev(w)
  BY <1>0, <1>14 DEF DropPrev, TypeOK
<1>15. CASE SetAside(w)
  BY <1>0, <1>15 DEF SetAside, TypeOK
<1>16. CASE Place(w)
  BY <1>0, <1>16 DEF Place, TypeOK
<1>17. CASE PutBack(w)
  BY <1>0, <1>17 DEF PutBack, TypeOK
<1> QED
  BY <1>1, <1>2, <1>3, <1>4, <1>5, <1>6, <1>7, <1>8, <1>9, <1>10, <1>11, <1>12, <1>13, <1>14, <1>15, <1>16, <1>17
  DEF WorkerStep, RollBack, Install

LEMMA KnowingStep ==
    ASSUME TypeOK, Knowing, [Next]_vars
    PROVE  Knowing'
<1>1. CASE UNCHANGED vars
  BY <1>1 DEF vars, names, Knowing, KnowsItUpgrades, KnowsItself
<1>2. ASSUME NEW w \in Worker, WorkerStep(w), Lateness PROVE Knowing'
  BY <1>2, OwnKnows, OthersKnow, WorkerIsOwn DEF Knowing
<1>3. CASE WorldStep /\ Lateness
  <2>1. UNCHANGED <<binary, prev, aside, pc, offer, base, blind>> /\ names' = names
    BY <1>3 DEF WorldStep, UpdateStatus, CacheExpires, PanelStarts, Publish, names
  <2>2. \A w \in Worker : pc[w] # "idle" /\ w \in late => w \in late'
    BY <1>3, <2>1 DEF Lateness
  <2> QED
    BY <2>1, <2>2 DEF Knowing, KnowsItUpgrades, KnowsItself
<1>4. CASE PanelEnds /\ Lateness
  <2>1. /\ UNCHANGED <<binary, prev, aside, base>> /\ names' = names
        /\ \A h \in Handler : pc'[h] = "idle"
        /\ \A c \in Cli : pc'[c] = pc[c] /\ offer'[c] = offer[c] /\ c \notin blind
    BY <1>4, WorkersAssumption DEF PanelEnds, names, TypeOK
  <2>2. \A c \in Cli : pc[c] # "idle" /\ c \in late => c \in late'
    BY <1>4, <2>1 DEF Lateness
  <2>3. \A c \in Cli : KnowsItUpgrades(c)' /\ KnowsItself(c)'
    BY <2>1, <2>2 DEF Knowing, KnowsItUpgrades, KnowsItself
  <2>4. \A h \in Handler : KnowsItUpgrades(h)'
    BY <2>1 DEF KnowsItUpgrades
  <2> QED
    BY <2>3, <2>4 DEF Knowing
<1> QED
  BY <1>1, <1>2, <1>3, <1>4, StepCases DEF Next

KInv == TypeOK /\ Knowing

LEMMA KnowingInvariant == Spec => []KInv
<1>1. Init => KInv
  BY TypeInit DEF Init, Knowing, KnowsItUpgrades, KnowsItself, KInv
<1>2. KInv /\ [Next]_vars => KInv'
  BY TypeStep, KnowingStep DEF KInv
<1> QED
  BY <1>1, <1>2, PTL DEF Spec

(* A step that ends v's operation, or lets it go on, was taken by v. *)
LEMMA OnlyItsOwn ==
    ASSUME TypeOK, Step, NEW v \in Worker, pc'[v] # pc[v]
    PROVE  WorkerStep(v) \/ PanelEnds
<1>1. ASSUME NEW w \in Worker, WorkerStep(w) PROVE w = v
  BY <1>1, OthersStay, WorkerIsOwn
<1>2. CASE WorldStep
  BY <1>2 DEF WorldStep, UpdateStatus, CacheExpires, PanelStarts, Publish
<1> QED
  BY <1>1, <1>2, StepCases

Installs(w) == pc[w] = "place" /\ pc'[w] \in {"idle", "forget"} /\ binary' # binary

LEMMA UpgradeStep ==
    ASSUME KInv, [Next]_vars, NEW w \in Worker, Installs(w)
    PROVE  \/ prev # None /\ binary' > prev
           \/ w \in late \cup blind
<1>1. Step /\ pc'[w] # pc[w] /\ ~PanelEnds
  BY DEF Next, vars, names, Installs, PanelEnds
<1>2. WorkerStep(w)
  BY <1>1, OnlyItsOwn DEF KInv
<1>3. binary' = offer[w]
  BY <1>2 DEF WorkerStep, Apply, Compare, Forget, CliStart, CliAsk, CliConfirm, Kill, RollBack,
     RollStat, RollAside, RollRestore, RollUndo, RollKeep, Install, Stage, DropPrev, SetAside,
     Place, PutBack, Installs, names
<1>4. KnowsItUpgrades(w)
  BY DEF KInv, Knowing
<1> QED
  BY <1>3, <1>4 DEF KnowsItUpgrades, Installs

(***************************************************************************)
(* What Install puts in place is newer than what it has kept at .prev,     *)
(* unless the files were changed by another operation meanwhile or the     *)
(* binary on disk did not tell its version (OnDiskVersion).                *)
(***************************************************************************)
THEOREM UpdateUpgradeWithWayBack == Spec => UpgradeWithWayBack
<1>1. KInv /\ [Next]_vars
        => [\A w \in Worker :
              pc[w] = "place" /\ pc'[w] \in {"idle", "forget"} /\ binary' # binary
                => \/ prev # None /\ binary' > prev
                   \/ w \in late \cup blind]_vars
  BY UpgradeStep DEF Installs
<1> QED
  BY <1>1, KnowingInvariant, PTL DEF Spec, UpgradeWithWayBack

LEMMA RollbackStep ==
    ASSUME KInv, [Next]_vars, NEW c \in Cli, pc[c] = "b_keep", pc'[c] = "idle"
    PROVE  prev' = base[c] \/ aside' = base[c] \/ c \in late
<1>1. Step /\ pc'[c] # pc[c]
  BY DEF Next, vars
<1>2. ~PanelEnds
  BY WorkersAssumption DEF PanelEnds
<1>3. WorkerStep(c)
  BY <1>1, <1>2, OnlyItsOwn DEF KInv
<1>4. prev' = aside \/ aside' = aside
  BY <1>3 DEF WorkerStep, Apply, Compare, Forget, CliStart, CliAsk, CliConfirm, Kill, RollBack,
     RollStat, RollAside, RollRestore, RollUndo, RollKeep, Install, Stage, DropPrev, SetAside,
     Place, PutBack, names
<1>5. KnowsItself(c)
  BY DEF KInv, Knowing
<1> QED
  BY <1>4, <1>5 DEF KnowsItself

(***************************************************************************)
(* A roll-back that ends after restoring .prev has kept the version it     *)
(* replaced, at .prev or at .rollback-tmp, unless another operation worked *)
(* on the files at the same time (rollBack).                               *)
(***************************************************************************)
THEOREM UpdateRollbackIsReversible == Spec => RollbackIsReversible
<1>1. KInv /\ [Next]_vars
        => [\A c \in Cli :
              pc[c] = "b_keep" /\ pc'[c] = "idle"
                => prev' = base[c] \/ aside' = base[c] \/ c \in late]_vars
  BY RollbackStep
<1> QED
  BY <1>1, KnowingInvariant, PTL DEF Spec, RollbackIsReversible

(* Whatever interleaves, an operation nobody disturbed leaves a version to *)
(* go back to: Install and Rollback.                                       *)
THEOREM UpdateWayBackIsKept == Spec => WayBackIsKept
  BY UpdateUpgradeWithWayBack, UpdateRollbackIsReversible DEF WayBackIsKept
=============================================================================
