----------------------------- MODULE LockProofs -----------------------------
(***************************************************************************)
(* What Lock guarantees for every set of contenders, every assignment of   *)
(* contenders to processes and every number of faults: type correctness,   *)
(* exclusion for as long as no removal by name has hit a wrong file, and   *)
(* that the first wrong removal is always a stale-lock removal.            *)
(***************************************************************************)
EXTENDS Lock, TLAPS

(* Only the contenders of a live process are inside Acquire. *)
BusyIsRunning == \A c \in Contender : pc[c] # "idle" => PidOf[c] \in running

(* The file that is not there has neither content nor readers. *)
AbsentIsBlank == Absent => ~written /\ readers = {}

(* Whoever has read the file that is there remembers its owner's PID. *)
ReaderSawOwner ==
    \A c \in Contender :
        c \in readers /\ pc[c] \in {"check", "remove"}
            => seen[c] = PidOf[owner]

(* A file about to be removed by one of its readers belongs to nobody who  *)
(* is writing or holding it: the owner's process was dead when asked, and  *)
(* a new process with that PID cannot become the owner of this file.       *)
RemovalIsOfTheDead ==
    \A c \in Contender :
        c \in readers /\ pc[c] = "remove"
            => pc[owner] \notin {"write", "held"}

(* Until a wrong file is removed, whoever is past the create owns the file. *)
WriterOwns ==
    ~misremoved =>
        \A c \in Contender :
            /\ pc[c] = "write" => owner = c /\ ~written
            /\ pc[c] = "held" => owner = c /\ written

IInv ==
    /\ TypeOK
    /\ BusyIsRunning
    /\ AbsentIsBlank
    /\ ReaderSawOwner
    /\ RemovalIsOfTheDead
    /\ WriterOwns

USE PidOfAssumption, NobodyAssumption, MaxFaultsAssumption

-----------------------------------------------------------------------------
(* The initial states satisfy the inductive invariant. *)
LEMMA InitIInv == Init => IInv
<1> SUFFICES ASSUME Init PROVE IInv
    OBVIOUS
<1> USE DEF Init
<1>1. TypeOK
    <2>1. faults \in 0 .. MaxFaults
        OBVIOUS
    <2>2. pc \in [Contender -> Location]
        BY DEF Location
    <2> QED
        BY <2>1, <2>2, Zenon DEF TypeOK
<1>2. \A c \in Contender : pc[c] = "idle"
    OBVIOUS
<1>4. BusyIsRunning /\ WriterOwns
    BY <1>2 DEF BusyIsRunning, WriterOwns
<1>5. AbsentIsBlank
    BY Zenon DEF AbsentIsBlank
<1>3. ReaderSawOwner /\ RemovalIsOfTheDead
    BY DEF ReaderSawOwner, RemovalIsOfTheDead
<1> QED
    BY <1>1, <1>3, <1>4, <1>5 DEF IInv

(* No step of a contender or of the operating system breaks the types; the *)
(* read needs to know that a written file has an owner.                    *)
LEMMA TypeStep == TypeOK /\ AbsentIsBlank /\ [Next]_vars => TypeOK'
<1> SUFFICES ASSUME TypeOK, AbsentIsBlank, [Next]_vars PROVE TypeOK'
    OBVIOUS
<1> USE DEF TypeOK, Location, Goto, Fault, lockFile, NewFile, FillFile
<1>1. ASSUME NEW c \in Contender, Begin(c) PROVE TypeOK'
    BY <1>1 DEF Begin
<1>2. ASSUME NEW c \in Contender, Proceed(c) PROVE TypeOK'
    <2>1. CASE Create(c)
        BY <2>1 DEF Create
    <2>2. CASE Write(c)
        BY <2>2 DEF Write
    <2>3. CASE ReadLock(c)
        <3>1. CASE ~written
            BY <2>3, <3>1 DEF ReadLock
        <3>2. CASE written
            <4>1. owner \in Contender
                BY <3>2 DEF AbsentIsBlank, Absent
            <4>2. PidOf[owner] \in Pid
                BY <4>1
            <4> QED
                BY <2>3, <3>2, <4>2 DEF ReadLock
        <3> QED
            BY <3>1, <3>2
    <2>4. CASE Check(c)
        BY <2>4 DEF Check
    <2>5. CASE RemoveStale(c)
        BY <2>5 DEF RemoveStale, RemoveByName
    <2>6. CASE Release(c)
        BY <2>6 DEF Release, RemoveByName
    <2> QED
        BY <1>2, <2>1, <2>2, <2>3, <2>4, <2>5, <2>6 DEF Proceed
<1>3. ASSUME NEW c \in Contender, Failure(c) PROVE TypeOK'
    <2>1. CASE CreateFails(c)
        BY <2>1 DEF CreateFails
    <2>2. CASE WriteFails(c)
        <3>1. misremoved' \in BOOLEAN
            BY <2>2, Zenon DEF WriteFails, RemoveByName
        <3>2. faults' \in 0 .. MaxFaults
            BY <2>2 DEF WriteFails
        <3>3. pc' \in [Contender -> Location]
            BY <2>2 DEF WriteFails
        <3> QED
            BY <2>2, <3>1, <3>2, <3>3, Zenon DEF WriteFails, RemoveByName
    <2>3. CASE CloseFails(c)
        BY <2>3 DEF CloseFails
    <2>4. CASE RemoveStaleFails(c)
        BY <2>4 DEF RemoveStaleFails
    <2>5. CASE ReleaseFails(c)
        BY <2>5 DEF ReleaseFails
    <2> QED
        BY <1>3, <2>1, <2>2, <2>3, <2>4, <2>5 DEF Failure
<1>4. ASSUME NEW k \in Pid, Environment(k) PROVE TypeOK'
    BY <1>4 DEF Environment, Spawn, Exit, Kill, Recycle, ForeignExit
<1>5. CASE UNCHANGED vars
    BY <1>5 DEF vars
<1> QED
    BY <1>1, <1>2, <1>3, <1>4, <1>5 DEF Next

-----------------------------------------------------------------------------
(* A step of a contender preserves each strengthening conjunct.            *)

(* Only a live process's contenders are busy: Begin asks for a live        *)
(* process, and a process that ends takes its contenders with it.          *)
LEMMA BusyStep == TypeOK /\ BusyIsRunning /\ [Next]_vars => BusyIsRunning'
<1> SUFFICES ASSUME TypeOK, BusyIsRunning, [Next]_vars PROVE BusyIsRunning'
    OBVIOUS
<1> USE DEF TypeOK, BusyIsRunning, Goto
<1>1. ASSUME NEW c \in Contender, Begin(c) PROVE BusyIsRunning'
    BY <1>1 DEF Begin
<1>2. ASSUME NEW c \in Contender, Proceed(c) PROVE BusyIsRunning'
    BY <1>2 DEF Proceed, Create, Write, ReadLock, Check, RemoveStale, Release
<1>3. ASSUME NEW c \in Contender, Failure(c) PROVE BusyIsRunning'
    BY <1>3 DEF Failure, CreateFails, WriteFails, CloseFails, RemoveStaleFails,
                ReleaseFails
<1>4. ASSUME NEW k \in Pid, Environment(k) PROVE BusyIsRunning'
    BY <1>4 DEF Environment, Spawn, Exit, Kill, Recycle, ForeignExit
<1>5. CASE UNCHANGED vars
    BY <1>5 DEF vars
<1> QED
    BY <1>1, <1>2, <1>3, <1>4, <1>5 DEF Next

(* A removal leaves nothing behind; only the owner of a file that is there *)
(* writes into it, and only a written file gets readers.                   *)
LEMMA BlankStep == TypeOK /\ AbsentIsBlank /\ [Next]_vars => AbsentIsBlank'
<1> SUFFICES ASSUME TypeOK, AbsentIsBlank, [Next]_vars PROVE AbsentIsBlank'
    OBVIOUS
<1> USE DEF TypeOK, AbsentIsBlank, Absent, lockFile
<1>1. ASSUME NEW c \in Contender, Begin(c) PROVE AbsentIsBlank'
    BY <1>1 DEF Begin
<1>2. ASSUME NEW c \in Contender, Proceed(c) PROVE AbsentIsBlank'
    BY <1>2 DEF Proceed, Create, Write, ReadLock, Check, RemoveStale, Release,
                NewFile, FillFile, RemoveByName
<1>3. ASSUME NEW c \in Contender, Failure(c) PROVE AbsentIsBlank'
    BY <1>3 DEF Failure, CreateFails, WriteFails, CloseFails, RemoveStaleFails,
                ReleaseFails, FillFile, RemoveByName
<1>4. ASSUME NEW k \in Pid, Environment(k) PROVE AbsentIsBlank'
    BY <1>4 DEF Environment, Spawn, Exit, Kill, Recycle, ForeignExit
<1>5. CASE UNCHANGED vars
    BY <1>5 DEF vars
<1> QED
    BY <1>1, <1>2, <1>3, <1>4, <1>5 DEF Next

(* A new file has no readers; a reader's last read was of this file.       *)
LEMMA ReaderStep ==
    TypeOK /\ AbsentIsBlank /\ ReaderSawOwner /\ [Next]_vars => ReaderSawOwner'
<1> SUFFICES ASSUME TypeOK, AbsentIsBlank, ReaderSawOwner, [Next]_vars
             PROVE ReaderSawOwner'
    OBVIOUS
<1> USE DEF TypeOK, ReaderSawOwner, lockFile, Goto
<1>1. ASSUME NEW c \in Contender, Begin(c) PROVE ReaderSawOwner'
    BY <1>1 DEF Begin
<1>2. ASSUME NEW c \in Contender, Proceed(c) PROVE ReaderSawOwner'
    <2>1. CASE Create(c)
        BY <2>1 DEF Create, NewFile
    <2>2. CASE Write(c)
        BY <2>2 DEF Write, FillFile
    <2>3. CASE ReadLock(c)
        BY <2>3 DEF ReadLock
    <2>4. CASE Check(c)
        BY <2>4 DEF Check
    <2>5. CASE RemoveStale(c) \/ Release(c)
        BY <2>5 DEF RemoveStale, Release, RemoveByName
    <2> QED
        BY <1>2, <2>1, <2>2, <2>3, <2>4, <2>5 DEF Proceed
<1>3. ASSUME NEW c \in Contender, Failure(c) PROVE ReaderSawOwner'
    BY <1>3 DEF Failure, CreateFails, WriteFails, CloseFails, RemoveStaleFails,
                ReleaseFails, FillFile, RemoveByName
<1>4. ASSUME NEW k \in Pid, Environment(k) PROVE ReaderSawOwner'
    BY <1>4 DEF Environment, Spawn, Exit, Kill, Recycle, ForeignExit
<1>5. CASE UNCHANGED vars
    BY <1>5 DEF vars
<1> QED
    BY <1>1, <1>2, <1>3, <1>4, <1>5 DEF Next

(* Check lets a reader on to the removal only when the owner's process is  *)
(* dead, and the owner cannot create this file again.                      *)
LEMMA RemovalStep == IInv /\ [Next]_vars => RemovalIsOfTheDead'
<1> SUFFICES ASSUME IInv, [Next]_vars PROVE RemovalIsOfTheDead'
    OBVIOUS
<1> USE DEF IInv, TypeOK, RemovalIsOfTheDead, lockFile, Goto
<1>0. \A c \in Contender : c \in readers => owner \in Contender
    BY DEF AbsentIsBlank, Absent
<1>1. ASSUME NEW c \in Contender, Begin(c) PROVE RemovalIsOfTheDead'
    BY <1>1 DEF Begin
<1>2. ASSUME NEW c \in Contender, Proceed(c) PROVE RemovalIsOfTheDead'
    <2>1. CASE Create(c)
        BY <1>0, <2>1 DEF Create, NewFile, Absent
    <2>2. CASE Write(c)
        BY <1>0, <2>2 DEF Write, FillFile
    <2>3. CASE ReadLock(c)
        BY <1>0, <2>3 DEF ReadLock
    <2>4. CASE Check(c)
        <3>1. ASSUME c \in readers, ~ProcessAlive(seen[c])
              PROVE pc[owner] \notin {"write", "held"}
            <4>1. owner \in Contender /\ seen[c] = PidOf[owner]
                BY <2>4, <3>1 DEF Check, ReaderSawOwner, AbsentIsBlank, Absent
            <4>2. PidOf[owner] \notin running
                BY <3>1, <4>1 DEF ProcessAlive
            <4> QED
                BY <4>1, <4>2 DEF BusyIsRunning
        <3> QED
            BY <2>4, <3>1 DEF Check
    <2>5. CASE RemoveStale(c) \/ Release(c)
        BY <2>5 DEF RemoveStale, Release, RemoveByName
    <2> QED
        BY <1>2, <2>1, <2>2, <2>3, <2>4, <2>5 DEF Proceed
<1>3. ASSUME NEW c \in Contender, Failure(c) PROVE RemovalIsOfTheDead'
    BY <1>0, <1>3 DEF Failure, CreateFails, WriteFails, CloseFails, RemoveStaleFails,
                ReleaseFails, FillFile, RemoveByName
<1>4. ASSUME NEW k \in Pid, Environment(k) PROVE RemovalIsOfTheDead'
    BY <1>0, <1>4 DEF Environment, Spawn, Exit, Kill, Recycle, ForeignExit
<1>5. CASE UNCHANGED vars
    BY <1>5 DEF vars
<1> QED
    BY <1>1, <1>2, <1>3, <1>4, <1>5 DEF Next

(* Ownership: with no wrong removal so far, a removal either takes the     *)
(* remover's own file or a dead contender's, or it is itself a wrong one.  *)
LEMMA OwnerStep == IInv /\ [Next]_vars => WriterOwns'
<1> SUFFICES ASSUME IInv, [Next]_vars PROVE WriterOwns'
    OBVIOUS
<1> USE DEF IInv, TypeOK, WriterOwns, lockFile, Goto
<1>1. ASSUME NEW c \in Contender, Begin(c) PROVE WriterOwns'
    BY <1>1 DEF Begin
<1>2. ASSUME NEW c \in Contender, Proceed(c) PROVE WriterOwns'
    <2>1. CASE Create(c)
        BY <2>1 DEF Create, NewFile, Absent
    <2>2. CASE Write(c)
        BY <2>2 DEF Write, FillFile
    <2>3. CASE ReadLock(c)
        BY <2>3 DEF ReadLock
    <2>4. CASE Check(c)
        BY <2>4 DEF Check
    <2>5. CASE RemoveStale(c)
        BY <2>5 DEF RemoveStale, RemoveByName, RemovalIsOfTheDead, Absent
    <2>6. CASE Release(c)
        BY <2>6 DEF Release, RemoveByName, Absent
    <2> QED
        BY <1>2, <2>1, <2>2, <2>3, <2>4, <2>5, <2>6 DEF Proceed
<1>3. ASSUME NEW c \in Contender, Failure(c) PROVE WriterOwns'
    BY <1>3 DEF Failure, CreateFails, WriteFails, CloseFails, RemoveStaleFails,
                ReleaseFails, FillFile, RemoveByName, Absent
<1>4. ASSUME NEW k \in Pid, Environment(k) PROVE WriterOwns'
    BY <1>4 DEF Environment, Spawn, Exit, Kill, Recycle, ForeignExit
<1>5. CASE UNCHANGED vars
    BY <1>5 DEF vars
<1> QED
    BY <1>1, <1>2, <1>3, <1>4, <1>5 DEF Next

-----------------------------------------------------------------------------
(* IInv is an invariant of every behaviour of the lock.                    *)
THEOREM LockIInv == Spec => []IInv
<1>1. IInv /\ [Next]_vars => IInv'
    BY TypeStep, BusyStep, BlankStep, ReaderStep, RemovalStep, OwnerStep DEF IInv
<1> QED
    BY InitIInv, <1>1, PTL DEF Spec

(* The types of the lock file, the processes and the contenders' locations *)
(* hold in every behaviour.                                                *)
THEOREM LockTypeOK == Spec => []TypeOK
<1>1. IInv => TypeOK
    BY DEF IInv
<1> QED
    BY LockIInv, <1>1, PTL

(* Acquire and Release exclude every two contenders from holding the lock  *)
(* together, through kills, reused PIDs and failing system calls, as long  *)
(* as no removal by name has taken a file other than the one it was for.   *)
THEOREM LockExclusive == Spec => []ExclusiveUntilMisremoval
<1>1. IInv => ExclusiveUntilMisremoval
    BY DEF IInv, WriterOwns, ExclusiveUntilMisremoval, MutualExclusion, Holds
<1> QED
    BY LockIInv, <1>1, PTL

(* The first wrong removal is made by Acquire's stale-lock branch, on a    *)
(* file the remover has not read: Release and the clean-up of a failed     *)
(* write never start the damage.                                           *)
THEOREM LockFirstMisremoval == Spec => OnlyStaleRemovalMisremoves
<1> DEFINE A == ~misremoved /\ misremoved' =>
                  \E c \in Contender : pc[c] = "remove" /\ pc'[c] = "create"
                                        /\ c \notin readers
<1>1. IInv /\ [Next]_vars => A
    <2> SUFFICES ASSUME IInv, [Next]_vars, ~misremoved, misremoved'
                 PROVE \E c \in Contender : pc[c] = "remove" /\ pc'[c] = "create"
                                             /\ c \notin readers
        OBVIOUS
    <2>1. ASSUME NEW c \in Contender, RemoveStale(c)
          PROVE pc[c] = "remove" /\ pc'[c] = "create" /\ c \notin readers
        BY <2>1 DEF RemoveStale, RemoveByName, IInv, TypeOK, Goto
    <2>2. ASSUME NEW c \in Contender, Release(c) PROVE FALSE
        BY <2>2 DEF Release, RemoveByName, IInv, WriterOwns
    <2>3. ASSUME NEW c \in Contender, WriteFails(c) PROVE FALSE
        BY <2>3 DEF WriteFails, RemoveByName, IInv, WriterOwns
    <2> QED
        BY <2>1, <2>2, <2>3
        DEF Next, vars, Begin, Proceed, Create, Write, ReadLock, Check, Failure,
            CreateFails, CloseFails, RemoveStaleFails, ReleaseFails, Environment,
            Spawn, Exit, Kill, Recycle, ForeignExit
<1> QED
    BY LockIInv, <1>1, PTL DEF Spec, OnlyStaleRemovalMisremoves
=============================================================================
