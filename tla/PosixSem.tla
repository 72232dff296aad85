------------------------------ MODULE PosixSem ------------------------------
(***************************************************************************)
(* chapter_53/posix_sem.c: named POSIX semaphores made of a System V       *)
(* semaphore, which counts, and a System V shared memory segment, which    *)
(* holds the metadata, both under the key of the name.  One name, several  *)
(* processes with at most one handle each; a step is one system call or    *)
(* one access to the shared metadata, which nothing protects.              *)
(***************************************************************************)
EXTENDS Integers, Sequences, FiniteSets

CONSTANTS Procs, NULL,
          MaxIds,     \* bound: objects of each kind the system will make
          MaxCalls,   \* bound: naming calls when they may overlap
          Values,     \* initial values asked for
          SEMVMX      \* the kernel's largest semaphore value

ASSUME SemAssumption == /\ MaxIds \in Nat \ {0} /\ MaxCalls \in Nat
                        /\ SEMVMX \in Nat /\ Values \subseteq 0 .. SEMVMX
                        /\ IsFiniteSet(Procs)
                        /\ NULL \notin Nat
                        /\ NULL \notin [s : Nat, m : Nat, excl : BOOLEAN]

VARIABLES
    serial,  \* the callers never run two of sem_open/close/unlink at once
    semKey, shmKey,   \* the object the key names, NULL if none
    sem,     \* the semaphores made so far: [live, val]
    shm,     \* the segments made so far: [live, magic, unlinked, ref_count]
    call,    \* per process: the call it is in, and its locals
    handle,  \* per process: NULL or what sem_open() returned: [s, m, excl]
    calls,   \* overlapping naming calls made so far
    leaked   \* history: some sem_open() failed after counting itself

vars == <<serial, semKey, shmKey, sem, shm, call, handle, calls, leaked>>
ipc  == <<semKey, shmKey, sem, shm>>

\* The locals at the start of a call.
Frame(l, creat, excl, v, s, m) ==
    [pc |-> l, creat |-> creat, excl |-> excl, value |-> v,
     s |-> s, m |-> m, tmp |-> 0, alarm |-> FALSE]

Idle == Frame("idle", FALSE, FALSE, 0, NULL, NULL)

Init == /\ serial \in BOOLEAN
        /\ semKey = NULL /\ shmKey = NULL
        /\ sem = <<>> /\ shm = <<>>
        /\ call = [p \in Procs |-> Idle]
        /\ handle = [p \in Procs |-> NULL]
        /\ leaked = FALSE /\ calls = 0

pc(p) == call[p].pc
Goto(p, l) == call' = [call EXCEPT ![p].pc = l]
Return(p)  == call' = [call EXCEPT ![p] = Idle]

NamingCalls == {"o_semget", "o_shmget", "o_creat", "o_reget", "o_reshm",
    "o_mkshm", "o_setval", "o_magic", "o_linked", "o_one", "o_exist",
    "o_unlinked", "o_read", "o_inc", "o_dup", "c_read", "c_dec", "c_test",
    "c_rmsem", "c_rmshm", "u_semget", "u_shmget", "u_mark", "u_test",
    "u_rmsem", "u_rmshm"}

\* A process may start a naming call; the serial callers one at a time.
MayName(p) ==
    /\ pc(p) = "idle"
    /\ IF serial THEN (\A q \in Procs : pc(q) \notin NamingCalls) /\ UNCHANGED calls
                 ELSE calls < MaxCalls /\ calls' = calls + 1
-----------------------------------------------------------------------------
(* The kernel's objects.                                                   *)

SemLive(i) == sem[i].live

\* Between shmat() and shmdt().
Attached(i) == \E p \in Procs :
    /\ call[p].m = i
    /\ pc(p) \in {"o_linked", "o_one", "o_unlinked", "o_read", "o_inc",
                  "c_dec", "c_test", "u_test"}

\* A removed segment lives until its last detach.
CanAttach(i) == shm[i].live \/ Attached(i)

RemoveSem(i) == /\ sem' = [sem EXCEPT ![i].live = FALSE]
                /\ semKey' = IF semKey = i THEN NULL ELSE semKey

RemoveShm(i) == /\ shm' = [shm EXCEPT ![i].live = FALSE]
                /\ shmKey' = IF shmKey = i THEN NULL ELSE shmKey
-----------------------------------------------------------------------------
(* sem_open()                                                              *)

sem_open(p, creat, excl, v) ==
    /\ MayName(p) /\ handle[p] = NULL
    /\ call' = [call EXCEPT ![p] = Frame("o_semget", creat, excl, v, NULL, NULL)]
    /\ UNCHANGED <<ipc, handle, leaked>>

\* semget(key, 1, 0), at both places that look for an existing semaphore.
OpenSemget(p) ==
    /\ pc(p) \in {"o_semget", "o_reget"}
    /\ call' = [call EXCEPT ![p].s = semKey,
                   ![p].pc = IF @ = "o_semget" THEN "o_shmget" ELSE "o_reshm"]
    /\ UNCHANGED <<ipc, handle, leaked>>

\* shmget(key, size, 0) and the decision on both results.
OpenShmget(p) ==
    /\ pc(p) \in {"o_shmget", "o_reshm"}
    /\ \/ /\ call[p].s # NULL /\ shmKey # NULL
          /\ call' = [call EXCEPT ![p].m = shmKey, ![p].pc = "o_exist"]
       \/ /\ call[p].s = NULL \/ shmKey = NULL
          /\ IF pc(p) = "o_shmget" /\ call[p].creat
             THEN Goto(p, "o_creat")
             ELSE Return(p)                                        \* ENOENT
    /\ UNCHANGED <<ipc, handle, leaked>>

\* semget(IPC_CREAT | IPC_EXCL): the loser of a race looks again, O_EXCL fails.
OpenCreate(p) ==
    /\ pc(p) = "o_creat"
    /\ \/ /\ semKey # NULL
          /\ IF call[p].excl THEN Return(p) ELSE Goto(p, "o_reget")
          /\ UNCHANGED ipc
       \/ /\ semKey = NULL /\ Len(sem) < MaxIds
          /\ sem' = Append(sem, [live |-> TRUE, val |-> 0])
          /\ semKey' = Len(sem')
          /\ call' = [call EXCEPT ![p].s = Len(sem'), ![p].pc = "o_mkshm"]
          /\ UNCHANGED <<shmKey, shm>>
       \/ /\ semKey = NULL /\ Len(sem) = MaxIds                    \* ENOSPC
          /\ Return(p) /\ UNCHANGED ipc
    /\ UNCHANGED <<handle, leaked>>

\* shmget(IPC_CREAT | IPC_EXCL); a fresh segment is all zeros.
OpenMakeShm(p) ==
    /\ pc(p) = "o_mkshm"
    /\ \/ /\ shmKey = NULL /\ Len(shm) < MaxIds
          /\ shm' = Append(shm, [live |-> TRUE, magic |-> FALSE,
                                 unlinked |-> FALSE, ref_count |-> 0])
          /\ shmKey' = Len(shm')
          /\ call' = [call EXCEPT ![p].m = Len(shm'), ![p].pc = "o_setval"]
          /\ UNCHANGED <<semKey, sem>>
       \/ /\ shmKey # NULL \/ Len(shm) = MaxIds
          /\ RemoveSem(call[p].s)
          /\ Return(p)
          /\ UNCHANGED <<shmKey, shm>>
    /\ UNCHANGED <<handle, leaked>>

\* SETVAL fails when somebody has removed the semaphore; both go then.
OpenSetval(p) ==
    /\ pc(p) = "o_setval"
    /\ \/ /\ SemLive(call[p].s)
          /\ sem' = [sem EXCEPT ![call[p].s].val = call[p].value]
          /\ Goto(p, "o_magic")
          /\ UNCHANGED <<semKey, shmKey, shm>>
       \/ /\ ~SemLive(call[p].s)
          /\ RemoveShm(call[p].m) /\ Return(p)
          /\ UNCHANGED <<semKey, sem>>
    /\ UNCHANGED <<handle, leaked>>

\* shmat() and the three assignments that matter, in their order.
OpenMagic(p) ==
    /\ pc(p) = "o_magic"
    /\ \/ /\ CanAttach(call[p].m)
          /\ shm' = [shm EXCEPT ![call[p].m].magic = TRUE]
          /\ Goto(p, "o_linked")
          /\ UNCHANGED <<semKey, shmKey, sem>>
       \/ /\ ~CanAttach(call[p].m)
          /\ RemoveSem(call[p].s) /\ Return(p)
          /\ UNCHANGED <<shmKey, shm>>
    /\ UNCHANGED <<handle, leaked>>

OpenLinked(p) ==
    /\ pc(p) = "o_linked"
    /\ shm' = [shm EXCEPT ![call[p].m].unlinked = FALSE]
    /\ Goto(p, "o_one")
    /\ UNCHANGED <<semKey, shmKey, sem, handle, leaked>>

OpenOne(p) ==
    /\ pc(p) = "o_one"
    /\ shm' = [shm EXCEPT ![call[p].m].ref_count = 1]
    /\ Goto(p, "o_dup")
    /\ UNCHANGED <<semKey, shmKey, sem, handle, leaked>>

\* O_EXCL is only looked at where the semaphore is created.
OpenExisting_shared(p) ==
    /\ pc(p) = "o_exist"
    /\ IF /\ CanAttach(call[p].m)
          /\ shm[call[p].m].magic
       THEN Goto(p, "o_unlinked") ELSE Return(p)
    /\ UNCHANGED <<ipc, handle, leaked>>

\* existing_sem: O_EXCL, shmat() and the magic number.
OpenExisting(p) ==
    /\ pc(p) = "o_exist"
    /\ IF /\ ~call[p].excl
          /\ CanAttach(call[p].m)
          /\ shm[call[p].m].magic
       THEN Goto(p, "o_unlinked") ELSE Return(p)     \* EEXIST, EINVAL
    /\ UNCHANGED <<ipc, handle, leaked>>

OpenUnlinked(p) ==
    /\ pc(p) = "o_unlinked"
    /\ IF shm[call[p].m].unlinked THEN Return(p) ELSE Goto(p, "o_read")
    /\ UNCHANGED <<ipc, handle, leaked>>

\* metadata->ref_count++ is a read and a write.
OpenRead(p) ==
    /\ pc(p) = "o_read"
    /\ call' = [call EXCEPT ![p].tmp = shm[call[p].m].ref_count, ![p].pc = "o_inc"]
    /\ UNCHANGED <<ipc, handle, leaked>>

OpenInc(p) ==
    /\ pc(p) = "o_inc"
    /\ shm' = [shm EXCEPT ![call[p].m].ref_count = call[p].tmp + 1]
    /\ Goto(p, "o_dup")
    /\ UNCHANGED <<semKey, shmKey, sem, handle, leaked>>

\* strdup(): when it fails, once at most here, the count stays.
OpenDup(p) ==
    /\ pc(p) = "o_dup"
    /\ \/ /\ handle' = [handle EXCEPT ![p] = [s |-> call[p].s, m |-> call[p].m,
                            excl |-> call[p].excl]]
          /\ UNCHANGED leaked
       \/ ~leaked /\ leaked' = TRUE /\ UNCHANGED handle
    /\ Return(p)
    /\ UNCHANGED ipc

OpenStep(p) == \/ OpenSemget(p) \/ OpenShmget(p) \/ OpenCreate(p)
               \/ OpenMakeShm(p) \/ OpenSetval(p) \/ OpenMagic(p)
               \/ OpenLinked(p) \/ OpenOne(p) \/ OpenExisting(p)
               \/ OpenUnlinked(p) \/ OpenRead(p) \/ OpenInc(p) \/ OpenDup(p)
-----------------------------------------------------------------------------
(* sem_close()                                                             *)

sem_close(p) ==
    /\ MayName(p) /\ handle[p] # NULL
    /\ call' = [call EXCEPT ![p] = Frame("c_read", FALSE, FALSE, 0,
                                           handle[p].s, handle[p].m)]
    /\ UNCHANGED <<ipc, handle, leaked>>

Free(p) == handle' = [handle EXCEPT ![p] = NULL]

\* shmat() and the read of ref_count--; a segment that is gone is not counted.
CloseRead(p) ==
    /\ pc(p) = "c_read"
    /\ \/ /\ CanAttach(call[p].m)
          /\ call' = [call EXCEPT ![p].tmp = shm[call[p].m].ref_count,
                                  ![p].pc = "c_dec"]
          /\ UNCHANGED handle
       \/ /\ ~CanAttach(call[p].m)
          /\ Free(p) /\ Return(p)
    /\ UNCHANGED <<ipc, leaked>>

CloseDec(p) ==
    /\ pc(p) = "c_dec"
    /\ shm' = [shm EXCEPT ![call[p].m].ref_count = call[p].tmp - 1]
    /\ Goto(p, "c_test")
    /\ UNCHANGED <<semKey, shmKey, sem, handle, leaked>>

\* The count is not compared.
LastReference_any(m) == shm[m].unlinked

LastReference(m) == shm[m].ref_count = 0 /\ shm[m].unlinked

CloseTest(p) ==
    /\ pc(p) = "c_test"
    /\ IF LastReference(call[p].m)
       THEN Goto(p, "c_rmsem") /\ UNCHANGED handle
       ELSE Free(p) /\ Return(p)
    /\ UNCHANGED <<ipc, leaked>>

\* The two IPC_RMID calls of sem_close() and of sem_unlink().
RmSem(p) ==
    /\ pc(p) \in {"c_rmsem", "u_rmsem"}
    /\ RemoveSem(call[p].s)
    /\ call' = [call EXCEPT ![p].pc = IF @ = "c_rmsem" THEN "c_rmshm" ELSE "u_rmshm"]
    /\ UNCHANGED <<shmKey, shm, handle, leaked>>

\* The segment is left behind.
RmShm_forgotten(p) ==
    /\ pc(p) \in {"c_rmshm", "u_rmshm"}
    /\ IF pc(p) = "c_rmshm" THEN Free(p) ELSE UNCHANGED handle
    /\ Return(p)
    /\ UNCHANGED <<ipc, leaked>>

RmShm(p) ==
    /\ pc(p) \in {"c_rmshm", "u_rmshm"}
    /\ RemoveShm(call[p].m)
    /\ IF pc(p) = "c_rmshm" THEN Free(p) ELSE UNCHANGED handle
    /\ Return(p)
    /\ UNCHANGED <<semKey, sem, leaked>>
-----------------------------------------------------------------------------
(* sem_unlink()                                                            *)

sem_unlink(p) == /\ MayName(p) /\ Goto(p, "u_semget")
                 /\ UNCHANGED <<ipc, handle, leaked>>

UnlinkSemget(p) ==
    /\ pc(p) = "u_semget"
    /\ call' = [call EXCEPT ![p].s = semKey, ![p].pc = "u_shmget"]
    /\ UNCHANGED <<ipc, handle, leaked>>

UnlinkShmget(p) ==
    /\ pc(p) = "u_shmget"
    /\ IF call[p].s = NULL \/ shmKey = NULL THEN Return(p)       \* ENOENT
       ELSE call' = [call EXCEPT ![p].m = shmKey, ![p].pc = "u_mark"]
    /\ UNCHANGED <<ipc, handle, leaked>>

UnlinkMark(p) ==
    /\ pc(p) = "u_mark"
    /\ IF CanAttach(call[p].m) /\ shm[call[p].m].magic
       THEN /\ shm' = [shm EXCEPT ![call[p].m].unlinked = TRUE]
            /\ Goto(p, "u_test")
       ELSE Return(p) /\ UNCHANGED shm
    /\ UNCHANGED <<semKey, shmKey, sem, handle, leaked>>

UnlinkTest(p) ==
    /\ pc(p) = "u_test"
    /\ IF shm[call[p].m].ref_count = 0 THEN Goto(p, "u_rmsem") ELSE Return(p)
    /\ UNCHANGED <<ipc, handle, leaked>>
-----------------------------------------------------------------------------
(* sem_wait(), sem_trywait(), sem_timedwait(), sem_post()                  *)

\* The value is not looked at.
Take_unchecked(s) == /\ sem[s].live
                     /\ sem' = [sem EXCEPT ![s].val = @ - 1]
                     /\ UNCHANGED <<semKey, shmKey, shm>>

\* A semop() that subtracts one succeeds; one on a removed semaphore fails.
Take(s) == /\ sem[s].live /\ sem[s].val > 0
           /\ sem' = [sem EXCEPT ![s].val = @ - 1]
           /\ UNCHANGED <<semKey, shmKey, shm>>

Start(p, l) == /\ pc(p) = "idle" /\ handle[p] # NULL
               /\ call' = [call EXCEPT ![p] = Frame(l, FALSE, FALSE, 0,
                                                      handle[p].s, handle[p].m)]
               /\ UNCHANGED <<ipc, handle, leaked>>

sem_wait(p) == Start(p, "w_block")

\* An interrupted semop() is called again.
WaitBlock(p) ==
    /\ pc(p) = "w_block"
    /\ \/ Take(call[p].s)
       \/ ~SemLive(call[p].s) /\ UNCHANGED ipc
    /\ Return(p)
    /\ UNCHANGED <<handle, leaked>>

\* Returns at once: the semaphore taken, or EAGAIN, or an error.
sem_trywait(p) ==
    /\ pc(p) = "idle" /\ handle[p] # NULL
    /\ Take(handle[p].s)
    /\ UNCHANGED <<call, handle, leaked>>

\* A timeout that has passed already fails at once; otherwise one try without
\* waiting comes first.
sem_timedwait(p) == Start(p, "t_try")

TimedTry(p) ==
    /\ pc(p) = "t_try"
    /\ \/ Take(call[p].s) /\ Return(p)
       \/ ~SemLive(call[p].s) /\ Return(p) /\ UNCHANGED ipc
       \/ /\ SemLive(call[p].s) /\ sem[call[p].s].val = 0      \* EAGAIN
          /\ call' = [call EXCEPT ![p].pc = "t_armed", ![p].alarm = TRUE]
          /\ UNCHANGED ipc
    /\ UNCHANGED <<handle, leaked>>

\* The alarm fires between sigprocmask() and semop(): it is delivered to the
\* handler, and nothing will interrupt semop().
AlarmEarly(p) == /\ pc(p) = "t_armed" /\ call[p].alarm
                 /\ call' = [call EXCEPT ![p].alarm = FALSE]
                 /\ UNCHANGED <<ipc, handle, leaked, serial, calls>>

TimedBlock(p) == /\ pc(p) = "t_armed" /\ Goto(p, "t_block")
                 /\ UNCHANGED <<ipc, handle, leaked>>

TimedTaken(p) ==
    /\ pc(p) = "t_block"
    /\ \/ Take(call[p].s)
       \/ ~SemLive(call[p].s) /\ UNCHANGED ipc
    /\ Return(p)
    /\ UNCHANGED <<handle, leaked>>

\* SIGALRM interrupts semop().
Alarm(p) == /\ pc(p) = "t_block" /\ call[p].alarm
            /\ call' = [call EXCEPT ![p].pc = "t_eintr", ![p].alarm = FALSE]
            /\ UNCHANGED <<ipc, handle, leaked, serial, calls>>

\* EINTR is taken for a reason to wait again, as in sem_wait().
TimedEintr_again(p) == /\ pc(p) = "t_eintr" /\ Goto(p, "t_block")
                       /\ UNCHANGED <<ipc, handle, leaked>>

\* EINTR: ETIMEDOUT when the time has come, and if it has not, one more try.
TimedEintr(p) ==
    /\ pc(p) = "t_eintr"
    /\ Take(call[p].s) \/ UNCHANGED ipc
    /\ Return(p)
    /\ UNCHANGED <<handle, leaked>>

sem_post(p) ==
    /\ pc(p) = "idle" /\ handle[p] # NULL
    /\ SemLive(handle[p].s) /\ sem[handle[p].s].val < SEMVMX
    /\ sem' = [sem EXCEPT ![handle[p].s].val = @ + 1]
    /\ UNCHANGED <<semKey, shmKey, shm, call, handle, leaked>>

WaitStep(p) == \/ WaitBlock(p) \/ TimedTry(p) \/ TimedBlock(p)
               \/ TimedTaken(p) \/ TimedEintr(p)

CloseStep(p)  == CloseRead(p) \/ CloseDec(p) \/ CloseTest(p)
RemoveStep(p) == RmSem(p) \/ RmShm(p)
UnlinkStep(p) == \/ UnlinkSemget(p) \/ UnlinkShmget(p) \/ UnlinkMark(p)
                 \/ UnlinkTest(p)

\* A call that has been started goes on.
Step(p) == /\ \/ OpenStep(p) \/ CloseStep(p) \/ UnlinkStep(p)
              \/ RemoveStep(p) \/ WaitStep(p)
           /\ UNCHANGED <<serial, calls>>

\* The value is an argument only with O_CREAT.
Call(p) == /\ \/ \E x \in BOOLEAN : sem_open(p, FALSE, x, 0)
              \/ \E x \in BOOLEAN, v \in Values : sem_open(p, TRUE, x, v)
              \/ sem_close(p) \/ sem_unlink(p)
              \/ /\ \/ sem_wait(p) \/ sem_trywait(p) \/ sem_timedwait(p)
                    \/ sem_post(p)
                 /\ UNCHANGED calls
           /\ UNCHANGED serial

Next == \E p \in Procs : Call(p) \/ Step(p) \/ Alarm(p) \/ AlarmEarly(p)

\* A process inside a call keeps running, and an alarm that is set fires.
Fairness == \A p \in Procs : WF_vars(Step(p)) /\ WF_vars(Alarm(p))

Spec == Init /\ [][Next]_vars /\ Fairness
-----------------------------------------------------------------------------
\* Identifiers name objects made so far, and a value stays in its range: a
\* semaphore is never taken below zero nor posted above SEMVMX.
TypeOK ==
    /\ Len(sem) <= MaxIds /\ Len(shm) <= MaxIds
    /\ semKey \in (1 .. Len(sem)) \cup {NULL}
    /\ shmKey \in (1 .. Len(shm)) \cup {NULL}
    /\ \A i \in 1 .. Len(sem) : sem[i].val \in 0 .. SEMVMX
    /\ \A i \in 1 .. Len(shm) : shm[i].ref_count \in Int
    /\ \A p \in Procs : /\ call[p].s \in (1 .. Len(sem)) \cup {NULL}
                        /\ call[p].m \in (1 .. Len(shm)) \cup {NULL}

\* O_EXCL means a semaphore of one's own: whatever the interleaving of the
\* openers, the second of two that asked for O_CREAT | O_EXCL and both got a
\* handle did not get the first one's semaphore.
ExclusiveCreation ==
    \A p, q \in Procs : /\ p # q /\ handle[p] # NULL /\ handle[q] # NULL
                        /\ handle[p].excl /\ handle[q].excl
        => handle[p].s # handle[q].s

Quiet == \A p \in Procs : pc(p) \notin NamingCalls

Openers(m) == {p \in Procs : handle[p] # NULL /\ handle[p].m = m}

\* The metadata counts the handles (line 42: "total reference count across all
\* processes").
RefCountCounts == Quiet /\ ~leaked => \A i \in 1 .. Len(shm) :
    shm[i].live => shm[i].ref_count = Cardinality(Openers(i))

\* When the naming calls do not overlap, no handle ever loses its semaphore or
\* its metadata, however opens, closes and unlinks follow one another.
OpenStaysValid == serial =>
    \A p \in Procs : handle[p] # NULL /\ pc(p) \notin NamingCalls =>
        sem[handle[p].s].live /\ shm[handle[p].m].live

\* When the naming calls do not overlap, the count is exact and the last close
\* of an unlinked semaphore removes both objects: nothing is left that the key
\* still names but sem_open() refuses.
LastCloseFrees == serial /\ Quiet /\ ~leaked =>
    /\ RefCountCounts
    /\ (semKey = NULL) = (shmKey = NULL)
    /\ shmKey # NULL /\ shm[shmKey].unlinked => Openers(shmKey) # {}

\* sem_timedwait() returns if the alarm comes while semop() is waiting.
TimedWaitEnds == \A p \in Procs :
    (pc(p) = "t_block" /\ call[p].alarm) ~> (pc(p) = "idle")
=============================================================================
